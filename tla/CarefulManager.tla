--------------------------- MODULE CarefulManager ---------------------------
(***************************************************************************)
(* The node under a manager that works around what the code leaves         *)
(* unprotected.  The code enforces none of these rules; they are the       *)
(* assumption under which it neither aborts nor mixes up its output:       *)
(*   - the heap block of the TcpServer happened to hold a null m_handler;  *)
(*   - subscribe and stop are issued while no frame is being handled, and  *)
(*     the upstream node sends nothing until they are over;                *)
(*   - start is issued only when every earlier worker has exited.          *)
(***************************************************************************)
EXTENDS EdgeNode

CarefulInit == Init /\ m_handler = "null"

BeginsTableCommand == mpc = "idle" /\ mpc' # "idle"
ReceivesFrame == taken' # taken
StartsWorker == \E w \in Workers : wpc[w] = "none" /\ wpc'[w] # "none"

Careful ==
  /\ BeginsTableCommand => \A w \in Workers : ~Busy(w)
  /\ ReceivesFrame => mpc = "idle"
  /\ StartsWorker => \A w \in Workers : ~Live(w)

CarefulNext == Next /\ Careful

CarefulSpec == CarefulInit /\ [][CarefulNext]_vars

FairCarefulSpec ==
  /\ CarefulSpec
  /\ WF_vars(MainContinues)
  /\ \A w \in Workers : WF_vars(WorkerStep(w) /\ Careful)

-----------------------------------------------------------------------------
(* The rules are enough: no out_of_range, no use of a closed or shared     *)
(* socket, no call through a wild handler ends the process.                *)
NoAbort == status = "running"

(* Every subscriber sees the frames in the order the node took them, with  *)
(* gaps but without repeats, across any number of restarts of the worker.  *)
InOrder ==
  \A s \in Sockets : \A i, j \in 1 .. Len(sent[s]) : i < j => sent[s][i] < sent[s][j]

(* A frame in hand keeps the shared state frozen: the vector the worker    *)
(* iterates is whole, long enough, and of open sockets only.               *)
FrozenWhileBusy ==
  \A w \in Workers : Busy(w) =>
    /\ mpc = "idle"
    /\ \A v \in Workers \ {w} : ~Live(v)
    /\ wi[w] \in 1 .. subscribers_sockets.size + 1
    /\ wpc[w] # "loop" => wi[w] <= subscribers_sockets.size
    /\ wpc[w] = "send" => wsock[w] = subscribers_sockets.slot[wi[w]]
    /\ wframe[w] = taken

(* The offers still to be made are those from the worker's index on.       *)
Remaining ==
  IF \E w \in Workers : Busy(w)
    THEN SubSeq(Elements(subscribers_sockets),
                wi[CHOOSE w \in Workers : Busy(w)], subscribers_sockets.size)
    ELSE << >>

Fan == INSTANCE FanOut WITH
  subs <- Elements(subscribers_sockets), todo <- Remaining, out <- sent

ImplementsFanOut == Fan!FanSpec

=============================================================================
