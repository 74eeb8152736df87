----------------------------- MODULE StopStart -----------------------------
(***************************************************************************)
(* Stop and start against the clock.  The answer to stop only says that    *)
(* the flag is set: nothing tells the manager when the worker has seen it, *)
(* so all a manager can do is wait.  The module says how long: a worker    *)
(* looks at the flag after its receive timed out (RCVTIMEO) or after the   *)
(* frame that came just before that.  A tick is 100 ms.  The steps of a    *)
(* worker between two of its waits take no time and are urgent: the clock  *)
(* does not move before them.                                              *)
(***************************************************************************)
EXTENDS Naturals, FiniteSets

CONSTANTS
  Workers,     \* slots for worker threads; a slot is free again after exit
  LaunchTime,  \* ticks a new thread may take until its first receive test
  HandleTime,  \* ticks the handling of one frame may take
  Patience     \* ticks the manager lets pass between a stop and a start

iTimeOut == 3

(* The longest a worker can overlook a stop.                               *)
Overlook ==
  IF LaunchTime > iTimeOut + HandleTime THEN LaunchTime ELSE iTimeOut + HandleTime

ASSUME TimesAssumption ==
  LaunchTime \in Nat /\ HandleTime \in Nat /\ Patience \in Nat
ASSUME PatienceAssumption == Patience > Overlook

VARIABLES
  stop_flag,  \* the global _stop
  working,    \* the manager's last command was start
  quiet,      \* ticks since the last stop, counted up to Patience
  wpc,        \* where each worker is
  left,       \* ticks its launch, receive or handling may still take
  late        \* frames received since the last stop

vars == <<stop_flag, working, quiet, wpc, left, late>>

TypeOK ==
  /\ stop_flag \in BOOLEAN
  /\ working \in BOOLEAN
  /\ quiet \in 0 .. Patience
  /\ wpc \in [Workers -> {"none", "launch", "check", "recv", "handle"}]
  /\ left \in [Workers -> Nat]
  /\ late \in 0 .. 1

Live(w) == wpc[w] # "none"

Init ==
  /\ stop_flag = FALSE
  /\ working = FALSE
  /\ quiet = Patience
  /\ wpc = [w \in Workers |-> "none"]
  /\ left = [w \in Workers |-> 0]
  /\ late = 0

-----------------------------------------------------------------------------
(* Slips a change of the code could make.                                  *)

GoesOn_Always == TRUE
ClearFlag_Omitted == UNCHANGED stop_flag
Handled_ReceivesOn(w) ==
  /\ wpc[w] = "handle"
  /\ wpc' = [wpc EXCEPT ![w] = "recv"]
  /\ left' = [left EXCEPT ![w] = iTimeOut]
  /\ UNCHANGED <<stop_flag, working, quiet, late>>

-----------------------------------------------------------------------------
(* The manager's commands, and its patience between them.                  *)

ClearFlag == stop_flag' = FALSE

Patient == ~working /\ quiet = Patience

Start(w) ==
  /\ Patient
  /\ ~Live(w)
  /\ ClearFlag
  /\ wpc' = [wpc EXCEPT ![w] = "launch"]
  /\ left' = [left EXCEPT ![w] = LaunchTime]
  /\ working' = TRUE
  /\ late' = 0
  /\ UNCHANGED quiet

Stop ==
  /\ stop_flag' = TRUE
  /\ working' = FALSE
  /\ quiet' = 0
  /\ UNCHANGED <<wpc, left, late>>

-----------------------------------------------------------------------------
(* A worker: its thread comes up, then do_start's loop.                    *)

Launched(w) ==
  /\ wpc[w] = "launch"
  /\ wpc' = [wpc EXCEPT ![w] = "check"]
  /\ UNCHANGED <<stop_flag, working, quiet, left, late>>

GoesOn == ~stop_flag

Check(w) ==
  /\ wpc[w] = "check"
  /\ wpc' = [wpc EXCEPT ![w] = IF GoesOn THEN "recv" ELSE "none"]
  /\ left' = [left EXCEPT ![w] = IF GoesOn THEN iTimeOut ELSE 0]
  /\ UNCHANGED <<stop_flag, working, quiet, late>>

RecvTimeout(w) ==
  /\ wpc[w] = "recv"
  /\ left[w] = 0
  /\ wpc' = [wpc EXCEPT ![w] = "check"]
  /\ UNCHANGED <<stop_flag, working, quiet, left, late>>

RecvFrame(w) ==
  /\ wpc[w] = "recv"
  /\ wpc' = [wpc EXCEPT ![w] = "handle"]
  /\ left' = [left EXCEPT ![w] = HandleTime]
  /\ late' = IF stop_flag THEN late + 1 ELSE late
  /\ UNCHANGED <<stop_flag, working, quiet>>

Handled(w) ==
  /\ wpc[w] = "handle"
  /\ wpc' = [wpc EXCEPT ![w] = "check"]
  /\ UNCHANGED <<stop_flag, working, quiet, left, late>>

WorkerStep(w) ==
  Launched(w) \/ Check(w) \/ RecvTimeout(w) \/ RecvFrame(w) \/ Handled(w)

-----------------------------------------------------------------------------
Urgent(w) == Live(w) /\ (wpc[w] = "check" \/ left[w] = 0)

Tick ==
  /\ \A w \in Workers : ~Urgent(w)
  /\ left' = [w \in Workers |-> IF Live(w) THEN left[w] - 1 ELSE left[w]]
  /\ quiet' = IF quiet < Patience THEN quiet + 1 ELSE quiet
  /\ UNCHANGED <<stop_flag, working, wpc, late>>

Next == Stop \/ Tick \/ \E w \in Workers : Start(w) \/ WorkerStep(w)

Spec == Init /\ [][Next]_vars

(* Time never stands still, and a thread that can run does.                *)
FairSpec == Spec /\ SF_vars(Tick) /\ \A w \in Workers : WF_vars(WorkerStep(w))

-----------------------------------------------------------------------------
(* However stop and start are timed, a manager that waits never has two    *)
(* workers on the one handler and the one set of push sockets.             *)
OneWorker == \A v, w \in Workers : Live(v) /\ Live(w) => v = w

(* A worker has left do_start's loop at most one receive timeout and one   *)
(* frame after the stop, launch included: from then on its pull socket is  *)
(* closed and takes no more frames from the upstream node.                 *)
GoneInTime == stop_flag /\ (\E w \in Workers : Live(w)) => quiet <= Overlook

(* A start is not lost to the flag of the stop before it: unless the       *)
(* manager stops again, a worker comes to receive.                         *)
StartTakesEffect == working ~> (~working \/ \E w \in Workers : wpc[w] = "recv")

(* Over time the node is what a manager believes it is.                    *)
Cycle == INSTANCE PullCycle WITH
  phase <- IF \A w \in Workers : ~Live(w) THEN "stopped"
           ELSE IF stop_flag THEN "draining" ELSE "running"
ImplementsPullCycle == Cycle!Spec
=============================================================================
