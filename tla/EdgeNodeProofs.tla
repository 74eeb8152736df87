--------------------------- MODULE EdgeNodeProofs ---------------------------
(***************************************************************************)
(* Theorems about EdgeNode and CarefulManager: they hold for any sets of   *)
(* endpoints, sockets and workers and any number of frames, for every      *)
(* order of commands and every interleaving of the threads.                *)
(***************************************************************************)
EXTENDS CarefulManager, SequenceTheorems, TLAPS

-----------------------------------------------------------------------------
(* What the operations of StdVector return, for every element type T.      *)

(* push_back keeps the elements and adds x at the end, with or without a   *)
(* reallocation.                                                           *)
LEMMA PushBackIsVector ==
  ASSUME NEW T, NEW v, NEW x \in T, IsVector(v, T)
  PROVE  /\ IsVector(push_back(v, x), T)
         /\ push_back(v, x).size = v.size + 1
         /\ \A i \in 1 .. v.size : push_back(v, x).slot[i] = v.slot[i]
         /\ push_back(v, x).slot[v.size + 1] = x
<1> DEFINE cap == IF Full(v) THEN GrownCap(v.cap) ELSE v.cap
           slot == [i \in 1 .. cap |->
                      IF i = v.size + 1 THEN x
                      ELSE IF i <= v.cap THEN v.slot[i] ELSE Junk]
<1>1. /\ push_back(v, x).slot = slot
      /\ push_back(v, x).cap = cap
      /\ push_back(v, x).size = v.size + 1
  BY DEF push_back
<1>2. cap \in Nat /\ v.size + 1 \in 1 .. cap /\ v.size \in Nat /\ v.cap \in Nat
  BY DEF IsVector, Full, GrownCap
<1>3. slot \in [1 .. cap -> T \cup {Junk}]
  BY <1>2 DEF IsVector
<1>4. slot[v.size + 1] = x
  BY <1>2
<1>5. \A i \in 1 .. v.size : slot[i] = v.slot[i] /\ v.slot[i] \in T
  BY <1>2 DEF IsVector
<1> HIDE DEF cap, slot
<1>6. ASSUME NEW i \in 1 .. v.size + 1 PROVE slot[i] \in T
  <2>1. i \in 1 .. v.size \/ i = v.size + 1
    BY <1>2
  <2> QED
    BY <2>1, <1>4, <1>5
<1> QED
  BY <1>1, <1>2, <1>3, <1>4, <1>5, <1>6 DEF IsVector

LEMMA ClearIsVector ==
  ASSUME NEW T, NEW v, IsVector(v, T)
  PROVE  IsVector(clear(v), T) /\ clear(v).size = 0
BY DEF IsVector, clear

LEMMA EmptyIsVector ==
  ASSUME NEW T
  PROVE  IsVector(EmptyVector, T) /\ EmptyVector.size = 0
BY DEF IsVector, EmptyVector

-----------------------------------------------------------------------------

(* What the program counters promise of the local variables.               *)
Locals ==
  /\ mpc \in {"grow", "bind"} => msock \in Sockets
  /\ \A w \in Workers : Busy(w) => wi[w] >= 1 /\ wframe[w] \in 1 .. MaxFrames

TypeInv == TypeOK /\ Locals

-----------------------------------------------------------------------------
LEMMA InitTypeInv == Init => TypeInv
<1> SUFFICES ASSUME Init PROVE TypeInv
  OBVIOUS
<1> USE JunkAssumption, MaxFramesAssumption
<1>1. IsVector(subscribers, Endpoints) /\ IsVector(subscribers_sockets, Sockets)
  BY EmptyIsVector DEF Init
<1>2. sent \in [Sockets -> Seq(1 .. MaxFrames)]
  BY DEF Init
<1>3. 0 \in 0 .. MaxFrames
  OBVIOUS
<1>4. TypeOK
  BY <1>1, <1>2, <1>3 DEF Init, TypeOK
<1>5. Locals
  BY DEF Init, Locals, Busy
<1> QED
  BY <1>4, <1>5 DEF TypeInv

(* The commands keep the type invariant: each changes one or two shared    *)
(* variables and the main thread's locals.                                 *)
LEMMA CommandTypeInv == TypeInv /\ Command => TypeInv'
<1> SUFFICES ASSUME TypeInv, Command PROVE TypeInv'
  OBVIOUS
<1> USE JunkAssumption, MaxFramesAssumption
<1> USE DEF TypeInv, TypeOK, Locals, Busy, Idle, Running,
            mainVars, tableVars, workerVars, flowVars
<1>1. CASE Config
  BY <1>1 DEF Config, initHandler
<1>2. CASE ConfigFault
  BY <1>2 DEF ConfigFault, Abort
<1>3. ASSUME NEW e \in Endpoints, SubscribeRefused(e) PROVE TypeInv'
  BY <1>3 DEF SubscribeRefused
<1>4. ASSUME NEW e \in Endpoints, NEW s \in Sockets, SubscribeNew(e, s) PROVE TypeInv'
  <2>1. IsVector(subscribers', Endpoints)
    BY <1>4, PushBackIsVector DEF SubscribeNew
  <2>2. IsVector(subscribers_sockets', Sockets)
    BY <1>4, PushBackIsVector DEF SubscribeNew
  <2> QED
    BY <1>4, <2>1, <2>2 DEF SubscribeNew
<1>5. ASSUME NEW w \in Workers, Start(w) PROVE TypeInv'
  BY <1>5 DEF Start, initHandler
<1>6. CASE StopBegin
  BY <1>6 DEF StopBegin, FirstIndex
<1> QED
  BY <1>1, <1>2, <1>3, <1>4, <1>5, <1>6 DEF Command

(* So do the steps with which the main thread finishes a command.          *)
LEMMA MainContinuesTypeInv == TypeInv /\ MainContinues => TypeInv'
<1> SUFFICES ASSUME TypeInv, MainContinues PROVE TypeInv'
  OBVIOUS
<1> USE JunkAssumption, MaxFramesAssumption
<1> USE DEF TypeInv, TypeOK, Locals, Busy, Running,
            mainVars, tableVars, workerVars, flowVars
<1>1. CASE SubscribeGrown
  <2>1. IsVector(subscribers_sockets', Sockets)
    BY <1>1, PushBackIsVector DEF SubscribeGrown
  <2> QED
    BY <1>1, <2>1 DEF SubscribeGrown
<1>2. CASE SubscribeBind
  BY <1>2 DEF SubscribeBind
<1>3. CASE StopClose
  <2>1. push_socket' \in [Sockets -> {"none", "open", "bound", "closed"}]
    BY <1>3 DEF StopClose
  <2> QED
    BY <1>3, <2>1 DEF StopClose
<1>4. CASE StopClear
  <2>1. IsVector(subscribers', Endpoints) /\ IsVector(subscribers_sockets', Sockets)
    BY <1>4, ClearIsVector DEF StopClear, ClearTable
  <2> QED
    BY <1>4, <2>1 DEF StopClear
<1> QED
  BY <1>1, <1>2, <1>3, <1>4 DEF MainContinues

(* And so does every step of a worker.                                     *)
LEMMA WorkerTypeInv ==
  ASSUME TypeInv, NEW w \in Workers, WorkerStep(w)
  PROVE  TypeInv'
<1> USE JunkAssumption, MaxFramesAssumption
<1> USE DEF TypeInv, TypeOK, Locals, Busy, At, GoTo, Running,
            mainVars, tableVars, workerVars, flowVars
<1>1. CASE CheckStop(w)
  BY <1>1 DEF CheckStop
<1>2. CASE RecvTimeout(w)
  BY <1>2 DEF RecvTimeout
<1>3. CASE RecvFrame(w)
  BY <1>3 DEF RecvFrame, FirstIndex
<1>4. CASE RecvFault(w)
  BY <1>4 DEF RecvFault, Abort
<1>5. CASE LoopEnter(w)
  BY <1>5 DEF LoopEnter
<1>6. CASE LoopLeave(w)
  BY <1>6 DEF LoopLeave
<1>7. CASE AtLoad(w)
  <2>1. InRange(wi[w]) => subscribers_sockets.slot[wi[w]] \in Sockets
    BY <1>7 DEF AtLoad, InRange, IsVector
  <2>2. wsock' \in [Workers -> Sockets \cup {Junk}]
    BY <1>7, <2>1 DEF AtLoad
  <2> QED
    BY <1>7, <2>2 DEF AtLoad
<1>8. CASE AtThrow(w)
  BY <1>8 DEF AtThrow, Abort
<1>9. CASE SendAccepted(w)
  <2>1. wframe[w] \in 1 .. MaxFrames /\ wsock[w] \in Sockets
    BY <1>9 DEF SendAccepted
  <2>2. Append(sent[wsock[w]], wframe[w]) \in Seq(1 .. MaxFrames)
    BY <2>1, AppendProperties
  <2>3. sent' \in [Sockets -> Seq(1 .. MaxFrames)]
    BY <1>9, <2>1, <2>2 DEF SendAccepted
  <2> QED
    BY <1>9, <2>3 DEF SendAccepted, NextSubscriber
<1>10. CASE SendDropped(w)
  BY <1>10 DEF SendDropped, NextSubscriber
<1>11. CASE SendFault(w)
  BY <1>11 DEF SendFault, Abort
<1>12. CASE WorkerExit(w)
  BY <1>12 DEF WorkerExit
<1>13. CASE ExitFault(w)
  BY <1>13 DEF ExitFault, Abort
<1> QED
  BY <1>1, <1>2, <1>3, <1>4, <1>5, <1>6, <1>7, <1>8, <1>9, <1>10, <1>11, <1>12, <1>13
  DEF WorkerStep

LEMMA NextTypeInv == TypeInv /\ [Next]_vars => TypeInv'
<1> SUFFICES ASSUME TypeInv, [Next]_vars PROVE TypeInv'
  OBVIOUS
<1>1. CASE Command
  BY <1>1, CommandTypeInv
<1>2. CASE MainContinues
  BY <1>2, MainContinuesTypeInv
<1>3. ASSUME NEW w \in Workers, WorkerStep(w) PROVE TypeInv'
  BY <1>3, WorkerTypeInv
<1>4. CASE UNCHANGED vars
  BY <1>4 DEF vars, tableVars, mainVars, workerVars, flowVars, TypeInv, TypeOK, Locals, Busy
<1> QED
  BY <1>1, <1>2, <1>3, <1>4 DEF Next

(* Every state the node can reach has the type EdgeNode claims: the two    *)
(* vectors are well formed, every index and frame number is in range.      *)
THEOREM TypeCorrect == Spec => []TypeOK
<1>1. TypeInv => TypeOK
  BY DEF TypeInv
<1> QED
  BY <1>1, InitTypeInv, NextTypeInv, PTL DEF Spec

-----------------------------------------------------------------------------
(* TableConsistent and TableOwnsSockets are inductive only together, and   *)
(* with what makes each new socket different from those in the vector.     *)
TableInv ==
  /\ TableConsistent
  /\ TableOwnsSockets
  /\ \A i \in 1 .. subscribers_sockets.size :
       push_socket[subscribers_sockets.slot[i]] # "none"
  /\ \A i, j \in 1 .. subscribers_sockets.size :
       subscribers_sockets.slot[i] = subscribers_sockets.slot[j] => i = j
  /\ mpc \in {"grow", "bind"} => push_socket[msock] = "open"
  /\ mpc = "grow" => ~Holds(subscribers_sockets, msock)
  /\ mpc = "bind" => Holds(subscribers_sockets, msock)
  /\ mpc = "closing" => mi \in 1 .. subscribers_sockets.size + 1

LEMMA InitTableInv == Init => TableInv
<1> SUFFICES ASSUME Init PROVE TableInv
  OBVIOUS
<1>1. subscribers.size = 0 /\ subscribers_sockets.size = 0
  BY DEF Init, EmptyVector
<1>2. mpc = "idle" /\ \A s \in Sockets : push_socket[s] = "none"
  BY DEF Init
<1> QED
  BY <1>1, <1>2 DEF TableInv, TableConsistent, TableOwnsSockets, Holds

(* A step that leaves the table and the main thread's locals alone.        *)
LEMMA TableInvKept ==
  ASSUME TableInv, UNCHANGED <<tableVars, mpc, mi, msock>>
  PROVE  TableInv'
BY DEF TableInv, TableConsistent, TableOwnsSockets, Holds, tableVars

(* Up to the point where push_socket is in the vector, or has to wait for  *)
(* the reallocation.                                                       *)
LEMMA SubscribeNewTableInv ==
  ASSUME TypeInv, TableInv, NEW e \in Endpoints, NEW s \in Sockets, SubscribeNew(e, s)
  PROVE  TableInv'
<1> DEFINE old == subscribers_sockets
           n == subscribers.size
<1>1. /\ n = old.size /\ n \in Nat
      /\ mpc = "idle"
      /\ push_socket[s] = "none"
      /\ ~Holds(old, s)
      /\ \A i \in 1 .. n : subscribers.slot[i] # e
      /\ \A i \in 1 .. n : old.slot[i] \in Sockets
  BY DEF SubscribeNew, TableInv, TableConsistent, TypeInv, TypeOK, IsVector, Holds,
         KnownEndpoint, Idle
<1>2. /\ subscribers'.size = n + 1
      /\ \A i \in 1 .. n : subscribers'.slot[i] = subscribers.slot[i]
      /\ subscribers'.slot[n + 1] = e
  <2>1. subscribers' = push_back(subscribers, e) /\ IsVector(subscribers, Endpoints)
    BY DEF SubscribeNew, TypeInv, TypeOK
  <2> HIDE DEF n
  <2>2. /\ IsVector(push_back(subscribers, e), Endpoints)
        /\ push_back(subscribers, e).size = subscribers.size + 1
        /\ \A i \in 1 .. subscribers.size :
             push_back(subscribers, e).slot[i] = subscribers.slot[i]
        /\ push_back(subscribers, e).slot[subscribers.size + 1] = e
    BY <2>1, PushBackIsVector, ZenonT(40)
  <2> QED
    BY <2>1, <2>2 DEF n
<1>3. /\ push_socket' = [push_socket EXCEPT ![s] = "open"]
      /\ bind_endpoint' = [bind_endpoint EXCEPT ![s] = e]
      /\ msock' = s
      /\ push_socket'[s] = "open"
      /\ bind_endpoint'[s] = e
  BY DEF SubscribeNew, TypeInv, TypeOK
<1>4. \A t \in Sockets : t # s => /\ push_socket'[t] = push_socket[t]
                                 /\ bind_endpoint'[t] = bind_endpoint[t]
  BY DEF SubscribeNew, TypeInv, TypeOK
<1>5. \A i \in 1 .. n : old.slot[i] # s
  BY <1>1 DEF Holds
<1>6. \A i, j \in 1 .. n + 1 : subscribers'.slot[i] = subscribers'.slot[j] => i = j
  <2>1. \A i \in 1 .. n + 1 : i \in 1 .. n \/ i = n + 1
    BY <1>1
  <2>2. \A i, j \in 1 .. n : subscribers.slot[i] = subscribers.slot[j] => i = j
    BY DEF TableInv, TableConsistent
  <2> QED
    BY <1>1, <1>2, <2>1, <2>2
<1>7. \A i \in 1 .. n : /\ bind_endpoint[old.slot[i]] = subscribers.slot[i]
                        /\ push_socket[old.slot[i]] \notin {"none", "closed"}
  BY <1>1 DEF TableInv, TableConsistent, TableOwnsSockets
<1>8. \A i, j \in 1 .. n : old.slot[i] = old.slot[j] => i = j
  BY <1>1 DEF TableInv
<1>9. \A t \in Sockets : push_socket[t] \in {"open", "bound"} =>
        \E i \in 1 .. n : old.slot[i] = t
  BY <1>1 DEF TableInv, TableOwnsSockets, Holds
<1>10. CASE Full(subscribers_sockets)
  <2>1. mpc' = "grow" /\ subscribers_sockets' = subscribers_sockets
    BY <1>10 DEF SubscribeNew
  <2>2. TableConsistent'
    BY <1>1, <1>2, <1>3, <1>4, <1>5, <1>6, <1>7, <2>1 DEF TableConsistent
  <2>3. TableOwnsSockets'
    BY <1>1, <1>3, <1>4, <1>5, <1>7, <1>9, <2>1 DEF TableOwnsSockets, Holds
  <2> QED
    BY <1>1, <1>3, <1>4, <1>5, <1>7, <1>8, <2>1, <2>2, <2>3 DEF TableInv, Holds
<1>11. CASE ~Full(subscribers_sockets)
  <2>1. mpc' = "bind" /\ subscribers_sockets' = push_back(subscribers_sockets, s)
    BY <1>11 DEF SubscribeNew
  <2>2. /\ subscribers_sockets'.size = n + 1
        /\ \A i \in 1 .. n : subscribers_sockets'.slot[i] = old.slot[i]
        /\ subscribers_sockets'.slot[n + 1] = s
    <3>1. IsVector(old, Sockets) /\ old.size = n
      BY <1>1 DEF TypeInv, TypeOK
    <3> HIDE DEF n
    <3> QED
      BY <2>1, <3>1, PushBackIsVector, SMTT(40)
  <2>3. \A i \in 1 .. n + 1 : i \in 1 .. n \/ i = n + 1
    BY <1>1
  <2>4. TableConsistent'
    BY <1>1, <1>2, <1>3, <1>4, <1>5, <1>6, <1>7, <2>1, <2>2, <2>3 DEF TableConsistent
  <2>5. Holds(subscribers_sockets', s)
    BY <1>1, <2>2 DEF Holds
  <2>6. TableOwnsSockets'
    <3>1. \A t \in Sockets : push_socket'[t] \in {"open", "bound"} =>
            \E i \in 1 .. n + 1 : subscribers_sockets'.slot[i] = t
      BY <1>1, <1>4, <1>9, <2>2
    <3>2. \A i \in 1 .. n + 1 : push_socket'[subscribers_sockets'.slot[i]] # "closed"
      BY <1>1, <1>3, <1>4, <1>5, <1>7, <2>2, <2>3
    <3> QED
      BY <2>1, <2>2, <3>1, <3>2 DEF TableOwnsSockets, Holds
  <2>7. \A i, j \in 1 .. n + 1 :
          subscribers_sockets'.slot[i] = subscribers_sockets'.slot[j] => i = j
    BY <1>1, <1>5, <1>8, <2>2, <2>3
  <2>8. \A i \in 1 .. n + 1 : push_socket'[subscribers_sockets'.slot[i]] # "none"
    BY <1>1, <1>3, <1>4, <1>5, <1>7, <2>2, <2>3
  <2> QED
    BY <1>3, <2>1, <2>2, <2>4, <2>5, <2>6, <2>7, <2>8 DEF TableInv
<1> QED
  BY <1>10, <1>11

(* The reallocation is over: the new socket has become the last element.   *)
LEMMA SubscribeGrownTableInv ==
  ASSUME TypeInv, TableInv, SubscribeGrown
  PROVE  TableInv'
<1> DEFINE old == subscribers_sockets
           n == old.size
<1>1. /\ IsVector(old, Sockets)
      /\ msock \in Sockets
      /\ mpc = "grow" /\ mpc' = "bind"
      /\ subscribers_sockets' = push_back(old, msock)
      /\ UNCHANGED <<subscribers, push_socket, bind_endpoint, mi, msock>>
  BY DEF SubscribeGrown, TypeInv, TypeOK, Locals
<1>2. /\ n \in Nat
      /\ subscribers.size = n + 1
      /\ push_socket[msock] = "open"
      /\ ~Holds(old, msock)
      /\ bind_endpoint[msock] = subscribers.slot[n + 1]
  BY <1>1 DEF TableInv, TableConsistent, IsVector
<1>3. /\ subscribers_sockets'.size = n + 1
      /\ \A i \in 1 .. n : subscribers_sockets'.slot[i] = old.slot[i]
      /\ subscribers_sockets'.slot[n + 1] = msock
  <2>1. /\ IsVector(push_back(old, msock), Sockets)
        /\ push_back(old, msock).size = old.size + 1
        /\ \A i \in 1 .. old.size : push_back(old, msock).slot[i] = old.slot[i]
        /\ push_back(old, msock).slot[old.size + 1] = msock
    BY <1>1, PushBackIsVector, ZenonT(40)
  <2> QED
    BY <1>1, <2>1
<1>4. \A i \in 1 .. n + 1 : i \in 1 .. n \/ i = n + 1
  BY <1>2
<1>5. \A i \in 1 .. n : old.slot[i] # msock
  BY <1>2 DEF Holds
<1>6. TableConsistent'
  <2>1. \A i \in 1 .. n : bind_endpoint[old.slot[i]] = subscribers.slot[i]
    BY DEF TableInv, TableConsistent
  <2>2. \A i, j \in 1 .. n + 1 : subscribers.slot[i] = subscribers.slot[j] => i = j
    BY <1>2 DEF TableInv, TableConsistent
  <2> QED
    BY <1>1, <1>2, <1>3, <1>4, <2>1, <2>2 DEF TableConsistent
<1>7. Holds(subscribers_sockets', msock)
  BY <1>2, <1>3 DEF Holds
<1>8. TableOwnsSockets'
  <2>1. \A t \in Sockets : push_socket[t] \in {"open", "bound"} =>
          t = msock \/ \E i \in 1 .. n : old.slot[i] = t
    BY <1>1 DEF TableInv, TableOwnsSockets, Holds
  <2>2. \A i \in 1 .. n : push_socket[old.slot[i]] # "closed"
    BY <1>1 DEF TableInv, TableOwnsSockets
  <2>3. \A i \in 1 .. n + 1 : push_socket[subscribers_sockets'.slot[i]] # "closed"
    BY <1>2, <1>3, <1>4, <2>2
  <2> QED
    BY <1>1, <1>2, <1>3, <2>1, <2>3 DEF TableOwnsSockets, Holds
<1>9. \A i, j \in 1 .. n + 1 :
        subscribers_sockets'.slot[i] = subscribers_sockets'.slot[j] => i = j
  <2>1. \A i, j \in 1 .. n : old.slot[i] = old.slot[j] => i = j
    BY DEF TableInv
  <2> QED
    BY <1>2, <1>3, <1>4, <1>5, <2>1
<1>10. \A i \in 1 .. n + 1 : push_socket[subscribers_sockets'.slot[i]] # "none"
  <2>1. \A i \in 1 .. n : push_socket[old.slot[i]] # "none"
    BY DEF TableInv
  <2> QED
    BY <1>2, <1>3, <1>4, <2>1
<1> QED
  BY <1>1, <1>2, <1>3, <1>6, <1>7, <1>8, <1>9, <1>10 DEF TableInv

LEMMA SubscribeBindTableInv ==
  ASSUME TypeInv, TableInv, SubscribeBind
  PROVE  TableInv'
<1>1. /\ mpc = "bind" /\ mpc' = "idle"
      /\ msock \in Sockets
      /\ UNCHANGED <<subscribers, subscribers_sockets, bind_endpoint, mi>>
  BY DEF SubscribeBind, TypeInv, Locals
<1>2. /\ push_socket'[msock] \in {"open", "bound"}
      /\ \A t \in Sockets \ {msock} : push_socket'[t] = push_socket[t]
  BY <1>1 DEF SubscribeBind, TypeInv, TypeOK
<1>3. \A i \in 1 .. subscribers_sockets.size : subscribers_sockets.slot[i] \in Sockets
  BY DEF TypeInv, TypeOK, IsVector
<1>4. TableConsistent'
  BY <1>1 DEF TableInv, TableConsistent
<1>5. TableOwnsSockets'
  BY <1>1, <1>2, <1>3 DEF TableInv, TableOwnsSockets, Holds
<1> QED
  BY <1>1, <1>2, <1>3, <1>4, <1>5 DEF TableInv

LEMMA StopBeginTableInv ==
  ASSUME TypeInv, TableInv, StopBegin
  PROVE  TableInv'
<1>1. /\ mpc = "idle" /\ mpc' = "closing" /\ mi' = 1
      /\ UNCHANGED <<tableVars, msock>>
  BY DEF StopBegin, Idle, FirstIndex
<1>2. subscribers_sockets.size \in Nat
  BY DEF TypeInv, TypeOK, IsVector
<1> QED
  BY <1>1, <1>2 DEF TableInv, TableConsistent, TableOwnsSockets, Holds, tableVars

(* The walk of stop closes the socket at mi: it is in the vector only once.*)
LEMMA StopCloseTableInv ==
  ASSUME TypeInv, TableInv, StopClose
  PROVE  TableInv'
<1> DEFINE v == subscribers_sockets
<1>1. /\ mpc = "closing" /\ mpc' = "closing" /\ mi' = mi + 1
      /\ mi \in 1 .. v.size /\ v.size \in Nat
      /\ UNCHANGED <<subscribers, subscribers_sockets, bind_endpoint, msock>>
  BY DEF StopClose, InRange, TableInv, TypeInv, TypeOK, IsVector
<1>2. \A i \in 1 .. v.size : v.slot[i] \in Sockets
  BY DEF TypeInv, TypeOK, IsVector
<1>3. /\ push_socket'[v.slot[mi]] = "closed"
      /\ \A t \in Sockets \ {v.slot[mi]} : push_socket'[t] = push_socket[t]
  BY <1>1, <1>2 DEF StopClose, TypeInv, TypeOK
<1>4. \A i, j \in 1 .. v.size : v.slot[i] = v.slot[j] => i = j
  BY DEF TableInv
<1>5. TableConsistent'
  BY <1>1 DEF TableInv, TableConsistent
<1>6. TableOwnsSockets'
  <2>1. \A t \in Sockets : push_socket'[t] \in {"open", "bound"} =>
          \E i \in 1 .. v.size : v.slot[i] = t
    BY <1>1, <1>2, <1>3 DEF TableInv, TableOwnsSockets, Holds
  <2>2. \A i \in 1 .. v.size : push_socket[v.slot[i]] = "closed" <=> i < mi
    BY <1>1 DEF TableInv, TableOwnsSockets
  <2>3. \A i \in 1 .. v.size : push_socket'[v.slot[i]] = "closed" <=> i < mi + 1
    <3> SUFFICES ASSUME NEW i \in 1 .. v.size
                 PROVE  push_socket'[v.slot[i]] = "closed" <=> i < mi + 1
      OBVIOUS
    <3>1. CASE i = mi
      BY <1>1, <1>3, <3>1
    <3>2. CASE i # mi
      <4>1. push_socket'[v.slot[i]] = push_socket[v.slot[i]]
        BY <1>1, <1>2, <1>3, <1>4, <3>2
      <4> QED
        BY <1>1, <2>2, <3>2, <4>1
    <3> QED
      BY <3>1, <3>2
  <2> QED
    BY <1>1, <2>1, <2>3 DEF TableOwnsSockets, Holds
<1> QED
  BY <1>1, <1>2, <1>3, <1>4, <1>5, <1>6 DEF TableInv

(* When the vectors are cleared, every socket they hold has been closed.   *)
LEMMA StopClearTableInv ==
  ASSUME TypeInv, TableInv, StopClear
  PROVE  TableInv'
<1>1. /\ mpc = "closing" /\ mpc' = "idle"
      /\ UNCHANGED <<push_socket, bind_endpoint, msock>>
      /\ subscribers'.size = 0 /\ subscribers_sockets'.size = 0
  BY DEF StopClear, ClearTable, clear
<1>2. \A i \in 1 .. subscribers_sockets.size :
        push_socket[subscribers_sockets.slot[i]] = "closed"
  BY DEF StopClear, PastEnd, TableInv, TableOwnsSockets, TypeInv, TypeOK, IsVector
<1>3. \A s \in Sockets : push_socket[s] \notin {"open", "bound"}
  BY <1>1, <1>2 DEF TableInv, TableOwnsSockets, Holds
<1> QED
  BY <1>1, <1>3 DEF TableInv, TableConsistent, TableOwnsSockets, Holds

LEMMA NextTableInv == TypeInv /\ TableInv /\ [Next]_vars => TableInv'
<1> SUFFICES ASSUME TypeInv, TableInv, [Next]_vars PROVE TableInv'
  OBVIOUS
<1> USE DEF Idle, Running, At, mainVars
<1>1. CASE Command
  <2>1. CASE Config
    BY <2>1, TableInvKept DEF Config
  <2>2. CASE ConfigFault
    BY <2>2, TableInvKept DEF ConfigFault, Abort
  <2>3. ASSUME NEW e \in Endpoints, SubscribeRefused(e) PROVE TableInv'
    BY <2>3, TableInvKept DEF SubscribeRefused
  <2>4. ASSUME NEW e \in Endpoints, NEW s \in Sockets, SubscribeNew(e, s) PROVE TableInv'
    BY <2>4, SubscribeNewTableInv
  <2>5. ASSUME NEW w \in Workers, Start(w) PROVE TableInv'
    BY <2>5, TableInvKept DEF Start
  <2>6. CASE StopBegin
    BY <2>6, StopBeginTableInv
  <2> QED
    BY <1>1, <2>1, <2>2, <2>3, <2>4, <2>5, <2>6 DEF Command
<1>2. CASE MainContinues
  BY <1>2, SubscribeGrownTableInv, SubscribeBindTableInv, StopCloseTableInv,
     StopClearTableInv DEF MainContinues
<1>3. ASSUME NEW w \in Workers, WorkerStep(w) PROVE TableInv'
  <2>1. UNCHANGED <<tableVars, mpc, mi, msock>>
    BY <1>3 DEF WorkerStep, CheckStop, RecvTimeout, RecvFrame, RecvFault, LoopEnter,
       LoopLeave, AtLoad, AtThrow, SendAccepted, SendDropped, SendFault, WorkerExit,
       ExitFault, Abort
  <2> QED
    BY <2>1, TableInvKept
<1>4. CASE UNCHANGED vars
  BY <1>4, TableInvKept DEF vars
<1> QED
  BY <1>1, <1>2, <1>3, <1>4 DEF Next

(* subscribers and subscribers_sockets stay parallel and free of           *)
(* duplicates, whatever commands arrive in whatever order.                 *)
THEOREM TableAlwaysConsistent == Spec => []TableConsistent
<1>1. TableInv => TableConsistent
  BY DEF TableInv
<1> QED
  BY <1>1, InitTypeInv, NextTypeInv, InitTableInv, NextTableInv, PTL DEF Spec

(* No push socket is ever leaked by subscribe and stop, none is closed     *)
(* twice, and none that is closed survives stop in the vector.             *)
THEOREM TableAlwaysOwnsSockets == Spec => []TableOwnsSockets
<1>1. TableInv => TableOwnsSockets
  BY DEF TableInv
<1> QED
  BY <1>1, InitTypeInv, NextTypeInv, InitTableInv, NextTableInv, PTL DEF Spec

-----------------------------------------------------------------------------
(* Frames after a stop.  A worker that is about to receive has received    *)
(* nothing since the flag was set.                                         *)
LateInv ==
  \A w \in Workers :
    /\ late[w] <= 1
    /\ ~stop_flag \/ wpc[w] = "recv" => late[w] = 0

LEMMA NextLateInv == TypeInv /\ LateInv /\ [Next]_vars => LateInv'
<1> SUFFICES ASSUME TypeInv, LateInv, [Next]_vars PROVE LateInv'
  OBVIOUS
<1> USE DEF LateInv, TypeInv, TypeOK, mainVars, tableVars, workerVars, flowVars
<1>1. CASE Command
  BY <1>1 DEF Command, Config, ConfigFault, Abort, SubscribeRefused, SubscribeNew, Start,
     StopBegin
<1>2. CASE MainContinues
  BY <1>2 DEF MainContinues, SubscribeGrown, SubscribeBind, StopClose, StopClear
<1>3. ASSUME NEW w \in Workers, WorkerStep(w) PROVE LateInv'
  <2> USE DEF At, GoTo
  <2>1. CASE CheckStop(w)
    BY <2>1 DEF CheckStop, GoesOn
  <2>2. CASE RecvFrame(w)
    BY <2>2 DEF RecvFrame
  <2>3. CASE \/ RecvTimeout(w) \/ LoopEnter(w) \/ LoopLeave(w) \/ AtLoad(w)
             \/ SendAccepted(w) \/ SendDropped(w) \/ WorkerExit(w)
    BY <2>3 DEF RecvTimeout, LoopEnter, LoopLeave, AtLoad, SendAccepted, SendDropped,
       NextSubscriber, WorkerExit
  <2>4. CASE RecvFault(w) \/ AtThrow(w) \/ SendFault(w) \/ ExitFault(w)
    BY <2>4 DEF RecvFault, AtThrow, SendFault, ExitFault, Abort
  <2> QED
    BY <1>3, <2>1, <2>2, <2>3, <2>4 DEF WorkerStep
<1>4. CASE UNCHANGED vars
  BY <1>4 DEF vars
<1> QED
  BY <1>1, <1>2, <1>3, <1>4 DEF Next

(* After a stop, do_start handles at most the one frame its pending        *)
(* zmq_msg_recv returns, however many are queued.                          *)
THEOREM AtMostOneLateFrame == Spec => []OneLateFrame
<1>1. Init => LateInv
  BY DEF Init, LateInv
<1>2. LateInv => OneLateFrame
  BY DEF LateInv, OneLateFrame
<1> QED
  BY <1>1, <1>2, InitTypeInv, NextTypeInv, NextLateInv, PTL DEF Spec

-----------------------------------------------------------------------------
(* No result twice.  While a worker handles a frame, no socket from its    *)
(* index on has that frame yet, and this survives whatever happens to the  *)
(* vector: a cleared vector is refilled only with sockets that were never  *)
(* sent anything.                                                          *)
Got(s, f) == \E i \in 1 .. Len(sent[s]) : sent[s][i] = f

OnceInv ==
  /\ AtMostOnce
  /\ \A s \in Sockets : push_socket[s] \in {"none", "open"} => sent[s] = << >>
  /\ \A s \in Sockets : \A i \in 1 .. Len(sent[s]) : sent[s][i] <= taken
  /\ \A w \in Workers : Busy(w) => wframe[w] <= taken
  /\ \A v, w \in Workers : Busy(v) /\ Busy(w) /\ wframe[v] = wframe[w] => v = w
  /\ \A w \in Workers : Busy(w) =>
       \A j \in wi[w] .. subscribers_sockets.size :
         ~Got(subscribers_sockets.slot[j], wframe[w])
  /\ \A w \in Workers :
       wpc[w] = "send" /\ wsock[w] # Junk /\ push_socket[wsock[w]] # "closed" =>
         /\ wi[w] <= subscribers_sockets.size
         /\ subscribers_sockets.slot[wi[w]] = wsock[w]

(* Most steps touch neither the vector nor the sockets: at most a worker   *)
(* moves on, or is done with its frame.                                    *)
LEMMA OnceInvKept ==
  ASSUME TypeInv, TypeInv', OnceInv,
         UNCHANGED <<push_socket, subscribers_sockets, taken, sent>>,
         \A w \in Workers : Busy(w)' =>
            Busy(w) /\ wframe'[w] = wframe[w] /\ wi'[w] >= wi[w],
         \A w \in Workers : wpc'[w] = "send" =>
            wpc[w] = "send" /\ wsock'[w] = wsock[w] /\ wi'[w] = wi[w]
  PROVE  OnceInv'
<1>1. AtMostOnce'
  BY DEF OnceInv, AtMostOnce
<1>2. ASSUME NEW w \in Workers, Busy(w)', NEW j \in wi'[w] .. subscribers_sockets.size
      PROVE  ~Got(subscribers_sockets.slot[j], wframe[w])
  <2>1. wi[w] \in Nat /\ wi'[w] \in Nat /\ subscribers_sockets.size \in Nat
    BY DEF TypeInv, TypeOK, IsVector
  <2>2. j \in wi[w] .. subscribers_sockets.size
    BY <1>2, <2>1
  <2> QED
    BY <1>2, <2>2 DEF OnceInv
<1> QED
  BY <1>1, <1>2 DEF OnceInv, Got

LEMMA InitOnceInv == Init => OnceInv
BY DEF Init, OnceInv, AtMostOnce, Busy, EmptyVector

(* The socket that joins the vector has been sent nothing, so the busy     *)
(* workers may find it.                                                    *)
LEMMA JoinOnceInv ==
  ASSUME TypeInv, TableInv, OnceInv, NEW s \in Sockets,
         push_socket[s] \in {"none", "open"}, ~Holds(subscribers_sockets, s),
         push_socket' = [push_socket EXCEPT ![s] = "open"],
         subscribers_sockets' = push_back(subscribers_sockets, s),
         UNCHANGED <<taken, sent, workerVars>>
  PROVE  OnceInv'
<1> DEFINE old == subscribers_sockets
           n == old.size
<1>1. n \in Nat /\ IsVector(old, Sockets)
  BY DEF TypeInv, TypeOK, IsVector
<1>2. /\ subscribers_sockets'.size = n + 1
      /\ \A i \in 1 .. n : subscribers_sockets'.slot[i] = old.slot[i]
      /\ subscribers_sockets'.slot[n + 1] = s
  <2>1. /\ IsVector(push_back(old, s), Sockets)
        /\ push_back(old, s).size = old.size + 1
        /\ \A i \in 1 .. old.size : push_back(old, s).slot[i] = old.slot[i]
        /\ push_back(old, s).slot[old.size + 1] = s
    <3> HIDE DEF old
    <3> QED
      BY ONLY s \in Sockets, <1>1, PushBackIsVector, ZenonT(40)
  <2> QED
    BY <2>1
<1>3. /\ push_socket'[s] = "open"
      /\ \A t \in Sockets \ {s} : push_socket'[t] = push_socket[t]
  BY DEF TypeInv, TypeOK
<1>4. sent[s] = << >>
  BY DEF OnceInv
<1>5. AtMostOnce'
  BY DEF OnceInv, AtMostOnce
<1>6. \A t \in Sockets : push_socket'[t] \in {"none", "open"} => sent[t] = << >>
  BY <1>3, <1>4 DEF OnceInv
<1>7. ASSUME NEW w \in Workers, Busy(w), NEW j \in wi[w] .. n + 1
      PROVE  ~Got(subscribers_sockets'.slot[j], wframe[w])
  <2>1. wi[w] \in Nat /\ wi[w] >= 1
    BY <1>7 DEF TypeInv, TypeOK, Locals
  <2>2. CASE j = n + 1
    BY <1>2, <1>4, <2>2 DEF Got
  <2>3. CASE j # n + 1
    BY <1>1, <1>2, <1>7, <2>1, <2>3 DEF OnceInv
  <2> QED
    BY <2>2, <2>3
<1>8. ASSUME NEW w \in Workers, wpc[w] = "send", wsock[w] # Junk,
             push_socket'[wsock[w]] # "closed"
      PROVE  /\ wi[w] <= n + 1
             /\ subscribers_sockets'.slot[wi[w]] = wsock[w]
  <2>1. wi[w] \in Nat /\ wi[w] >= 1 /\ wsock[w] \in Sockets
    BY <1>8 DEF TypeInv, TypeOK, Locals, Busy
  <2>2. push_socket[wsock[w]] # "closed"
    BY <1>3, <1>8, <2>1
  <2>3. wi[w] <= n /\ old.slot[wi[w]] = wsock[w]
    BY <1>8, <2>2 DEF OnceInv
  <2> QED
    BY <1>1, <1>2, <2>1, <2>3
<1> QED
  BY <1>2, <1>5, <1>6, <1>7, <1>8 DEF OnceInv, Got, Busy, workerVars

LEMMA SubscribeNewOnceInv ==
  ASSUME TypeInv, TableInv, OnceInv,
         NEW e \in Endpoints, NEW s \in Sockets, SubscribeNew(e, s)
  PROVE  OnceInv'
<1>1. /\ push_socket[s] = "none" /\ ~Holds(subscribers_sockets, s)
      /\ push_socket' = [push_socket EXCEPT ![s] = "open"]
      /\ UNCHANGED <<taken, sent, workerVars>>
  BY DEF SubscribeNew, TableInv, Holds, flowVars
<1>2. CASE ~Full(subscribers_sockets)
  BY <1>1, <1>2, JoinOnceInv DEF SubscribeNew
<1>3. CASE Full(subscribers_sockets)
  <2>1. subscribers_sockets' = subscribers_sockets
    BY <1>3 DEF SubscribeNew
  <2>2. /\ push_socket'[s] = "open"
        /\ \A t \in Sockets \ {s} : push_socket'[t] = push_socket[t]
    BY <1>1 DEF TypeInv, TypeOK
  <2>3. \A t \in Sockets : push_socket'[t] \in {"none", "open"} => sent[t] = << >>
    BY <1>1, <2>2 DEF OnceInv
  <2>4. AtMostOnce'
    BY <1>1 DEF OnceInv, AtMostOnce
  <2>5. ASSUME NEW w \in Workers, wpc[w] = "send", wsock[w] # Junk,
               push_socket'[wsock[w]] # "closed"
        PROVE  push_socket[wsock[w]] # "closed"
    BY <1>1, <2>2, <2>5 DEF TypeInv, TypeOK
  <2> QED
    BY <1>1, <2>1, <2>3, <2>4, <2>5 DEF OnceInv, Got, Busy, workerVars
<1> QED
  BY <1>2, <1>3

LEMMA SubscribeGrownOnceInv ==
  ASSUME TypeInv, TableInv, OnceInv, SubscribeGrown
  PROVE  OnceInv'
<1>1. /\ mpc = "grow" /\ msock \in Sockets
      /\ push_socket[msock] = "open" /\ ~Holds(subscribers_sockets, msock)
      /\ subscribers_sockets' = push_back(subscribers_sockets, msock)
      /\ push_socket' = push_socket
      /\ UNCHANGED <<taken, sent, workerVars>>
  BY DEF SubscribeGrown, TypeInv, Locals, TableInv, flowVars
<1>2. push_socket' = [push_socket EXCEPT ![msock] = "open"]
  BY <1>1 DEF TypeInv, TypeOK
<1> QED
  BY <1>1, <1>2, JoinOnceInv

(* Binding, closing and clearing send nothing and bring no socket back.    *)
LEMMA SocketsAgeOnceInv ==
  ASSUME TypeInv, TableInv, OnceInv, SubscribeBind \/ StopClose \/ StopClear
  PROVE  OnceInv'
<1>1. UNCHANGED <<taken, sent, workerVars>>
  BY DEF SubscribeBind, StopClose, StopClear, flowVars
<1>2. /\ \A t \in Sockets :
           push_socket'[t] \in {"none", "open"} => push_socket[t] \in {"none", "open"}
      /\ \A t \in Sockets : push_socket'[t] # "closed" => push_socket[t] # "closed"
  <2>1. CASE SubscribeBind
    BY <2>1 DEF SubscribeBind, TypeInv, TypeOK, Locals, TableInv
  <2>2. CASE StopClose
    BY <2>2 DEF StopClose, TypeInv, TypeOK
  <2>3. CASE StopClear
    BY <2>3 DEF StopClear
  <2> QED
    BY <2>1, <2>2, <2>3
<1>3. AtMostOnce'
  BY <1>1 DEF OnceInv, AtMostOnce
<1>4. \A t \in Sockets : push_socket'[t] \in {"none", "open"} => sent[t] = << >>
  BY <1>2 DEF OnceInv
<1>5. \A w \in Workers : wsock[w] # Junk => wsock[w] \in Sockets
  BY DEF TypeInv, TypeOK
<1>6. CASE SubscribeBind \/ StopClose
  <2>1. subscribers_sockets' = subscribers_sockets
    BY <1>6 DEF SubscribeBind, StopClose
  <2>2. \A w \in Workers :
          wpc[w] = "send" /\ wsock[w] # Junk /\ push_socket'[wsock[w]] # "closed" =>
            /\ wi[w] <= subscribers_sockets.size
            /\ subscribers_sockets.slot[wi[w]] = wsock[w]
    BY <1>2, <1>5 DEF OnceInv
  <2> QED
    BY <1>1, <1>3, <1>4, <2>1, <2>2 DEF OnceInv, Got, Busy, workerVars
<1>7. CASE StopClear
  <2>1. subscribers_sockets'.size = 0 /\ push_socket' = push_socket /\ mpc = "closing"
    BY <1>7 DEF StopClear, ClearTable, clear
  <2>2. \A i \in 1 .. subscribers_sockets.size :
          push_socket[subscribers_sockets.slot[i]] = "closed"
    BY <1>7, <2>1 DEF StopClear, PastEnd, TableInv, TableOwnsSockets, TypeInv, TypeOK, IsVector
  <2>3. \A w \in Workers : wpc[w] = "send" /\ wsock[w] # Junk =>
          push_socket[wsock[w]] = "closed"
    <3> SUFFICES ASSUME NEW w \in Workers, wpc[w] = "send", wsock[w] # Junk,
                        push_socket[wsock[w]] # "closed"
                 PROVE  FALSE
      OBVIOUS
    <3>1. wi[w] <= subscribers_sockets.size /\ subscribers_sockets.slot[wi[w]] = wsock[w]
      BY DEF OnceInv
    <3>2. wi[w] \in Nat /\ wi[w] >= 1 /\ subscribers_sockets.size \in Nat
      BY DEF TypeInv, TypeOK, Locals, Busy, IsVector
    <3> QED
      BY <2>2, <3>1, <3>2
  <2>4. \A w \in Workers : Busy(w) => wi[w] \in Nat /\ wi[w] >= 1
    BY DEF TypeInv, TypeOK, Locals
  <2>5. \A w \in Workers : Busy(w) => wi[w] .. 0 = {}
    BY <2>4
  <2> QED
    BY <1>1, <1>3, <1>4, <2>1, <2>3, <2>5 DEF OnceInv, Got, Busy, workerVars
<1> QED
  BY <1>6, <1>7

(* A received frame is newer than all that were sent or are in hand.       *)
LEMMA RecvFrameOnceInv ==
  ASSUME TypeInv, OnceInv, NEW w \in Workers, RecvFrame(w)
  PROVE  OnceInv'
<1>1. /\ wpc[w] = "recv" /\ wpc' = [wpc EXCEPT ![w] = "loop"]
      /\ taken \in Nat /\ taken' = taken + 1
      /\ wframe' = [wframe EXCEPT ![w] = taken + 1]
      /\ wi' = [wi EXCEPT ![w] = 1]
      /\ UNCHANGED <<push_socket, subscribers_sockets, wsock, sent>>
  BY MaxFramesAssumption DEF RecvFrame, At, GoTo, FirstIndex, tableVars, TypeInv, TypeOK
<1>2. \A v \in Workers : Busy(v)' => v = w \/ Busy(v)
  BY <1>1 DEF Busy, TypeInv, TypeOK
<1>3. /\ wframe'[w] = taken + 1
      /\ \A v \in Workers \ {w} : wframe'[v] = wframe[v] /\ wi'[v] = wi[v] /\ wpc'[v] = wpc[v]
      /\ wpc'[w] = "loop"
  BY <1>1 DEF TypeInv, TypeOK
<1>4. \A s \in Sockets : \A i \in 1 .. Len(sent[s]) :
        sent[s][i] <= taken /\ sent[s][i] \in Nat
  <2> SUFFICES ASSUME NEW s \in Sockets, NEW i \in 1 .. Len(sent[s])
               PROVE  sent[s][i] <= taken /\ sent[s][i] \in Nat
    OBVIOUS
  <2>1. sent[s] \in Seq(1 .. MaxFrames)
    BY DEF TypeInv, TypeOK
  <2>2. sent[s][i] \in 1 .. MaxFrames
    BY <2>1, ElementOfSeq
  <2> QED
    BY <2>2, MaxFramesAssumption DEF OnceInv
<1>5. \A v \in Workers : Busy(v) => wframe[v] <= taken /\ wframe[v] \in Nat
  BY MaxFramesAssumption DEF OnceInv, TypeInv, TypeOK
<1>6. AtMostOnce'
  BY <1>1 DEF OnceInv, AtMostOnce
<1>7. \A s \in Sockets : \A i \in 1 .. Len(sent[s]) : sent[s][i] <= taken + 1
  BY <1>1, <1>4
<1>8. \A v \in Workers : Busy(v)' => wframe'[v] <= taken + 1
  BY <1>1, <1>2, <1>3, <1>5
<1>9. \A u, v \in Workers : Busy(u)' /\ Busy(v)' /\ wframe'[u] = wframe'[v] => u = v
  <2>1. \A v \in Workers : v # w /\ Busy(v)' => Busy(v) /\ wframe'[v] # taken + 1
    BY <1>1, <1>2, <1>3, <1>5
  <2> QED
    BY <1>3, <2>1 DEF OnceInv
<1>10. \A s \in Sockets : ~Got(s, taken + 1)
  BY <1>1, <1>4 DEF Got
<1>11. \A v \in Workers : Busy(v)' =>
         \A j \in wi'[v] .. subscribers_sockets.size :
           ~Got(subscribers_sockets.slot[j], wframe'[v])
  <2>1. ASSUME NEW j \in 1 .. subscribers_sockets.size
        PROVE  ~Got(subscribers_sockets.slot[j], wframe'[w])
    BY <1>3, <1>10, <2>1 DEF TypeInv, TypeOK, IsVector
  <2>2. wi'[w] = 1
    BY <1>1 DEF TypeInv, TypeOK
  <2> QED
    BY <1>2, <1>3, <2>1, <2>2 DEF OnceInv
<1>12. \A v \in Workers : wpc'[v] = "send" => v # w /\ wpc[v] = "send" /\ wi'[v] = wi[v]
  BY <1>3
<1> QED
  BY <1>1, <1>6, <1>7, <1>8, <1>9, <1>11, <1>12 DEF OnceInv, Got

(* at(i) loads what is at the index, or from the torn vector nothing.      *)
LEMMA AtLoadOnceInv ==
  ASSUME TypeInv, TypeInv', TableInv, OnceInv, NEW w \in Workers, AtLoad(w)
  PROVE  OnceInv'
<1>1. /\ wpc[w] = "at" /\ wpc' = [wpc EXCEPT ![w] = "send"]
      /\ UNCHANGED <<push_socket, subscribers_sockets, taken, sent, wi, wframe>>
  BY DEF AtLoad, At, GoTo, tableVars, flowVars
<1>2. \A v \in Workers : Busy(v)' => Busy(v)
  BY <1>1 DEF Busy, TypeInv, TypeOK
<1>3. \A v \in Workers \ {w} : wsock'[v] = wsock[v] /\ wpc'[v] = wpc[v]
  BY <1>1 DEF AtLoad, TypeInv, TypeOK
<1>4. wsock'[w] # Junk => /\ wi[w] <= subscribers_sockets.size
                          /\ subscribers_sockets.slot[wi[w]] = wsock'[w]
  BY DEF AtLoad, InRange, TypeInv, TypeOK
<1>5. AtMostOnce'
  BY <1>1 DEF OnceInv, AtMostOnce
<1>6. \A v \in Workers :
        wpc'[v] = "send" /\ wsock'[v] # Junk /\ push_socket[wsock'[v]] # "closed" =>
          /\ wi[v] <= subscribers_sockets.size
          /\ subscribers_sockets.slot[wi[v]] = wsock'[v]
  BY <1>3, <1>4 DEF OnceInv
<1> QED
  BY <1>1, <1>2, <1>5, <1>6 DEF OnceInv, Got

(* The socket that accepts the result is the one at the index: it did not  *)
(* have the frame, and the sockets after it are others.                    *)
LEMMA SendAcceptedOnceInv ==
  ASSUME TypeInv, TableInv, OnceInv, NEW w \in Workers, SendAccepted(w)
  PROVE  OnceInv'
<1> DEFINE s == wsock[w]
           f == wframe[w]
           n == subscribers_sockets.size
<1>1. /\ wpc[w] = "send" /\ wpc' = [wpc EXCEPT ![w] = "loop"]
      /\ s \in Sockets /\ s # Junk /\ push_socket[s] = "bound"
      /\ f \in 1 .. MaxFrames /\ Busy(w)
      /\ sent' = [sent EXCEPT ![s] = Append(@, f)]
      /\ wi' = [wi EXCEPT ![w] = @ + 1]
      /\ wsock' = [wsock EXCEPT ![w] = Junk]
      /\ UNCHANGED <<push_socket, subscribers_sockets, wframe, taken>>
  BY DEF SendAccepted, NextSubscriber, At, GoTo, tableVars, TypeInv, TypeOK, Locals, Busy
<1>2. /\ wi[w] \in Nat /\ wi[w] >= 1 /\ n \in Nat
      /\ wi[w] <= n /\ subscribers_sockets.slot[wi[w]] = s
  BY <1>1 DEF OnceInv, TypeInv, TypeOK, Locals, IsVector
<1>3. ~Got(s, f)
  BY <1>1, <1>2 DEF OnceInv
<1>4. /\ sent[s] \in Seq(1 .. MaxFrames)
      /\ Len(sent'[s]) = Len(sent[s]) + 1
      /\ \A i \in 1 .. Len(sent[s]) : sent'[s][i] = sent[s][i]
      /\ sent'[s][Len(sent[s]) + 1] = f
  <2>1. sent[s] \in Seq(1 .. MaxFrames) /\ sent'[s] = Append(sent[s], f)
    BY <1>1 DEF TypeInv, TypeOK
  <2> QED
    BY <1>1, <2>1, AppendProperties
<1>5. \A t \in Sockets \ {s} : sent'[t] = sent[t]
  BY <1>1 DEF TypeInv, TypeOK
<1>6. \A i \in 1 .. Len(sent'[s]) : i \in 1 .. Len(sent[s]) \/ i = Len(sent[s]) + 1
  BY <1>4
<1>7. AtMostOnce'
  <2>1. \A i \in 1 .. Len(sent[s]) : sent[s][i] # f
    BY <1>3 DEF Got
  <2>2. \A i, j \in 1 .. Len(sent[s]) : sent[s][i] = sent[s][j] => i = j
    BY <1>1 DEF OnceInv, AtMostOnce
  <2>3. \A i, j \in 1 .. Len(sent'[s]) : sent'[s][i] = sent'[s][j] => i = j
    BY <1>4, <1>6, <2>1, <2>2
  <2>4. \A t \in Sockets \ {s} : \A i, j \in 1 .. Len(sent'[t]) :
          sent'[t][i] = sent'[t][j] => i = j
    BY <1>5 DEF OnceInv, AtMostOnce
  <2> QED
    BY <2>3, <2>4 DEF AtMostOnce
<1>8. \A t \in Sockets : push_socket[t] \in {"none", "open"} => sent'[t] = << >>
  BY <1>1, <1>5 DEF OnceInv
<1>9. \A t \in Sockets : \A i \in 1 .. Len(sent'[t]) : sent'[t][i] <= taken
  <2>1. \A i \in 1 .. Len(sent'[s]) : sent'[s][i] <= taken
    BY <1>1, <1>4, <1>6 DEF OnceInv
  <2> QED
    BY <1>5, <2>1 DEF OnceInv
<1>10. \A v \in Workers : Busy(v)' => Busy(v)
  BY <1>1 DEF Busy, TypeInv, TypeOK
<1>11. \A t \in Sockets : \A g : Got(t, g)' => Got(t, g) \/ (t = s /\ g = f)
  BY <1>4, <1>5, <1>6 DEF Got
<1>12. ASSUME NEW v \in Workers, Busy(v)', NEW j \in wi'[v] .. n
       PROVE  ~Got(subscribers_sockets.slot[j], wframe[v])'
  <2>1. /\ Busy(v) /\ wi[v] \in Nat /\ wi[v] >= 1
        /\ wi'[v] \in Nat /\ wi'[v] >= wi[v]
        /\ v = w => wi'[v] = wi[v] + 1
    BY <1>1, <1>2, <1>10, <1>12 DEF TypeInv, TypeOK, Locals
  <2>2. j \in 1 .. n /\ j \in wi[v] .. n /\ subscribers_sockets.slot[j] \in Sockets
    BY <1>2, <1>12, <2>1 DEF TypeInv, TypeOK, IsVector
  <2>3. ~Got(subscribers_sockets.slot[j], wframe[v])
    BY <2>1, <2>2 DEF OnceInv
  <2>4. CASE v # w
    BY <1>1, <1>11, <2>1, <2>2, <2>3, <2>4 DEF OnceInv
  <2>5. CASE v = w
    <3>1. subscribers_sockets.slot[j] # s
      BY <1>2, <1>12, <2>1, <2>2, <2>5 DEF TableInv
    <3> QED
      BY <1>1, <1>11, <2>2, <2>3, <3>1
  <2> QED
    BY <2>4, <2>5
<1>13. \A v \in Workers : wpc'[v] = "send" =>
         wpc[v] = "send" /\ wsock'[v] = wsock[v] /\ wi'[v] = wi[v]
  BY <1>1 DEF TypeInv, TypeOK
<1> QED
  BY <1>1, <1>7, <1>8, <1>9, <1>10, <1>12, <1>13 DEF OnceInv

LEMMA NextOnceInv == TypeInv /\ TypeInv' /\ TableInv /\ OnceInv /\ [Next]_vars => OnceInv'
<1> SUFFICES ASSUME TypeInv, TypeInv', TableInv, OnceInv, [Next]_vars PROVE OnceInv'
  OBVIOUS
<1> USE DEF mainVars, tableVars, workerVars, flowVars
<1>1. CASE Command
  <2>1. CASE Config \/ ConfigFault \/ StopBegin
    <3>1. UNCHANGED <<push_socket, subscribers_sockets, workerVars, taken, sent>>
      BY <2>1 DEF Config, ConfigFault, Abort, StopBegin
    <3> QED
      BY <3>1, OnceInvKept DEF Busy, TypeInv, TypeOK
  <2>2. ASSUME NEW e \in Endpoints, SubscribeRefused(e) PROVE OnceInv'
    <3>1. UNCHANGED <<push_socket, subscribers_sockets, workerVars, taken, sent>>
      BY <2>2 DEF SubscribeRefused
    <3> QED
      BY <3>1, OnceInvKept DEF Busy, TypeInv, TypeOK
  <2>3. ASSUME NEW e \in Endpoints, NEW s \in Sockets, SubscribeNew(e, s) PROVE OnceInv'
    BY <2>3, SubscribeNewOnceInv
  <2>4. ASSUME NEW w \in Workers, Start(w) PROVE OnceInv'
    <3>1. /\ UNCHANGED <<push_socket, subscribers_sockets, wi, wsock, wframe, taken, sent>>
          /\ wpc' = [wpc EXCEPT ![w] = "check"]
      BY <2>4 DEF Start
    <3> QED
      BY <3>1, OnceInvKept DEF Busy, TypeInv, TypeOK
  <2> QED
    BY <1>1, <2>1, <2>2, <2>3, <2>4 DEF Command
<1>2. CASE MainContinues
  BY <1>2, SubscribeGrownOnceInv, SocketsAgeOnceInv DEF MainContinues
<1>3. ASSUME NEW w \in Workers, WorkerStep(w) PROVE OnceInv'
  <2> USE DEF At, GoTo
  <2>1. CASE RecvFrame(w)
    BY <2>1, RecvFrameOnceInv
  <2>2. CASE AtLoad(w)
    BY <2>2, AtLoadOnceInv
  <2>3. CASE SendAccepted(w)
    BY <2>3, SendAcceptedOnceInv
  <2>4. CASE CheckStop(w) \/ RecvTimeout(w) \/ LoopEnter(w) \/ WorkerExit(w)
    <3>1. /\ UNCHANGED <<push_socket, subscribers_sockets, wi, wsock, wframe, taken, sent>>
          /\ \A v \in Workers : Busy(v)' => Busy(v)
          /\ \A v \in Workers : wpc'[v] = "send" => wpc[v] = "send"
      BY <2>4, SMTT(40) DEF CheckStop, RecvTimeout, LoopEnter, WorkerExit, Busy, TypeInv, TypeOK
    <3> QED
      BY <3>1, OnceInvKept DEF TypeInv, TypeOK
  <2>5. CASE LoopLeave(w)
    <3>1. /\ UNCHANGED <<push_socket, subscribers_sockets, wsock, taken, sent>>
          /\ wpc' = [wpc EXCEPT ![w] = "check"]
          /\ wi' = [wi EXCEPT ![w] = 0]
          /\ wframe' = [wframe EXCEPT ![w] = 0]
      BY <2>5 DEF LoopLeave
    <3> QED
      BY <3>1, OnceInvKept DEF Busy, TypeInv, TypeOK
  <2>6. CASE SendDropped(w)
    <3>1. /\ UNCHANGED <<push_socket, subscribers_sockets, wframe, taken, sent>>
          /\ wpc[w] = "send" /\ wpc' = [wpc EXCEPT ![w] = "loop"]
          /\ wi' = [wi EXCEPT ![w] = @ + 1]
          /\ wsock' = [wsock EXCEPT ![w] = Junk]
      BY <2>6 DEF SendDropped, NextSubscriber
    <3>2. \A v \in Workers : Busy(v)' => Busy(v) /\ wframe'[v] = wframe[v] /\ wi'[v] >= wi[v]
      BY <3>1 DEF Busy, TypeInv, TypeOK
    <3>3. \A v \in Workers : wpc'[v] = "send" =>
            wpc[v] = "send" /\ wsock'[v] = wsock[v] /\ wi'[v] = wi[v]
      BY <3>1 DEF TypeInv, TypeOK
    <3> QED
      BY <3>1, <3>2, <3>3, OnceInvKept
  <2>7. CASE RecvFault(w) \/ AtThrow(w) \/ SendFault(w) \/ ExitFault(w)
    <3>1. UNCHANGED <<push_socket, subscribers_sockets, workerVars, taken, sent>>
      BY <2>7 DEF RecvFault, AtThrow, SendFault, ExitFault, Abort
    <3> QED
      BY <3>1, OnceInvKept DEF Busy, TypeInv, TypeOK
  <2> QED
    BY <1>3, <2>1, <2>2, <2>3, <2>4, <2>5, <2>6, <2>7 DEF WorkerStep
<1>4. CASE UNCHANGED vars
  BY <1>4, OnceInvKept DEF vars, Busy, TypeInv, TypeOK
<1> QED
  BY <1>1, <1>2, <1>3, <1>4 DEF Next

(* No push socket accepts two results for one frame, even when stop clears *)
(* the vector, or subscribe reallocates it, under a worker that iterates it*)
(* and even when several workers iterate it at once.                       *)
THEOREM NeverTwice == Spec => []AtMostOnce
<1>1. OnceInv => AtMostOnce
  BY DEF OnceInv
<1> QED
  BY <1>1, InitTypeInv, NextTypeInv, InitTableInv, NextTableInv, InitOnceInv, NextOnceInv, PTL
  DEF Spec


-----------------------------------------------------------------------------
(* EdgeNode implements SubscriberTable: every step of the program adds one *)
(* row, empties the table, or leaves it as it is.                          *)

(* A sequence that agrees with f on all of f and has one element more.     *)
LEMMA ExtendsByOne ==
  ASSUME NEW S, NEW n \in Nat, NEW f \in [1 .. n -> S], NEW g \in [1 .. n + 1 -> S],
         \A i \in 1 .. n : g[i] = f[i]
  PROVE  f \in Seq(S) /\ Len(f) = n /\ g = Append(f, g[n + 1])
<1>1. f \in Seq(S) /\ Len(f) = n
  OBVIOUS
<1>2. g \in Seq(S) /\ Len(g) = n + 1
  OBVIOUS
<1>3. g[n + 1] \in S
  OBVIOUS
<1>4. /\ Append(f, g[n + 1]) \in Seq(S)
      /\ Len(Append(f, g[n + 1])) = n + 1
      /\ \A i \in 1 .. n : Append(f, g[n + 1])[i] = f[i]
      /\ Append(f, g[n + 1])[n + 1] = g[n + 1]
  BY <1>1, <1>3, AppendProperties
<1>5. \A i \in 1 .. Len(g) : g[i] = Append(f, g[n + 1])[i]
  BY <1>2, <1>4
<1> QED
  BY <1>1, <1>2, <1>4, <1>5, SeqEqual

LEMMA InitTable == Init => Table!TableInit
<1> SUFFICES ASSUME Init PROVE Table!TableInit
  OBVIOUS
<1>1. TableRows = << >>
  BY DEF Init, EmptyVector, TableRows
<1>2. SocketsUsed = {}
  BY DEF Init, SocketsUsed
<1> QED
  BY <1>1, <1>2 DEF Table!TableInit

(* The vector gains a socket: the table gains the row of that socket.      *)
LEMMA JoinAddsRow ==
  ASSUME TypeInv, TypeInv', TableInv, TableInv',
         NEW e \in Endpoints, NEW s \in Sockets,
         subscribers_sockets' = push_back(subscribers_sockets, s),
         s \notin SocketsUsed,
         SocketsUsed' = SocketsUsed \cup {s},
         mpc' = "bind",
         subscribers'.slot[subscribers_sockets.size + 1] = e,
         \A i \in 1 .. subscribers_sockets.size : subscribers'.slot[i] = subscribers.slot[i]
  PROVE  Table!Add(e, s)
<1> DEFINE n == subscribers_sockets.size
<1>1. n \in Nat /\ IsVector(subscribers_sockets, Sockets)
  BY SMTT(40) DEF TypeInv, TypeOK, IsVector
<1>2. /\ subscribers_sockets'.size = n + 1
      /\ \A i \in 1 .. n : subscribers_sockets'.slot[i] = subscribers_sockets.slot[i]
      /\ subscribers_sockets'.slot[n + 1] = s
  <2> DEFINE old == subscribers_sockets
  <2>1. IsVector(old, Sockets)
    BY <1>1
  <2>2. /\ IsVector(push_back(old, s), Sockets)
        /\ push_back(old, s).size = old.size + 1
        /\ \A i \in 1 .. old.size : push_back(old, s).slot[i] = old.slot[i]
        /\ push_back(old, s).slot[old.size + 1] = s
    <3> HIDE DEF old
    <3> QED
      BY ONLY s \in Sockets, <2>1, PushBackIsVector, ZenonT(40)
  <2> QED
    BY <2>2
<1>3. subscribers'.size = n + 1
  <2>1. TableConsistent'
    BY DEF TableInv
  <2> QED
    BY <1>1, <1>2, <2>1 DEF TableConsistent
<1>4. TableRows \in [1 .. n -> Table!Rows]
  <2>1. n <= subscribers.size /\ subscribers.size \in Nat
    BY <1>1, SMTT(40) DEF TypeInv, TypeOK, IsVector, TableInv, TableConsistent
  <2>2. \A i \in 1 .. n : /\ subscribers.slot[i] \in Endpoints
                          /\ subscribers_sockets.slot[i] \in Sockets
    <3>1. IsVector(subscribers, Endpoints)
      BY DEF TypeInv, TypeOK
    <3>2. \A i \in 1 .. subscribers.size : subscribers.slot[i] \in Endpoints
      BY ONLY <3>1 DEF IsVector
    <3>3. \A i \in 1 .. n : subscribers_sockets.slot[i] \in Sockets
      BY ONLY <1>1 DEF IsVector
    <3>4. \A i \in 1 .. n : i \in 1 .. subscribers.size
      BY ONLY <1>1, <2>1
    <3> QED
      BY <3>2, <3>3, <3>4
  <2> QED
    BY <2>2 DEF TableRows, Table!Rows
<1>5. \A i \in 1 .. n + 1 : i \in 1 .. n \/ i = n + 1
  BY <1>1
<1>6. TableRows' = [i \in 1 .. n + 1 |->
                      [endpoint |-> subscribers'.slot[i],
                       socket |-> subscribers_sockets'.slot[i]]]
  BY <1>2 DEF TableRows
<1>7. \A i \in 1 .. n : TableRows'[i] = TableRows[i]
  BY <1>1, <1>2, <1>5, <1>6 DEF TableRows
<1>8. TableRows'[n + 1] = [endpoint |-> e, socket |-> s]
  BY <1>1, <1>2, <1>6
<1>9. TableRows' \in [1 .. n + 1 -> Table!Rows]
  <2>1. \A i \in 1 .. n + 1 : TableRows'[i] \in Table!Rows
    BY <1>4, <1>5, <1>7, <1>8 DEF Table!Rows
  <2> QED
    BY <1>6, <2>1
<1>10. Len(TableRows) = n /\ TableRows' = Append(TableRows, [endpoint |-> e, socket |-> s])
  <2> HIDE DEF n
  <2> QED
    BY <1>1, <1>4, <1>7, <1>8, <1>9, ExtendsByOne
<1>11. \A i \in 1 .. n : TableRows[i].endpoint # e
  <2>1. \A i, j \in 1 .. n + 1 : subscribers'.slot[i] = subscribers'.slot[j] => i = j
    BY <1>3 DEF TableInv, TableConsistent
  <2>2. \A i \in 1 .. n : subscribers'.slot[i] # e
    BY <1>1, <2>1
  <2> QED
    BY <2>2 DEF TableRows
<1> QED
  BY <1>10, <1>11 DEF Table!Add

(* Without a change of the vectors' elements the table stays.              *)
LEMMA TableKept ==
  ASSUME TypeInv, TableInv,
         UNCHANGED subscribers_sockets,
         \A i \in 1 .. subscribers_sockets.size : subscribers'.slot[i] = subscribers.slot[i],
         SocketsUsed' = SocketsUsed
  PROVE  UNCHANGED <<TableRows, SocketsUsed>>
<1>1. TableRows' = TableRows
  BY DEF TableRows
<1> QED
  BY <1>1

LEMMA NextTable ==
  TypeInv /\ TypeInv' /\ TableInv /\ TableInv' /\ [Next]_vars
    => [Table!TableNext]_(Table!tableAndUsed)
<1> SUFFICES ASSUME TypeInv, TypeInv', TableInv, TableInv', [Next]_vars
             PROVE  Table!TableNext \/ UNCHANGED <<TableRows, SocketsUsed>>
  BY DEF Table!tableAndUsed
<1> USE DEF Idle, Running, mainVars
<1>1. ASSUME UNCHANGED <<tableVars, mpc, msock>>
      PROVE  UNCHANGED <<TableRows, SocketsUsed>>
  BY <1>1, TableKept DEF tableVars, SocketsUsed
<1>2. CASE Command
  <2>1. CASE Config \/ ConfigFault
    BY <1>1, <2>1 DEF Config, ConfigFault, Abort
  <2>2. ASSUME NEW e \in Endpoints, SubscribeRefused(e)
        PROVE  UNCHANGED <<TableRows, SocketsUsed>>
    BY <1>1, <2>2 DEF SubscribeRefused
  <2>3. ASSUME NEW w \in Workers, Start(w)
        PROVE  UNCHANGED <<TableRows, SocketsUsed>>
    BY <1>1, <2>3 DEF Start
  <2>4. CASE StopBegin
    <3>1. UNCHANGED tableVars /\ mpc # "grow" /\ mpc' # "grow"
      BY <2>4 DEF StopBegin
    <3> QED
      BY <3>1, TableKept DEF tableVars, SocketsUsed
  <2>5. ASSUME NEW e \in Endpoints, NEW s \in Sockets, SubscribeNew(e, s)
        PROVE  Table!TableNext \/ UNCHANGED <<TableRows, SocketsUsed>>
    <3> DEFINE n == subscribers_sockets.size
    <3>1. /\ mpc = "idle" /\ msock' = s
          /\ push_socket[s] = "none"
          /\ push_socket' = [push_socket EXCEPT ![s] = "open"]
          /\ subscribers' = push_back(subscribers, e)
          /\ IsVector(subscribers, Endpoints)
      BY <2>5 DEF SubscribeNew, TypeInv, TypeOK
    <3>2. push_socket'[s] = "open" /\ \A t \in Sockets \ {s} : push_socket'[t] = push_socket[t]
      BY <3>1 DEF TypeInv, TypeOK
    <3>3. subscribers.size = n
      BY <3>1 DEF TableInv, TableConsistent, TypeInv, TypeOK, IsVector
    <3>4. /\ \A i \in 1 .. n : subscribers'.slot[i] = subscribers.slot[i]
          /\ subscribers'.slot[n + 1] = e
      <4> DEFINE old == subscribers
      <4>1. IsVector(old, Endpoints)
        BY <3>1
      <4>2. /\ IsVector(push_back(old, e), Endpoints)
            /\ push_back(old, e).size = old.size + 1
            /\ \A i \in 1 .. old.size : push_back(old, e).slot[i] = old.slot[i]
            /\ push_back(old, e).slot[old.size + 1] = e
        <5> HIDE DEF old
        <5> QED
          BY ONLY e \in Endpoints, <4>1, PushBackIsVector, ZenonT(40)
      <4> QED
        BY <3>1, <3>3, <4>2
    <3>5. s \notin SocketsUsed
      BY <3>1 DEF SocketsUsed
    <3>6. CASE ~Full(subscribers_sockets)
      <4>1. mpc' = "bind" /\ subscribers_sockets' = push_back(subscribers_sockets, s)
        BY <2>5, <3>6 DEF SubscribeNew
      <4>2. SocketsUsed' = SocketsUsed \cup {s}
        BY <3>1, <3>2, <4>1 DEF SocketsUsed
      <4>3. Table!Add(e, s)
        BY <3>4, <3>5, <4>1, <4>2, JoinAddsRow
      <4> QED
        BY <4>3 DEF Table!TableNext
    <3>7. CASE Full(subscribers_sockets)
      <4>1. mpc' = "grow" /\ subscribers_sockets' = subscribers_sockets
        BY <2>5, <3>7 DEF SubscribeNew
      <4>2. SocketsUsed' = SocketsUsed
        BY <3>1, <3>2, <4>1 DEF SocketsUsed
      <4> QED
        BY <3>4, <4>1, <4>2, TableKept
    <3> QED
      BY <3>6, <3>7
  <2> QED
    BY <1>2, <2>1, <2>2, <2>3, <2>4, <2>5 DEF Command
<1>3. CASE SubscribeGrown
  <2> DEFINE e == subscribers.slot[subscribers_sockets.size + 1]
  <2>1. /\ mpc = "grow" /\ mpc' = "bind" /\ msock \in Sockets
        /\ subscribers_sockets' = push_back(subscribers_sockets, msock)
        /\ UNCHANGED <<subscribers, push_socket, msock>>
        /\ push_socket[msock] = "open"
    BY <1>3 DEF SubscribeGrown, TypeInv, Locals, TableInv
  <2>2. msock \notin SocketsUsed /\ SocketsUsed' = SocketsUsed \cup {msock}
    BY <2>1 DEF SocketsUsed
  <2>3. e \in Endpoints
    BY <2>1 DEF TypeInv, TypeOK, IsVector, TableInv, TableConsistent
  <2>4. Table!Add(e, msock)
    <3> HIDE DEF e
    <3>1. subscribers'.slot[subscribers_sockets.size + 1] = e
      BY <2>1 DEF e
    <3> QED
      BY <2>1, <2>2, <2>3, <3>1, JoinAddsRow
  <2> QED
    BY <2>1, <2>3, <2>4 DEF Table!TableNext
<1>4. CASE SubscribeBind
  <2>1. /\ mpc = "bind" /\ mpc' = "idle" /\ msock \in Sockets
        /\ UNCHANGED <<subscribers, subscribers_sockets>>
        /\ push_socket[msock] = "open"
    BY <1>4 DEF SubscribeBind, TypeInv, Locals, TableInv
  <2>2. /\ push_socket'[msock] # "none"
        /\ \A t \in Sockets \ {msock} : push_socket'[t] = push_socket[t]
    BY <1>4, <2>1 DEF SubscribeBind, TypeInv, TypeOK
  <2>3. SocketsUsed' = SocketsUsed
    BY <2>1, <2>2 DEF SocketsUsed
  <2> QED
    BY <2>1, <2>3, TableKept
<1>5. CASE StopClose
  <2> DEFINE s == subscribers_sockets.slot[mi]
  <2>1. /\ mpc = "closing" /\ mpc' = "closing"
        /\ UNCHANGED <<subscribers, subscribers_sockets>>
        /\ push_socket' = [push_socket EXCEPT ![s] = "closed"]
        /\ mi \in 1 .. subscribers_sockets.size
    BY <1>5 DEF StopClose, InRange, TableInv, TypeInv, TypeOK, IsVector
  <2>2. s \in Sockets /\ push_socket[s] # "none"
    BY <2>1 DEF TableInv, TypeInv, TypeOK, IsVector
  <2>3. \A t \in Sockets : push_socket'[t] = "none" <=> push_socket[t] = "none"
    <3> HIDE DEF s
    <3> QED
      BY <2>1, <2>2 DEF TypeInv, TypeOK
  <2>4. SocketsUsed' = SocketsUsed
    BY <2>1, <2>3 DEF SocketsUsed
  <2> QED
    BY <2>1, <2>4, TableKept
<1>6. CASE StopClear
  <2>1. /\ mpc = "closing" /\ mpc' = "idle" /\ push_socket' = push_socket
        /\ subscribers_sockets'.size = 0
    BY <1>6 DEF StopClear, ClearTable, clear
  <2>2. SocketsUsed' = SocketsUsed
    BY <2>1 DEF SocketsUsed
  <2>3. TableRows' = << >>
    BY <2>1 DEF TableRows
  <2> QED
    BY <2>2, <2>3 DEF Table!TableNext, Table!Empty
<1>7. ASSUME NEW w \in Workers, WorkerStep(w)
      PROVE  UNCHANGED <<TableRows, SocketsUsed>>
  BY <1>1, <1>7 DEF WorkerStep, CheckStop, RecvTimeout, RecvFrame, RecvFault, LoopEnter,
     LoopLeave, AtLoad, AtThrow, SendAccepted, SendDropped, SendFault, WorkerExit,
     ExitFault, Abort
<1>8. CASE UNCHANGED vars
  BY <1>1, <1>8 DEF vars
<1> QED
  BY <1>2, <1>3, <1>4, <1>5, <1>6, <1>7, <1>8 DEF Next, MainContinues

(* The pair of vectors behaves as one table of rows, for every order of    *)
(* commands and whatever the workers do meanwhile.                         *)
THEOREM TableImplemented == Spec => ImplementsTable
<1> QED
  BY InitTypeInv, NextTypeInv, InitTableInv, NextTableInv, InitTable, NextTable, PTL
  DEF Spec, ImplementsTable, Table!TableSpec

-----------------------------------------------------------------------------
(* CarefulManager: under its rules the process never dies and every        *)
(* subscriber sees frames in order.                                        *)

CarefulInv ==
  /\ NoAbort
  /\ m_handler # "garbage"
  /\ \A v, w \in Workers : Live(v) /\ Live(w) => v = w
  /\ FrozenWhileBusy

LEMMA InitCarefulInv == CarefulInit => CarefulInv
BY DEF CarefulInit, Init, CarefulInv, NoAbort, FrozenWhileBusy, Live, Busy

(* Steps after which no worker is busy need nothing said about the vector. *)
LEMMA NobodyBusy ==
  ASSUME CarefulInv, status' = "running", UNCHANGED <<m_handler, wpc>>,
         \A w \in Workers : ~Busy(w)
  PROVE  CarefulInv'
BY DEF CarefulInv, NoAbort, FrozenWhileBusy, Live, Busy

LEMMA CommandCarefulInv == TypeInv /\ CarefulInv /\ Command /\ Careful => CarefulInv'
<1> SUFFICES ASSUME TypeInv, CarefulInv, Command, Careful PROVE CarefulInv'
  OBVIOUS
<1> USE DEF Idle, Running, mainVars, tableVars, workerVars, flowVars
<1>1. CASE Config
  BY <1>1 DEF Config, initHandler, CarefulInv, NoAbort, FrozenWhileBusy, Live, Busy
<1>2. CASE ConfigFault
  BY <1>2 DEF ConfigFault, CarefulInv
<1>3. ASSUME NEW e \in Endpoints, SubscribeRefused(e) PROVE CarefulInv'
  BY <1>3 DEF SubscribeRefused, CarefulInv, NoAbort, FrozenWhileBusy, Live, Busy
<1>4. ASSUME NEW e \in Endpoints, NEW s \in Sockets, SubscribeNew(e, s) PROVE CarefulInv'
  <2>1. BeginsTableCommand /\ status' = "running" /\ UNCHANGED <<m_handler, wpc>>
    BY <1>4 DEF SubscribeNew, BeginsTableCommand
  <2> QED
    BY <2>1, NobodyBusy DEF Careful
<1>5. ASSUME NEW w \in Workers, Start(w) PROVE CarefulInv'
  <2>1. /\ wpc[w] = "none" /\ wpc' = [wpc EXCEPT ![w] = "check"]
        /\ status' = "running" /\ m_handler' # "garbage"
    BY <1>5 DEF Start, initHandler, CarefulInv
  <2>2. wpc'[w] = "check" /\ \A v \in Workers \ {w} : wpc'[v] = wpc[v]
    BY <2>1 DEF TypeInv, TypeOK
  <2>3. StartsWorker
    BY <2>1, <2>2 DEF StartsWorker
  <2>4. \A v \in Workers : ~Live(v)
    BY <2>3 DEF Careful
  <2>5. \A v \in Workers : /\ Live(v)' => v = w
                           /\ ~Busy(v)'
    BY <2>2, <2>4 DEF Live, Busy
  <2> QED
    BY <2>1, <2>5 DEF CarefulInv, NoAbort, FrozenWhileBusy
<1>6. CASE StopBegin
  <2>1. BeginsTableCommand /\ status' = "running" /\ UNCHANGED <<m_handler, wpc>>
    BY <1>6 DEF StopBegin, BeginsTableCommand
  <2> QED
    BY <2>1, NobodyBusy DEF Careful
<1> QED
  BY <1>1, <1>2, <1>3, <1>4, <1>5, <1>6 DEF Command

LEMMA MainContinuesCarefulInv == TypeInv /\ CarefulInv /\ MainContinues => CarefulInv'
<1> SUFFICES ASSUME TypeInv, CarefulInv, MainContinues PROVE CarefulInv'
  OBVIOUS
<1>1. mpc # "idle" /\ status' = "running" /\ UNCHANGED <<m_handler, wpc>>
  BY DEF MainContinues, SubscribeGrown, SubscribeBind, StopClose, StopClear, Running,
         workerVars
<1>2. \A w \in Workers : ~Busy(w)
  BY <1>1 DEF CarefulInv, FrozenWhileBusy
<1> QED
  BY <1>1, <1>2, NobodyBusy

(* A worker moves: it is the only one there is.                            *)
LEMMA WorkerCarefulInv ==
  ASSUME TypeInv, TableInv, CarefulInv, NEW w \in Workers, WorkerStep(w), Careful
  PROVE  CarefulInv'
<1> USE DEF At, GoTo, Running, mainVars, tableVars, workerVars, flowVars
<1> DEFINE n == subscribers_sockets.size
<1>1. \A v \in Workers \ {w} : ~Live(v) /\ ~Busy(v)
  <2>1. Live(w)
    BY DEF WorkerStep, CheckStop, RecvTimeout, RecvFrame, RecvFault, LoopEnter, LoopLeave,
       AtLoad, AtThrow, SendAccepted, SendDropped, SendFault, WorkerExit, ExitFault, Live
  <2> QED
    BY <2>1 DEF CarefulInv, Live, Busy
<1>2. n \in Nat /\ wi[w] \in Nat /\ taken \in Nat
  BY MaxFramesAssumption DEF TypeInv, TypeOK, IsVector
<1>3. Busy(w) => /\ mpc = "idle" /\ wi[w] \in 1 .. n + 1 /\ wframe[w] = taken
                 /\ wpc[w] # "loop" => wi[w] <= n
                 /\ wpc[w] = "send" => wsock[w] = subscribers_sockets.slot[wi[w]]
  BY DEF CarefulInv, FrozenWhileBusy
<1>4. CASE RecvFault(w) \/ ExitFault(w)
  BY <1>4 DEF RecvFault, ExitFault, CarefulInv
<1>5. CASE AtThrow(w)
  BY <1>2, <1>3, <1>5 DEF AtThrow, Torn, PastEnd, Busy
<1>6. CASE SendFault(w)
  <2>1. wpc[w] = "send" /\ Busy(w) /\ mpc = "idle" /\ wi[w] \in 1 .. n
    BY <1>2, <1>3, <1>6 DEF SendFault, Busy
  <2>2. wsock[w] = subscribers_sockets.slot[wi[w]] /\ wsock[w] \in Sockets
    BY <1>3, <2>1 DEF TypeInv, TypeOK, IsVector
  <2>3. wsock[w] # Junk /\ push_socket[wsock[w]] # "closed"
    BY <2>1, <2>2, JunkAssumption DEF TableInv, TableOwnsSockets
  <2>4. ~SocketMisused(w)
    BY <1>1, <2>1, <2>3 DEF SocketMisused, Busy
  <2> QED
    BY <1>6, <2>4 DEF SendFault
<1>7. ASSUME NEW label \in {"check", "recv", "exit", "done"},
             wpc' = [wpc EXCEPT ![w] = label], UNCHANGED <<status, m_handler>>
      PROVE  CarefulInv'
  <2>1. wpc'[w] = label /\ \A v \in Workers \ {w} : wpc'[v] = wpc[v]
    BY <1>7 DEF TypeInv, TypeOK
  <2>2. \A v \in Workers : ~Busy(v)' /\ (v # w => ~Live(v)')
    BY <1>1, <2>1 DEF Busy, Live
  <2> QED
    BY <1>7, <2>2 DEF CarefulInv, NoAbort, FrozenWhileBusy
<1>8. CASE CheckStop(w)
  BY <1>7, <1>8 DEF CheckStop
<1>9. CASE RecvTimeout(w) \/ LoopLeave(w) \/ WorkerExit(w)
  BY <1>7, <1>9 DEF RecvTimeout, LoopLeave, WorkerExit
<1>10. ASSUME NEW label \in {"loop", "at", "send"},
              wpc' = [wpc EXCEPT ![w] = label],
              UNCHANGED <<status, m_handler, mpc, subscribers_sockets>>,
              mpc = "idle",
              wi'[w] \in 1 .. n + 1,
              label # "loop" => wi'[w] <= n,
              label = "send" => wsock'[w] = subscribers_sockets.slot[wi'[w]],
              wframe'[w] = taken'
       PROVE  CarefulInv'
  <2>1. wpc'[w] = label /\ \A v \in Workers \ {w} : wpc'[v] = wpc[v]
    BY <1>10 DEF TypeInv, TypeOK
  <2>2. \A v \in Workers : v # w => ~Live(v)' /\ ~Busy(v)'
    BY <1>1, <2>1 DEF Busy, Live
  <2> QED
    BY <1>10, <2>1, <2>2 DEF CarefulInv, NoAbort, FrozenWhileBusy
<1>11. CASE RecvFrame(w)
  <2>1. ReceivesFrame
    BY <1>2, <1>11 DEF RecvFrame, ReceivesFrame
  <2>2. mpc = "idle"
    BY <2>1 DEF Careful
  <2>3. wi'[w] = 1 /\ wframe'[w] = taken'
    BY <1>11 DEF RecvFrame, FirstIndex, TypeInv, TypeOK
  <2> QED
    BY <1>2, <1>10, <1>11, <2>2, <2>3 DEF RecvFrame
<1>12. CASE LoopEnter(w)
  <2>1. Busy(w) /\ InRange(wi[w])
    BY <1>3, <1>12 DEF LoopEnter, Busy, Torn
  <2> QED
    BY <1>2, <1>3, <1>10, <1>12, <2>1 DEF LoopEnter, InRange
<1>13. CASE AtLoad(w)
  <2>1. Busy(w) /\ wpc[w] = "at"
    BY <1>13 DEF AtLoad, Busy
  <2>2. wsock'[w] = subscribers_sockets.slot[wi[w]]
    BY <1>3, <1>13, <2>1 DEF AtLoad, Torn, TypeInv, TypeOK
  <2> QED
    BY <1>2, <1>3, <1>10, <1>13, <2>1, <2>2 DEF AtLoad
<1>14. CASE SendAccepted(w) \/ SendDropped(w)
  <2>1. /\ wpc[w] = "send" /\ Busy(w)
        /\ wpc' = [wpc EXCEPT ![w] = "loop"]
        /\ wi' = [wi EXCEPT ![w] = @ + 1]
        /\ UNCHANGED <<status, m_handler, mpc, subscribers_sockets, wframe, taken>>
    BY <1>14 DEF SendAccepted, SendDropped, NextSubscriber, Busy
  <2>2. wi'[w] = wi[w] + 1
    BY <2>1 DEF TypeInv, TypeOK
  <2> QED
    BY <1>2, <1>3, <1>10, <2>1, <2>2
<1> QED
  BY <1>4, <1>5, <1>6, <1>8, <1>9, <1>11, <1>12, <1>13, <1>14 DEF WorkerStep

LEMMA NextCarefulInv ==
  TypeInv /\ TableInv /\ CarefulInv /\ [CarefulNext]_vars => CarefulInv'
<1> SUFFICES ASSUME TypeInv, TableInv, CarefulInv, [CarefulNext]_vars PROVE CarefulInv'
  OBVIOUS
<1>1. CASE UNCHANGED vars
  BY <1>1 DEF vars, mainVars, tableVars, workerVars, flowVars,
     CarefulInv, NoAbort, FrozenWhileBusy, Live, Busy
<1> QED
  BY <1>1, CommandCarefulInv, MainContinuesCarefulInv, WorkerCarefulInv
  DEF CarefulNext, Next

(* A manager that keeps the rules never sees the node die: no worker       *)
(* throws out_of_range or uses a socket that is closed, half bound or used *)
(* by another worker.                                                      *)
THEOREM CarefulNeverAborts == CarefulSpec => []NoAbort
<1>1. CarefulInv => NoAbort
  BY DEF CarefulInv
<1>2. CarefulInit => Init
  BY DEF CarefulInit
<1>3. [CarefulNext]_vars => [Next]_vars
  BY DEF CarefulNext
<1> QED
  BY <1>1, <1>2, <1>3, InitTypeInv, NextTypeInv, InitTableInv, NextTableInv,
     InitCarefulInv, NextCarefulInv, PTL DEF CarefulSpec

(* While a frame is handled the vector stays whole and its sockets open.   *)
THEOREM CarefulFreezesTable == CarefulSpec => []FrozenWhileBusy
<1>1. CarefulInv => FrozenWhileBusy
  BY DEF CarefulInv
<1>2. CarefulInit => Init
  BY DEF CarefulInit
<1>3. [CarefulNext]_vars => [Next]_vars
  BY DEF CarefulNext
<1> QED
  BY <1>1, <1>2, <1>3, InitTypeInv, NextTypeInv, InitTableInv, NextTableInv,
     InitCarefulInv, NextCarefulInv, PTL DEF CarefulSpec

-----------------------------------------------------------------------------
(* Only SendAccepted appends to sent, and the frame it appends is the last *)
(* one taken.                                                              *)
LEMMA NextInOrder ==
  /\ TypeInv /\ TypeInv' /\ OnceInv /\ OnceInv' /\ CarefulInv /\ InOrder
  /\ [CarefulNext]_vars
  => InOrder'
<1> SUFFICES ASSUME TypeInv, TypeInv', OnceInv, OnceInv', CarefulInv, InOrder,
                    [CarefulNext]_vars
             PROVE  InOrder'
  OBVIOUS
<1> USE DEF mainVars, tableVars, workerVars, flowVars
<1>1. ASSUME NEW w \in Workers, SendAccepted(w) PROVE InOrder'
  <2> DEFINE s == wsock[w]
             n == Len(sent[s])
  <2>1. /\ wpc[w] = "send" /\ Busy(w) /\ wframe[w] = taken /\ taken' = taken
        /\ s \in Sockets /\ taken \in 1 .. MaxFrames
        /\ sent' = [sent EXCEPT ![s] = Append(@, wframe[w])]
    BY <1>1 DEF SendAccepted, At, Busy, TypeInv, TypeOK, Locals, CarefulInv, FrozenWhileBusy
  <2>2. sent[s] \in Seq(1 .. MaxFrames) /\ sent'[s] = Append(sent[s], taken)
    BY <2>1 DEF TypeInv, TypeOK
  <2>3. /\ n \in Nat /\ Len(sent'[s]) = n + 1
        /\ sent'[s] \in Seq(1 .. MaxFrames)
        /\ \A i \in 1 .. n : sent'[s][i] = sent[s][i]
        /\ sent'[s][n + 1] = taken
    <3> DEFINE q == sent[s]
    <3>1. q \in Seq(1 .. MaxFrames) /\ Len(q) \in Nat
      BY <2>2
    <3>2. /\ Append(q, taken) \in Seq(1 .. MaxFrames)
          /\ Len(Append(q, taken)) = Len(q) + 1
          /\ \A i \in 1 .. Len(q) : Append(q, taken)[i] = q[i]
          /\ Append(q, taken)[Len(q) + 1] = taken
      <4> HIDE DEF q
      <4> QED
        BY ONLY <2>1, <3>1, AppendProperties
    <3> QED
      BY <2>2, <3>1, <3>2
  <2>4. \A t \in Sockets \ {s} : sent'[t] = sent[t]
    BY <2>1 DEF TypeInv, TypeOK
  <2>5. ASSUME NEW i \in 1 .. n PROVE sent'[s][i] < taken
    <3>1. sent'[s][i] \in 1 .. MaxFrames
      <4>1. i \in 1 .. Len(sent'[s])
        BY <2>3
      <4> QED
        BY <2>3, <4>1, ElementOfSeq
    <3>2. sent'[s][i] <= taken
      BY <2>1, <2>3 DEF OnceInv
    <3>3. sent'[s][i] # taken
      <4>1. \A j, k \in 1 .. Len(sent'[s]) : sent'[s][j] = sent'[s][k] => j = k
        BY <2>1 DEF OnceInv, AtMostOnce
      <4>2. i \in 1 .. Len(sent'[s]) /\ n + 1 \in 1 .. Len(sent'[s]) /\ i # n + 1
        BY <2>3
      <4> QED
        BY <2>3, <4>1, <4>2
    <3> QED
      BY <2>1, <3>1, <3>2, <3>3, MaxFramesAssumption
  <2>6. ASSUME NEW i \in 1 .. n + 1, NEW j \in 1 .. n + 1, i < j
        PROVE  sent'[s][i] < sent'[s][j]
    <3>1. CASE j = n + 1
      BY <2>3, <2>5, <2>6, <3>1
    <3>2. CASE j # n + 1
      BY <2>1, <2>3, <2>6, <3>2 DEF InOrder
    <3> QED
      BY <3>1, <3>2
  <2> QED
    BY <2>3, <2>4, <2>6 DEF InOrder
<1>2. CASE UNCHANGED sent
  BY <1>2 DEF InOrder
<1>3. CASE Command
  BY <1>2, <1>3 DEF Command, Config, ConfigFault, Abort, SubscribeRefused, SubscribeNew,
     Start, StopBegin
<1>4. CASE MainContinues
  BY <1>2, <1>4 DEF MainContinues, SubscribeGrown, SubscribeBind, StopClose, StopClear
<1>5. ASSUME NEW w \in Workers, WorkerStep(w), ~SendAccepted(w) PROVE InOrder'
  BY <1>2, <1>5 DEF WorkerStep, CheckStop, RecvTimeout, RecvFrame, RecvFault, LoopEnter,
     LoopLeave, AtLoad, AtThrow, SendDropped, SendFault, WorkerExit, ExitFault, Abort
<1>6. CASE UNCHANGED vars
  BY <1>2, <1>6 DEF vars
<1> QED
  BY <1>1, <1>3, <1>4, <1>5, <1>6 DEF CarefulNext, Next

(* Under the rules every subscriber gets the frames in the order the node  *)
(* received them, across any number of stops, starts and dropped sends.    *)
THEOREM CarefulKeepsOrder == CarefulSpec => []InOrder
<1>1. CarefulInit => Init /\ InOrder
  BY DEF CarefulInit, Init, InOrder
<1>2. [CarefulNext]_vars => [Next]_vars
  BY DEF CarefulNext
<1> QED
  BY <1>1, <1>2, InitTypeInv, NextTypeInv, InitTableInv, NextTableInv, InitOnceInv,
     NextOnceInv, InitCarefulInv, NextCarefulInv, NextInOrder, PTL DEF CarefulSpec

-----------------------------------------------------------------------------
(* FanOut, step by step.                                                   *)

LEMMA ElementsIsSeq ==
  ASSUME NEW T, NEW v, IsVector(v, T)
  PROVE  v.size \in Nat /\ Elements(v) \in Seq(T) /\ Len(Elements(v)) = v.size
BY DEF IsVector, Elements

LEMMA ElementsAppend ==
  ASSUME NEW T, NEW v, NEW x \in T, IsVector(v, T)
  PROVE  Elements(push_back(v, x)) = Append(Elements(v), x)
<1> DEFINE e == Elements(v)
           f == Elements(push_back(v, x))
<1>1. v.size \in Nat /\ e \in Seq(T) /\ Len(e) = v.size
  BY ElementsIsSeq, Zenon
<1>2. /\ IsVector(push_back(v, x), T)
      /\ push_back(v, x).size = v.size + 1
      /\ \A i \in 1 .. v.size : push_back(v, x).slot[i] = v.slot[i]
      /\ push_back(v, x).slot[v.size + 1] = x
  <2> HIDE DEF e, f
  <2> QED BY ONLY IsVector(v, T), x \in T, PushBackIsVector, ZenonT(40)
<1>3. f = [i \in 1 .. v.size + 1 |-> IF i = v.size + 1 THEN x ELSE v.slot[i]]
  BY <1>1, <1>2 DEF Elements
<1>4. Append(e, x) = [i \in 1 .. v.size + 1 |-> IF i = v.size + 1 THEN x ELSE v.slot[i]]
  BY <1>1 DEF Elements
<1> QED BY <1>3, <1>4

(* The elements from the i-th on, one fewer with each step of the index.   *)
LEMMA ElementsFrom ==
  ASSUME NEW T, NEW v, IsVector(v, T), NEW i \in 1 .. v.size
  PROVE  LET s == SubSeq(Elements(v), i, v.size)
         IN s # << >> /\ Head(s) = v.slot[i] /\ Tail(s) = SubSeq(Elements(v), i + 1, v.size)
<1>1. v.size \in Nat /\ Elements(v) \in Seq(T) /\ Len(Elements(v)) = v.size
  BY ElementsIsSeq, Zenon
<1>2. Elements(v)[i] = v.slot[i] BY DEF Elements
<1> DEFINE e == Elements(v)
           s == SubSeq(e, i, v.size)
           r == SubSeq(e, i + 1, v.size)
<1> HIDE DEF Elements, e
<1>3. s \in Seq(T) /\ Len(s) = v.size - i + 1 /\ \A k \in 1 .. v.size - i + 1 : s[k] = e[i + k - 1]
  BY <1>1 DEF e
<1>4. r \in Seq(T) /\ Len(r) = v.size - i /\ \A k \in 1 .. v.size - i : r[k] = e[i + k]
  BY <1>1 DEF e
<1> HIDE DEF s, r
<1>5. s # << >> /\ Head(s) = e[i]
  BY <1>1, <1>3, SMTT(40)
<1>6. Tail(s) = r
  <2>1. Tail(s) \in Seq(T) /\ Len(Tail(s)) = v.size - i
    BY <1>1, <1>3, <1>5
  <2>2. \A k \in 1 .. v.size - i : Tail(s)[k] = s[k + 1]
    BY <1>1, <1>3, <1>5
  <2>3. \A k \in 1 .. v.size - i : Tail(s)[k] = r[k]
    BY <1>1, <1>3, <1>4, <2>2
  <2> QED BY <1>1, <1>4, <2>1, <2>3
<1> QED BY <1>2, <1>5, <1>6 DEF s, r, e

LEMMA ElementsEnds ==
  ASSUME NEW T, NEW v, IsVector(v, T)
  PROVE  /\ SubSeq(Elements(v), 1, v.size) = Elements(v)
         /\ SubSeq(Elements(v), v.size + 1, v.size) = << >>
         /\ Elements(clear(v)) = << >>
<1>1. v.size \in Nat /\ Elements(v) \in Seq(T) /\ Len(Elements(v)) = v.size
  BY ElementsIsSeq, Zenon
<1>2. Elements(clear(v)) = << >> BY DEF Elements, clear
<1> HIDE DEF Elements
<1> QED BY <1>1, <1>2

(* While nobody is busy nothing is left to offer; while w is, it is what   *)
(* the vector has from its index on.                                       *)
LEMMA NothingRemains ==
  /\ (\A w \in Workers : ~Busy(w)) => Remaining = << >>
  /\ (\A w \in Workers : ~Busy(w))' => Remaining' = << >>
BY DEF Remaining

LEMMA RemainingOf ==
  ASSUME NEW w \in Workers
  PROVE  /\ Busy(w) /\ (\A v \in Workers : Busy(v) => v = w) =>
              Remaining = SubSeq(Elements(subscribers_sockets), wi[w], subscribers_sockets.size)
         /\ (Busy(w) /\ (\A v \in Workers : Busy(v) => v = w))' =>
              Remaining' = SubSeq(Elements(subscribers_sockets'), wi'[w], subscribers_sockets'.size)
<1>1. ASSUME Busy(w), \A v \in Workers : Busy(v) => v = w
      PROVE  Remaining = SubSeq(Elements(subscribers_sockets), wi[w], subscribers_sockets.size)
  <2>1. (CHOOSE v \in Workers : Busy(v)) = w BY <1>1
  <2> QED BY <1>1, <2>1 DEF Remaining
<1>2. ASSUME Busy(w)', (\A v \in Workers : Busy(v) => v = w)'
      PROVE  Remaining' = SubSeq(Elements(subscribers_sockets'), wi'[w], subscribers_sockets'.size)
  <2>1. (CHOOSE v \in Workers : Busy(v)') = w BY <1>2
  <2> QED BY <1>2, <2>1 DEF Remaining
<1> QED BY <1>1, <1>2

(* Steps that neither begin nor end a frame, nor move an index.            *)
LEMMA FanStutters ==
  ASSUME CarefulInv, CarefulInv', UNCHANGED <<subscribers_sockets, wi, taken, sent>>,
         \A w \in Workers : Busy(w)' <=> Busy(w)
  PROVE  UNCHANGED Fan!fanVars
<1>1. Remaining' = Remaining
  <2>1. CASE \A w \in Workers : ~Busy(w)
    BY <2>1, NothingRemains
  <2>2. ASSUME NEW w \in Workers, Busy(w) PROVE Remaining' = Remaining
    <3>1. \A v \in Workers : Busy(v) => v = w
      BY <2>2 DEF CarefulInv, Live, Busy
    <3>2. Remaining = SubSeq(Elements(subscribers_sockets), wi[w], subscribers_sockets.size)
      BY <2>2, <3>1, RemainingOf
    <3>3. Remaining' = SubSeq(Elements(subscribers_sockets'), wi'[w], subscribers_sockets'.size)
      BY <2>2, <3>1, RemainingOf
    <3> QED BY <3>2, <3>3
  <2> QED BY <2>1, <2>2
<1> QED BY <1>1 DEF Fan!fanVars, Elements

(* A subscriber joins, or the table is emptied, between two frames.        *)
LEMMA FanTable ==
  ASSUME TypeInv, TableInv, \A w \in Workers : ~Busy(w), UNCHANGED <<wpc, taken, sent>>
  PROVE  /\ \A s \in Sockets :
              /\ subscribers_sockets' = push_back(subscribers_sockets, s)
              /\ ~Holds(subscribers_sockets, s)
              => Fan!Join(s)
         /\ subscribers_sockets' = clear(subscribers_sockets) => Fan!Reset
         /\ subscribers_sockets' = subscribers_sockets => UNCHANGED Fan!fanVars
<1>1. Remaining = << >> /\ Remaining' = << >>
  BY NothingRemains DEF Busy
<1>2. IsVector(subscribers_sockets, Sockets)
  BY DEF TypeInv, TypeOK
<1>3. ASSUME NEW s \in Sockets, subscribers_sockets' = push_back(subscribers_sockets, s),
             ~Holds(subscribers_sockets, s)
      PROVE  Fan!Join(s)
  <2>1. Elements(subscribers_sockets') = Append(Elements(subscribers_sockets), s)
    BY <1>2, <1>3, ElementsAppend
  <2>2. \A i \in 1 .. Len(Elements(subscribers_sockets)) : Elements(subscribers_sockets)[i] # s
    <3>1. /\ Len(Elements(subscribers_sockets)) = subscribers_sockets.size
          /\ \A i \in 1 .. subscribers_sockets.size :
               Elements(subscribers_sockets)[i] = subscribers_sockets.slot[i]
      BY <1>2, ElementsIsSeq DEF Elements
    <3> QED BY <1>3, <3>1 DEF Holds
  <2> QED BY <1>1, <2>1, <2>2 DEF Fan!Join, Elements
<1>4. ASSUME subscribers_sockets' = clear(subscribers_sockets) PROVE Fan!Reset
  <2>1. Elements(subscribers_sockets') = << >> BY <1>2, <1>4, ElementsEnds
  <2> QED BY <1>1, <2>1 DEF Fan!Reset, Elements
<1>5. ASSUME subscribers_sockets' = subscribers_sockets PROVE UNCHANGED Fan!fanVars
  BY <1>1, <1>5 DEF Fan!fanVars, Elements
<1> QED BY <1>3, <1>4, <1>5

LEMMA CommandFan ==
  ASSUME TypeInv, TableInv, CarefulInv, CarefulInv', Command, Careful
  PROVE  [Fan!FanNext]_(Fan!fanVars)
<1> USE DEF Idle, Running, mainVars, tableVars, workerVars, flowVars
<1>1. CASE Config \/ StopBegin \/ \E e \in Endpoints : SubscribeRefused(e)
  BY <1>1, FanStutters DEF Config, StopBegin, SubscribeRefused, Busy
<1>2. CASE ConfigFault
  BY <1>2 DEF ConfigFault, CarefulInv
<1>3. ASSUME NEW w \in Workers, Start(w) PROVE UNCHANGED Fan!fanVars
  <2>1. \A v \in Workers : Busy(v)' <=> Busy(v)
    BY <1>3 DEF Start, Busy, TypeInv, TypeOK
  <2> QED BY <1>3, <2>1, FanStutters DEF Start
<1>4. ASSUME NEW e \in Endpoints, NEW s \in Sockets, SubscribeNew(e, s)
      PROVE  [Fan!FanNext]_(Fan!fanVars)
  <2>1. BeginsTableCommand /\ UNCHANGED <<wpc, taken, sent>>
    BY <1>4 DEF SubscribeNew, BeginsTableCommand
  <2>2. \A w \in Workers : ~Busy(w)
    BY <2>1 DEF Careful
  <2>3. ~Holds(subscribers_sockets, s)
    <3>1. push_socket[s] = "none" BY <1>4 DEF SubscribeNew
    <3> QED BY <3>1 DEF TableInv, Holds
  <2>4. \/ subscribers_sockets' = push_back(subscribers_sockets, s)
        \/ subscribers_sockets' = subscribers_sockets
    BY <1>4 DEF SubscribeNew
  <2> QED BY <2>1, <2>2, <2>3, <2>4, FanTable DEF Fan!FanNext
<1> QED BY <1>1, <1>2, <1>3, <1>4 DEF Command

LEMMA MainContinuesFan ==
  ASSUME TypeInv, TableInv, CarefulInv, MainContinues
  PROVE  [Fan!FanNext]_(Fan!fanVars)
<1>1. mpc # "idle" /\ UNCHANGED <<wpc, taken, sent>>
  BY DEF MainContinues, SubscribeGrown, SubscribeBind, StopClose, StopClear, Running,
         workerVars, flowVars
<1>2. \A w \in Workers : ~Busy(w)
  BY <1>1 DEF CarefulInv, FrozenWhileBusy
<1>3. CASE SubscribeGrown
  <2>1. msock \in Sockets /\ ~Holds(subscribers_sockets, msock)
    BY <1>3 DEF SubscribeGrown, TypeInv, Locals, TableInv
  <2> QED BY <1>1, <1>2, <1>3, <2>1, FanTable DEF SubscribeGrown, Fan!FanNext
<1>4. CASE StopClear
  BY <1>1, <1>2, <1>4, FanTable DEF StopClear, ClearTable, Fan!FanNext
<1>5. CASE SubscribeBind \/ StopClose
  BY <1>1, <1>2, <1>5, FanTable DEF SubscribeBind, StopClose
<1> QED BY <1>3, <1>4, <1>5 DEF MainContinues

LEMMA WorkerFan ==
  ASSUME TypeInv, TypeInv', TableInv, CarefulInv, CarefulInv', NEW w \in Workers, WorkerStep(w), Careful
  PROVE  [Fan!FanNext]_(Fan!fanVars)
<1> USE DEF At, GoTo, Running, mainVars, tableVars, workerVars, flowVars
<1> DEFINE n == subscribers_sockets.size
           E == Elements(subscribers_sockets)
<1>1. \A v \in Workers \ {w} : ~Live(v) /\ ~Busy(v)
  <2>1. Live(w)
    BY DEF WorkerStep, CheckStop, RecvTimeout, RecvFrame, RecvFault, LoopEnter, LoopLeave,
       AtLoad, AtThrow, SendAccepted, SendDropped, SendFault, WorkerExit, ExitFault, Live
  <2> QED
    BY <2>1 DEF CarefulInv, Live, Busy
<1>2. /\ n \in Nat /\ wi[w] \in Nat /\ taken \in Nat
      /\ wpc \in [Workers -> {"none", "check", "recv", "loop", "at", "send", "exit", "done"}]
      /\ wi \in [Workers -> Nat]
      /\ IsVector(subscribers_sockets, Sockets)
  <2>1. /\ IsVector(subscribers_sockets, Sockets) /\ taken \in 0 .. MaxFrames /\ wi \in [Workers -> Nat]
        /\ wpc \in [Workers -> {"none", "check", "recv", "loop", "at", "send", "exit", "done"}]
    BY DEF TypeInv, TypeOK
  <2>2. n \in Nat BY <2>1 DEF IsVector
  <2> QED BY <2>1, <2>2, MaxFramesAssumption
<1>3. Busy(w) => /\ mpc = "idle" /\ wi[w] \in 1 .. n + 1 /\ wframe[w] = taken
                 /\ wpc[w] # "loop" => wi[w] <= n
                 /\ wpc[w] = "send" => wsock[w] = subscribers_sockets.slot[wi[w]]
  BY DEF CarefulInv, FrozenWhileBusy
<1>4. CASE RecvFault(w) \/ ExitFault(w) \/ AtThrow(w) \/ SendFault(w)
  BY <1>4 DEF RecvFault, ExitFault, AtThrow, SendFault, Abort, CarefulInv, NoAbort
<1>5. CASE CheckStop(w) \/ RecvTimeout(w) \/ WorkerExit(w) \/ LoopEnter(w) \/ AtLoad(w)
  <2>1. \A v \in Workers : Busy(v)' <=> Busy(v)
    BY <1>2, <1>5 DEF CheckStop, RecvTimeout, WorkerExit, LoopEnter, AtLoad, Busy
  <2>2. UNCHANGED <<subscribers_sockets, wi, taken, sent>>
    BY <1>5 DEF CheckStop, RecvTimeout, WorkerExit, LoopEnter, AtLoad
  <2> QED BY <2>1, <2>2, FanStutters
<1>6. CASE RecvFrame(w)
  <2>1. /\ wpc[w] = "recv" /\ wpc' = [wpc EXCEPT ![w] = "loop"] /\ wi' = [wi EXCEPT ![w] = 1]
        /\ taken < MaxFrames /\ taken' = taken + 1 /\ UNCHANGED <<subscribers_sockets, sent>>
    BY <1>6 DEF RecvFrame, FirstIndex
  <2>2. \A v \in Workers : ~Busy(v)
    BY <1>1, <2>1 DEF Busy
  <2>3. Remaining = << >> BY <2>2, NothingRemains
  <2>4. (Busy(w) /\ \A v \in Workers : Busy(v) => v = w)' /\ wi'[w] = 1
    BY <1>1, <1>2, <2>1, <2>2 DEF Busy
  <2>5. Remaining' = SubSeq(E, 1, n)
    BY <2>1, <2>4, RemainingOf
  <2>6. Remaining' = E
    <3> HIDE DEF E, n
    <3>1. SubSeq(E, 1, n) = E BY <1>2, ElementsEnds, Zenon DEF E, n
    <3> QED BY <2>5, <3>1
  <2>7. Fan!Take
    BY <2>1, <2>3, <2>6 DEF Fan!Take, Elements
  <2> QED BY <2>7 DEF Fan!FanNext
<1>7. CASE LoopLeave(w)
  <2>1. /\ wpc[w] = "loop" /\ wpc' = [wpc EXCEPT ![w] = "check"] /\ Busy(w)
        /\ wi[w] > n /\ UNCHANGED <<subscribers_sockets, taken, sent>>
    BY <1>3, <1>7 DEF LoopLeave, Torn, PastEnd, Busy
  <2>2. wi[w] = n + 1
    BY <1>2, <1>3, <2>1
  <2>3. Remaining = SubSeq(E, n + 1, n)
    BY <1>1, <2>1, <2>2, RemainingOf
  <2>4. SubSeq(E, n + 1, n) = << >>
    <3> HIDE DEF E, n
    <3> QED BY <1>2, ElementsEnds, Zenon DEF E, n
  <2>5. \A v \in Workers : ~Busy(v)'
    BY <1>1, <1>2, <2>1 DEF Busy
  <2>6. Remaining' = << >> BY <2>5, NothingRemains
  <2> QED BY <2>1, <2>3, <2>4, <2>6 DEF Fan!fanVars, Elements
<1>8. CASE SendAccepted(w) \/ SendDropped(w)
  <2>1. /\ wpc[w] = "send" /\ wpc' = [wpc EXCEPT ![w] = "loop"] /\ Busy(w)
        /\ wi' = [wi EXCEPT ![w] = @ + 1] /\ UNCHANGED <<subscribers_sockets, taken>>
    BY <1>8 DEF SendAccepted, SendDropped, NextSubscriber, Busy
  <2>2. wi[w] \in 1 .. n /\ wi'[w] = wi[w] + 1 /\ wsock[w] = subscribers_sockets.slot[wi[w]]
    BY <1>2, <1>3, <2>1
  <2>3. Remaining = SubSeq(E, wi[w], n)
    BY <1>1, <2>1, RemainingOf
  <2>4. Remaining' = SubSeq(E, wi[w] + 1, n)
    <3>1. (Busy(w) /\ \A v \in Workers : Busy(v) => v = w)'
      BY <1>1, <1>2, <2>1 DEF Busy
    <3> QED BY <2>1, <2>2, <3>1, RemainingOf
  <2>5. Remaining # << >> /\ Head(Remaining) = wsock[w] /\ Remaining' = Tail(Remaining)
    <3>1. LET s == SubSeq(E, wi[w], n)
          IN s # << >> /\ Head(s) = subscribers_sockets.slot[wi[w]] /\ Tail(s) = SubSeq(E, wi[w] + 1, n)
      <4>1. wi[w] \in 1 .. subscribers_sockets.size BY <2>2
      <4> QED BY ONLY <1>2, <4>1, ElementsFrom, Zenon DEF E, n
    <3> QED BY <2>2, <2>3, <2>4, <3>1
  <2>6. sent' \in {sent, [sent EXCEPT ![wsock[w]] = Append(@, taken)]}
    <3>1. wframe[w] = taken BY <1>3, <2>1
    <3> QED BY <1>8, <3>1 DEF SendAccepted, SendDropped
  <2>7. Fan!Offer
    BY <2>1, <2>5, <2>6 DEF Fan!Offer, Elements
  <2> QED BY <2>7 DEF Fan!FanNext
<1> QED BY <1>4, <1>5, <1>6, <1>7, <1>8 DEF WorkerStep

(* Under the rules the node fans out: frames are taken one at a time and   *)
(* each is offered once to every subscriber there is, in the order of      *)
(* subscription, before the next is taken (the safety half of              *)
(* ImplementsFanOut).                                                      *)
THEOREM CarefulFansOut == CarefulSpec => Fan!FanInit /\ [][Fan!FanNext]_(Fan!fanVars)
<1>1. CarefulInit => Init
  BY DEF CarefulInit
<1>2. CarefulInit => Fan!FanInit
  BY DEF CarefulInit, Init, Fan!FanInit, Remaining, Busy, Elements, EmptyVector
<1>3. [CarefulNext]_vars => [Next]_vars
  BY DEF CarefulNext
<1>4. TypeInv /\ TypeInv' /\ TableInv /\ CarefulInv /\ CarefulInv' /\ [CarefulNext]_vars =>
        [Fan!FanNext]_(Fan!fanVars)
  <2> SUFFICES ASSUME TypeInv, TypeInv', TableInv, CarefulInv, CarefulInv', [CarefulNext]_vars
               PROVE  [Fan!FanNext]_(Fan!fanVars)
    OBVIOUS
  <2>1. CASE UNCHANGED vars
    BY <2>1, FanStutters DEF vars, tableVars, workerVars, flowVars, Busy
  <2>2. CASE CarefulNext
    BY <2>2, CommandFan, MainContinuesFan, WorkerFan DEF CarefulNext, Next
  <2> QED BY <2>1, <2>2
<1> QED
  BY <1>1, <1>2, <1>3, <1>4, InitTypeInv, NextTypeInv, InitTableInv, NextTableInv, InitCarefulInv,
     NextCarefulInv, PTL DEF CarefulSpec
=============================================================================
