--------------------------- MODULE StopStartProofs ---------------------------
(***************************************************************************)
(* Waiting is enough for every launch time, handling time and number of    *)
(* threads: one worker at a time, gone in time, and, but for liveness, the *)
(* cycle a manager believes in.                                            *)
(***************************************************************************)
EXTENDS StopStart, TLAPS

(* What a worker may still take before it looks at the flag.               *)
Rest(w) ==
  IF wpc[w] = "recv" THEN left[w] + HandleTime
  ELSE IF wpc[w] = "check" THEN 0 ELSE left[w]

(* Every wait a worker is in began with its full length at most.           *)
Timed ==
  \A w \in Workers :
    /\ wpc[w] = "launch" => left[w] <= LaunchTime
    /\ wpc[w] = "recv" => left[w] <= iTimeOut
    /\ wpc[w] = "handle" => left[w] <= HandleTime

(* The time since the stop and the rest together stay in the allowance.    *)
InTime == \A w \in Workers : Live(w) /\ stop_flag => quiet + Rest(w) <= Overlook

(* A worker that outlives the manager's start has been told to stop.       *)
Told == \A w \in Workers : Live(w) /\ ~working => stop_flag

(* The late frame is the last: its worker never receives again.            *)
OnceLate ==
  late = 1 => stop_flag /\ \A w \in Workers : wpc[w] \in {"none", "handle", "check"}

IInv == TypeOK /\ Timed /\ InTime /\ Told /\ OneWorker /\ OnceLate

LEMMA OverlookBounds ==
  /\ Overlook \in Nat
  /\ LaunchTime <= Overlook
  /\ iTimeOut + HandleTime <= Overlook
  /\ Patience \in Nat /\ Overlook < Patience
  /\ HandleTime \in Nat /\ LaunchTime \in Nat
BY TimesAssumption, PatienceAssumption DEF Overlook, iTimeOut

LEMMA InitIInv == Init => IInv
<1> SUFFICES ASSUME Init PROVE IInv OBVIOUS
<1> USE OverlookBounds DEF Init
<1>1. TypeOK
  <2>1. quiet \in 0 .. Patience /\ late \in 0 .. 1 OBVIOUS
  <2>2. wpc \in [Workers -> {"none", "launch", "check", "recv", "handle"}] OBVIOUS
  <2>3. left \in [Workers -> Nat] OBVIOUS
  <2>4. stop_flag \in BOOLEAN /\ working \in BOOLEAN OBVIOUS
  <2> QED BY <2>1, <2>2, <2>3, <2>4 DEF TypeOK
<1>2. Timed BY DEF Timed
<1>3. InTime /\ Told /\ OneWorker /\ OnceLate BY DEF InTime, Told, OneWorker, OnceLate, Live
<1> QED BY <1>1, <1>2, <1>3 DEF IInv

LEMMA StopIInv == IInv /\ Stop => IInv'
<1> SUFFICES ASSUME IInv, Stop PROVE IInv' OBVIOUS
<1> USE OverlookBounds DEF IInv, Stop
<1>1. TypeOK'
  <2>1. quiet' \in 0 .. Patience OBVIOUS
  <2>2. stop_flag' \in BOOLEAN /\ working' \in BOOLEAN OBVIOUS
  <2> QED BY <2>1, <2>2 DEF TypeOK
<1>2. Timed' BY DEF Timed
<1>3. InTime'
  <2> SUFFICES ASSUME NEW w \in Workers, Live(w) PROVE quiet' + Rest(w)' <= Overlook
    BY DEF InTime, Live
  <2>1. wpc[w] \in {"launch", "check", "recv", "handle"} BY DEF TypeOK, Live
  <2>2. left[w] \in Nat BY DEF TypeOK
  <2>3. Rest(w) <= Overlook /\ Rest(w) \in Nat BY <2>1, <2>2 DEF Rest, Timed, iTimeOut
  <2> QED BY <2>3 DEF Rest
<1>4. Told' BY DEF Told
<1>5. OneWorker' BY DEF OneWorker, Live
<1>6. OnceLate' BY DEF OnceLate
<1> QED BY <1>1, <1>2, <1>3, <1>4, <1>5, <1>6

LEMMA StartIInv == ASSUME IInv, NEW w \in Workers, Start(w) PROVE IInv'
<1> USE OverlookBounds DEF IInv, Start, Patient, ClearFlag
<1>0. \A v \in Workers : ~Live(v)
  <2> SUFFICES ASSUME NEW v \in Workers, Live(v) PROVE FALSE OBVIOUS
  <2>1. quiet + Rest(v) <= Overlook BY DEF InTime, Told
  <2>2. left[v] \in Nat /\ Rest(v) \in Nat BY DEF TypeOK, Rest
  <2> QED BY <2>1, <2>2
<1>1. TypeOK'
  <2>1. stop_flag' \in BOOLEAN /\ working' \in BOOLEAN OBVIOUS
  <2>2. late' \in 0 .. 1 /\ quiet' \in 0 .. Patience BY DEF TypeOK
  <2>3. wpc' \in [Workers -> {"none", "launch", "check", "recv", "handle"}] BY DEF TypeOK
  <2>4. left' \in [Workers -> Nat] BY DEF TypeOK
  <2> QED BY <2>1, <2>2, <2>3, <2>4 DEF TypeOK
<1>2. Timed' BY <1>0 DEF Timed, TypeOK, Live
<1>3. InTime' BY DEF InTime
<1>4. Told' BY DEF Told
<1>5. OneWorker' BY <1>0 DEF OneWorker, Live, TypeOK
<1>6. OnceLate' BY DEF OnceLate
<1> QED BY <1>1, <1>2, <1>3, <1>4, <1>5, <1>6

LEMMA WorkerIInv == ASSUME IInv, NEW w \in Workers, WorkerStep(w) PROVE IInv'
<1> USE OverlookBounds DEF IInv
<1>0. Live(w) /\ wpc[w] \in {"launch", "check", "recv", "handle"}
  BY DEF WorkerStep, Launched, Check, RecvTimeout, RecvFrame, Handled, Live
<1>1. /\ wpc' \in [Workers -> {"none", "launch", "check", "recv", "handle"}]
      /\ left' \in [Workers -> Nat]
      /\ \A v \in Workers \ {w} : wpc'[v] = wpc[v] /\ left'[v] = left[v]
      /\ UNCHANGED <<stop_flag, working, quiet>>
  BY DEF TypeOK, WorkerStep, Launched, Check, RecvTimeout, RecvFrame, Handled, iTimeOut
<1>2. \A v \in Workers : Live(v)' => Live(v)
  BY <1>0, <1>1 DEF Live
<1>3. late' \in 0 .. 1 /\ OnceLate'
  <2>1. CASE RecvFrame(w)
    <3>1. \A v \in Workers \ {w} : wpc[v] = "none" BY <1>0 DEF OneWorker, Live
    <3>2. late = 0 BY <2>1 DEF RecvFrame, OnceLate, TypeOK
    <3> QED BY <2>1, <3>1, <3>2 DEF RecvFrame, OnceLate, TypeOK
  <2>2. CASE Check(w) BY <2>2 DEF Check, GoesOn, OnceLate, TypeOK
  <2>3. CASE Launched(w) \/ RecvTimeout(w) \/ Handled(w)
    BY <2>3 DEF Launched, RecvTimeout, Handled, OnceLate, TypeOK
  <2> QED BY <2>1, <2>2, <2>3 DEF WorkerStep
<1>4. TypeOK' BY <1>1, <1>3 DEF TypeOK
<1>5. /\ wpc'[w] = "launch" => left'[w] <= LaunchTime
      /\ wpc'[w] = "recv" => left'[w] <= iTimeOut
      /\ wpc'[w] = "handle" => left'[w] <= HandleTime
  BY DEF TypeOK, Timed, WorkerStep, Launched, Check, RecvTimeout, RecvFrame, Handled, iTimeOut
<1>6. Timed' BY <1>1, <1>5 DEF Timed
<1>7. ASSUME Live(w)', stop_flag PROVE Rest(w)' <= Rest(w)
  <2>0. left[w] \in Nat BY DEF TypeOK
  <2>1. CASE Launched(w) BY <2>0, <2>1 DEF Launched, Rest, TypeOK
  <2>2. CASE Check(w) BY <1>7, <2>2 DEF Check, GoesOn, Live, TypeOK
  <2>3. CASE RecvTimeout(w) BY <2>0, <2>3 DEF RecvTimeout, Rest, TypeOK
  <2>4. CASE RecvFrame(w) BY <2>0, <2>4 DEF RecvFrame, Rest, TypeOK
  <2>5. CASE Handled(w) BY <2>0, <2>5 DEF Handled, Rest, TypeOK
  <2> QED BY <2>1, <2>2, <2>3, <2>4, <2>5 DEF WorkerStep
<1>8. InTime'
  <2> SUFFICES ASSUME NEW v \in Workers, Live(v)', stop_flag
               PROVE quiet + Rest(v)' <= Overlook
    BY <1>1 DEF InTime
  <2>1. quiet + Rest(v) <= Overlook BY <1>2 DEF InTime
  <2>2. Rest(v)' <= Rest(v)
    <3>1. CASE v = w BY <1>7, <3>1
    <3>2. CASE v # w
      <4>1. Rest(v)' = Rest(v) BY <1>1, <3>2 DEF Rest
      <4>2. Rest(v) \in Nat BY DEF Rest, TypeOK
      <4> QED BY <4>1, <4>2
    <3> QED BY <3>1, <3>2
  <2>3. Rest(v) \in Nat BY DEF Rest, TypeOK
  <2>4. Rest(v)' \in Nat BY <1>4 DEF Rest, TypeOK
  <2>5. quiet \in Nat /\ Overlook \in Nat BY DEF TypeOK
  <2> QED BY <2>1, <2>2, <2>3, <2>4, <2>5
<1>9. Told' BY <1>1, <1>2 DEF Told
<1>10. OneWorker' BY <1>2 DEF OneWorker
<1> QED BY <1>3, <1>4, <1>6, <1>8, <1>9, <1>10

LEMMA TickIInv == IInv /\ Tick => IInv'
<1> SUFFICES ASSUME IInv, Tick PROVE IInv' OBVIOUS
<1> USE OverlookBounds DEF IInv, Tick
<1>0. \A w \in Workers : Live(w) => wpc[w] # "check" /\ left[w] # 0 /\ left[w] \in Nat
  BY DEF Urgent, TypeOK
<1>1. \A w \in Workers :
        /\ left'[w] \in Nat /\ left'[w] <= left[w]
        /\ Live(w) => left'[w] + 1 = left[w]
  BY <1>0 DEF TypeOK
<1>2. left' \in [Workers -> Nat] BY <1>1
<1>3. quiet' \in 0 .. Patience /\ quiet' <= quiet + 1 BY DEF TypeOK
<1>4. TypeOK' BY <1>2, <1>3 DEF TypeOK
<1>5. Timed'
  <2> SUFFICES ASSUME NEW w \in Workers
               PROVE /\ wpc[w] = "launch" => left'[w] <= LaunchTime
                     /\ wpc[w] = "recv" => left'[w] <= iTimeOut
                     /\ wpc[w] = "handle" => left'[w] <= HandleTime
    BY DEF Timed
  <2>1. left'[w] <= left[w] /\ left[w] \in Nat /\ left'[w] \in Nat BY <1>1 DEF TypeOK
  <2> QED BY <2>1 DEF Timed, iTimeOut
<1>6. InTime'
  <2> SUFFICES ASSUME NEW w \in Workers, Live(w), stop_flag
               PROVE quiet' + Rest(w)' <= Overlook
    BY DEF InTime, Live
  <2>1. quiet + Rest(w) <= Overlook BY DEF InTime
  <2>2. left[w] \in Nat /\ left'[w] \in Nat /\ left'[w] + 1 = left[w] /\ wpc[w] # "check"
    BY <1>0, <1>1
  <2>3. Rest(w)' + 1 = Rest(w) /\ Rest(w) \in Nat /\ Rest(w)' \in Nat
    BY <2>2 DEF Rest
  <2> QED BY <1>3, <2>1, <2>3 DEF TypeOK
<1>7. Told' /\ OneWorker' BY DEF Told, OneWorker, Live
<1>8. OnceLate' BY DEF OnceLate
<1> QED BY <1>4, <1>5, <1>6, <1>7, <1>8

LEMMA NextIInv == IInv /\ [Next]_vars => IInv'
<1>1. IInv /\ UNCHANGED vars => IInv'
  BY DEF IInv, TypeOK, Timed, InTime, Told, OneWorker, OnceLate, Live, Rest, vars
<1> QED BY <1>1, StopIInv, StartIInv, WorkerIInv, TickIInv DEF Next

(* The strengthening is invariant, whatever the times are.                 *)
THEOREM Inductive == Spec => []IInv
BY InitIInv, NextIInv, PTL DEF Spec

(* A manager that waits longer than Overlook never has two workers, for    *)
(* any number of thread slots and any launch and handling time.            *)
THEOREM PatienceIsEnough == Spec => []OneWorker
<1>1. IInv => OneWorker BY DEF IInv
<1> QED BY <1>1, Inductive, PTL

(* No worker outlives a stop by more than Overlook.                        *)
THEOREM StopIsObeyed == Spec => []GoneInTime
<1>1. IInv => GoneInTime
  <2> SUFFICES ASSUME IInv, stop_flag, NEW w \in Workers, Live(w) PROVE quiet <= Overlook
    BY DEF GoneInTime
  <2>1. quiet + Rest(w) <= Overlook BY DEF IInv, InTime
  <2>2. Rest(w) \in Nat /\ quiet \in Nat
    BY OverlookBounds DEF IInv, TypeOK, Rest
  <2> QED BY <2>1, <2>2, OverlookBounds
<1> QED BY <1>1, Inductive, PTL

(* Types, and at most one frame after a stop.                              *)
THEOREM TypeCorrect == Spec => []TypeOK
<1>1. IInv => TypeOK BY DEF IInv
<1> QED BY <1>1, Inductive, PTL

(* The phase the refinement maps a state to.                               *)
Phase ==
  IF \A w \in Workers : ~Live(w) THEN "stopped"
  ELSE IF stop_flag THEN "draining" ELSE "running"

LEMMA StepOfCycle == IInv /\ [Next]_vars => [Cycle!Next]_<<Phase, late>>
<1> SUFFICES ASSUME IInv, [Next]_vars PROVE [Cycle!Next]_<<Phase, late>> OBVIOUS
<1> USE OverlookBounds
<1>1. CASE Stop
  <2>1. \A w \in Workers : Live(w)' <=> Live(w) BY <1>1 DEF Stop, Live
  <2> QED BY <1>1, <2>1 DEF Stop, Phase, Cycle!Next, Cycle!Halt
<1>2. ASSUME NEW w \in Workers, Start(w) PROVE Cycle!Begin
  <2>1. \A v \in Workers : ~Live(v)
    <3> SUFFICES ASSUME NEW v \in Workers, Live(v) PROVE FALSE OBVIOUS
    <3>1. quiet + Rest(v) <= Overlook BY <1>2 DEF Start, Patient, IInv, InTime, Told
    <3>2. left[v] \in Nat /\ Rest(v) \in Nat BY DEF IInv, TypeOK, Rest
    <3> QED BY <1>2, <3>1, <3>2 DEF Start, Patient
  <2>2. wpc'[w] = "launch" BY <1>2 DEF Start, IInv, TypeOK
  <2> QED BY <1>2, <2>1, <2>2 DEF Start, ClearFlag, Phase, Live, Cycle!Begin
<1>3. CASE Tick BY <1>3 DEF Tick, Phase, Live
<1>4. ASSUME NEW w \in Workers, WorkerStep(w) PROVE [Cycle!Next]_<<Phase, late>>
  <2>1. /\ Live(w) /\ UNCHANGED stop_flag
        /\ \A v \in Workers \ {w} : wpc'[v] = wpc[v]
    BY <1>4 DEF WorkerStep, Launched, Check, RecvTimeout, RecvFrame, Handled, Live,
               IInv, TypeOK
  <2>2. CASE Check(w) /\ stop_flag
    <3>1. Phase = "draining" BY <2>1, <2>2 DEF Phase
    <3>2. \A v \in Workers : ~Live(v)'
      BY <2>1, <2>2 DEF Check, GoesOn, Live, IInv, OneWorker, TypeOK
    <3> QED BY <2>2, <3>1, <3>2 DEF Check, Phase, Cycle!Next, Cycle!Drained
  <2>3. CASE (Check(w) /\ ~stop_flag) \/ Launched(w) \/ RecvTimeout(w) \/ Handled(w)
    <3>1. Live(w)' /\ UNCHANGED late
      BY <2>3 DEF Check, GoesOn, Launched, RecvTimeout, Handled, Live, IInv, TypeOK
    <3> QED BY <2>1, <3>1 DEF Phase
  <2>4. CASE RecvFrame(w)
    <3>1. Live(w)' BY <2>4 DEF RecvFrame, Live, IInv, TypeOK
    <3>2. Phase' = Phase BY <2>1, <3>1 DEF Phase
    <3>3. CASE stop_flag
      <4>1. late = 0 BY <2>4 DEF RecvFrame, IInv, OnceLate, TypeOK
      <4>2. Phase = "draining" BY <2>1, <3>3 DEF Phase
      <4>3. late' = 1 BY <2>4, <3>3, <4>1 DEF RecvFrame
      <4>4. Cycle!TakeLate BY <3>2, <4>1, <4>2, <4>3 DEF Cycle!TakeLate, Phase
      <4> QED BY <4>4 DEF Cycle!Next
    <3>4. CASE ~stop_flag BY <2>4, <3>2, <3>4 DEF RecvFrame
    <3> QED BY <3>3, <3>4
  <2> QED BY <1>4, <2>2, <2>3, <2>4 DEF WorkerStep
<1>5. CASE UNCHANGED vars BY <1>5 DEF vars, Phase, Live
<1> QED BY <1>1, <1>2, <1>3, <1>4, <1>5 DEF Next, Cycle!Next

(* The node is what a patient manager believes it is: stopped, running or  *)
(* draining, and only one frame is handed on while draining.               *)
THEOREM ImplementsCycle == Spec => Cycle!Init /\ [][Cycle!Next]_<<Phase, late>>
<1>1. Init => Cycle!Init BY DEF Init, Cycle!Init, Live
<1> QED BY <1>1, Inductive, StepOfCycle, PTL DEF Spec
=============================================================================
