------------------------------ MODULE OpenFile ------------------------------
(***************************************************************************)
(* file_helper::open, with create_dir under it, when processes that share  *)
(* a log folder start together.  A path is a number of folders under each  *)
(* other; the file is in the last.                                         *)
(***************************************************************************)
EXTENDS Naturals

CONSTANTS
  Openers,
  Depth,        \* folders on the way to the file
  open_tries_,
  MaxFaults     \* bound: mkdir and fopen calls that fail for other reasons

VARIABLES
  made,    \* folders 1..made exist
  pc,      \* of each opener: "checking", "making", "opening", "open", "thrown"
  at,      \* the folder create_dir is at
  tries,   \* tries used
  faults

vars == <<made, pc, at, tries, faults>>

-----------------------------------------------------------------------------
(* Slips a change of the code could make.                                  *)

Retries_Not(o) == FALSE

-----------------------------------------------------------------------------
Init ==
  /\ made \in 0 .. Depth
  /\ pc = [o \in Openers |-> "checking"]
  /\ at = [o \in Openers |-> 1]
  /\ tries = [o \in Openers |-> 1]
  /\ faults = 0

(* path_exists of the whole path first, then of each folder in turn.       *)
Check(o) ==
  /\ pc[o] = "checking"
  /\ IF made = Depth \/ at[o] > Depth THEN pc' = [pc EXCEPT ![o] = "opening"] /\ UNCHANGED at
     ELSE IF at[o] <= made THEN at' = [at EXCEPT ![o] = @ + 1] /\ UNCHANGED pc
     ELSE pc' = [pc EXCEPT ![o] = "making"] /\ UNCHANGED at
  /\ UNCHANGED <<made, tries, faults>>

(* A folder that has appeared meanwhile makes mkdir fail, and create_dir   *)
(* gives up.  open does not look at its result.                            *)
GivesUp(o) == "opening"

Make(o) ==
  /\ pc[o] = "making"
  /\ \/ /\ at[o] > made
        /\ made' = at[o]
        /\ at' = [at EXCEPT ![o] = @ + 1]
        /\ pc' = [pc EXCEPT ![o] = "checking"]
        /\ UNCHANGED faults
     \/ /\ at[o] <= made
        /\ pc' = [pc EXCEPT ![o] = GivesUp(o)]
        /\ UNCHANGED <<made, at, faults>>
     \/ /\ faults < MaxFaults /\ faults' = faults + 1
        /\ pc' = [pc EXCEPT ![o] = GivesUp(o)]
        /\ UNCHANGED <<made, at>>
  /\ UNCHANGED tries

Retries(o) == tries[o] < open_tries_

Fail(o) ==
  IF Retries(o)
  THEN /\ pc' = [pc EXCEPT ![o] = "checking"]
       /\ at' = [at EXCEPT ![o] = 1]
       /\ tries' = [tries EXCEPT ![o] = @ + 1]
  ELSE pc' = [pc EXCEPT ![o] = "thrown"] /\ UNCHANGED <<at, tries>>

Open(o) ==
  /\ pc[o] = "opening"
  /\ \/ /\ made = Depth
        /\ pc' = [pc EXCEPT ![o] = "open"]
        /\ UNCHANGED <<at, tries, faults>>
     \/ made < Depth /\ Fail(o) /\ UNCHANGED faults
     \/ faults < MaxFaults /\ faults' = faults + 1 /\ Fail(o)
  /\ UNCHANGED made

Next == \E o \in Openers : Check(o) \/ Make(o) \/ Open(o)

Spec == Init /\ [][Next]_vars

(* Every process that opens a file goes on.                                *)
FairSpec == Spec /\ WF_vars(Next)

-----------------------------------------------------------------------------
(* Losing races for folders is no reason to give up: each lost race means  *)
(* that the other process has made one, and there are more tries than      *)
(* folders and faults.                                                     *)
RacesAreSurvived == \A o \in Openers : pc[o] # "thrown"

(* Every open ends, with the file open or with the exception.              *)
OpensEnd == <>(\A o \in Openers : pc[o] \in {"open", "thrown"})
=============================================================================
