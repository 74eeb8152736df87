----------------------------- MODULE StdVector -----------------------------
(***************************************************************************)
(* std::vector as the node uses it, with the storage behind it made        *)
(* visible: the slots from size + 1 to cap are allocated but hold no       *)
(* element.  They keep whatever was in them: nothing at all (Junk) after   *)
(* a reallocation, the destroyed old element after clear().  Positions     *)
(* are counted from 1, end() is position size + 1.                         *)
(***************************************************************************)
EXTENDS Naturals

CONSTANT Junk   \* the content of memory that no element was ever stored in

IsVector(v, T) ==
  /\ v.cap \in Nat
  /\ v.size \in 0 .. v.cap
  /\ v.slot \in [1 .. v.cap -> T \cup {Junk}]
  /\ \A i \in 1 .. v.size : v.slot[i] \in T

EmptyVector == [slot |-> [i \in 1 .. 0 |-> Junk], cap |-> 0, size |-> 0]

Holds(v, x) == \E i \in 1 .. v.size : v.slot[i] = x

(* What a read through end() finds: a stale slot, or memory past the       *)
(* allocation, which never compares equal to an element.                   *)
SlotAtEnd(v) == IF v.size < v.cap THEN v.slot[v.size + 1] ELSE Junk

Full(v) == v.size = v.cap

(* A slip the invariants are tested against, as in EdgeNode.               *)
GrownCap_AlwaysDoubles(n) == 2 * n

GrownCap(n) == IF n = 0 THEN 1 ELSE 2 * n

push_back(v, x) ==
  LET cap == IF Full(v) THEN GrownCap(v.cap) ELSE v.cap
  IN  [slot |-> [i \in 1 .. cap |->
                   IF i = v.size + 1 THEN x
                   ELSE IF i <= v.cap THEN v.slot[i] ELSE Junk],
       cap  |-> cap,
       size |-> v.size + 1]

(* The elements are destroyed, the capacity and the bytes stay.            *)
clear(v) == [slot |-> v.slot, cap |-> v.cap, size |-> 0]

Elements(v) == [i \in 1 .. v.size |-> v.slot[i]]

=============================================================================
