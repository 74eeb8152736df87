------------------------------- MODULE FanOut -------------------------------
(***************************************************************************)
(* What the node promises downstream when it is run with care: frames are  *)
(* taken one at a time, each is offered once to every subscriber there is  *)
(* when it is taken, in subscription order, and the next frame is taken    *)
(* only when the last offer is over.  A subscriber accepts an offer or     *)
(* misses it; the set of subscribers changes only between frames.          *)
(***************************************************************************)
EXTENDS Naturals, Sequences

CONSTANTS Sockets, MaxFrames

VARIABLES
  subs,   \* the push sockets, in subscription order
  todo,   \* the sockets the current frame has still to be offered to
  taken,  \* how many frames have been taken
  out     \* the frames each socket has accepted, in order

fanVars == <<subs, todo, taken, out>>

FanInit ==
  /\ subs = << >>
  /\ todo = << >>
  /\ taken = 0
  /\ out = [s \in Sockets |-> << >>]

Join(s) ==
  /\ todo = << >>
  /\ \A i \in 1 .. Len(subs) : subs[i] # s
  /\ subs' = Append(subs, s)
  /\ UNCHANGED <<todo, taken, out>>

Reset ==
  /\ todo = << >>
  /\ subs' = << >>
  /\ UNCHANGED <<todo, taken, out>>

Take ==
  /\ todo = << >>
  /\ taken < MaxFrames
  /\ taken' = taken + 1
  /\ todo' = subs
  /\ UNCHANGED <<subs, out>>

Offer ==
  /\ todo # << >>
  /\ todo' = Tail(todo)
  /\ out' \in {out, [out EXCEPT ![Head(todo)] = Append(@, taken)]}
  /\ UNCHANGED <<subs, taken>>

FanNext == Reset \/ Take \/ Offer \/ \E s \in Sockets : Join(s)

FanSpec == FanInit /\ [][FanNext]_fanVars /\ WF_fanVars(Offer)

=============================================================================
