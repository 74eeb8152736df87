-------------------------- MODULE SubscriberTable --------------------------
(***************************************************************************)
(* What the pair of vectors in TcpServer promises, whatever the order of   *)
(* commands and however workers interleave with them: one table of         *)
(* <<endpoint, push socket>> rows that only ever grows by a row with a new *)
(* endpoint and a never used socket, or is emptied as a whole.             *)
(***************************************************************************)
EXTENDS Naturals, Sequences

CONSTANTS Endpoints, Sockets

VARIABLES
  table,  \* sequence of [endpoint, socket] rows, in the order of subscription
  used    \* every socket that ever was in the table

tableAndUsed == <<table, used>>

Rows == [endpoint : Endpoints, socket : Sockets]

TableInit == table = << >> /\ used = {}

Add(e, s) ==
  /\ \A i \in 1 .. Len(table) : table[i].endpoint # e
  /\ s \notin used
  /\ table' = Append(table, [endpoint |-> e, socket |-> s])
  /\ used' = used \cup {s}

Empty == table' = << >> /\ used' = used

TableNext == Empty \/ \E e \in Endpoints, s \in Sockets : Add(e, s)

TableSpec == TableInit /\ [][TableNext]_tableAndUsed

=============================================================================
