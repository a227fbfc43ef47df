--------------------------- MODULE IndicationFifo ---------------------------
(***************************************************************************)
(* What the indication queue promises its users: a first-in first-out      *)
(* queue of at most Capacity entries that refuses an entry when it is full *)
(* and reports an attempt to read it when it is empty.                     *)
(***************************************************************************)
EXTENDS Naturals, Sequences

CONSTANTS Capacity, Entry

VARIABLES
  fifo,   \* the entries, oldest first
  result  \* what the last call returned

Rejected == <<"rejected">>
Accepted == <<"accepted">>
Null == <<"NULL">>
Returned(e) == <<"entry", e>>

Init == fifo = << >> /\ result = Accepted

Put(e) ==
  \/ /\ Len(fifo) < Capacity
     /\ fifo' = Append(fifo, e)
     /\ result' = Accepted
  \/ /\ Len(fifo) = Capacity
     /\ result' = Rejected
     /\ UNCHANGED fifo

Refuse == result' = Rejected /\ UNCHANGED fifo

Get ==
  \/ /\ fifo # << >>
     /\ result' = Returned(Head(fifo))
     /\ fifo' = Tail(fifo)
  \/ /\ fifo = << >>
     /\ result' = Null
     /\ UNCHANGED fifo

Next == (\E e \in Entry : Put(e)) \/ Refuse \/ Get

Spec == Init /\ [][Next]_<<fifo, result>>
=============================================================================
