--------------------------- MODULE IndicationQueue --------------------------
(***************************************************************************)
(* write_queue and read_queue of ble.c under any sequence of calls.  Both  *)
(* run on the event-handling thread only, so a call is one step.  result   *)
(* is what the last call returned: 0, -1, NULL or a pointer into the ring. *)
(***************************************************************************)
EXTENDS IndicationRing

VARIABLES queue, result

vars == <<queue, result>>

Ok == <<"0">>
Failed == <<"-1">>
NullPointer == <<"NULL">>
SlotPointer(s) == <<"slot", s>>

Init == queue = InitRing /\ result = Ok

Write(data) ==
  /\ queue' = write_queue(queue, data)
  /\ result' = IF Accepts(queue, data) THEN Ok ELSE Failed

Read ==
  /\ queue' = read_queue(queue)
  /\ result' = IF IsEmpty(queue) THEN NullPointer ELSE SlotPointer(queue.rptr)

Next == Read \/ \E data \in Data : Write(data)

Spec == Init /\ [][Next]_vars

-----------------------------------------------------------------------------
(* Type invariant. *)
TypeOK ==
  /\ queue \in Ring
  /\ result \in {Ok, Failed, NullPointer} \cup {SlotPointer(s) : s \in Slots}

(* buffer_full is only ever set when the pointers meet, and every entry    *)
(* between them is data that was written: ble.c tells a full ring from an  *)
(* empty one by that flag alone, so a flag that lags by one call would     *)
(* hide QUEUE_DEPTH entries or deliver as many that nobody wrote.          *)
RingConsistent == Consistent(queue)

(* The ring implements the queue: nothing is reordered, lost, duplicated   *)
(* or refused while a slot is free, across every wrap-around.  The pointer *)
(* a read returned is followed at the time the result is looked at.        *)
AbstractResult ==
  IF result[1] = "slot" THEN <<"entry", queue.indication_buffer[result[2]]>>
  ELSE IF result = NullPointer THEN <<"NULL">>
  ELSE IF result = Failed THEN <<"rejected">>
  ELSE <<"accepted">>

Fifo == INSTANCE IndicationFifo
          WITH Capacity <- QUEUE_DEPTH, Entry <- ValidData,
               fifo <- Contents(queue), result <- AbstractResult

ImplementsFifo == Fifo!Spec
=============================================================================
