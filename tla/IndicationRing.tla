--------------------------- MODULE IndicationRing ---------------------------
(***************************************************************************)
(* The circular buffer of indications that wait for the client, as ble.c   *)
(* implements it: ble_data->indication_buffer with a write pointer, a read *)
(* pointer and a flag that tells a full ring from an empty one.  The ring  *)
(* is a record with the four fields of ble_data_struct_t; the operators    *)
(* return the new ring, IndicationQueue makes a state machine of them.     *)
(***************************************************************************)
EXTENDS Integers, Sequences

CONSTANTS
  QUEUE_DEPTH,        \* entries in the ring, 16 in ble.h
  MAX_BUFFER_LENGTH,  \* longest and shortest value write_queue accepts
  MIN_BUFFER_LENGTH,
  Data,               \* the indications a caller may hand to write_queue
  Blank               \* an entry that was never written

ASSUME RingAssumption ==
  /\ QUEUE_DEPTH \in Nat \ {0}
  /\ MIN_BUFFER_LENGTH \in Nat
  /\ MAX_BUFFER_LENGTH \in Nat
  /\ \A d \in Data : d.bufferLength \in Nat
  /\ Blank \notin Data

Slots == 0 .. QUEUE_DEPTH - 1

(* Data that write_queue's parameter check lets through. *)
ValidData == {d \in Data : d.bufferLength \in MIN_BUFFER_LENGTH .. MAX_BUFFER_LENGTH}

Ring == [wptr : Slots, rptr : Slots, buffer_full : BOOLEAN,
         indication_buffer : [Slots -> ValidData \cup {Blank}]]

InitRing == [wptr |-> 0, rptr |-> 0, buffer_full |-> FALSE,
             indication_buffer |-> [s \in Slots |-> Blank]]

(* Mutant: the pointer is not wrapped. *)
nextPtr_NoWrap(ptr) == ptr + 1

nextPtr(ptr) == (ptr + 1) % QUEUE_DEPTH

IsEmpty(q) == q.wptr = q.rptr /\ ~q.buffer_full

(* write_queue returns -1 and changes nothing when it refuses the data.    *)
Accepts(q, data) == data \in ValidData /\ ~q.buffer_full

(* Mutants: the flag is computed before the pointer moves; the full ring   *)
(* is written all the same.                                                *)
write_queue_FlagTooEarly(q, data) ==
  IF Accepts(q, data)
  THEN [q EXCEPT !.wptr = nextPtr(q.wptr), !.buffer_full = (q.wptr = q.rptr),
                 !.indication_buffer[q.wptr] = data]
  ELSE q

write_queue_NoFullCheck(q, data) ==
  IF data \in ValidData
  THEN [q EXCEPT !.wptr = nextPtr(q.wptr), !.buffer_full = (nextPtr(q.wptr) = q.rptr),
                 !.indication_buffer[q.wptr] = data]
  ELSE q

write_queue(q, data) ==
  IF Accepts(q, data)
  THEN [wptr |-> nextPtr(q.wptr), rptr |-> q.rptr,
        buffer_full |-> nextPtr(q.wptr) = q.rptr,
        indication_buffer |-> [q.indication_buffer EXCEPT ![q.wptr] = data]]
  ELSE q

(* What read_queue leaves; it returns a pointer to slot q.rptr, or NULL.    *)
read_queue(q) ==
  IF IsEmpty(q) THEN q
  ELSE [wptr |-> q.wptr, rptr |-> nextPtr(q.rptr), buffer_full |-> FALSE,
        indication_buffer |-> q.indication_buffer]

(* The boot handler resets the two pointers, not buffer_full. *)
BootRing(q) == [q EXCEPT !.wptr = 0, !.rptr = 0]

-----------------------------------------------------------------------------
(* The meaning of a ring: how many entries it holds and, oldest first,     *)
(* which they are.                                                         *)
Count(q) ==
  IF q.buffer_full THEN QUEUE_DEPTH
  ELSE IF q.rptr <= q.wptr THEN q.wptr - q.rptr
  ELSE QUEUE_DEPTH - q.rptr + q.wptr

SlotAt(q, i) ==
  IF q.rptr + i - 1 < QUEUE_DEPTH THEN q.rptr + i - 1
  ELSE q.rptr + i - 1 - QUEUE_DEPTH

Contents(q) == [i \in 1 .. Count(q) |-> q.indication_buffer[SlotAt(q, i)]]

(* The flag is only raised when the pointers meet, and what lies between   *)
(* them was written.                                                       *)
Consistent(q) ==
  /\ q.buffer_full => q.wptr = q.rptr
  /\ \A i \in 1 .. Count(q) : q.indication_buffer[SlotAt(q, i)] # Blank
=============================================================================
