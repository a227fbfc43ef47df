----------------------- MODULE IndicationQueueProofs ------------------------
(***************************************************************************)
(* For every depth and every set of data: the ring keeps its invariant and *)
(* implements the bounded first-in first-out queue.                        *)
(***************************************************************************)
EXTENDS IndicationQueue, SequenceTheorems, TLAPS

(* Advancing a pointer stays in the ring and wraps at its end only.        *)
LEMMA NextPtrWraps ==
  ASSUME NEW p \in Slots
  PROVE  nextPtr(p) = (IF p = QUEUE_DEPTH - 1 THEN 0 ELSE p + 1) /\ nextPtr(p) \in Slots
<1>1. QUEUE_DEPTH \in Nat \ {0}
  BY RingAssumption
<1>2. CASE p = QUEUE_DEPTH - 1
  <2>1. QUEUE_DEPTH % QUEUE_DEPTH = 0
    BY <1>1, SMT
  <2> QED BY <1>1, <1>2, <2>1 DEF nextPtr, Slots
<1>3. CASE p # QUEUE_DEPTH - 1
  <2>1. p + 1 \in 0 .. QUEUE_DEPTH - 1
    BY <1>1, <1>3 DEF Slots
  <2>2. (p + 1) % QUEUE_DEPTH = p + 1
    BY <1>1, <2>1, SMT
  <2> QED BY <1>3, <2>1, <2>2 DEF nextPtr, Slots
<1> QED BY <1>2, <1>3

(* The ring's meaning is a sequence of valid data, no longer than the ring *)
(* is deep, and empty exactly when read_queue would return NULL.           *)
LEMMA ContentsSeq ==
  ASSUME NEW q \in Ring, Consistent(q)
  PROVE  /\ Count(q) \in 0 .. QUEUE_DEPTH
         /\ Contents(q) \in Seq(ValidData)
         /\ Len(Contents(q)) = Count(q)
         /\ \A i \in 1 .. Count(q) : Contents(q)[i] = q.indication_buffer[SlotAt(q, i)]
         /\ Contents(q) = << >> <=> IsEmpty(q)
         /\ Count(q) = QUEUE_DEPTH <=> q.buffer_full
<1>1. QUEUE_DEPTH \in Nat \ {0}
  BY RingAssumption
<1>2. /\ q.wptr \in Slots /\ q.rptr \in Slots /\ q.buffer_full \in BOOLEAN
      /\ q.indication_buffer \in [Slots -> ValidData \cup {Blank}]
  BY DEF Ring
<1>3. Count(q) \in 0 .. QUEUE_DEPTH
  BY <1>1, <1>2 DEF Count, Slots
<1>4. \A i \in 1 .. Count(q) : SlotAt(q, i) \in Slots
  BY <1>1, <1>2, <1>3 DEF SlotAt, Slots
<1>5. \A i \in 1 .. Count(q) : q.indication_buffer[SlotAt(q, i)] \in ValidData
  BY <1>2, <1>4 DEF Consistent
<1>6. Contents(q) \in Seq(ValidData) /\ Len(Contents(q)) = Count(q)
  <2>1. Contents(q) \in [1 .. Count(q) -> ValidData]
    BY <1>5 DEF Contents
  <2> QED BY <1>3, <2>1, SeqDef
<1>7. Contents(q) = << >> <=> Count(q) = 0
  BY <1>6, EmptySeq
<1>8. Count(q) = 0 <=> IsEmpty(q)
  BY <1>1, <1>2 DEF Count, IsEmpty, Slots, Consistent
<1>9. Count(q) = QUEUE_DEPTH <=> q.buffer_full
  BY <1>1, <1>2 DEF Count, Slots
<1> QED BY <1>3, <1>6, <1>7, <1>8, <1>9 DEF Contents

(* A write into a ring that is not full appends to its contents.           *)
LEMMA WriteAppends ==
  ASSUME NEW q \in Ring, Consistent(q), NEW d \in ValidData, ~q.buffer_full
  PROVE  /\ write_queue(q, d) \in Ring
         /\ Consistent(write_queue(q, d))
         /\ Count(q) < QUEUE_DEPTH
         /\ Contents(write_queue(q, d)) = Append(Contents(q), d)
<1> DEFINE r == write_queue(q, d)
<1>1. QUEUE_DEPTH \in Nat \ {0}
  BY RingAssumption
<1>2. /\ q.wptr \in Slots /\ q.rptr \in Slots /\ q.buffer_full = FALSE
      /\ q.indication_buffer \in [Slots -> ValidData \cup {Blank}]
  BY DEF Ring
<1>3. nextPtr(q.wptr) \in Slots
      /\ nextPtr(q.wptr) = IF q.wptr = QUEUE_DEPTH - 1 THEN 0 ELSE q.wptr + 1
  BY <1>2, NextPtrWraps
<1>4. /\ r.wptr = nextPtr(q.wptr) /\ r.rptr = q.rptr
      /\ r.buffer_full = (nextPtr(q.wptr) = q.rptr)
      /\ r.indication_buffer = [q.indication_buffer EXCEPT ![q.wptr] = d]
  BY DEF write_queue, Accepts
<1>5. r \in Ring
  <2>1. r = [wptr |-> r.wptr, rptr |-> r.rptr, buffer_full |-> r.buffer_full,
             indication_buffer |-> r.indication_buffer]
    BY DEF write_queue, Accepts
  <2>2. r.indication_buffer \in [Slots -> ValidData \cup {Blank}]
    BY <1>2, <1>4
  <2>3. r.wptr \in Slots /\ r.rptr \in Slots /\ r.buffer_full \in BOOLEAN
    BY <1>2, <1>3, <1>4
  <2> HIDE DEF r
  <2> QED BY <2>1, <2>2, <2>3 DEF Ring
<1>6. Count(q) \in 0 .. QUEUE_DEPTH - 1 /\ Count(q) < QUEUE_DEPTH /\ Count(r) = Count(q) + 1
  <2> HIDE DEF r
  <2>1. Count(q) = IF q.rptr <= q.wptr THEN q.wptr - q.rptr ELSE QUEUE_DEPTH - q.rptr + q.wptr
    BY <1>2 DEF Count
  <2>2. CASE nextPtr(q.wptr) = q.rptr
    <3>1. Count(r) = QUEUE_DEPTH
      BY <1>4, <2>2 DEF Count
    <3> QED BY <1>1, <1>2, <1>3, <2>1, <2>2, <3>1 DEF Slots
  <2>3. CASE nextPtr(q.wptr) # q.rptr
    <3>1. ~r.buffer_full
      BY <1>4, <2>3
    <3>2. Count(r) = IF q.rptr <= nextPtr(q.wptr) THEN nextPtr(q.wptr) - q.rptr
                     ELSE QUEUE_DEPTH - q.rptr + nextPtr(q.wptr)
      BY <1>4, <3>1 DEF Count
    <3> QED BY <1>1, <1>2, <1>3, <2>1, <2>3, <3>2 DEF Slots
  <2> QED BY <2>2, <2>3
<1>7. SlotAt(r, Count(q) + 1) = q.wptr
  <2> HIDE DEF r
  <2> QED BY <1>1, <1>2, <1>3, <1>4 DEF Count, SlotAt, Slots
<1>8. \A i \in 1 .. Count(q) :
        SlotAt(r, i) = SlotAt(q, i) /\ SlotAt(q, i) \in Slots /\ SlotAt(q, i) # q.wptr
  <2> HIDE DEF r
  <2> QED BY <1>1, <1>2, <1>3, <1>4 DEF Count, SlotAt, Slots
<1>9. \A i \in 1 .. Count(q) :
        r.indication_buffer[SlotAt(r, i)] = q.indication_buffer[SlotAt(q, i)]
  <2> HIDE DEF r
  <2> QED BY <1>2, <1>4, <1>8
<1>10. r.indication_buffer[SlotAt(r, Count(r))] = d
  <2> HIDE DEF r
  <2> QED BY <1>2, <1>4, <1>6, <1>7
<1>11. Consistent(r)
  <2>1. d # Blank
    BY RingAssumption DEF ValidData
  <2>2. r.buffer_full => r.wptr = r.rptr
    BY <1>4
  <2>3. ASSUME NEW i \in 1 .. Count(r)
        PROVE  r.indication_buffer[SlotAt(r, i)] # Blank
    <3> HIDE DEF r
    <3>1. CASE i \in 1 .. Count(q)
      BY <1>9, <3>1 DEF Consistent
    <3>2. CASE i = Count(r)
      BY <1>10, <2>1, <3>2
    <3> QED BY <1>6, <3>1, <3>2
  <2> HIDE DEF r
  <2> QED BY <2>2, <2>3 DEF Consistent
<1>12. Contents(r) = Append(Contents(q), d)
  <2> HIDE DEF r
  <2>1. /\ Contents(q) \in Seq(ValidData) /\ Len(Contents(q)) = Count(q)
        /\ \A i \in 1 .. Count(q) : Contents(q)[i] = q.indication_buffer[SlotAt(q, i)]
    BY ContentsSeq
  <2>2. /\ Contents(r) \in Seq(ValidData) /\ Len(Contents(r)) = Count(r)
        /\ \A i \in 1 .. Count(r) : Contents(r)[i] = r.indication_buffer[SlotAt(r, i)]
    BY <1>5, <1>11, ContentsSeq
  <2>3. /\ Append(Contents(q), d) \in Seq(ValidData)
        /\ Len(Append(Contents(q), d)) = Count(q) + 1
        /\ \A i \in 1 .. Count(q) : Append(Contents(q), d)[i] = Contents(q)[i]
        /\ Append(Contents(q), d)[Count(q) + 1] = d
    BY <1>6, <2>1, AppendProperties
  <2>4. \A i \in 1 .. Len(Contents(r)) : Contents(r)[i] = Append(Contents(q), d)[i]
    BY <1>6, <1>9, <1>10, <2>1, <2>2, <2>3
  <2> QED BY <1>6, <2>2, <2>3, <2>4, SeqEqual
<1> QED BY <1>5, <1>6, <1>11, <1>12

(* A read from a ring that is not empty returns the oldest entry and       *)
(* removes it.                                                             *)
LEMMA ReadTakesHead ==
  ASSUME NEW q \in Ring, Consistent(q), ~IsEmpty(q)
  PROVE  /\ read_queue(q) \in Ring
         /\ Consistent(read_queue(q))
         /\ Contents(q) # << >>
         /\ Head(Contents(q)) = q.indication_buffer[q.rptr]
         /\ Contents(read_queue(q)) = Tail(Contents(q))
<1> DEFINE r == read_queue(q)
<1>1. QUEUE_DEPTH \in Nat \ {0}
  BY RingAssumption
<1>2. /\ q.wptr \in Slots /\ q.rptr \in Slots /\ q.buffer_full \in BOOLEAN
      /\ q.indication_buffer \in [Slots -> ValidData \cup {Blank}]
      /\ q = [wptr |-> q.wptr, rptr |-> q.rptr, buffer_full |-> q.buffer_full,
              indication_buffer |-> q.indication_buffer]
  BY DEF Ring
<1>3. nextPtr(q.rptr) \in Slots
      /\ nextPtr(q.rptr) = IF q.rptr = QUEUE_DEPTH - 1 THEN 0 ELSE q.rptr + 1
  BY <1>2, NextPtrWraps
<1>4. r = [wptr |-> q.wptr, rptr |-> nextPtr(q.rptr), buffer_full |-> FALSE,
           indication_buffer |-> q.indication_buffer]
  BY <1>2 DEF read_queue
<1>5. /\ r.wptr = q.wptr /\ r.rptr = nextPtr(q.rptr) /\ r.buffer_full = FALSE
      /\ r.indication_buffer = q.indication_buffer
  BY <1>4
<1>6. r \in Ring
  BY <1>2, <1>3, <1>4 DEF Ring
<1> HIDE DEF r
<1>7. Count(q) \in 1 .. QUEUE_DEPTH /\ Count(r) = Count(q) - 1
  BY <1>1, <1>2, <1>3, <1>5 DEF Count, Slots, IsEmpty, Consistent
<1>8. /\ SlotAt(q, 1) = q.rptr
      /\ \A i \in 1 .. Count(r) : SlotAt(r, i) = SlotAt(q, i + 1)
  BY <1>1, <1>2, <1>3, <1>5, <1>7 DEF SlotAt, Slots
<1>9. Consistent(r)
  <2>1. \A i \in 1 .. Count(r) : i + 1 \in 1 .. Count(q)
    BY <1>7
  <2> QED BY <1>5, <1>8, <2>1 DEF Consistent
<1>10. /\ Contents(q) \in Seq(ValidData) /\ Len(Contents(q)) = Count(q)
       /\ \A i \in 1 .. Count(q) : Contents(q)[i] = q.indication_buffer[SlotAt(q, i)]
       /\ Contents(q) # << >>
  BY ContentsSeq
<1>11. /\ Contents(r) \in Seq(ValidData) /\ Len(Contents(r)) = Count(r)
       /\ \A i \in 1 .. Count(r) : Contents(r)[i] = r.indication_buffer[SlotAt(r, i)]
  BY <1>6, <1>9, ContentsSeq
<1>12. Head(Contents(q)) = q.indication_buffer[q.rptr]
  <2>1. Head(Contents(q)) = Contents(q)[1]
    BY <1>10
  <2> QED BY <1>7, <1>8, <1>10, <2>1
<1>13. Contents(r) = Tail(Contents(q))
  <2>1. /\ Tail(Contents(q)) \in Seq(ValidData) /\ Len(Tail(Contents(q))) = Count(q) - 1
        /\ \A i \in 1 .. Count(q) - 1 : Tail(Contents(q))[i] = Contents(q)[i + 1]
    BY <1>10, HeadTailProperties
  <2>2. \A i \in 1 .. Count(r) : Contents(r)[i] = Tail(Contents(q))[i]
    BY <1>5, <1>7, <1>8, <1>10, <1>11, <2>1
  <2> QED BY <1>7, <1>11, <2>1, <2>2, SeqEqual
<1> QED BY <1>6, <1>9, <1>10, <1>12, <1>13 DEF r

-----------------------------------------------------------------------------
IInv == TypeOK /\ RingConsistent

(* A write keeps the invariant and is a Put, or a refusal, of the queue.   *)
LEMMA WriteStep ==
  ASSUME IInv, NEW data \in Data, Write(data)
  PROVE  IInv' /\ Fifo!Next
<1>1. queue \in Ring /\ Consistent(queue)
  BY DEF IInv, TypeOK, RingConsistent
<1>2. CASE Accepts(queue, data)
  <2>1. data \in ValidData /\ ~queue.buffer_full
    BY <1>2 DEF Accepts
  <2>2. queue' = write_queue(queue, data) /\ result' = Ok
    BY <1>2 DEF Write
  <2>3. /\ queue' \in Ring /\ Consistent(queue')
        /\ Contents(queue') = Append(Contents(queue), data)
        /\ Len(Contents(queue)) < QUEUE_DEPTH
    BY <1>1, <2>1, <2>2, WriteAppends, ContentsSeq
  <2>4. AbstractResult' = <<"accepted">>
    BY <2>2 DEF AbstractResult, Ok, Failed, NullPointer
  <2>5. Fifo!Put(data)
    BY <2>3, <2>4 DEF Fifo!Put, Fifo!Accepted
  <2> QED BY <2>1, <2>2, <2>3, <2>5 DEF IInv, TypeOK, RingConsistent, Fifo!Next
<1>3. CASE ~Accepts(queue, data)
  <2>1. queue' = queue /\ result' = Failed
    BY <1>3 DEF Write, write_queue
  <2>2. AbstractResult' = <<"rejected">>
    BY <2>1 DEF AbstractResult, Failed, NullPointer
  <2>3. Fifo!Refuse
    BY <2>1, <2>2 DEF Fifo!Refuse, Fifo!Rejected
  <2> QED BY <1>1, <2>1, <2>3 DEF IInv, TypeOK, RingConsistent, Fifo!Next
<1> QED BY <1>2, <1>3

(* A read keeps the invariant and is a Get of the queue.                   *)
LEMMA ReadStep ==
  ASSUME IInv, Read
  PROVE  IInv' /\ Fifo!Next
<1>1. queue \in Ring /\ Consistent(queue)
  BY DEF IInv, TypeOK, RingConsistent
<1>2. CASE IsEmpty(queue)
  <2>1. queue' = queue /\ result' = NullPointer
    BY <1>2 DEF Read, read_queue
  <2>2. AbstractResult' = <<"NULL">> /\ Contents(queue) = << >>
    BY <1>1, <1>2, <2>1, ContentsSeq DEF AbstractResult, NullPointer
  <2>3. Fifo!Get
    BY <2>1, <2>2 DEF Fifo!Get, Fifo!Null
  <2> QED BY <1>1, <2>1, <2>3 DEF IInv, TypeOK, RingConsistent, Fifo!Next
<1>3. CASE ~IsEmpty(queue)
  <2>1. queue' = read_queue(queue) /\ result' = SlotPointer(queue.rptr)
    BY <1>3 DEF Read
  <2>2. /\ queue' \in Ring /\ Consistent(queue') /\ Contents(queue) # << >>
        /\ Head(Contents(queue)) = queue.indication_buffer[queue.rptr]
        /\ Contents(queue') = Tail(Contents(queue))
    BY <1>1, <1>3, <2>1, ReadTakesHead
  <2>3. queue'.indication_buffer = queue.indication_buffer
    BY <1>1, <1>3, <2>1 DEF read_queue, Ring
  <2>4. AbstractResult' = <<"entry", queue.indication_buffer[queue.rptr]>>
    BY <2>1, <2>3 DEF AbstractResult, SlotPointer
  <2>5. Fifo!Get
    BY <2>2, <2>4 DEF Fifo!Get, Fifo!Returned
  <2>6. queue.rptr \in Slots
    BY <1>1 DEF Ring
  <2> QED BY <2>1, <2>2, <2>5, <2>6 DEF IInv, TypeOK, RingConsistent, Fifo!Next
<1> QED BY <1>2, <1>3

LEMMA InitHolds ==
  ASSUME Init
  PROVE  IInv /\ Fifo!Init
<1>1. 0 \in Slots
  BY RingAssumption DEF Slots
<1>2. queue \in Ring
  BY <1>1 DEF Init, InitRing, Ring
<1>3. Count(queue) = 0
  BY DEF Init, InitRing, Count
<1>4. Consistent(queue)
  BY <1>3 DEF Consistent, Init, InitRing
<1>5. IsEmpty(queue)
  BY DEF Init, InitRing, IsEmpty
<1>6. Contents(queue) = << >>
  BY <1>2, <1>4, <1>5, ContentsSeq
<1>7. AbstractResult = <<"accepted">>
  BY DEF Init, AbstractResult, Ok, Failed, NullPointer
<1> QED BY <1>2, <1>4, <1>6, <1>7
        DEF Init, IInv, TypeOK, RingConsistent, Fifo!Init, Fifo!Accepted

(* Type correctness and consistency of the ring, for every depth: however  *)
(* often the pointers wrap, buffer_full is set only when they meet and     *)
(* read_queue only ever returns an entry that was written.                 *)
THEOREM QueueInvariant == Spec => [](TypeOK /\ RingConsistent)
<1>1. Init => IInv
  BY InitHolds
<1>2. IInv /\ [Next]_vars => IInv'
  <2>1. IInv /\ UNCHANGED vars => IInv'
    BY DEF IInv, TypeOK, RingConsistent, vars
  <2> QED BY <2>1, WriteStep, ReadStep DEF Next
<1> QED BY <1>1, <1>2, PTL DEF Spec, IInv

(* The pointers never leave the array, and a slot is empty or holds what   *)
(* write_queue accepted.                                                   *)
THEOREM QueueTypes == Spec => []TypeOK
  BY QueueInvariant, PTL

(* The ring of ble.c is a bounded first-in first-out queue: each write is  *)
(* a Put or a refusal, each read takes the oldest entry or reports NULL.   *)
THEOREM QueueImplementsFifo == Spec => ImplementsFifo
<1>1. Init => IInv /\ Fifo!Init
  BY InitHolds
<1>2. IInv /\ [Next]_vars => IInv' /\ [Fifo!Next]_<<Contents(queue), AbstractResult>>
  <2>1. IInv /\ UNCHANGED vars =>
          IInv' /\ UNCHANGED <<Contents(queue), AbstractResult>>
    BY DEF IInv, TypeOK, RingConsistent, vars, AbstractResult
  <2> QED BY <2>1, WriteStep, ReadStep DEF Next
<1> QED BY <1>1, <1>2, PTL DEF Spec, ImplementsFifo, Fifo!Spec
=============================================================================
