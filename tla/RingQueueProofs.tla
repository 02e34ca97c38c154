-------------------------- MODULE RingQueueProofs --------------------------
(***************************************************************************)
(* Proofs about RingQueue for every capacity and every set of values: the  *)
(* invariants of struct QueueCpuStats, the stability of the slot a dequeue *)
(* points to, and the refinement of BoundedFifo.                           *)
(***************************************************************************)
EXTENDS RingQueue, TLAPS

(***************************************************************************)
(* Arithmetic of slots                                                     *)
(***************************************************************************)

\* Going round the array from slot f by at most Capacity slots.
LEMMA Around ==
  ASSUME NEW f \in Slot, NEW n \in 0 .. Capacity
  PROVE  /\ (f + n) % Capacity = IF f + n < Capacity THEN f + n
                                                     ELSE f + n - Capacity
         /\ (f + n) % Capacity \in Slot
  BY CapacityAssumption, SMT DEF Slot

\* The successor of a slot is a slot, and one slot round the array from it.
LEMMA AfterSlot ==
  ASSUME NEW f \in Slot
  PROVE  /\ After(f) \in Slot
         /\ After(f) = IF f + 1 < Capacity THEN f + 1 ELSE 0
  BY CapacityAssumption, SMT DEF Slot, After

-----------------------------------------------------------------------------
(***************************************************************************)
(* The inductive invariant.  TypeOK alone is inductive; FieldsAgree needs  *)
(* it, and DequeuedBehindFront is what DequeuedSlotStable rests on.        *)
(***************************************************************************)

\* The slot the last dequeue pointed to is the one front has just left.
DequeuedBehindFront == dequeued # NULL => front = After(dequeued)

Inv == TypeOK /\ FieldsAgree /\ DequeuedBehindFront

LEMMA InvInit == Init => Inv
  <1> SUFFICES ASSUME Init PROVE Inv
    OBVIOUS
  <1>1. TypeOK
    BY CapacityAssumption, ZeroAssumption DEF Init, TypeOK, Slot
  <1>2. FieldsAgree
    BY CapacityAssumption, SMT DEF Init, FieldsAgree
  <1>3. DequeuedBehindFront
    BY DEF Init, DequeuedBehindFront
  <1> QED BY <1>1, <1>2, <1>3 DEF Inv

LEMMA InvNext == Inv /\ [Next]_vars => Inv'
  <1> SUFFICES ASSUME Inv, [Next]_vars PROVE Inv'
    OBVIOUS
  <1> USE CapacityAssumption DEF Inv, TypeOK
  <1>1. ASSUME NEW v \in Value, push(v) PROVE Inv'
    <2>1. CASE isFull
      BY <1>1, <2>1 DEF push, FieldsAgree, DequeuedBehindFront
    <2>2. CASE ~isFull
      <3>1. size \in 0 .. Capacity - 1 /\ size + 1 \in 0 .. Capacity
        BY <2>2 DEF isFull
      <3>2. TypeOK'
        BY <1>1, <2>2, <3>1, AfterSlot DEF push
      <3>3. FieldsAgree'
        <4>1. rear = IF front + size < Capacity THEN front + size
                                                ELSE front + size - Capacity
          BY Around DEF FieldsAgree
        <4>2. (front + (size + 1)) % Capacity =
                IF front + (size + 1) < Capacity
                THEN front + (size + 1) ELSE front + (size + 1) - Capacity
          BY <3>1, Around
        <4>3. /\ rear' = IF rear + 1 < Capacity THEN rear + 1 ELSE 0
              /\ size' = size + 1
              /\ front' = front
          BY <1>1, <2>2, AfterSlot DEF push
        <4>4. front \in Nat /\ front < Capacity
          BY DEF Slot
        <4> QED BY <3>1, <4>1, <4>2, <4>3, <4>4 DEF FieldsAgree
      <3>4. DequeuedBehindFront'
        BY <1>1, <2>2 DEF push, DequeuedBehindFront
      <3> QED BY <3>2, <3>3, <3>4
    <2> QED BY <2>1, <2>2
  <1>2. ASSUME dequeue PROVE Inv'
    <2>1. CASE isEmpty
      BY <1>2, <2>1 DEF dequeue, FieldsAgree, DequeuedBehindFront
    <2>2. CASE ~isEmpty
      <3>1. size \in 1 .. Capacity /\ size - 1 \in 0 .. Capacity
        BY <2>2 DEF isEmpty
      <3>2. TypeOK'
        BY <1>2, <2>2, <3>1, AfterSlot DEF dequeue
      <3>3. FieldsAgree'
        <4>1. rear = IF front + size < Capacity THEN front + size
                                                ELSE front + size - Capacity
          BY Around DEF FieldsAgree
        <4>2. front' \in Slot /\ size' \in 0 .. Capacity
          BY <3>1, <3>2
        <4>3. (front' + size') % Capacity =
                IF front' + size' < Capacity THEN front' + size'
                                             ELSE front' + size' - Capacity
          BY <4>2, Around
        <4>4. /\ front' = IF front + 1 < Capacity THEN front + 1 ELSE 0
              /\ size' = size - 1
              /\ rear' = rear
          BY <1>2, <2>2, AfterSlot DEF dequeue
        <4> QED BY <3>1, <4>1, <4>3, <4>4 DEF FieldsAgree, Slot
      <3>4. DequeuedBehindFront'
        BY <1>2, <2>2 DEF dequeue, DequeuedBehindFront
      <3> QED BY <3>2, <3>3, <3>4
    <2> QED BY <2>1, <2>2
  <1>3. ASSUME front_ PROVE Inv'
    BY <1>3 DEF front_, FieldsAgree, DequeuedBehindFront, isEmpty
  <1>4. ASSUME rear_ PROVE Inv'
    BY <1>4 DEF rear_, FieldsAgree, DequeuedBehindFront, isEmpty
  <1>5. ASSUME UNCHANGED vars PROVE Inv'
    BY <1>5 DEF vars, FieldsAgree, DequeuedBehindFront
  <1> QED BY <1>1, <1>2, <1>3, <1>4, <1>5 DEF Next

LEMMA InvHolds == Spec => []Inv
  BY InvInit, InvNext, PTL DEF Spec

-----------------------------------------------------------------------------

\* The structure keeps its type: front and rear never leave the array and
\* size never exceeds MAX_CAPACITY, for every MAX_CAPACITY.
THEOREM TypeCorrect == Spec => []TypeOK
  <1>1. Inv => TypeOK
    BY DEF Inv
  <1> QED BY <1>1, InvHolds, PTL

\* front, rear and size of struct QueueCpuStats agree after any calls.
THEOREM FieldsAlwaysAgree == Spec => []FieldsAgree
  <1>1. Inv => FieldsAgree
    BY DEF Inv
  <1> QED BY <1>1, InvHolds, PTL

\* What dequeue_CpuStats points to is not overwritten before the queue is
\* full again.
THEOREM SlotStable == Spec => DequeuedSlotStable
  <1> DEFINE Stable == /\ dequeued # NULL
                       /\ size' < Capacity
                       => cpuValues'[dequeued] = cpuValues[dequeued]
  <1>1. Inv /\ [Next]_vars => [Stable]_vars
    <2> SUFFICES ASSUME Inv, Next, dequeued # NULL, size' < Capacity
                 PROVE  cpuValues'[dequeued] = cpuValues[dequeued]
      OBVIOUS
    <2> USE CapacityAssumption DEF Inv, TypeOK
    <2>1. ASSUME NEW v \in Value, push(v), ~isFull
          PROVE  cpuValues'[dequeued] = cpuValues[dequeued]
      <3>1. size \in 0 .. Capacity - 2
        BY <2>1 DEF push, isFull
      <3>2. rear # dequeued
        <4>1. dequeued \in Slot
          OBVIOUS
        <4>2. front = IF dequeued + 1 < Capacity THEN dequeued + 1 ELSE 0
          BY <4>1, AfterSlot DEF DequeuedBehindFront
        <4>3. rear = IF front + size < Capacity THEN front + size
                                                ELSE front + size - Capacity
          BY Around DEF FieldsAgree
        <4> QED BY <3>1, <4>1, <4>2, <4>3 DEF Slot
      <3> QED BY <2>1, <3>2 DEF push
    <2>2. ASSUME cpuValues' = cpuValues
          PROVE  cpuValues'[dequeued] = cpuValues[dequeued]
      BY <2>2
    <2> QED BY <2>1, <2>2 DEF Next, push, dequeue, front_, rear_
  <1> QED BY <1>1, InvHolds, PTL DEF Spec, DequeuedSlotStable

-----------------------------------------------------------------------------
(***************************************************************************)
(* The refinement of BoundedFifo                                           *)
(***************************************************************************)

\* Content is a sequence of size values, the first one in slot front.
LEMMA ContentIsSeq ==
  ASSUME Inv
  PROVE  /\ Content \in Seq(Value)
         /\ Len(Content) = size
         /\ DOMAIN Content = 1 .. size
         /\ \A i \in 1 .. size :
              Content[i] = cpuValues[(front + i - 1) % Capacity]
  <1> USE CapacityAssumption DEF Inv, TypeOK
  <1>1. size \in Nat /\ size <= Capacity
    OBVIOUS
  <1>2. ASSUME NEW i \in 1 .. size
        PROVE  (front + i - 1) % Capacity \in Slot
    <2>1. i - 1 \in 0 .. Capacity /\ front + i - 1 = front + (i - 1)
      BY <1>1 DEF Slot
    <2> QED BY <2>1, Around
  <1>3. Content \in [1 .. size -> Value]
    BY <1>2 DEF Content
  <1> QED BY <1>1, <1>3 DEF Content

LEMMA ContentOfEmpty ==
  ASSUME Inv
  PROVE  Content = <<>> <=> isEmpty
  <1> USE DEF Inv, TypeOK
  <1> QED BY ContentIsSeq, CapacityAssumption DEF isEmpty

\* push appends to the content.
LEMMA PushAppends ==
  ASSUME Inv, Inv', NEW v \in Value, push(v), ~isFull
  PROVE  Content' = Append(Content, v)
  <1> USE CapacityAssumption DEF Inv, TypeOK
  <1>1. size \in Nat /\ size < Capacity /\ size' = size + 1 /\ front' = front
    BY DEF push, isFull
  <1>2. rear = (front + size) % Capacity
    BY DEF FieldsAgree
  <1>3. cpuValues' = [cpuValues EXCEPT ![rear] = v]
    BY DEF push
  <1>4. ASSUME NEW i \in 1 .. size
        PROVE  Content'[i] = Content[i]
    <2>1. i - 1 \in 0 .. Capacity /\ front + i - 1 = front + (i - 1)
      BY <1>1 DEF Slot
    <2>2. /\ (front + i - 1) % Capacity \in Slot
          /\ (front + i - 1) % Capacity # rear
      <3>1. /\ (front + (i - 1)) % Capacity \in Slot
            /\ (front + (i - 1)) % Capacity =
                 IF front + (i - 1) < Capacity THEN front + (i - 1)
                                               ELSE front + (i - 1) - Capacity
        BY <2>1, Around
      <3>2. rear = IF front + size < Capacity THEN front + size
                                              ELSE front + size - Capacity
        BY <1>2, Around
      <3>3. front \in Nat /\ front < Capacity /\ i \in Nat /\ i > 0 /\ i <= size
        BY <1>1 DEF Slot
      <3> QED BY <1>1, <2>1, <3>1, <3>2, <3>3
    <2>3. Content'[i] = cpuValues'[(front + i - 1) % Capacity]
      BY <1>1, ContentIsSeq DEF Content
    <2> QED BY <1>3, <2>2, <2>3, ContentIsSeq
  <1>5. Content'[size + 1] = v
    <2>1. Content'[size + 1] = cpuValues'[(front + (size + 1) - 1) % Capacity]
      BY <1>1 DEF Content
    <2>2. front + (size + 1) - 1 = front + size
      BY <1>1 DEF Slot
    <2> QED BY <1>2, <1>3, <2>1, <2>2
  <1>6. Content' \in Seq(Value) /\ Len(Content') = size + 1
    <2>1. Content' \in [1 .. size + 1 -> Value]
      <3>1. Content' = [i \in 1 .. size + 1 |->
                          cpuValues'[(front + i - 1) % Capacity]]
        BY <1>1 DEF Content
      <3>2. ASSUME NEW i \in 1 .. size + 1
            PROVE  cpuValues'[(front + i - 1) % Capacity] \in Value
        <4>1. i - 1 \in 0 .. Capacity /\ front + i - 1 = front + (i - 1)
          BY <1>1 DEF Slot
        <4> QED BY <4>1, Around
      <3> QED BY <3>1, <3>2
    <2> QED BY <1>1, <2>1
  <1> QED BY <1>1, <1>4, <1>5, <1>6, ContentIsSeq

\* dequeue takes the head of the content.
LEMMA DequeueTakesHead ==
  ASSUME Inv, Inv', dequeue, ~isEmpty
  PROVE  ret' = Head(Content) /\ Content' = Tail(Content)
  <1> USE CapacityAssumption DEF Inv, TypeOK
  <1>1. /\ size \in Nat /\ size > 0 /\ size <= Capacity
        /\ size' = size - 1
        /\ cpuValues' = cpuValues
        /\ ret' = cpuValues[front]
    BY DEF dequeue, isEmpty
  <1>2. front' = IF front + 1 < Capacity THEN front + 1 ELSE 0
    BY AfterSlot DEF dequeue, isEmpty
  <1>3. Head(Content) = cpuValues[front]
    <2>1. Head(Content) = cpuValues[(front + 1 - 1) % Capacity]
      <3>1. Content \in Seq(Value) /\ Content # <<>>
        BY ContentIsSeq, ContentOfEmpty
      <3>2. Head(Content) = Content[1]
        BY <3>1
      <3>3. 1 \in 1 .. size
        BY <1>1
      <3> QED BY <3>2, <3>3, ContentIsSeq
    <2>2. (front + 1 - 1) % Capacity = front
      BY SMT DEF Slot
    <2> QED BY <2>1, <2>2
  <1>4. ASSUME NEW i \in 1 .. size - 1
        PROVE  Content'[i] = Content[i + 1]
    <2>1. /\ i - 1 \in 0 .. Capacity /\ i \in 0 .. Capacity
          /\ i + 1 \in 1 .. size
      BY <1>1
    <2>2. (front' + (i - 1)) % Capacity = (front + i) % Capacity
      <3>1. front' \in Slot
        OBVIOUS
      <3>2. (front' + (i - 1)) % Capacity =
              IF front' + (i - 1) < Capacity THEN front' + (i - 1)
                                             ELSE front' + (i - 1) - Capacity
        BY <2>1, <3>1, Around
      <3>3. (front + i) % Capacity = IF front + i < Capacity THEN front + i
                                                  ELSE front + i - Capacity
        BY <2>1, Around
      <3>4. front \in Nat /\ front < Capacity /\ i \in Nat
        BY <2>1 DEF Slot
      <3>5. CASE front + 1 < Capacity
        BY <1>2, <3>2, <3>3, <3>4, <3>5
      <3>6. CASE ~(front + 1 < Capacity)
        BY <1>1, <1>2, <3>2, <3>3, <3>4, <3>6
      <3> QED BY <3>5, <3>6
    <2>3. front' + i - 1 = front' + (i - 1) /\ front + (i + 1) - 1 = front + i
      BY <1>1, <2>1 DEF Slot
    <2>4. Content'[i] = cpuValues'[(front' + i - 1) % Capacity]
      BY <1>1 DEF Content
    <2>5. Content[i + 1] = cpuValues[(front + (i + 1) - 1) % Capacity]
      BY <2>1, ContentIsSeq
    <2> QED BY <1>1, <2>2, <2>3, <2>4, <2>5
  <1>5. Content' \in Seq(Value) /\ Len(Content') = size - 1
    <2>1. Content' \in [1 .. size - 1 -> Value]
      <3>1. Content' = [i \in 1 .. size - 1 |->
                          cpuValues'[(front' + i - 1) % Capacity]]
        BY <1>1 DEF Content
      <3>2. ASSUME NEW i \in 1 .. size - 1
            PROVE  cpuValues'[(front' + i - 1) % Capacity] \in Value
        <4>1. /\ front' \in Slot
              /\ i - 1 \in 0 .. Capacity
              /\ front' + i - 1 = front' + (i - 1)
          BY <1>1 DEF Slot
        <4> QED BY <4>1, Around
      <3> QED BY <3>1, <3>2
    <2> QED BY <1>1, <2>1
  <1> QED BY <1>1, <1>3, <1>4, <1>5, ContentIsSeq

LEMMA FifoInit == Init => Fifo!Init
  <1> SUFFICES ASSUME Init PROVE Fifo!Init
    OBVIOUS
  <1>1. Inv /\ isEmpty
    BY InvInit DEF Init, isEmpty
  <1>2. Content = <<>>
    BY <1>1, ContentOfEmpty
  <1> QED BY <1>2 DEF Fifo!Init, Init, OK, Fifo!OK

\* Every call is the call of BoundedFifo it should be.
LEMMA FifoNext == Inv /\ Inv' /\ [Next]_vars => [Fifo!Next]_(Fifo!vars)
  <1> SUFFICES ASSUME Inv, Inv', [Next]_vars
               PROVE  Fifo!Next \/ UNCHANGED Fifo!vars
    OBVIOUS
  <1>1. ASSUME NEW v \in Value, push(v) PROVE Fifo!Next
    <2>1. CASE isFull
      <3>1. Len(Content) = Capacity
        BY <2>1, ContentIsSeq DEF isFull
      <3>2. Content' = Content
        BY <1>1, <2>1 DEF push, Content
      <3> QED BY <1>1, <2>1, <3>1, <3>2
              DEF push, Fifo!Next, Fifo!PushRefused, FULL_ERROR, Fifo!FULL_ERROR
    <2>2. CASE ~isFull
      <3>1. Len(Content) < Capacity
        BY <2>2, ContentIsSeq, CapacityAssumption DEF isFull, Inv, TypeOK
      <3>2. Content' = Append(Content, v)
        BY <1>1, <2>2, PushAppends
      <3> QED BY <1>1, <2>2, <3>1, <3>2
              DEF push, Fifo!Next, Fifo!Push, OK, Fifo!OK
    <2> QED BY <2>1, <2>2
  <1>2. ASSUME dequeue PROVE Fifo!Next
    <2>1. CASE isEmpty
      <3>1. Content = <<>> /\ Content' = Content
        BY <1>2, <2>1, ContentOfEmpty DEF dequeue, Content
      <3> QED BY <1>2, <2>1, <3>1 DEF dequeue, Fifo!Next, Fifo!ReadEmpty
    <2>2. CASE ~isEmpty
      BY <1>2, <2>2, ContentOfEmpty, DequeueTakesHead
         DEF Fifo!Next, Fifo!Dequeue
    <2> QED BY <2>1, <2>2
  <1>3. ASSUME front_ PROVE Fifo!Next
    <2>1. Content' = Content
      BY <1>3 DEF front_, Content
    <2>2. CASE isEmpty
      BY <1>3, <2>1, <2>2, ContentOfEmpty DEF front_, Fifo!Next, Fifo!ReadEmpty
    <2>3. CASE ~isEmpty
      <3>1. Head(Content) = cpuValues[front]
        <4>1. Head(Content) = cpuValues[(front + 1 - 1) % Capacity]
          <5>1. Content \in Seq(Value) /\ Content # <<>>
            BY <2>3, ContentIsSeq, ContentOfEmpty
          <5>2. Head(Content) = Content[1]
            BY <5>1
          <5>3. 1 \in 1 .. size
            BY <2>3 DEF isEmpty, Inv, TypeOK
          <5> QED BY <5>2, <5>3, ContentIsSeq
        <4>2. (front + 1 - 1) % Capacity = front
          BY CapacityAssumption, SMT DEF Slot, Inv, TypeOK
        <4> QED BY <4>1, <4>2
      <3> QED BY <1>3, <2>1, <2>3, <3>1, ContentOfEmpty
              DEF front_, Fifo!Next, Fifo!Peek
    <2> QED BY <2>2, <2>3
  <1>4. ASSUME rear_ PROVE Fifo!Next
    <2>1. Content' = Content
      BY <1>4 DEF rear_, Content
    <2>2. CASE isEmpty
      BY <1>4, <2>1, <2>2, ContentOfEmpty DEF rear_, Fifo!Next, Fifo!ReadEmpty
    <2>3. CASE ~isEmpty
      <3>1. cpuValues[rear] \in Value
        BY DEF Inv, TypeOK
      <3> QED BY <1>4, <2>1, <2>3, <3>1, ContentOfEmpty
              DEF rear_, Fifo!Next, Fifo!PeekBehind
    <2> QED BY <2>2, <2>3
  <1>5. ASSUME UNCHANGED vars PROVE UNCHANGED Fifo!vars
    BY <1>5 DEF vars, Content, Fifo!vars
  <1> QED BY <1>1, <1>2, <1>3, <1>4, <1>5 DEF Next

\* The circular array of queue.c is a bounded FIFO, for every MAX_CAPACITY.
THEOREM Refinement == Spec => ImplementsFifo
  BY FifoInit, FifoNext, InvHolds, PTL DEF Spec, ImplementsFifo, Fifo!Spec
=============================================================================
