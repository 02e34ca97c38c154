----------------------------- MODULE RingQueue -----------------------------
(***************************************************************************)
(* The circular array of src/queue.c.  The program has two of them with    *)
(* the same code, cpuStatsQueue (reader -> analyzer) and                   *)
(* cpuStatsQueuePrint (analyzer -> printer); the module models one and is  *)
(* named after the first.  A C pointer into the array is the index of the  *)
(* slot it points to.                                                      *)
(*                                                                         *)
(* The callers serialise the calls with a mutex (module CpuUsage checks    *)
(* that they do), so a call is one step.                                   *)
(***************************************************************************)
EXTENDS Naturals, Sequences

CONSTANTS
  Capacity,  \* MAX_CAPACITY of inc/queue.h
  Value,     \* what the queue holds
  Zero,      \* the content of a slot of the zero-initialised static array
  NULL       \* the null pointer

ASSUME CapacityAssumption == Capacity \in Nat \ {0}
ASSUME ZeroAssumption == Zero \in Value

VARIABLES
  cpuValues, \* the array
  front,     \* index for dequeue
  rear,      \* index for push
  size,      \* current size of the queue
  dequeued,  \* slot the last successful dequeue returned a pointer to
  ret        \* what the last call returned, a pointer dereferenced

vars == <<cpuValues, front, rear, size, dequeued, ret>>

OK == "OK"
FULL_ERROR == "FULL_ERROR"
Slot == 0 .. Capacity - 1

Init ==
  /\ cpuValues = [i \in Slot |-> Zero]
  /\ front = 0
  /\ rear = 0
  /\ size = 0
  /\ dequeued = NULL
  /\ ret = OK

\* Mutant: the test for a full array is off by one.
isFullLate == size = Capacity + 1

isFull == size = Capacity

isEmpty == size = 0

\* Mutants: no wrap at the end of the array; wrap one slot early; the index
\* is not advanced.
AfterNoWrap(i) == i + 1
AfterShort(i) == (i + 1) % (Capacity - 1)
AfterStuck(i) == i

\* The slot after i, round the end of the array.
After(i) == (i + 1) % Capacity

push(v) ==
  \/ /\ isFull
     /\ ret' = FULL_ERROR
     /\ UNCHANGED <<cpuValues, front, rear, size, dequeued>>
  \/ /\ ~isFull
     /\ cpuValues' = [cpuValues EXCEPT ![rear] = v]
     /\ rear' = After(rear)
     /\ size' = size + 1
     /\ ret' = OK
     /\ UNCHANGED <<front, dequeued>>

dequeue ==
  \/ /\ isEmpty
     /\ ret' = NULL
     /\ UNCHANGED <<cpuValues, front, rear, size, dequeued>>
  \/ /\ ~isEmpty
     /\ dequeued' = front
     /\ ret' = cpuValues[front]
     /\ front' = After(front)
     /\ size' = size - 1
     /\ UNCHANGED <<cpuValues, rear>>

front_ ==
  /\ ret' = IF isEmpty THEN NULL ELSE cpuValues[front]
  /\ UNCHANGED <<cpuValues, front, rear, size, dequeued>>

\* The element last pushed is in the slot before rear: this is not it.
rear_ ==
  /\ ret' = IF isEmpty THEN NULL ELSE cpuValues[rear]
  /\ UNCHANGED <<cpuValues, front, rear, size, dequeued>>

Next ==
  \/ \E v \in Value : push(v)
  \/ dequeue
  \/ front_
  \/ rear_

Spec == Init /\ [][Next]_vars

-----------------------------------------------------------------------------

\* Type invariant of queue.c's structure.
TypeOK ==
  /\ cpuValues \in [Slot -> Value]
  /\ front \in Slot
  /\ rear \in Slot
  /\ size \in 0 .. Capacity
  /\ dequeued \in Slot \cup {NULL}
  /\ ret \in Value \cup {OK, FULL_ERROR, NULL}

\* The three redundant fields of struct QueueCpuStats agree: rear is size
\* slots after front, whatever mix of pushes and dequeues went before.
\* push_CpuStats and dequeue_CpuStats each update two of the three.
FieldsAgree == rear = (front + size) % Capacity

\* dequeue_CpuStats returns a pointer into the array, not a copy.  The slot it
\* points to keeps its value until a push makes the queue full: the analyzer
\* and the printer may copy the element out as long as that cannot happen.
DequeuedSlotStable ==
  [][dequeued # NULL /\ size' < Capacity =>
       cpuValues'[dequeued] = cpuValues[dequeued]]_vars

\* The elements in the queue, the oldest first.
Content == [i \in 1 .. size |-> cpuValues[(front + i - 1) % Capacity]]

Fifo == INSTANCE BoundedFifo WITH content <- Content, result <- ret

\* The circular array is a bounded FIFO: elements leave in the order they
\* came in, none is lost or overwritten while queued, a full queue refuses
\* and an empty one answers NULL (push_, dequeue_ and front_CpuStats).
ImplementsFifo == Fifo!Spec
=============================================================================
