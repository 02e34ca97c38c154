---------------------------- MODULE BoundedFifo ----------------------------
(***************************************************************************)
(* What a queue of queue.c promises its users: a FIFO of at most Capacity  *)
(* elements that refuses a push when it is full, answers NULL when it is   *)
(* empty, and says so in its return value.                                 *)
(*                                                                         *)
(* RingQueue (the circular array of queue.c) implements this module;       *)
(* Globals keeps each of the two queues of the program as such a content.  *)
(***************************************************************************)
EXTENDS Naturals, Sequences

CONSTANTS
  Capacity,  \* MAX_CAPACITY of inc/queue.h
  Value,     \* what a queue holds
  NULL       \* what an empty queue returns

VARIABLES
  content,   \* the queued elements, the oldest one first
  result     \* what the last call returned

vars == <<content, result>>

OK == "OK"
FULL_ERROR == "FULL_ERROR"

-----------------------------------------------------------------------------

Init ==
  /\ content = <<>>
  /\ result = OK

Push(v) ==
  /\ Len(content) < Capacity
  /\ content' = Append(content, v)
  /\ result' = OK

PushRefused ==
  /\ Len(content) = Capacity
  /\ result' = FULL_ERROR
  /\ UNCHANGED content

Dequeue ==
  /\ content # <<>>
  /\ result' = Head(content)
  /\ content' = Tail(content)

Peek ==
  /\ content # <<>>
  /\ result' = Head(content)
  /\ UNCHANGED content

\* A look behind the youngest element: nothing is promised of what is there.
PeekBehind ==
  /\ content # <<>>
  /\ result' \in Value
  /\ UNCHANGED content

ReadEmpty ==
  /\ content = <<>>
  /\ result' = NULL
  /\ UNCHANGED content

Next ==
  \/ \E v \in Value : Push(v)
  \/ PushRefused
  \/ Dequeue
  \/ Peek
  \/ PeekBehind
  \/ ReadEmpty

Spec == Init /\ [][Next]_vars
=============================================================================
