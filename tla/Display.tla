------------------------------ MODULE Display ------------------------------
(***************************************************************************)
(* What the user of the program may rely on, in terms of passes over       *)
(* /proc/stat and of what is on the screen: a frame is one whole round of  *)
(* rows that all cover one interval, no interval ends later than the last  *)
(* pass made, and none starts before the end of the interval shown last.   *)
(* Nothing is said of threads, queues, buffers or locks.                   *)
(***************************************************************************)
EXTENDS Naturals

CONSTANT MaxTick   \* bound: passes told apart

VARIABLES passes,  \* passes over /proc/stat so far
          shown    \* the interval on the screen

Blank == [from |-> 0, to |-> 0]

Init == passes = 0 /\ shown = Blank

MakePass ==
  /\ passes' = IF passes < MaxTick THEN passes + 1 ELSE passes
  /\ UNCHANGED shown

Show ==
  /\ \E from \in shown.to .. passes : \E to \in from .. passes :
       shown' = [from |-> from, to |-> to]
  /\ UNCHANGED passes

Next == MakePass \/ Show

Spec == Init /\ [][Next]_<<passes, shown>>
=============================================================================
