---------------------------- MODULE UnityMemory -----------------------------
(***************************************************************************)
(* The allocator tests may be linked with, memory/src/unity_memory.c in    *)
(* its variant that takes blocks from an array (UNITY_EXCLUDE_STDLIB_      *)
(* MALLOC).  Before each block lies a Guard with its size, behind it the   *)
(* mark "END".  A block counts as spoilt when either has been overwritten. *)
(***************************************************************************)
EXTENDS Integers, FiniteSets

CONSTANTS
  HeapSize,   \* UNITY_INTERNAL_HEAP_SIZE_BYTES
  GuardSize,  \* sizeof(Guard)
  EndSize,    \* sizeof(end)
  Alignment,  \* UNITY_MALLOC_ALIGNMENT
  Sizes       \* sizes the tests ask for

ASSUME SizesAssumption == /\ HeapSize \in Nat /\ GuardSize \in Nat \ {0}
                          /\ EndSize \in Nat \ {0} /\ Alignment \in Nat \ {0}
                          /\ Sizes \subseteq Nat

VARIABLES
  heap_index,
  malloc_count,
  malloc_fail_countdown,
  blocks      \* the blocks the test owns and may use

memVars == <<heap_index, malloc_count, malloc_fail_countdown, blocks>>

MALLOC_DONT_FAIL == -1

RoundUp(size) == ((size + Alignment - 1) \div Alignment) * Alignment

\* What a block of this size takes behind its guard.
BlockSize(size) == RoundUp(size + EndSize)

MemoryInit ==
  /\ heap_index = 0
  /\ malloc_count = 0
  /\ malloc_fail_countdown = MALLOC_DONT_FAIL
  /\ blocks = {}

\* UnityMalloc_StartTest.  The blocks of the test before are gone, their
\* place in the array is not taken back.
StartTest ==
  /\ malloc_count' = 0
  /\ malloc_fail_countdown' = MALLOC_DONT_FAIL
  /\ blocks' = {}
  /\ UNCHANGED heap_index

\* UnityMalloc_EndTest, but for the failure of the test it makes of a leak.
EndTest ==
  /\ malloc_fail_countdown' = MALLOC_DONT_FAIL
  /\ UNCHANGED <<heap_index, malloc_count, blocks>>

\* Mutant: a single block is no leak.
Leaks_Many == malloc_count > 1

Leaks == malloc_count # 0

MakeMallocFailAfterCount(countdown) ==
  /\ malloc_fail_countdown' = countdown
  /\ UNCHANGED <<heap_index, malloc_count, blocks>>

-----------------------------------------------------------------------------
(* The allocator as a function from the state m = [index, count, countdown] *)
(* to the state after the call and the address returned.                    *)

Memory == [index |-> heap_index, count |-> malloc_count,
           countdown |-> malloc_fail_countdown]

NULL == -1

unity_malloc(m, size) ==
  LET counted == [m EXCEPT !.countdown = IF @ = MALLOC_DONT_FAIL THEN @ ELSE @ - 1]
      total   == GuardSize + BlockSize(size)
  IN  IF m.countdown = 0 THEN [m |-> m, mem |-> NULL]
      ELSE IF size = 0 \/ m.index + total > HeapSize THEN [m |-> counted, mem |-> NULL]
      ELSE [m   |-> [counted EXCEPT !.index = @ + total, !.count = @ + 1],
            mem |-> m.index + GuardSize]

\* Mutant: the array is cut back whichever block is released.
release_memory_Any(m, b) ==
  [m EXCEPT !.count = @ - 1, !.index = @ - (GuardSize + BlockSize(b.size))]

IsLast(m, b) == b.mem = m.index - BlockSize(b.size)

\* Mutant: the count of blocks is forgotten where the array is cut back.
release_memory_NoCount(m, b) ==
  IF IsLast(m, b) THEN [m EXCEPT !.index = @ - (GuardSize + BlockSize(b.size))]
  ELSE [m EXCEPT !.count = @ - 1]

\* Only the last block of the array is given back to it.
release_memory(m, b) ==
  [m EXCEPT !.count = @ - 1,
            !.index = IF IsLast(m, b) THEN @ - (GuardSize + BlockSize(b.size)) ELSE @]

Becomes(m) ==
  /\ heap_index' = m.index
  /\ malloc_count' = m.count
  /\ malloc_fail_countdown' = m.countdown

Block(mem, size) == IF mem = NULL THEN {}
                    ELSE {[mem |-> mem, size |-> size, spoilt |-> FALSE]}

-----------------------------------------------------------------------------
(* What a test calls.  free(NULL) does nothing.                            *)

Malloc(size) ==
  LET r == unity_malloc(Memory, size)
  IN  /\ Becomes(r.m)
      /\ blocks' = blocks \cup Block(r.mem, size)

Calloc(num, size) == Malloc(num * size)

\* The test writes one byte past its block, or before it.
Spoil(b) ==
  /\ ~b.spoilt
  /\ blocks' = (blocks \ {b}) \cup {[b EXCEPT !.spoilt = TRUE]}
  /\ UNCHANGED <<heap_index, malloc_count, malloc_fail_countdown>>

\* The release of a block; that of a spoilt one (isOverrun) fails the test.
Free(b) ==
  /\ Becomes(release_memory(Memory, b))
  /\ blocks' = blocks \ {b}

\* realloc of a block that is not spoilt.  The last block of the array grows
\* in place: it is released and allocated again, and should the allocation be
\* made to fail, NULL is returned and the block is gone.
Realloc(b, size) ==
  LET old     == BlockSize(b.size)
      inPlace == IsLast(Memory, b) /\ heap_index - old + BlockSize(size) <= HeapSize
      again   == unity_malloc(release_memory(Memory, b), size)
      other   == unity_malloc(Memory, size)
  IN  \/ /\ size = 0
         /\ Free(b)
      \/ /\ size \in 1 .. b.size
         /\ UNCHANGED memVars
      \/ /\ size > b.size /\ inPlace
         /\ Becomes(again.m)
         /\ blocks' = (blocks \ {b}) \cup Block(again.mem, size)
      \/ /\ size > b.size /\ ~inPlace
         /\ IF other.mem = NULL
            THEN /\ Becomes(other.m)
                 /\ UNCHANGED blocks
            ELSE /\ Becomes(release_memory(other.m, b))
                 /\ blocks' = (blocks \ {b}) \cup Block(other.mem, size)

-----------------------------------------------------------------------------

\* The bytes of a block with its guard and its mark.
Extent(b) == b.mem - GuardSize .. b.mem + b.size + EndSize - 1

\* No two blocks a test owns share a byte, with their guards and marks, and
\* none reaches beyond what is in use of the array (unity_malloc).
BlocksDisjoint ==
  \A b \in blocks :
    /\ Extent(b) \subseteq 0 .. heap_index - 1
    /\ heap_index <= HeapSize
    /\ \A c \in blocks : b # c => Extent(b) \cap Extent(c) = {}

\* The count that decides on a leak is the number of blocks not released.
CountExact == malloc_count = Cardinality(blocks)
=============================================================================
