------------------------- MODULE UnityFixtureProofs -------------------------
(***************************************************************************)
(* Proofs about a test program written with Unity, for every program,      *)
(* command line, heap and set of sizes: what one test does to the heap, to *)
(* pointers and to the counters of the run does not show in another.       *)
(***************************************************************************)
EXTENDS UnityFixture, FiniteSetTheorems, SequenceTheorems, TLAPS

(***************************************************************************)
(* The heap                                                                *)
(***************************************************************************)

\* Rounding up to a multiple of the alignment does not make less of a size.
LEMMA RoundUpType ==
  ASSUME NEW size \in Nat
  PROVE  RoundUp(size) \in Nat /\ RoundUp(size) >= size
  <1> DEFINE n == size + Alignment - 1
             q == n \div Alignment
             rest == n % Alignment
  <1> USE SizesAssumption
  <1>1. n \in Nat /\ q \in Nat /\ rest \in 0 .. Alignment - 1
    BY SMT
  <1>2. n = Alignment * q + rest
    BY SMT
  <1>3. Alignment * q = q * Alignment /\ q * Alignment \in Nat
    BY <1>1, SMT
  <1> HIDE DEF q, rest
  <1>4. q * Alignment >= size
    BY <1>1, <1>2, <1>3, SMT
  <1> QED BY <1>3, <1>4 DEF RoundUp, q

LEMMA BlockSizeType ==
  ASSUME NEW size \in Nat
  PROVE  BlockSize(size) \in Nat /\ BlockSize(size) >= size + EndSize
  BY SizesAssumption, RoundUpType DEF BlockSize

\* What a block takes of the array, from its guard on.
Begins(b) == b.mem - GuardSize
Ends(b) == b.mem + BlockSize(b.size)

AnyBlock == [mem : Nat, size : Nat, spoilt : BOOLEAN]

\* The blocks bs lie side by side below the index of the memory m, which
\* counts them.
Laid(m, bs) ==
  /\ m \in [index : 0 .. HeapSize, count : Nat, countdown : Int]
  /\ bs \subseteq AnyBlock
  /\ IsFiniteSet(bs) /\ m.count = Cardinality(bs)
  /\ \A b \in bs : Begins(b) >= 0 /\ Ends(b) <= m.index
  /\ \A b, c \in bs : b # c => Ends(b) <= Begins(c) \/ Ends(c) <= Begins(b)

MemInv == Laid(Memory, blocks)

LEMMA BlockBounds ==
  ASSUME NEW b \in AnyBlock
  PROVE  /\ Begins(b) \in Int /\ Ends(b) \in Nat
         /\ Begins(b) < Ends(b)
         /\ Begins(b) = b.mem - GuardSize
         /\ Ends(b) >= b.mem + b.size + EndSize
  BY SizesAssumption, BlockSizeType, SMT DEF AnyBlock, Begins, Ends

\* A block that is released leaves the others in place; if it was the last
\* one, they all lie below its guard.
LEMMA ReleaseLaid ==
  ASSUME NEW m, NEW bs, Laid(m, bs), NEW b \in bs
  PROVE  Laid(release_memory(m, b), bs \ {b})
  <1> DEFINE old == GuardSize + BlockSize(b.size)
             index == IF IsLast(m, b) THEN m.index - old ELSE m.index
             rel == release_memory(m, b)
  <1>1. /\ b \in AnyBlock /\ bs \subseteq AnyBlock
        /\ m \in [index : 0 .. HeapSize, count : Nat, countdown : Int]
        /\ \A c \in bs : Begins(c) >= 0 /\ Ends(c) <= m.index
        /\ \A c, d \in bs : c # d => Ends(c) <= Begins(d) \/ Ends(d) <= Begins(c)
    BY DEF Laid
  <1>2. IsFiniteSet(bs \ {b}) /\ Cardinality(bs \ {b}) = m.count - 1 /\ m.count - 1 \in Nat
    BY FS_RemoveElement, FS_EmptySet, FS_CardinalityType DEF Laid
  <1>3. BlockSize(b.size) \in Nat /\ old \in Nat /\ GuardSize \in Nat
    BY <1>1, BlockSizeType, SizesAssumption DEF AnyBlock
  <1>4. rel = [m EXCEPT !.count = m.count - 1, !.index = index]
    BY <1>1 DEF release_memory
  <1>5. IsLast(m, b) => m.index = Ends(b) /\ m.index - old = Begins(b)
    BY <1>1, <1>3, SMT DEF IsLast, Ends, Begins, AnyBlock
  <1>6. index \in 0 .. HeapSize
    <2>1. CASE ~IsLast(m, b)
      BY <1>1, <2>1
    <2>2. CASE IsLast(m, b)
      <3>1. index = Begins(b) /\ Begins(b) >= 0 /\ Ends(b) <= m.index
        BY <1>1, <1>5, <2>2
      <3> HIDE DEF index
      <3> QED BY <1>1, <3>1, BlockBounds, SizesAssumption
    <2> QED BY <2>1, <2>2
  <1>7. ASSUME NEW c \in bs \ {b} PROVE Ends(c) <= index
    <2>1. CASE ~IsLast(m, b)
      BY <1>1, <2>1
    <2>2. CASE IsLast(m, b)
      <3>1. /\ Ends(c) <= Begins(b) \/ Ends(b) <= Begins(c)
            /\ Ends(c) <= Ends(b)
            /\ index = Begins(b)
        BY <1>1, <1>5, <2>2
      <3>2. Begins(c) \in Int /\ Ends(c) \in Int /\ Begins(c) < Ends(c)
            /\ Begins(b) \in Int /\ Ends(b) \in Int
        BY <1>1, BlockBounds
      <3> HIDE DEF index
      <3> QED BY <3>1, <3>2, SMT
    <2> QED BY <2>1, <2>2
  <1> HIDE DEF index
  <1>8. /\ rel \in [index : 0 .. HeapSize, count : Nat, countdown : Int]
        /\ rel.index = index /\ rel.count = m.count - 1
    BY <1>1, <1>2, <1>4, <1>6
  <1> HIDE DEF rel
  <1>9. Laid(rel, bs \ {b})
    BY <1>1, <1>2, <1>7, <1>8 DEF Laid
  <1> QED BY <1>9 DEF rel

\* An allocation puts its block behind all others, or yields none.
LEMMA MallocLaid ==
  ASSUME NEW m, NEW bs, Laid(m, bs), NEW size \in Nat
  PROVE  Laid(unity_malloc(m, size).m, bs \cup Block(unity_malloc(m, size).mem, size))
  <1> DEFINE counted == [m EXCEPT !.countdown = IF @ = MALLOC_DONT_FAIL THEN @ ELSE @ - 1]
             total == GuardSize + BlockSize(size)
             res == unity_malloc(m, size)
  <1>0. /\ bs \subseteq AnyBlock
        /\ m \in [index : 0 .. HeapSize, count : Nat, countdown : Int]
        /\ IsFiniteSet(bs) /\ m.count = Cardinality(bs)
        /\ \A c \in bs : Begins(c) >= 0 /\ Ends(c) <= m.index
        /\ \A c, d \in bs : c # d => Ends(c) <= Begins(d) \/ Ends(d) <= Begins(c)
    BY DEF Laid
  <1>1. /\ counted \in [index : 0 .. HeapSize, count : Nat, countdown : Int]
        /\ counted.index = m.index /\ counted.count = m.count
    BY <1>0
  <1>2. BlockSize(size) \in Nat /\ total \in Nat \ {0} /\ GuardSize \in Nat
    BY BlockSizeType, SizesAssumption
  <1>3. CASE m.countdown = 0
    <2>1. res = [m |-> m, mem |-> NULL]
      BY <1>3 DEF unity_malloc
    <2>2. res.m = m /\ bs \cup Block(res.mem, size) = bs
      BY <2>1 DEF Block
    <2> QED BY <2>2
  <1>4. CASE m.countdown # 0 /\ (size = 0 \/ m.index + total > HeapSize)
    <2>1. res = [m |-> counted, mem |-> NULL]
      BY <1>4 DEF unity_malloc
    <2>2. res.m = counted /\ bs \cup Block(res.mem, size) = bs
      BY <2>1 DEF Block
    <2> HIDE DEF counted, res
    <2>3. Laid(counted, bs)
      BY <1>0, <1>1 DEF Laid
    <2> QED BY <2>2, <2>3 DEF res
  <1>5. CASE m.countdown # 0 /\ ~(size = 0 \/ m.index + total > HeapSize)
    <2> DEFINE now == [counted EXCEPT !.index = @ + total, !.count = @ + 1]
               mem == m.index + GuardSize
               b == [mem |-> mem, size |-> size, spoilt |-> FALSE]
    <2>1. res = [m |-> now, mem |-> mem]
      BY <1>5 DEF unity_malloc
    <2>2. mem \in Nat /\ b \in AnyBlock
      BY <1>0, <1>2 DEF AnyBlock
    <2>3. res.m = now /\ bs \cup Block(res.mem, size) = bs \cup {b}
      BY <2>1, <2>2, SMT DEF Block, NULL
    <2> HIDE DEF counted, total
    <2>4. m.index + total \in 0 .. HeapSize /\ m.count + 1 \in Nat
      BY <1>0, <1>2, <1>5, SizesAssumption
    <2>5. now = [counted EXCEPT !.index = m.index + total, !.count = m.count + 1]
      BY <1>1
    <2>6. /\ now \in [index : 0 .. HeapSize, count : Nat, countdown : Int]
          /\ now.index = m.index + total /\ now.count = m.count + 1
      BY <1>1, <2>4, <2>5
    <2>7. Begins(b) = m.index /\ Ends(b) = now.index
      BY <1>0, <1>2, <2>6 DEF Begins, Ends, total
    <2> HIDE DEF b, now, mem, res
    <2>8. \A c \in bs : Ends(c) <= Begins(b) /\ c # b
      <3> TAKE c \in bs
      <3>1. Ends(c) <= Begins(b) /\ Begins(b) < Ends(b)
        BY <1>0, <2>2, <2>7, BlockBounds
      <3> QED BY <1>0, <2>2, <3>1, BlockBounds
    <2>9. /\ IsFiniteSet(bs \cup {b}) /\ Cardinality(bs \cup {b}) = m.count + 1
      BY <1>0, <2>8, FS_AddElement
    <2>10. \A c \in bs \cup {b} : Begins(c) >= 0 /\ Ends(c) <= now.index
      <3>1. \A c \in bs : Begins(c) >= 0 /\ Ends(c) <= now.index
        BY <1>0, <1>2, <2>6, BlockBounds
      <3> QED BY <1>0, <2>7, <2>6, <3>1
    <2>11. \A c, d \in bs \cup {b} : c # d => Ends(c) <= Begins(d) \/ Ends(d) <= Begins(c)
      BY <1>0, <2>8
    <2>12. Laid(now, bs \cup {b})
      BY <1>0, <2>2, <2>6, <2>9, <2>10, <2>11 DEF Laid
    <2> QED BY <2>3, <2>12 DEF res
  <1> QED BY <1>3, <1>4, <1>5

\* A block that is spoilt stays where it is.
LEMMA SpoilLaid ==
  ASSUME NEW m, NEW bs, Laid(m, bs), NEW b \in bs,
         NEW spoilt \in AnyBlock, spoilt # b, spoilt.mem = b.mem, spoilt.size = b.size
  PROVE  Laid(m, (bs \ {b}) \cup {spoilt})
  <1>1. /\ b \in AnyBlock /\ bs \subseteq AnyBlock /\ IsFiniteSet(bs)
        /\ m \in [index : 0 .. HeapSize, count : Nat, countdown : Int]
        /\ m.count = Cardinality(bs)
        /\ \A c \in bs : Begins(c) >= 0 /\ Ends(c) <= m.index
        /\ \A c, d \in bs : c # d => Ends(c) <= Begins(d) \/ Ends(d) <= Begins(c)
    BY DEF Laid
  <1>2. Begins(spoilt) = Begins(b) /\ Ends(spoilt) = Ends(b)
    BY DEF Begins, Ends
  <1>3. spoilt \notin bs
    <2> SUFFICES ASSUME spoilt \in bs PROVE FALSE
      OBVIOUS
    <2>1. Ends(b) <= Begins(b)
      BY <1>1, <1>2
    <2> QED BY <1>1, <2>1, BlockBounds
  <1>4. /\ IsFiniteSet((bs \ {b}) \cup {spoilt})
        /\ Cardinality((bs \ {b}) \cup {spoilt}) = m.count
    <2>1. IsFiniteSet(bs \ {b}) /\ Cardinality(bs \ {b}) = m.count - 1
      BY <1>1, FS_RemoveElement
    <2>2. spoilt \notin bs \ {b}
      BY <1>3
    <2>3. /\ IsFiniteSet((bs \ {b}) \cup {spoilt})
          /\ Cardinality((bs \ {b}) \cup {spoilt}) = Cardinality(bs \ {b}) + 1
      BY <2>1, <2>2, FS_AddElement
    <2>4. m.count \in Nat
      BY <1>1
    <2> QED BY <1>1, <2>1, <2>3, <2>4
  <1>5. \A c \in (bs \ {b}) \cup {spoilt} : Begins(c) >= 0 /\ Ends(c) <= m.index
    BY <1>1, <1>2
  <1>6. \A c, d \in (bs \ {b}) \cup {spoilt} :
          c # d => Ends(c) <= Begins(d) \/ Ends(d) <= Begins(c)
    BY <1>1, <1>2
  <1> QED BY <1>1, <1>4, <1>5, <1>6 DEF Laid

\* The state after a call of the allocator is the one it has computed.
LEMMA BecomesLaid ==
  ASSUME NEW m, NEW bs, Laid(m, bs), Becomes(m), blocks' = bs
  PROVE  MemInv'
  <1>1. m = [index |-> m.index, count |-> m.count, countdown |-> m.countdown]
    BY DEF Laid
  <1>2. Memory' = m
    BY <1>1 DEF Becomes, Memory
  <1> QED BY <1>2 DEF MemInv

LEMMA FreeKeeps ==
  ASSUME MemInv, NEW b \in blocks, Free(b)
  PROVE  MemInv'
  BY ReleaseLaid, BecomesLaid DEF MemInv, Free

LEMMA MallocKeeps ==
  ASSUME MemInv, NEW size \in Nat, Malloc(size)
  PROVE  MemInv'
  BY MallocLaid, BecomesLaid DEF MemInv, Malloc

LEMMA SpoilKeeps ==
  ASSUME MemInv, NEW b \in blocks, Spoil(b)
  PROVE  MemInv'
  <1> DEFINE spoilt == [b EXCEPT !.spoilt = TRUE]
  <1>1. b \in AnyBlock
    BY DEF MemInv, Laid
  <1>2. /\ spoilt \in AnyBlock /\ spoilt.spoilt /\ spoilt.mem = b.mem
        /\ spoilt.size = b.size
    BY <1>1 DEF AnyBlock
  <1>3. spoilt # b /\ blocks' = (blocks \ {b}) \cup {spoilt} /\ Memory' = Memory
    BY <1>2 DEF Spoil, Memory
  <1> HIDE DEF spoilt
  <1> QED BY <1>2, <1>3, SpoilLaid DEF MemInv

LEMMA ReallocKeeps ==
  ASSUME MemInv, NEW b \in blocks, NEW size \in Nat, Realloc(b, size)
  PROVE  MemInv'
  <1> DEFINE again == unity_malloc(release_memory(Memory, b), size)
             other == unity_malloc(Memory, size)
  <1>1. CASE Free(b)
    BY <1>1, FreeKeeps
  <1>2. CASE UNCHANGED memVars
    BY <1>2 DEF memVars, MemInv, Memory
  <1>3. CASE Becomes(again.m) /\ blocks' = (blocks \ {b}) \cup Block(again.mem, size)
    BY <1>3, ReleaseLaid, MallocLaid, BecomesLaid DEF MemInv
  <1>4. CASE Becomes(other.m) /\ UNCHANGED blocks /\ other.mem = NULL
    <2>1. Block(other.mem, size) = {}
      BY <1>4 DEF Block
    <2>2. Laid(other.m, blocks)
      BY <2>1, MallocLaid DEF MemInv
    <2> QED BY <1>4, <2>2, BecomesLaid
  <1>5. CASE /\ size > b.size /\ Becomes(release_memory(other.m, b))
             /\ blocks' = (blocks \ {b}) \cup Block(other.mem, size)
    <2>1. b \notin Block(other.mem, size)
      <3>1. b.size \in Nat
        BY DEF MemInv, Laid, AnyBlock
      <3> QED BY <1>5, <3>1 DEF Block
    <2>2. Laid(other.m, blocks \cup Block(other.mem, size))
      BY MallocLaid DEF MemInv
    <2>3. blocks' = (blocks \cup Block(other.mem, size)) \ {b}
      BY <1>5, <2>1
    <2> QED BY <1>5, <2>2, <2>3, ReleaseLaid, BecomesLaid
  <1> QED BY <1>1, <1>2, <1>3, <1>4, <1>5 DEF Realloc

-----------------------------------------------------------------------------
(***************************************************************************)
(* The inductive invariant.  Each part rests on the ones before it.        *)
(***************************************************************************)

Counters == [NumberOfTests : Nat, TestFailures : Nat, TestIgnores : Nat,
             CurrentTestFailed : BOOLEAN, CurrentTestIgnored : BOOLEAN]

InTest == {"test", "teardown", "undo", "conclude"}
Between == {"options", "repeat", "run", "exit"}

\* The flags of the current test tell its verdict, and are down between tests.
VerdictInv ==
  /\ Unity \in Counters
  /\ section \in InTest \cup Between
  /\ verdict \in {"pass", "fail", "ignore"}
  /\ Unity.CurrentTestFailed <=> section \in InTest /\ verdict = "fail"
  /\ Unity.CurrentTestIgnored <=> section \in InTest /\ verdict = "ignore"

\* The arguments are read one by one, and the failures of a repetition are
\* what Unity has counted in it.
CountInv ==
  /\ argv \in Seq(STRING) /\ i \in Nat
  /\ Unity.TestFailures = failures
  /\ section = "exit" => i <= Len(argv) \/ result = failures

Saved == [pointer : Pointers, old_value : Values]

\* The first value saved of a pointer is the one it had when the test began;
\* a pointer of which none is saved still has it.
PointerInv ==
  /\ pointer \in [Pointers -> Values] /\ atStart \in [Pointers -> Values]
  /\ pointer_store \in Seq(Saved)
  /\ \A k \in 1 .. Len(pointer_store) :
       (\A j \in 1 .. k - 1 : pointer_store[j].pointer # pointer_store[k].pointer)
         => pointer_store[k].old_value = atStart[pointer_store[k].pointer]
  /\ \A p \in Pointers :
       (\A k \in 1 .. Len(pointer_store) : pointer_store[k].pointer # p)
         => pointer[p] = atStart[p]
  /\ section \in Between \/ ~withFixture => pointer_store = <<>>
  /\ section = "conclude" => ~withFixture

Inv == MemInv /\ VerdictInv /\ CountInv /\ PointerInv /\ PassesOnlyClean

LEMMA InvInit == Init => Inv
  <1> SUFFICES ASSUME Init PROVE Inv
    OBVIOUS
  <1>1. MemInv
    <2>1. Memory = [index |-> 0, count |-> 0, countdown |-> -1] /\ blocks = {}
      BY DEF Init, MemoryInit, Memory, MALLOC_DONT_FAIL
    <2> QED BY <2>1, FS_EmptySet, SizesAssumption DEF MemInv, Laid
  <1>2. VerdictInv
    BY DEF Init, CoreInit, Fresh, VerdictInv, Counters, InTest, Between
  <1>3. CountInv
    BY CommandLinesAssumption DEF Init, CoreInit, Fresh, CountInv
  <1>4. PointerInv
    BY DEF Init, CoreInit, PointerInv, Between
  <1>5. PassesOnlyClean
    BY DEF Init, CoreInit, PassesOnlyClean
  <1> QED BY <1>1, <1>2, <1>3, <1>4, <1>5 DEF Inv

LEMMA MemNext == MemInv /\ [Next]_vars => MemInv'
  <1> SUFFICES ASSUME MemInv, [Next]_vars PROVE MemInv'
    OBVIOUS
  <1>1. CASE UNCHANGED memVars
    BY <1>1 DEF memVars, MemInv, Memory
  <1>2. CASE RunTest
    <2>1. Memory' = [index |-> heap_index, count |-> 0, countdown |-> -1] /\ blocks' = {}
      BY <1>2 DEF RunTest, StartTest, Memory, MALLOC_DONT_FAIL
    <2>2. Memory' \in [index : 0 .. HeapSize, count : Nat, countdown : Int]
      BY <2>1 DEF MemInv, Laid, Memory
    <2>3. Memory'.count = 0
      BY <2>1 DEF Memory
    <2> QED BY <2>1, <2>2, <2>3, FS_EmptySet DEF MemInv, Laid
  <1>3. CASE Allocate
    <2>1. ASSUME NEW size \in Sizes, Malloc(size) \/ Calloc(2, size) PROVE MemInv'
      <3>1. size \in Nat /\ 2 * size \in Nat
        BY SizesAssumption
      <3> QED BY <2>1, <3>1, MallocKeeps DEF Calloc
    <2>2. ASSUME NEW n \in {0, 1}, MakeMallocFailAfterCount(n) PROVE MemInv'
      <3>1. Memory' = [Memory EXCEPT !.countdown = n] /\ blocks' = blocks
        BY <2>2 DEF MakeMallocFailAfterCount, Memory
      <3>2. /\ Memory' \in [index : 0 .. HeapSize, count : Nat, countdown : Int]
            /\ Memory'.index = Memory.index /\ Memory'.count = Memory.count
        BY <3>1 DEF MemInv, Laid, Memory
      <3> QED BY <3>1, <3>2 DEF MemInv, Laid
    <2>3. ASSUME NEW b \in blocks,
                 Spoil(b) \/ Free(b) \/ \E size \in Sizes : Realloc(b, size)
          PROVE  MemInv'
      BY <2>3, SpoilKeeps, FreeKeeps, ReallocKeeps, SizesAssumption
    <2> QED BY <1>3, <2>1, <2>2, <2>3 DEF Allocate
  <1>4. CASE FreeSpoilt
    BY <1>4, FreeKeeps DEF FreeSpoilt
  <1>5. CASE TearDown
    <2>1. Memory' = [Memory EXCEPT !.countdown = -1] /\ blocks' = blocks
      BY <1>5 DEF TearDown, EndTest, Memory, MALLOC_DONT_FAIL
    <2>2. /\ Memory' \in [index : 0 .. HeapSize, count : Nat, countdown : Int]
          /\ Memory'.index = Memory.index /\ Memory'.count = Memory.count
      BY <2>1 DEF MemInv, Laid, Memory
    <2> QED BY <2>1, <2>2 DEF MemInv, Laid
  <1> QED
    BY <1>1, <1>2, <1>3, <1>4, <1>5
    DEF vars, Next, OptStep, TestStep, OptVerbose, OptSilent, OptFilter, OptRepeat,
        OptUnknown, Option, OptStop, OptEnd, BeginRun, EndRun, Exit, IgnoreTest,
        SkipTest, Fail, Ignore, AssertAfterwards, PointerSet, Return, UndoSet,
        ConcludeTest

\* A test that fails, or is ignored, gets that verdict if it has none yet.
LEMMA FailKeeps ==
  ASSUME VerdictInv, section \in InTest, UnityFail, section' \in InTest
  PROVE  VerdictInv' /\ verdict' # "pass" /\ Unity'.TestFailures = Unity.TestFailures
  <1>1. CASE FailedOrIgnored
    <2>1. Unity' = Unity /\ verdict' = verdict /\ verdict # "pass"
      BY <1>1 DEF VerdictInv, UnityFail, FailedOrIgnored
    <2> QED BY <2>1 DEF VerdictInv
  <1>2. CASE ~FailedOrIgnored
    <2>1. /\ Unity' = [Unity EXCEPT !.CurrentTestFailed = TRUE]
          /\ verdict = "pass" /\ verdict' = "fail"
      BY <1>2 DEF VerdictInv, UnityFail, FailedOrIgnored
    <2>2. /\ Unity' \in Counters /\ Unity'.CurrentTestFailed
          /\ Unity'.CurrentTestIgnored = Unity.CurrentTestIgnored
          /\ Unity'.TestFailures = Unity.TestFailures
      BY <2>1 DEF VerdictInv, Counters
    <2> QED BY <2>1, <2>2 DEF VerdictInv
  <1> QED BY <1>1, <1>2

LEMMA IgnoreKeeps ==
  ASSUME VerdictInv, section \in InTest, UnityIgnore, section' \in InTest
  PROVE  VerdictInv' /\ verdict' # "pass" /\ Unity'.TestFailures = Unity.TestFailures
  <1>1. CASE FailedOrIgnored
    <2>1. Unity' = Unity /\ verdict' = verdict /\ verdict # "pass"
      BY <1>1 DEF VerdictInv, UnityIgnore, FailedOrIgnored
    <2> QED BY <2>1 DEF VerdictInv
  <1>2. CASE ~FailedOrIgnored
    <2>1. /\ Unity' = [Unity EXCEPT !.CurrentTestIgnored = TRUE]
          /\ verdict = "pass" /\ verdict' = "ignore"
      BY <1>2 DEF VerdictInv, UnityIgnore, FailedOrIgnored
    <2>2. /\ Unity' \in Counters /\ Unity'.CurrentTestIgnored
          /\ Unity'.CurrentTestFailed = Unity.CurrentTestFailed
          /\ Unity'.TestFailures = Unity.TestFailures
      BY <2>1 DEF VerdictInv, Counters
    <2> QED BY <2>1, <2>2 DEF VerdictInv
  <1> QED BY <1>1, <1>2

\* The end of a test adds its verdict to the counters and lowers the flags.
LEMMA ConcludeCounts ==
  ASSUME VerdictInv, section \in InTest, Conclude
  PROVE  /\ Unity' \in Counters
         /\ ~Unity'.CurrentTestFailed /\ ~Unity'.CurrentTestIgnored
         /\ Unity'.TestFailures = IF verdict = "fail" THEN Unity.TestFailures + 1
                                                      ELSE Unity.TestFailures
         /\ Unity'.TestIgnores = IF verdict = "ignore" THEN Unity.TestIgnores + 1
                                                       ELSE Unity.TestIgnores
  <1> DEFINE failed == IF verdict = "fail" THEN Unity.TestFailures + 1
                                           ELSE Unity.TestFailures
             ignored == IF verdict = "ignore" THEN Unity.TestIgnores + 1
                                              ELSE Unity.TestIgnores
  <1>1. Unity' = [Unity EXCEPT !.TestIgnores = ignored, !.TestFailures = failed,
                               !.CurrentTestFailed = FALSE, !.CurrentTestIgnored = FALSE]
    BY DEF Conclude, VerdictInv
  <1>2. failed \in Nat /\ ignored \in Nat /\ Unity \in Counters
    BY DEF VerdictInv, Counters
  <1> HIDE DEF failed, ignored
  <1>3. /\ Unity' \in Counters /\ ~Unity'.CurrentTestFailed /\ ~Unity'.CurrentTestIgnored
        /\ Unity'.TestFailures = failed /\ Unity'.TestIgnores = ignored
    BY <1>1, <1>2 DEF Counters
  <1> QED BY <1>3 DEF failed, ignored

LEMMA SectionOfCall ==
  ASSUME section \in {"test", "teardown"}, Abort
  PROVE  section \in InTest /\ section' \in InTest
  BY DEF Abort, After, InTest

\* The counters move where a repetition or a test begins and where one is
\* ignored; the flags are down there.
LEMMA BeginCounts ==
  ASSUME VerdictInv, BeginTest, section' \in InTest, section \notin InTest
  PROVE  VerdictInv' /\ Unity'.TestFailures = Unity.TestFailures
  <1>1. /\ Unity' = [Unity EXCEPT !.NumberOfTests = Unity.NumberOfTests + 1]
        /\ Unity.NumberOfTests + 1 \in Nat /\ Unity \in Counters
    BY DEF BeginTest, VerdictInv, Counters
  <1>2. /\ Unity' \in Counters
        /\ Unity'.TestFailures = Unity.TestFailures
        /\ Unity'.CurrentTestFailed = Unity.CurrentTestFailed
        /\ Unity'.CurrentTestIgnored = Unity.CurrentTestIgnored
    BY <1>1 DEF Counters
  <1> QED BY <1>2 DEF BeginTest, VerdictInv

LEMMA IgnoreCounts ==
  ASSUME VerdictInv, IgnoreTest
  PROVE  VerdictInv' /\ Unity'.TestFailures = Unity.TestFailures
  <1>1. /\ Unity' = [Unity EXCEPT !.NumberOfTests = Unity.NumberOfTests + 1,
                                  !.TestIgnores = Unity.TestIgnores + 1]
        /\ Unity.NumberOfTests + 1 \in Nat /\ Unity.TestIgnores + 1 \in Nat
        /\ Unity \in Counters
    BY DEF IgnoreTest, VerdictInv, Counters
  <1>2. /\ Unity' \in Counters
        /\ Unity'.TestFailures = Unity.TestFailures
        /\ Unity'.CurrentTestFailed = Unity.CurrentTestFailed
        /\ Unity'.CurrentTestIgnored = Unity.CurrentTestIgnored
    BY <1>1 DEF Counters
  <1> QED BY <1>2 DEF IgnoreTest, VerdictInv

\* What a call of the test's code does to the flags.
LEMMA CallKeeps ==
  ASSUME VerdictInv, Fail \/ Ignore \/ AssertAfterwards \/ PointerSet \/ Allocate \/ FreeSpoilt
  PROVE  VerdictInv' /\ Unity'.TestFailures = Unity.TestFailures
  <1>1. section \in {"test", "teardown"}
    BY DEF Fail, Ignore, AssertAfterwards, PointerSet, Allocate, FreeSpoilt, Calling
  <1>2. CASE UnityFail /\ Abort
    BY <1>1, <1>2, SectionOfCall, FailKeeps
  <1>3. CASE UnityIgnore /\ Abort
    BY <1>1, <1>3, SectionOfCall, IgnoreKeeps
  <1>4. CASE Abort /\ UNCHANGED <<Unity, verdict>>
    BY <1>1, <1>4, SectionOfCall DEF VerdictInv
  <1>5. CASE UNCHANGED coreVars
    BY <1>5 DEF coreVars, VerdictInv
  <1> QED BY <1>2, <1>3, <1>4, <1>5
          DEF Fail, Ignore, AssertAfterwards, PointerSet, Allocate, FreeSpoilt

LEMMA VerdictNext == VerdictInv /\ [Next]_vars => VerdictInv'
  <1> SUFFICES ASSUME VerdictInv, [Next]_vars PROVE VerdictInv'
    OBVIOUS
  <1>1. CASE UNCHANGED coreVars
    BY <1>1 DEF coreVars, VerdictInv
  <1>2. CASE UNCHANGED <<Unity, verdict>> /\ section \in Between /\ section' \in Between
    BY <1>2 DEF VerdictInv, Between, InTest
  <1>3. CASE BeginRun
    <2>1. Fresh \in Counters /\ ~Fresh.CurrentTestFailed /\ ~Fresh.CurrentTestIgnored
      BY DEF Fresh, Counters
    <2> QED BY <1>3, <2>1 DEF BeginRun, UnityBegin, VerdictInv, InTest, Between
  <1>4. CASE RunTest
    BY <1>4, BeginCounts DEF RunTest, InTest
  <1>5. CASE IgnoreTest
    BY <1>5, IgnoreCounts
  <1>6. CASE Fail \/ Ignore \/ AssertAfterwards \/ PointerSet \/ Allocate \/ FreeSpoilt
    BY <1>6, CallKeeps
  <1>7. CASE Return
    BY <1>7 DEF Return, VerdictInv, InTest
  <1>8. CASE TearDown
    <2>1. section \in InTest /\ section' \in InTest
      BY <1>8 DEF TearDown, After, InTest
    <2>2. CASE Leaks
      BY <1>8, <2>1, <2>2, FailKeeps DEF TearDown
    <2>3. CASE ~Leaks
      BY <1>8, <2>1, <2>3 DEF TearDown, VerdictInv
    <2> QED BY <2>2, <2>3
  <1>9. CASE ConcludeTest
    <2>1. section \in InTest /\ section' = "run" /\ Conclude /\ verdict' = verdict
      BY <1>9 DEF ConcludeTest, InTest
    <2> QED BY <2>1, ConcludeCounts DEF VerdictInv, InTest, Between
  <1>10. CASE SkipTest \/ UndoSet
    BY <1>1, <1>10 DEF SkipTest, UndoSet
  <1>11. CASE OptStop \/ OptEnd \/ EndRun \/ Exit
    BY <1>2, <1>11 DEF OptStop, OptEnd, EndRun, Exit, Between
  <1> QED
    BY <1>1, <1>3, <1>4, <1>5, <1>6, <1>7, <1>8, <1>9, <1>10, <1>11
    DEF vars, Next, OptStep, TestStep, OptVerbose, OptSilent, OptFilter, OptRepeat,
        OptUnknown, Option

LEMMA CountNext == VerdictInv /\ CountInv /\ [Next]_vars => CountInv'
  <1> SUFFICES ASSUME VerdictInv, CountInv, [Next]_vars PROVE CountInv'
    OBVIOUS
  <1>1. CASE UNCHANGED vars
    BY <1>1 DEF vars, coreVars, optionVars, CountInv
  <1>2. ASSUME NEW arg, NEW update, NEW used \in Nat, Option(arg, update, used)
        PROVE  CountInv'
    BY <1>2 DEF Option, CountInv, coreVars
  <1>3. CASE OptStop
    BY <1>3 DEF OptStop, CountInv, optionVars
  <1>4. CASE OptEnd \/ EndRun \/ Return
    BY <1>4 DEF OptEnd, EndRun, Return, CountInv, optionVars
  <1>5. CASE BeginRun
    BY <1>5 DEF BeginRun, UnityBegin, Fresh, CountInv, optionVars
  <1>6. CASE Exit
    BY <1>6 DEF Exit, UnityEnd, CountInv, optionVars
  <1>7. CASE RunTest
    <2>1. Unity'.TestFailures = Unity.TestFailures
      BY <1>7, BeginCounts DEF RunTest, InTest
    <2> QED BY <1>7, <2>1 DEF RunTest, CountInv, optionVars
  <1>8. CASE IgnoreTest
    BY <1>8, IgnoreCounts DEF IgnoreTest, CountInv, optionVars
  <1>9. CASE SkipTest \/ UndoSet
    BY <1>9 DEF SkipTest, UndoSet, CountInv, optionVars, coreVars
  <1>10. CASE Fail \/ Ignore \/ AssertAfterwards \/ PointerSet \/ Allocate \/ FreeSpoilt
    <2>1. Calling
      BY <1>10 DEF Fail, Ignore, AssertAfterwards, PointerSet, Allocate, FreeSpoilt
    <2>2. section' # "exit"
      <3>1. section # "exit" /\ (Abort => section' # "exit")
        BY <2>1 DEF Calling, Abort, After
      <3> QED BY <1>10, <3>1
              DEF Fail, Ignore, AssertAfterwards, PointerSet, Allocate, FreeSpoilt, coreVars
    <2> QED BY <1>10, <2>1, <2>2, CallKeeps DEF Calling, CountInv, optionVars
  <1>11. CASE TearDown
    <2>1. section \in InTest /\ section' \in InTest /\ section' # "exit"
      BY <1>11 DEF TearDown, After, InTest
    <2>2. Unity'.TestFailures = Unity.TestFailures
      BY <1>11, <2>1, FailKeeps DEF TearDown
    <2> QED BY <1>11, <2>1, <2>2 DEF TearDown, CountInv, optionVars
  <1>12. CASE ConcludeTest
    <2>1. section \in InTest /\ Conclude
      BY <1>12 DEF ConcludeTest, InTest
    <2>2. Unity'.TestFailures = failures'
      BY <1>12, <2>1, ConcludeCounts DEF ConcludeTest, CountInv
    <2> QED BY <1>12, <2>2 DEF ConcludeTest, CountInv, optionVars
  <1> QED
    BY <1>1, <1>2, <1>3, <1>4, <1>5, <1>6, <1>7, <1>8, <1>9, <1>10, <1>11, <1>12
    DEF Next, OptStep, TestStep, OptVerbose, OptSilent, OptFilter, OptRepeat, OptUnknown

\* Setting a pointer saves its value, which is the one at the start of the
\* test unless one was saved of it before.
LEMMA SetKeeps ==
  ASSUME PointerInv, PointerSet
  PROVE  PointerInv'
  <1>1. /\ withFixture /\ withFixture' = withFixture /\ atStart' = atStart
        /\ section' \in {"test", "teardown", "undo"}
    <2>1. section \in {"test", "teardown"} /\ withFixture
          /\ withFixture' = withFixture /\ atStart' = atStart
      BY DEF PointerSet, Calling, optionVars
    <2>2. (Abort \/ section' = section) => section' \in {"test", "teardown", "undo"}
      BY <2>1 DEF Abort, After
    <2> QED BY <2>1, <2>2 DEF PointerSet, coreVars
  <1>2. CASE UNCHANGED <<pointer, pointer_store>>
    BY <1>1, <1>2 DEF PointerInv, Between
  <1>3. ASSUME NEW p \in Pointers, NEW v \in Values,
               pointer_store' = Append(pointer_store, [pointer |-> p, old_value |-> pointer[p]]),
               pointer' = [pointer EXCEPT ![p] = v]
        PROVE  PointerInv'
    <2> DEFINE s == [pointer |-> p, old_value |-> pointer[p]]
               n == Len(pointer_store)
    <2>1. s \in Saved /\ pointer_store \in Seq(Saved) /\ n \in Nat
      BY DEF Saved, PointerInv
    <2>2. /\ pointer_store' \in Seq(Saved) /\ Len(pointer_store') = n + 1
          /\ \A k \in 1 .. n : pointer_store'[k] = pointer_store[k]
          /\ pointer_store'[n + 1] = s
      BY <1>3, <2>1
    <2>3. pointer' \in [Pointers -> Values] /\ \A o \in Pointers \ {p} : pointer'[o] = pointer[o]
      BY <1>3 DEF PointerInv
    <2>4. ASSUME NEW k \in 1 .. n + 1,
                 \A j \in 1 .. k - 1 : pointer_store'[j].pointer # pointer_store'[k].pointer
          PROVE  pointer_store'[k].old_value = atStart[pointer_store'[k].pointer]
      <3>1. CASE k \in 1 .. n
        <4>1. \A j \in 1 .. k - 1 : pointer_store[j].pointer # pointer_store[k].pointer
          BY <2>1, <2>2, <2>4, <3>1
        <4> QED BY <2>2, <3>1, <4>1 DEF PointerInv
      <3>2. CASE k = n + 1
        <4>1. pointer_store'[k] = s /\ s.pointer = p /\ s.old_value = pointer[p]
          BY <2>2, <3>2
        <4>2. \A j \in 1 .. n : pointer_store[j].pointer # p
          BY <2>1, <2>2, <2>4, <3>2, <4>1
        <4> QED BY <4>1, <4>2 DEF PointerInv
      <3> QED BY <2>1, <3>1, <3>2
    <2>5. ASSUME NEW o \in Pointers,
                 \A k \in 1 .. n + 1 : pointer_store'[k].pointer # o
          PROVE  pointer'[o] = atStart[o]
      <3>1. o # p
        BY <2>1, <2>2, <2>5
      <3>2. \A k \in 1 .. n : pointer_store[k].pointer # o
        BY <2>1, <2>2, <2>5
      <3> QED BY <2>3, <3>1, <3>2 DEF PointerInv
    <2>6. section' \notin Between \cup {"conclude"}
      BY <1>1 DEF Between
    <2> HIDE DEF s, n
    <2> QED BY <1>1, <2>2, <2>3, <2>4, <2>5, <2>6 DEF PointerInv
  <1> QED BY <1>2, <1>3 DEF PointerSet

\* Taking back the last set of a pointer gives it the value it had before.
LEMMA UndoKeeps ==
  ASSUME PointerInv, UndoSet
  PROVE  PointerInv'
  <1> DEFINE n == Len(pointer_store)
             last == pointer_store[n]
  <1>1. /\ pointer_store \in Seq(Saved) /\ pointer_store # <<>> /\ n \in Nat \ {0}
        /\ last \in Saved
    BY DEF UndoSet, PointerInv
  <1>2. /\ pointer' = [pointer EXCEPT ![last.pointer] = last.old_value]
        /\ pointer_store' = SubSeq(pointer_store, 1, n - 1)
        /\ atStart' = atStart /\ withFixture' = withFixture /\ section' = section
        /\ section = "undo"
    BY DEF UndoSet, optionVars, coreVars
  <1>3. /\ pointer_store' \in Seq(Saved) /\ Len(pointer_store') = n - 1
        /\ \A k \in 1 .. n - 1 : pointer_store'[k] = pointer_store[k]
    <2> HIDE DEF last
    <2>1. \A k \in 1 .. n - 1 : pointer_store[k] \in Saved
      BY <1>1
    <2> HIDE DEF n
    <2>2. 1 \in Int /\ n - 1 \in Int /\ (n - 1) - 1 + 1 = n - 1
      BY <1>1
    <2>3. /\ SubSeq(pointer_store, 1, n - 1) \in Seq(Saved)
          /\ Len(SubSeq(pointer_store, 1, n - 1)) = IF 1 <= n - 1 THEN (n - 1) - 1 + 1 ELSE 0
          /\ \A k \in 1 .. (n - 1) - 1 + 1 :
               SubSeq(pointer_store, 1, n - 1)[k] = pointer_store[1 + k - 1]
      BY <2>1, <2>2, SubSeqProperties
    <2>4. \A k \in 1 .. n - 1 : 1 + k - 1 = k
      BY <2>2
    <2> QED BY <1>1, <1>2, <2>2, <2>3, <2>4
  <1>4. last.pointer \in Pointers /\ last.old_value \in Values
    BY <1>1 DEF Saved
  <1>5. /\ pointer' \in [Pointers -> Values]
        /\ pointer'[last.pointer] = last.old_value
        /\ \A o \in Pointers \ {last.pointer} : pointer'[o] = pointer[o]
    BY <1>2, <1>4 DEF PointerInv
  <1>6. ASSUME NEW k \in 1 .. n - 1,
               \A j \in 1 .. k - 1 : pointer_store'[j].pointer # pointer_store'[k].pointer
        PROVE  pointer_store'[k].old_value = atStart[pointer_store'[k].pointer]
    <2>1. k \in 1 .. n /\ \A j \in 1 .. k - 1 : j \in 1 .. n - 1
      BY <1>1
    <2>2. \A j \in 1 .. k - 1 : pointer_store[j].pointer # pointer_store[k].pointer
      BY <1>3, <1>6, <2>1
    <2> QED BY <1>3, <2>1, <2>2 DEF PointerInv
  <1>7. ASSUME NEW o \in Pointers, \A k \in 1 .. n - 1 : pointer_store'[k].pointer # o
        PROVE  pointer'[o] = atStart[o]
    <2>1. \A k \in 1 .. n - 1 : pointer_store[k].pointer # o
      BY <1>3, <1>7
    <2>2. CASE o = last.pointer
      <3>1. last.old_value = atStart[last.pointer]
        BY <1>1, <2>1, <2>2 DEF PointerInv
      <3> QED BY <1>5, <2>2, <3>1
    <2>3. CASE o # last.pointer
      <3>1. \A k \in 1 .. n : pointer_store[k].pointer # o
        BY <1>1, <2>1, <2>3
      <3> QED BY <1>5, <2>3, <3>1 DEF PointerInv
    <2> QED BY <2>2, <2>3
  <1>8. withFixture /\ section' \notin Between \cup {"conclude"}
    BY <1>1, <1>2 DEF PointerInv, Between
  <1> HIDE DEF n, last
  <1> QED BY <1>2, <1>3, <1>5, <1>6, <1>7, <1>8 DEF PointerInv

LEMMA PointerNext == PointerInv /\ [Next]_vars => PointerInv'
  <1> SUFFICES ASSUME PointerInv, [Next]_vars PROVE PointerInv'
    OBVIOUS
  <1>1. CASE UNCHANGED <<pointerVars, withFixture, section>>
    BY <1>1 DEF pointerVars, PointerInv
  <1>2. CASE /\ UNCHANGED <<pointerVars, withFixture>>
             /\ section \in Between /\ section' \in Between
    BY <1>2 DEF pointerVars, PointerInv, Between
  <1>3. CASE /\ UNCHANGED <<pointerVars, withFixture>> /\ section \in {"test", "teardown"}
             /\ Abort \/ section' \in {"test", "teardown"}
    <2>1. /\ section' \in {"test", "teardown", "undo", "conclude"}
          /\ section' = "conclude" => ~withFixture
      BY <1>3 DEF Abort, After
    <2> QED BY <1>3, <2>1 DEF pointerVars, PointerInv, Between
  <1>4. CASE RunTest
    <2>1. /\ pointer_store' = <<>> /\ atStart' = pointer /\ pointer' = pointer
          /\ withFixture' = withFixture /\ section' = "test"
      BY <1>4 DEF RunTest, optionVars
    <2>2. <<>> \in Seq(Saved) /\ Len(<<>>) = 0
      OBVIOUS
    <2> QED BY <2>1, <2>2 DEF PointerInv, Between
  <1>5. CASE PointerSet
    BY <1>5, SetKeeps
  <1>6. CASE UndoSet
    BY <1>6, UndoKeeps
  <1>7. CASE ConcludeTest
    <2>1. /\ pointer_store = <<>> /\ section' = "run"
          /\ UNCHANGED <<pointerVars, withFixture>>
      BY <1>7 DEF ConcludeTest, PointerInv, optionVars
    <2> QED BY <2>1 DEF pointerVars, PointerInv
  <1>8. CASE TearDown
    BY <1>3, <1>8 DEF TearDown, Abort, optionVars
  <1>9. CASE Fail \/ Ignore \/ AssertAfterwards \/ Allocate \/ FreeSpoilt
    BY <1>3, <1>9 DEF Fail, Ignore, AssertAfterwards, Allocate, FreeSpoilt, Calling,
                      optionVars, pointerVars, coreVars
  <1>10. CASE Return
    BY <1>3, <1>10 DEF Return, optionVars
  <1>11. CASE OptStop \/ OptEnd \/ BeginRun \/ EndRun \/ Exit \/ IgnoreTest
    BY <1>2, <1>11 DEF OptStop, OptEnd, BeginRun, EndRun, Exit, IgnoreTest, optionVars, Between
  <1>12. CASE SkipTest \/ UNCHANGED vars
    BY <1>1, <1>12 DEF SkipTest, vars, optionVars, coreVars
  <1>13. ASSUME NEW arg, NEW update, NEW used, Option(arg, update, used)
         PROVE  PointerInv'
    BY <1>1, <1>13 DEF Option, coreVars
  <1> QED
    BY <1>4, <1>5, <1>6, <1>7, <1>8, <1>9, <1>10, <1>11, <1>12, <1>13
    DEF Next, OptStep, TestStep, OptVerbose, OptSilent, OptFilter, OptRepeat, OptUnknown

\* A test that has neither failed nor is ignored leaves its tear-down only by
\* the end of its code, where UnityMalloc_EndTest has found no block.
LEMMA CleanNext ==
  MemInv /\ VerdictInv /\ PassesOnlyClean /\ [Next]_vars => PassesOnlyClean'
  <1> SUFFICES ASSUME MemInv, VerdictInv, PassesOnlyClean, [Next]_vars,
                      section' \in {"undo", "conclude"}, verdict' = "pass"
               PROVE  blocks' = {}
    BY DEF PassesOnlyClean
  <1>1. CASE TearDown
    <2>1. section \in InTest /\ section' \in InTest
      BY <1>1 DEF TearDown, After, InTest
    <2>2. ~Leaks
      BY <1>1, <2>1, FailKeeps DEF TearDown
    <2>3. Cardinality(blocks) = 0 /\ IsFiniteSet(blocks)
      BY <2>2 DEF Leaks, MemInv, Laid, Memory
    <2> QED BY <1>1, <2>3, FS_EmptySet DEF TearDown, EndTest
  <1>2. CASE UndoSet
    BY <1>2 DEF UndoSet, PassesOnlyClean, coreVars, memVars
  <1>3. CASE UNCHANGED vars
    BY <1>3 DEF vars, PassesOnlyClean, coreVars, memVars
  <1>4. CASE Fail \/ Ignore \/ AssertAfterwards \/ PointerSet \/ Allocate \/ FreeSpoilt
    <2>1. section \in {"test", "teardown"}
      BY <1>4 DEF Fail, Ignore, AssertAfterwards, PointerSet, Allocate, FreeSpoilt, Calling
    <2>2. Abort
      BY <1>4, <2>1 DEF Fail, Ignore, AssertAfterwards, PointerSet, Allocate, FreeSpoilt, coreVars
    <2>3. UnityFail \/ UnityIgnore \/ (FailedOrIgnored /\ verdict' = verdict)
      BY <1>4, <2>1 DEF Fail, Ignore, AssertAfterwards, PointerSet, Allocate, FreeSpoilt, coreVars
    <2>4. FailedOrIgnored => verdict # "pass"
      BY DEF VerdictInv, FailedOrIgnored
    <2> QED BY <2>1, <2>2, <2>3, <2>4, SectionOfCall, FailKeeps, IgnoreKeeps
  <1>5. CASE section' = section /\ section \in Between
    BY <1>5 DEF Between
  <1>6. CASE section' \in Between \cup {"test", "teardown"}
    BY <1>6 DEF Between
  <1> QED
    BY <1>1, <1>2, <1>3, <1>4, <1>5, <1>6
    DEF Next, OptStep, TestStep, OptVerbose, OptSilent, OptFilter, OptRepeat, OptUnknown,
        Option, OptStop, OptEnd, BeginRun, EndRun, Exit, RunTest, IgnoreTest, SkipTest,
        Return, ConcludeTest, coreVars, Between

LEMMA InvNext == Inv /\ [Next]_vars => Inv'
  BY MemNext, VerdictNext, CountNext, PointerNext, CleanNext DEF Inv

\* The invariant holds in every run of every test program.
THEOREM InvHolds == Spec => []Inv
  BY InvInit, InvNext, PTL DEF Spec

-----------------------------------------------------------------------------
(***************************************************************************)
(* What it is for                                                          *)
(***************************************************************************)

\* The blocks a test owns never share a byte, with their guards and marks,
\* and stay within the part of the array in use, whatever sizes are asked
\* for, whatever is released, grown or spoilt in between.
THEOREM BlocksDisjointHolds == Spec => []BlocksDisjoint
  <1>1. Inv => BlocksDisjoint
    <2> SUFFICES ASSUME Inv PROVE BlocksDisjoint
      OBVIOUS
    <2>1. /\ blocks \subseteq AnyBlock /\ heap_index \in 0 .. HeapSize
          /\ \A b \in blocks : Begins(b) >= 0 /\ Ends(b) <= heap_index
          /\ \A b, c \in blocks : b # c => Ends(b) <= Begins(c) \/ Ends(c) <= Begins(b)
      BY DEF Inv, MemInv, Laid, Memory
    <2>2. ASSUME NEW b \in AnyBlock
          PROVE  \A k \in Extent(b) : k \in Int /\ Begins(b) <= k /\ k < Ends(b)
      <3>1. /\ b.mem \in Nat /\ b.size \in Nat /\ GuardSize \in Nat /\ EndSize \in Nat
            /\ b.mem + b.size + EndSize <= Ends(b) /\ Begins(b) = b.mem - GuardSize
            /\ Ends(b) \in Nat
        BY BlockBounds, SizesAssumption DEF AnyBlock
      <3>2. Extent(b) = b.mem - GuardSize .. b.mem + b.size + EndSize - 1
        BY DEF Extent
      <3> QED BY <3>1, <3>2
    <2>3. heap_index <= HeapSize
      BY <2>1, SizesAssumption
    <2>4. ASSUME NEW b \in blocks PROVE Extent(b) \subseteq 0 .. heap_index - 1
      <3>1. Begins(b) >= 0 /\ Ends(b) <= heap_index /\ Begins(b) \in Int /\ Ends(b) \in Nat
            /\ heap_index \in Nat
        BY <2>1, BlockBounds
      <3> QED BY <2>1, <2>2, <3>1
    <2>5. ASSUME NEW b \in blocks, NEW c \in blocks, b # c
          PROVE  Extent(b) \cap Extent(c) = {}
      <3>1. /\ Ends(b) <= Begins(c) \/ Ends(c) <= Begins(b)
            /\ b \in AnyBlock /\ c \in AnyBlock
        BY <2>1, <2>5
      <3>2. /\ Begins(b) \in Int /\ Ends(b) \in Nat
            /\ Begins(c) \in Int /\ Ends(c) \in Nat
        BY <3>1, BlockBounds
      <3> QED BY <2>2, <3>1, <3>2
    <2> QED BY <2>3, <2>4, <2>5 DEF BlocksDisjoint
  <1> QED BY <1>1, InvHolds, PTL

\* The count UnityMalloc_EndTest decides on is that of the blocks not
\* released, so that no leak goes unseen and none is invented.
THEOREM CountExactHolds == Spec => []CountExact
  <1>1. Inv => CountExact
    BY DEF Inv, MemInv, Laid, Memory, CountExact
  <1> QED BY <1>1, InvHolds, PTL

\* A test that passes has released all its blocks.
THEOREM PassesOnlyCleanHolds == Spec => []PassesOnlyClean
  <1>1. Inv => PassesOnlyClean
    BY DEF Inv
  <1> QED BY <1>1, InvHolds, PTL

\* Between two tests every pointer set by UT_PTR_SET has the value it had
\* when the test before began, however often it was set and wherever that
\* test was left.
THEOREM PointersRestoredHolds == Spec => []PointersRestored
  <1>1. Inv => PointersRestored
    <2> SUFFICES ASSUME PointerInv, section = "run" PROVE pointer = atStart
      BY DEF Inv, PointersRestored
    <2>1. pointer_store = <<>>
      BY DEF PointerInv, Between
    <2>2. \A p \in Pointers : pointer[p] = atStart[p]
      BY <2>1 DEF PointerInv
    <2> QED BY <2>2 DEF PointerInv
  <1> QED BY <1>1, InvHolds, PTL

\* The program returns the number of tests that failed in its last
\* repetition, for every program and command line.
THEOREM ExitCodeExactHolds == Spec => []ExitCodeExact
  <1>1. Inv => ExitCodeExact
    <2> SUFFICES ASSUME CountInv, section = "exit", i > Len(argv) PROVE result = failures
      BY DEF Inv, ExitCodeExact
    <2>1. i \in Nat /\ Len(argv) \in Nat
      BY DEF CountInv
    <2> QED BY <2>1 DEF CountInv
  <1> QED BY <1>1, InvHolds, PTL

\* The end of a test counts it as what its own code asked for first.
THEOREM VerdictOwnHolds == Spec => VerdictOwn
  <1> DEFINE Own ==
        ConcludeTest =>
          /\ Unity'.TestFailures - Unity.TestFailures = IF verdict = "fail" THEN 1 ELSE 0
          /\ Unity'.TestIgnores - Unity.TestIgnores = IF verdict = "ignore" THEN 1 ELSE 0
  <1>1. Inv /\ [Next]_vars => [Own]_vars
    <2> SUFFICES ASSUME VerdictInv, ConcludeTest PROVE Own
      BY DEF Inv
    <2>1. section \in InTest /\ Conclude
      BY DEF ConcludeTest, InTest
    <2>2. Unity.TestFailures \in Nat /\ Unity.TestIgnores \in Nat
      BY DEF VerdictInv, Counters
    <2> QED BY <2>1, <2>2, ConcludeCounts
  <1>2. [][Own]_vars <=> VerdictOwn
    BY DEF VerdictOwn
  <1> QED BY <1>1, <1>2, InvHolds, PTL DEF Spec
=============================================================================
