---------------------------- MODULE UnityFixture ----------------------------
(***************************************************************************)
(* A test program: UnityMain of fixture/src/unity_fixture.c runs the tests *)
(* its command line selects, some times over.  The tests are any code that *)
(* fails, ignores, sets pointers with UT_PTR_SET and allocates; they check *)
(* for leaks as the tests of unity_memory do, StartTest in their set-up    *)
(* and EndTest in their tear-down.  The runner without fixture,            *)
(* UnityDefaultTestRun, has no pointers to restore.                        *)
(***************************************************************************)
EXTENDS UnityCore, UnityMemory, Sequences

CONSTANTS
  CommandLines,        \* arguments the program may get
  Number,              \* value of the arguments that are numbers
  Program,             \* the tests: group, name, whether an IGNORE_TEST; a
                       \* group or name is the set of the strings it contains
  UNITY_MAX_POINTERS,
  Pointers, Values,    \* what UT_PTR_SET may set, and to what
  MaxCalls             \* bound: calls a test makes

\* argv is an array of strings.
ASSUME CommandLinesAssumption == CommandLines \subseteq Seq(STRING)

VARIABLES
  fixture,        \* struct UNITY_FIXTURE_T
  argv, i,        \* arguments and the next one to read
  withFixture,    \* which of the two runners
  r,              \* repetitions begun
  next,           \* the next test of the program
  pointer,        \* the pointers of the tests
  pointer_store,  \* what UnityPointer_Set has saved of them; its length is
                  \* pointer_index
  atStart,        \* the pointers when the test began
  calls,          \* calls of the test so far
  failures,       \* tests of this repetition whose code failed
  result          \* what UnityMain returns, -1 while it runs

optionVars == <<fixture, argv, i, withFixture>>
pointerVars == <<pointer, pointer_store, atStart>>
vars == <<coreVars, memVars, optionVars, r, next, pointerVars, calls,
          failures, result>>

Everything == "everything"   \* no filter

Init ==
  /\ CoreInit /\ MemoryInit
  /\ fixture = [Verbose |-> FALSE, Silent |-> FALSE, RepeatCount |-> 1,
                NameFilter |-> Everything, GroupFilter |-> Everything]
  /\ argv \in CommandLines /\ i = 1
  /\ withFixture \in BOOLEAN
  /\ withFixture \/ argv = <<>>
  /\ r = 0 /\ next = 1
  /\ pointer \in {[p \in Pointers |-> v] : v \in Values}
  /\ pointer_store = <<>> /\ atStart = pointer
  /\ calls = 0 /\ failures = 0 /\ result = -1

-----------------------------------------------------------------------------
(* UnityGetCommandLineOptions, an argument at a time                       *)

Option(arg, update, used) ==
  /\ section = "options" /\ i <= Len(argv) /\ argv[i] \in arg
  /\ fixture' = update
  /\ i' = i + used
  /\ UNCHANGED <<coreVars, memVars, argv, withFixture, r, next, pointerVars,
                 calls, failures, result>>

OptVerbose == Option({"-v"}, [fixture EXCEPT !.Verbose = TRUE], 1)
OptSilent  == Option({"-s"}, [fixture EXCEPT !.Silent = TRUE], 1)

OptFilter ==
  /\ i < Len(argv)
  /\ \/ Option({"-g"}, [fixture EXCEPT !.GroupFilter = argv[i + 1]], 2)
     \/ Option({"-n"}, [fixture EXCEPT !.NameFilter = argv[i + 1]], 2)

\* -r repeats twice unless a number follows.
OptRepeat ==
  LET number == i < Len(argv) /\ argv[i + 1] \in DOMAIN Number
  IN  IF number
      THEN Option({"-r"}, [fixture EXCEPT !.RepeatCount = Number[argv[i + 1]]], 2)
      ELSE Option({"-r"}, [fixture EXCEPT !.RepeatCount = 2], 1)

OptUnknown ==
  /\ i <= Len(argv) => argv[i] \notin {"-h", "--help", "-v", "-s", "-g", "-n", "-r"}
  /\ Option({argv[k] : k \in DOMAIN argv}, fixture, 1)

\* Help, or a filter that is missing: no test runs.
OptStop ==
  /\ section = "options" /\ i <= Len(argv)
  /\ argv[i] \in {"-h", "--help"} \/ (argv[i] \in {"-g", "-n"} /\ i = Len(argv))
  /\ section' = "exit" /\ result' = 1
  /\ UNCHANGED <<Unity, verdict, memVars, optionVars, r, next, pointerVars,
                 calls, failures>>

\* The first repetition begins.
OptEnd ==
  /\ section = "options" /\ i > Len(argv)
  /\ section' = "repeat"
  /\ UNCHANGED <<Unity, verdict, memVars, optionVars, r, next, pointerVars,
                 calls, failures, result>>

OptStep ==
  \/ OptVerbose \/ OptSilent \/ OptFilter \/ OptRepeat \/ OptUnknown
  \/ OptStop \/ OptEnd

-----------------------------------------------------------------------------
(* UnityMain *)

BeginRun ==
  /\ section = "repeat" /\ r < fixture.RepeatCount
  /\ section' = "run"
  /\ UnityBegin
  /\ r' = r + 1 /\ next' = 1 /\ failures' = 0
  /\ UNCHANGED <<verdict, memVars, optionVars, pointerVars, calls, result>>

EndRun ==
  /\ section = "run" /\ next > Len(Program)
  /\ section' = "repeat"
  /\ UNCHANGED <<Unity, verdict, memVars, optionVars, r, next, pointerVars,
                 calls, failures, result>>

Exit ==
  /\ section = "repeat" /\ r = fixture.RepeatCount
  /\ section' = "exit"
  /\ result' = UnityEnd
  /\ UNCHANGED <<Unity, verdict, memVars, optionVars, r, next, pointerVars,
                 calls, failures>>

-----------------------------------------------------------------------------
(* One test *)

\* strstr(name, filter)
selected(filter, name) == filter = Everything \/ filter \in name

Selected(test) ==
  /\ selected(fixture.NameFilter, test.name)
  /\ selected(fixture.GroupFilter, test.group)

\* UnityTestRunner or UnityDefaultTestRun, with the set-up of the test.
RunTest ==
  /\ section = "run" /\ next <= Len(Program)
  /\ Selected(Program[next]) /\ ~Program[next].ignore
  /\ section' = "test"
  /\ BeginTest
  /\ StartTest
  /\ pointer_store' = <<>> /\ atStart' = pointer
  /\ calls' = 0
  /\ UNCHANGED <<optionVars, r, next, pointer, failures, result>>

\* UnityIgnoreTest
IgnoreTest ==
  /\ section = "run" /\ next <= Len(Program)
  /\ Selected(Program[next]) /\ Program[next].ignore
  /\ Unity' = [Unity EXCEPT !.NumberOfTests = @ + 1, !.TestIgnores = @ + 1]
  /\ next' = next + 1
  /\ UNCHANGED <<section, verdict, memVars, optionVars, r, pointerVars, calls,
                 failures, result>>

SkipTest ==
  /\ section = "run" /\ next <= Len(Program)
  /\ ~Selected(Program[next])
  /\ next' = next + 1
  /\ UNCHANGED <<coreVars, memVars, optionVars, r, pointerVars, calls,
                 failures, result>>

\* The code of the test in its body or its tear-down.
Calling ==
  /\ section \in {"test", "teardown"}
  /\ calls < MaxCalls
  /\ calls' = calls + 1
  /\ UNCHANGED <<optionVars, r, next, atStart, failures, result>>

After == [test |-> "teardown", teardown |-> IF withFixture THEN "undo" ELSE "conclude",
          undo |-> "conclude"]

\* longjmp to the setjmp of the section.
Abort == section' = After[section]

Fail ==
  /\ Calling
  /\ UnityFail /\ Abort
  /\ UNCHANGED <<memVars, pointer, pointer_store>>

Ignore ==
  /\ Calling
  /\ UnityIgnore /\ Abort
  /\ UNCHANGED <<memVars, pointer, pointer_store>>

\* An assertion that holds, in a test that has failed or is ignored.
AssertAfterwards ==
  /\ Calling
  /\ FailedOrIgnored /\ Abort
  /\ UNCHANGED <<Unity, verdict, memVars, pointer, pointer_store>>

PointerSet ==
  /\ Calling /\ withFixture
  /\ \E p \in Pointers, v \in Values :
       \/ /\ Len(pointer_store) < UNITY_MAX_POINTERS
          /\ pointer_store' = Append(pointer_store, [pointer |-> p, old_value |-> pointer[p]])
          /\ pointer' = [pointer EXCEPT ![p] = v]
          /\ UNCHANGED coreVars
       \/ /\ Len(pointer_store) >= UNITY_MAX_POINTERS
          /\ UnityFail /\ Abort
          /\ UNCHANGED <<pointer, pointer_store>>
  /\ UNCHANGED memVars

\* Allocation, of blocks the test has a right to.
Allocate ==
  /\ Calling /\ section = "test"
  /\ \/ \E size \in Sizes : Malloc(size)
     \/ \E num \in {2}, size \in Sizes : Calloc(num, size)
     \/ \E n \in {0, 1} : MakeMallocFailAfterCount(n)
     \/ \E b \in blocks :
          \/ Spoil(b)
          \/ ~b.spoilt /\ Free(b)
          \/ ~b.spoilt /\ \E size \in Sizes : Realloc(b, size)
  /\ UNCHANGED <<coreVars, pointer, pointer_store>>

\* free or realloc of a spoilt block: it is released and the test fails.
FreeSpoilt ==
  /\ Calling /\ section = "test"
  /\ \E b \in blocks : b.spoilt /\ Free(b)
  /\ UnityFail /\ Abort
  /\ UNCHANGED <<pointer, pointer_store>>

\* The code of the section returns.
Return ==
  /\ section = "test"
  /\ section' = "teardown"
  /\ UNCHANGED <<Unity, verdict, memVars, optionVars, r, next, pointerVars,
                 calls, failures, result>>

\* The tear-down ends with UnityMalloc_EndTest.
TearDown ==
  /\ section = "teardown"
  /\ EndTest
  /\ section' = After[section]
  /\ IF Leaks THEN UnityFail ELSE UNCHANGED <<Unity, verdict>>
  /\ UNCHANGED <<optionVars, r, next, pointerVars, calls, failures, result>>

\* Mutant: the pointers are restored in the order in which they were set.
UndoSet_First ==
  /\ section = "undo" /\ pointer_store # <<>>
  /\ pointer' = [pointer EXCEPT ![pointer_store[1].pointer] = pointer_store[1].old_value]
  /\ pointer_store' = Tail(pointer_store)
  /\ UNCHANGED <<coreVars, memVars, optionVars, r, next, atStart, calls,
                 failures, result>>

\* UnityPointer_UndoAllSets, a round of its loop.
UndoSet ==
  /\ section = "undo" /\ pointer_store # <<>>
  /\ LET last == pointer_store[Len(pointer_store)]
     IN  pointer' = [pointer EXCEPT ![last.pointer] = last.old_value]
  /\ pointer_store' = SubSeq(pointer_store, 1, Len(pointer_store) - 1)
  /\ UNCHANGED <<coreVars, memVars, optionVars, r, next, atStart, calls,
                 failures, result>>

ConcludeTest ==
  /\ section = "conclude" \/ (section = "undo" /\ pointer_store = <<>>)
  /\ section' = "run" /\ next' = next + 1
  /\ Conclude
  /\ failures' = IF verdict = "fail" THEN failures + 1 ELSE failures
  /\ UNCHANGED <<verdict, memVars, optionVars, r, pointerVars, calls, result>>

TestStep ==
  \/ RunTest \/ IgnoreTest \/ SkipTest
  \/ Fail \/ Ignore \/ AssertAfterwards
  \/ PointerSet
  \/ Allocate \/ FreeSpoilt
  \/ Return \/ TearDown
  \/ UndoSet \/ ConcludeTest

Next ==
  \/ OptStep
  \/ BeginRun \/ EndRun \/ Exit
  \/ TestStep

Spec == Init /\ [][Next]_vars

-----------------------------------------------------------------------------

\* A test counts as failed, or as ignored, exactly if that is what its own
\* code asked for first, in its body, its tear-down or a call it made; nothing
\* of an earlier test or of a later section shows (UnityConcludeTest,
\* RETURN_IF_FAIL_OR_IGNORE).
VerdictOwn ==
  [][ConcludeTest =>
       /\ Unity'.TestFailures - Unity.TestFailures = IF verdict = "fail" THEN 1 ELSE 0
       /\ Unity'.TestIgnores - Unity.TestIgnores = IF verdict = "ignore" THEN 1 ELSE 0]_vars

\* What the program returns is the number of tests that failed in the last
\* repetition, and only in that one (UnityMain).
ExitCodeExact ==
  section = "exit" /\ i > Len(argv) => result = failures

\* Wherever a test was left, the pointers it set have their old values when
\* the next one begins (UnityPointer_UndoAllSets).
PointersRestored ==
  section = "run" => pointer = atStart

\* A test that passes has released all its blocks and spoilt none of them
\* (UnityMalloc_EndTest, unity_free).
PassesOnlyClean ==
  section \in {"undo", "conclude"} /\ verdict = "pass" => blocks = {}
=============================================================================
