----------------------------- MODULE UnityCore ------------------------------
(***************************************************************************)
(* The control functions of Unity, src/unity.c: the counters of a run, the *)
(* sections of a test and the jumps out of them.  A section is entered by  *)
(* TEST_PROTECT (setjmp); a failing or ignoring call leaves it by          *)
(* TEST_ABORT (longjmp), as does every assertion made after one.           *)
(***************************************************************************)
EXTENDS Naturals

VARIABLES
  Unity,    \* counters and flags of struct UNITY_STORAGE_T
  section,  \* where the run is
  verdict   \* what the code of the current test asked for first

coreVars == <<Unity, section, verdict>>

Fresh == [NumberOfTests |-> 0, TestFailures |-> 0, TestIgnores |-> 0,
          CurrentTestFailed |-> FALSE, CurrentTestIgnored |-> FALSE]

CoreInit ==
  /\ Unity = Fresh
  /\ section = "options"
  /\ verdict = "pass"

FailedOrIgnored == Unity.CurrentTestFailed \/ Unity.CurrentTestIgnored

\* Mutant: the counters of the run before are kept.
UnityBegin_Keeps ==
  Unity' = [Unity EXCEPT !.NumberOfTests = 0]

UnityBegin == Unity' = Fresh

\* UnityDefaultTestRun and UnityTestRunner, up to the first section.
BeginTest ==
  /\ Unity' = [Unity EXCEPT !.NumberOfTests = @ + 1]
  /\ verdict' = "pass"

\* UnityFail, and every assertion that does not hold.  Once a test has failed
\* or is ignored, nothing changes its verdict (RETURN_IF_FAIL_OR_IGNORE).
UnityFail ==
  /\ Unity' = IF FailedOrIgnored THEN Unity
              ELSE [Unity EXCEPT !.CurrentTestFailed = TRUE]
  /\ verdict' = IF verdict = "pass" THEN "fail" ELSE verdict

UnityIgnore ==
  /\ Unity' = IF FailedOrIgnored THEN Unity
              ELSE [Unity EXCEPT !.CurrentTestIgnored = TRUE]
  /\ verdict' = IF verdict = "pass" THEN "ignore" ELSE verdict

\* Mutant: the flags of the test stay up.
Conclude_Flags ==
  Unity' = [Unity EXCEPT
              !.TestIgnores  = IF Unity.CurrentTestIgnored THEN @ + 1 ELSE @,
              !.TestFailures = IF ~Unity.CurrentTestIgnored /\ Unity.CurrentTestFailed
                               THEN @ + 1 ELSE @]

\* UnityConcludeTest and UnityConcludeFixtureTest.
Conclude ==
  Unity' = [Unity EXCEPT
              !.TestIgnores  = IF Unity.CurrentTestIgnored THEN @ + 1 ELSE @,
              !.TestFailures = IF ~Unity.CurrentTestIgnored /\ Unity.CurrentTestFailed
                               THEN @ + 1 ELSE @,
              !.CurrentTestFailed = FALSE,
              !.CurrentTestIgnored = FALSE]

\* UnityEnd.
UnityEnd == Unity.TestFailures
=============================================================================
