----------------------------- MODULE TimedProofs -----------------------------
(***************************************************************************)
(* Proofs about the program under the clock, for every number of CPUs,     *)
(* every capacity, every length of the sleeps (the reader's the shorter)   *)
(* and all times a pass or a frame may take.                               *)
(*                                                                         *)
(* ClockInv ties the time left of each statement, the silence of each      *)
(* worker and the check points to where the watchdog is; FlowInv says that *)
(* a round is taken and analysed in the instant it is pushed, HealthInv    *)
(* what that means for the workers' silence, and RoundsInv what the length *)
(* of the printer's queue says about how long the printer has been away.   *)
(***************************************************************************)
EXTENDS TimedCpuUsage, CpuUsageProofs

USE DEF sync, source, queues, flags, analyzerVars

\* The steps are those of CpuUsage.
LEMMA TimedStepIsStep == [TimedNext]_timedVars => [Next]_vars
  BY DEF TimedNext, Run, StepOf, Spurious, Elapse, timedVars, vars, Next, Thread

LEMMA TimedIsUntimed == TimedSpec => Spec
  <1>1. TimedInit => Init
    BY DEF TimedInit
  <1> QED BY <1>1, TimedStepIsStep, PTL DEF TimedSpec, Spec

-----------------------------------------------------------------------------
(***************************************************************************)
(* What a step does to the clock                                           *)
(***************************************************************************)

ClockTypes ==
  /\ left \in [Thread -> Nat]
  /\ silent \in [Worker -> 0 .. TooLong + 1]
  /\ slowest \in [read : Nat, print : Nat]

LEMMA DurationsOf ==
  ASSUME NEW t \in Thread, NEW at, NEW d \in Durations(t, at)
  PROVE  /\ d \in Nat
         /\ d = 0 \/ at \in {"Sleep", "Read", "Print"}
         /\ t = "reader" => d = 0 \/ at \in {"Sleep", "Read"}
         /\ t = "reader" /\ at = "Sleep" => d = ReaderNap
         /\ t = "printer" => d = 0 \/ at = "Print"
         /\ t = "watchdog" => d = 0 \/ at = "Sleep"
         /\ t = "watchdog" /\ at = "Sleep" => d = WatchdogNap
         /\ t \in {"analyzer", "sigterm"} => d = 0
  BY NapAssumption, TimesAssumption DEF Durations, Thread, Worker

\* The time left of the statement a thread enters; the others' stays.
Enters(t) ==
  /\ left[t] = 0
  /\ left' \in [Thread -> Nat]
  /\ \A u \in Thread \ {t} : left'[u] = left[u]
  /\ slowest' \in [read : Nat, print : Nat]
  /\ slowest'.read >= slowest.read /\ slowest'.print >= slowest.print
  /\ t # "reader" => slowest'.read = slowest.read
  /\ t # "printer" => slowest'.print = slowest.print
  /\ t = "reader" => 
       /\ pc'[t] = "Sleep" => left'[t] = ReaderNap
       /\ pc'[t] = "Read" => left'[t] <= slowest'.read
       /\ pc'[t] \notin {"Sleep", "Read"} => left'[t] = 0
  /\ t = "printer" => 
       /\ pc'[t] = "Print" => left'[t] <= slowest'.print
       /\ pc'[t] # "Print" => left'[t] = 0
  /\ t = "watchdog" => 
       /\ pc'[t] = "Sleep" => left'[t] = WatchdogNap
       /\ pc'[t] # "Sleep" => left'[t] = 0
  /\ t \in {"analyzer", "sigterm"} => left'[t] = 0

LEMMA RunEnters ==
  ASSUME ClockTypes, NEW t \in Thread, Run(t)
  PROVE  Enters(t)
  <1>1. PICK d \in Durations(t, pc'[t]) :
          /\ left' = [left EXCEPT ![t] = d]
          /\ slowest' = [read  |-> IF t = "reader" /\ pc'[t] = "Read"
                                   THEN AtLeast(slowest.read, d) ELSE slowest.read,
                         print |-> IF t = "printer" /\ pc'[t] = "Print"
                                   THEN AtLeast(slowest.print, d) ELSE slowest.print]
    BY DEF Run
  <1>2. /\ d \in Nat
        /\ t = "reader" => d = 0 \/ pc'[t] \in {"Sleep", "Read"}
        /\ t = "reader" /\ pc'[t] = "Sleep" => d = ReaderNap
        /\ t = "printer" => d = 0 \/ pc'[t] = "Print"
        /\ t = "watchdog" => d = 0 \/ pc'[t] = "Sleep"
        /\ t = "watchdog" /\ pc'[t] = "Sleep" => d = WatchdogNap
        /\ t \in {"analyzer", "sigterm"} => d = 0
    BY DurationsOf
  <1>3. /\ left[t] = 0 /\ left' \in [Thread -> Nat] /\ left'[t] = d
        /\ \A u \in Thread \ {t} : left'[u] = left[u]
    BY <1>1, <1>2 DEF ClockTypes, Run
  <1>4. /\ slowest' \in [read : Nat, print : Nat]
        /\ slowest'.read >= slowest.read /\ slowest'.print >= slowest.print
        /\ t # "reader" => slowest'.read = slowest.read
        /\ t # "printer" => slowest'.print = slowest.print
        /\ t = "reader" /\ pc'[t] = "Read" => d <= slowest'.read
        /\ t = "printer" /\ pc'[t] = "Print" => d <= slowest'.print
    BY <1>1, <1>2 DEF ClockTypes, AtLeast
  <1> QED BY <1>2, <1>3, <1>4 DEF Enters

\* Only a sign of life ends a silence.
LEMMA RunSilence ==
  ASSUME ClockTypes, NEW t \in Thread, Run(t)
  PROVE  /\ silent' \in [Worker -> 0 .. TooLong + 1]
         /\ \A u \in Worker \ {t} : silent'[u] = silent[u]
         /\ t \in Worker => silent'[t] = IF pc[t] \in {"Mark", "Print"} THEN 0 ELSE silent[t]
  BY NapAssumption DEF ClockTypes, Run, TooLong

\* A unit of time.
LEMMA ElapseClock ==
  ASSUME ClockTypes, Elapse
  PROVE  /\ left' \in [Thread -> Nat]
         /\ \A t \in Thread : left'[t] = IF left[t] > 0 THEN left[t] - 1 ELSE 0
         /\ silent' \in [Worker -> 0 .. TooLong + 1]
         /\ \A t \in Worker : /\ silent'[t] <= silent[t] + 1
                              /\ silent'[t] <= TooLong + 1
                              /\ silent'[t] >= silent[t]
                              /\ silent[t] <= TooLong => silent'[t] = silent[t] + 1
         /\ UNCHANGED <<vars, slowest>>
  <1>1. /\ left' \in [Thread -> Nat]
        /\ \A t \in Thread : left'[t] = IF left[t] > 0 THEN left[t] - 1 ELSE 0
    BY DEF ClockTypes, Elapse
  <1>2. ASSUME NEW t \in Worker
        PROVE  /\ silent'[t] \in 0 .. TooLong + 1
               /\ silent'[t] <= silent[t] + 1
               /\ silent'[t] <= TooLong + 1
               /\ silent'[t] >= silent[t]
               /\ silent[t] <= TooLong => silent'[t] = silent[t] + 1
    <2>1. silent'[t] = AtMost(silent[t] + 1, TooLong + 1)
      BY DEF Elapse
    <2> QED BY <2>1, NapAssumption DEF AtMost, ClockTypes, TooLong
  <1>3. silent' \in [Worker -> 0 .. TooLong + 1]
    BY <1>2 DEF Elapse
  <1> QED BY <1>1, <1>2, <1>3 DEF Elapse

-----------------------------------------------------------------------------
(***************************************************************************)
(* What a step does to the flags                                           *)
(***************************************************************************)

\* A worker sets its own check point, when it shows a sign of life, and unsets
\* its own flags when it starts.
Signs(t) ==
  /\ process = "running"
  /\ \A u \in Thread \ {t} : pc'[u] = pc[u]
  /\ pc[t] # "Start" => pc'[t] # "Start"
  /\ UNCHANGED done
  /\ \A u \in Worker \ {t} : checkPoint'[u] = checkPoint[u]
  /\ \A u \in (Worker \cup {"watchdog"}) \ {t} : toClose'[u] = toClose[u]
  /\ pc[t] # "Start" => toClose'[t] = toClose[t]
  /\ pc[t] = "Start" => ~toClose'[t] /\ ~checkPoint'[t]
  /\ pc[t] \in {"Mark", "Print"} => checkPoint'[t]
  /\ pc[t] \notin {"Mark", "Print", "Start"} => checkPoint'[t] = checkPoint[t]

LEMMA WorkerSigns ==
  ASSUME ControlInv, NEW t \in Worker, StepOf(t)
  PROVE  Signs(t)
  <1> USE DEF ControlInv, ControlTypes, Worker, Thread, Step, Signs
  <1>0. /\ pc \in [Thread -> Label] /\ checkPoint \in [Worker -> BOOLEAN]
        /\ toClose \in [Worker \cup {"watchdog"} -> BOOLEAN]
    OBVIOUS
  <1>1. CASE t = "reader"
    <2>0. ReaderStep
      BY <1>1 DEF StepOf
    <2>1. CASE ReaderStart
      BY <1>1, <2>1 DEF ReaderStart
    <2>2. CASE ReaderMark
      BY <1>1, <2>2 DEF ReaderMark
    <2>3. CASE \/ ReaderCount \/ ReaderLeaveBarrier \/ ReaderLock \/ ReaderRead
               \/ ReaderReadFails \/ ReaderOpenFails \/ ReaderSignal \/ ReaderCheckClose
      BY <1>1, <2>3 DEF ReaderCount, ReaderLeaveBarrier, LeaveBarrier, ReaderLock,
                        ReaderRead, ReaderReadFails, ReaderOpenFails, ReaderSignal,
                        ReaderCheckClose
    <2> QED BY <2>0, <2>1, <2>2, <2>3 DEF ReaderStep
  <1>2. CASE t = "analyzer"
    <2>0. AnalyzerStep
      BY <1>2 DEF StepOf
    <2>1. CASE AnalyzerStart
      BY <1>2, <2>1 DEF AnalyzerStart
    <2>2. CASE AnalyzerMark
      BY <1>2, <2>2 DEF AnalyzerMark
    <2>3. CASE \/ AnalyzerLeaveBarrier \/ AnalyzerLock \/ AnalyzerWait \/ AnalyzerWakeup
               \/ AnalyzerTake \/ AnalyzerOverrun \/ AnalyzerProcess \/ AnalyzerPush
               \/ AnalyzerSignal
      BY <1>2, <2>3 DEF AnalyzerLeaveBarrier, LeaveBarrier, AnalyzerLock, AnalyzerWait,
                        AnalyzerWakeup, AnalyzerTake, AnalyzerOverrun, AnalyzerProcess,
                        AnalyzerPush, AnalyzerSignal
    <2> QED BY <2>0, <2>1, <2>2, <2>3 DEF AnalyzerStep
  <1>3. CASE t = "printer"
    <2>0. PrinterStep
      BY <1>3 DEF StepOf
    <2>1. CASE PrinterStart
      BY <1>3, <2>1 DEF PrinterStart
    <2>2. CASE PrinterPrint
      BY <1>3, <2>2 DEF PrinterPrint
    <2>3. CASE \/ PrinterLeaveBarrier \/ PrinterLock \/ PrinterWait \/ PrinterWakeup
               \/ PrinterTake \/ PrinterOverrun
      BY <1>3, <2>3 DEF PrinterLeaveBarrier, LeaveBarrier, PrinterLock, PrinterWait,
                        PrinterWakeup, PrinterTake, PrinterOverrun
    <2> QED BY <2>0, <2>1, <2>2, <2>3 DEF PrinterStep
  <1> QED BY <1>1, <1>2, <1>3

\* A step of the watchdog that sets no worker's flag but asks it to close.
WatchdogMoves ==
  /\ process = "running" /\ process' = "running"
  /\ \A u \in Thread \ {"watchdog"} : pc'[u] = pc[u]
  /\ pc'["watchdog"] # "Start"
  /\ UNCHANGED done
  /\ ~toClose["watchdog"] => ~toClose'["watchdog"]
  /\ \A t \in Worker : toClose[t] => toClose'[t]
  /\ UNCHANGED <<mutex, arrived, threadsNum, cpuStatsQueue, cpuStatsQueuePrint>>

LEMMA WatchdogSteps ==
  ASSUME ControlInv, WatchdogStep
  PROVE  WatchdogMoves
  <1> USE DEF ControlInv, ControlTypes, Worker, Thread, Step, WatchdogMoves
  <1>1. CASE WatchdogStart
    BY <1>1 DEF WatchdogStart
  <1>2. CASE WatchdogClear
    BY <1>2 DEF WatchdogClear
  <1>3. CASE WatchdogWake
    BY <1>3 DEF WatchdogWake
  <1>4. CASE WatchdogCheck
    BY <1>4 DEF WatchdogCheck
  <1>5. CASE WatchdogCloseReader \/ WatchdogCloseAnalyzer \/ WatchdogClosePrinter
    BY <1>5 DEF WatchdogCloseReader, WatchdogCloseAnalyzer, WatchdogClosePrinter,
                RequestClose
  <1>6. CASE WatchdogWakeAnalyzer \/ WatchdogWakePrinter
    BY <1>6 DEF WatchdogWakeAnalyzer, WatchdogWakePrinter, WakeAll
  <1> QED BY <1>1, <1>2, <1>3, <1>4, <1>5, <1>6 DEF WatchdogStep

\* Where in its function a thread may be.
Places ==
  [reader   |-> {"Start", "Count", "Barrier", "Sleep", "Read", "Signal", "Mark",
                 "CheckClose", "Done"},
   analyzer |-> {"Start", "Barrier", "Lock", "Take", "Wait", "Process", "Push",
                 "Signal", "Mark", "Done"},
   printer  |-> {"Start", "Barrier", "Lock", "Take", "Wait", "Print", "Done"},
   watchdog |-> {"Start", "Clear", "Sleep", "Check", "CloseReader", "CloseAnalyzer",
                 "ClosePrinter", "WakeAnalyzer", "WakePrinter", "Done"},
   sigterm  |-> {"Start", "Poll"}]

PlacesInv == \A t \in Thread : pc[t] \in Places[t]

LEMMA PlacesRun ==
  ASSUME ControlInv, PlacesInv, ~done, NEW t \in Thread, StepOf(t)
  PROVE  PlacesInv'
  <1> SUFFICES /\ pc'[t] \in Places[t]
               /\ \A u \in Thread \ {t} : pc'[u] = pc[u]
    BY DEF PlacesInv
  <1> USE DEF ControlInv, ControlTypes, Worker, Thread, Step, PlacesInv, Places
  <1>0. /\ pc \in [Thread -> Label] /\ pc[t] \in Places[t]
    OBVIOUS
  <1>1. CASE t \in Worker
    <2>1. \A u \in Thread \ {t} : pc'[u] = pc[u]
      BY <1>1, WorkerSigns DEF Signs
    <2>2. CASE t = "reader"
      BY <2>2 DEF StepOf, ReaderStep, ReaderStart, ReaderMark, ReaderCount,
                  ReaderLeaveBarrier, LeaveBarrier, ReaderLock, ReaderRead,
                  ReaderReadFails, ReaderOpenFails, ReaderSignal, ReaderCheckClose
    <2>3. CASE t = "analyzer"
      BY <2>3 DEF StepOf, AnalyzerStep, AnalyzerStart, AnalyzerMark,
                  AnalyzerLeaveBarrier, LeaveBarrier, AnalyzerLock, AnalyzerWait,
                  AnalyzerWakeup, AnalyzerTake, AnalyzerOverrun, AnalyzerProcess,
                  AnalyzerPush, AnalyzerSignal
    <2>4. CASE t = "printer"
      BY <2>4 DEF StepOf, PrinterStep, PrinterStart, PrinterPrint,
                  PrinterLeaveBarrier, LeaveBarrier, PrinterLock, PrinterWait,
                  PrinterWakeup, PrinterTake, PrinterOverrun
    <2> QED BY <1>1, <2>1, <2>2, <2>3, <2>4
  <1>2. CASE t = "watchdog"
    BY <1>2 DEF StepOf, WatchdogStep, WatchdogStart, WatchdogClear, WatchdogWake,
                WatchdogCheck, WatchdogCloseReader, WatchdogCloseAnalyzer,
                WatchdogClosePrinter, WatchdogWakeAnalyzer, WatchdogWakePrinter,
                RequestClose, WakeAll
  <1>3. CASE t = "sigterm"
    BY <1>3 DEF StepOf, SigtermStep, SigtermStart, SigtermPoll, SigtermCloseReader,
                SigtermCloseAnalyzer, SigtermClosePrinter, SigtermCloseWatchdog,
                SigtermWakeAnalyzer, SigtermWakePrinter, RequestClose, WakeAll
  <1> QED BY <1>1, <1>2, <1>3

-----------------------------------------------------------------------------
(***************************************************************************)
(* Clock and watchdog                                                      *)
(***************************************************************************)

\* Only the slow statements take time.
LeftInv ==
  /\ left["analyzer"] = 0 /\ left["sigterm"] = 0
  /\ left["reader"] > 0 =>
       \/ pc["reader"] = "Sleep" /\ left["reader"] <= ReaderNap
       \/ pc["reader"] = "Read" /\ left["reader"] <= slowest.read
  /\ left["printer"] > 0 => pc["printer"] = "Print" /\ left["printer"] <= slowest.print
  /\ left["watchdog"] > 0 => pc["watchdog"] = "Sleep" /\ left["watchdog"] <= WatchdogNap

\* There is no SIGTERM.
QuietInv == ~done /\ ~toClose["watchdog"]

\* No time passes before every thread has initialised its flags.
NewInv ==
  ~Booted =>
    /\ \/ pc["watchdog"] \in {"Start", "Clear"}
       \/ pc["watchdog"] = "Sleep" /\ left["watchdog"] = WatchdogNap
    /\ \A t \in Worker : silent[t] = 0 /\ ~toClose[t]

\* How long the watchdog has slept.
Slept == WatchdogNap - left["watchdog"]

\* The check points say who has been silent since the watchdog went to sleep;
\* whoever was silent before has shown a sign of life in the round before.
WatchInv ==
  /\ pc["watchdog"] \in {"Start", "Clear"} => \A t \in Worker : silent[t] <= WatchdogNap
  /\ pc["watchdog"] \in {"Sleep", "Check"} =>
       \A t \in Worker : /\ silent[t] <= WatchdogNap + Slept
                         /\ checkPoint[t] => silent[t] <= Slept
                         /\ ~checkPoint[t] => silent[t] >= Slept
  /\ pc["watchdog"] # "Done" => \A t \in Worker : silent[t] <= TooLong

\* Whom the watchdog has asked to close on its way to the end.
ClosedInv ==
  /\ pc["watchdog"] \in {"CloseAnalyzer", "ClosePrinter", "WakeAnalyzer",
                         "WakePrinter", "Done"} => toClose["reader"]
  /\ pc["watchdog"] \in {"ClosePrinter", "WakeAnalyzer", "WakePrinter", "Done"} =>
       toClose["analyzer"]
  /\ pc["watchdog"] \in {"WakeAnalyzer", "WakePrinter", "Done"} => toClose["printer"]

ClockInv ==
  ClockTypes /\ PlacesInv /\ LeftInv /\ QuietInv /\ NewInv /\ WatchInv /\ ClosedInv

\* The steps of the workers keep the clock's invariant ...
LEMMA ClockWorker ==
  ASSUME ControlInv, ClockInv, NEW t \in Worker, Run(t)
  PROVE  ClockInv'
  <1> USE NapAssumption
  <1>0. t \in Thread /\ Worker \subseteq Thread /\ t \notin {"watchdog", "sigterm"}
        /\ {"watchdog", "sigterm"} \subseteq Thread
    BY DEF Thread, Worker
  <1>1. Signs(t)
    BY WorkerSigns DEF Run
  <1>2. Enters(t)
    BY <1>0, RunEnters DEF ClockInv
  <1>3. /\ silent' \in [Worker -> 0 .. TooLong + 1]
        /\ \A u \in Worker \ {t} : silent'[u] = silent[u]
        /\ silent'[t] = IF pc[t] \in {"Mark", "Print"} THEN 0 ELSE silent[t]
    BY <1>0, RunSilence DEF ClockInv
  <1>4. pc'["watchdog"] = pc["watchdog"] /\ left'["watchdog"] = left["watchdog"]
    BY <1>0, <1>1, <1>2 DEF Signs, Enters
  <1>5. ClockTypes'
    BY <1>2, <1>3 DEF ClockTypes, Enters
  <1>6. LeftInv'
    BY <1>0, <1>1, <1>2, <1>4 DEF ClockInv, ClockTypes, LeftInv, Signs, Enters, Worker
  <1>7. QuietInv'
    BY <1>0, <1>1 DEF ClockInv, QuietInv, Signs
  <1>8. NewInv'
    <2> SUFFICES ASSUME ~Booted' PROVE NewInv'
      BY DEF NewInv
    <2>1. ~Booted
      BY <1>0, <1>1 DEF Booted, Signs
    <2>2. ASSUME NEW u \in Worker PROVE silent'[u] = 0 /\ ~toClose'[u]
      BY <1>0, <1>1, <1>3, <2>1 DEF ClockInv, NewInv, Signs
    <2> QED BY <1>4, <2>1, <2>2 DEF ClockInv, NewInv
  <1>9. WatchInv'
    <2>1. Slept' = Slept
      BY <1>4 DEF Slept
    <2>2. left["watchdog"] \in Nat /\ left["watchdog"] <= WatchdogNap /\ Slept \in Nat
      BY <1>0 DEF ClockInv, ClockTypes, LeftInv, Slept
    <2>3. ASSUME NEW u \in Worker
          PROVE  silent[u] \in Nat /\ silent'[u] \in Nat /\ silent'[u] <= silent[u]
      BY <1>3, NapAssumption DEF ClockInv, ClockTypes, TooLong
    <2>4. ASSUME NEW u \in Worker, pc["watchdog"] \in {"Sleep", "Check"}
          PROVE  /\ silent'[u] <= WatchdogNap + Slept
                 /\ checkPoint'[u] => silent'[u] <= Slept
                 /\ ~checkPoint'[u] => silent'[u] >= Slept
      <3>0. /\ silent[u] <= WatchdogNap + Slept
            /\ checkPoint[u] => silent[u] <= Slept
            /\ ~checkPoint[u] => silent[u] >= Slept
        BY <2>4 DEF ClockInv, WatchInv
      <3>1. CASE u # t \/ pc[t] \notin {"Mark", "Print", "Start"}
        BY <1>1, <1>3, <3>0, <3>1 DEF Signs
      <3>2. CASE u = t /\ pc[t] \in {"Mark", "Print"}
        BY <1>1, <1>3, <2>2, <3>2 DEF Signs
      <3>3. CASE u = t /\ pc[t] = "Start"
        <4>1. ~Booted
          BY <1>0, <3>3 DEF Booted
        <4>2. silent[t] = 0 /\ Slept = 0
          BY <2>2, <2>4, <4>1 DEF ClockInv, NewInv, Slept
        <4> QED BY <1>1, <1>3, <2>2, <3>3, <4>2 DEF Signs
      <3> QED BY <3>1, <3>2, <3>3
    <2> QED BY <1>4, <2>1, <2>2, <2>3, <2>4 DEF ClockInv, WatchInv, TooLong
  <1>10. ClosedInv'
    <2>1. CASE pc[t] = "Start"
      <3>1. ~Booted
        BY <1>0, <2>1 DEF Booted
      <3> QED BY <1>4, <3>1 DEF ClockInv, NewInv, ClosedInv
    <2>2. CASE pc[t] # "Start"
      <3>1. \A u \in Worker : toClose'[u] = toClose[u]
        BY <1>1, <2>2 DEF Signs
      <3> QED BY <1>4, <3>1 DEF ClockInv, ClosedInv, Worker
    <2> QED BY <2>1, <2>2
  <1>11. PlacesInv'
    BY <1>0, PlacesRun DEF ClockInv, QuietInv, Run
  <1> QED BY <1>5, <1>6, <1>7, <1>8, <1>9, <1>10, <1>11 DEF ClockInv

\* ... and so do those of the watchdog ...
LEMMA ClockWatchdog ==
  ASSUME ControlInv, ClockInv, Run("watchdog")
  PROVE  ClockInv'
  <1> USE NapAssumption
  <1>0. /\ "watchdog" \in Thread /\ "watchdog" \notin Worker
        /\ Worker \subseteq Thread /\ "sigterm" \in Thread
        /\ WatchdogStep /\ pc \in [Thread -> Label]
        /\ checkPoint \in [Worker -> BOOLEAN]
        /\ toClose \in [Worker \cup {"watchdog"} -> BOOLEAN]
    BY DEF Thread, Worker, Run, StepOf, ControlInv, ControlTypes
  <1>1. WatchdogMoves
    BY <1>0, WatchdogSteps
  <1>2. Enters("watchdog")
    BY <1>0, RunEnters DEF ClockInv
  <1>3. silent' \in [Worker -> 0 .. TooLong + 1] /\ \A u \in Worker : silent'[u] = silent[u]
    BY <1>0, RunSilence DEF ClockInv
  <1>4. \A u \in Worker : silent[u] \in Nat
    BY NapAssumption DEF ClockInv, ClockTypes, TooLong
  <1>5. ClockTypes'
    BY <1>2, <1>3 DEF ClockTypes, Enters
  <1>6. LeftInv'
    <2>1. \A u \in Worker \cup {"sigterm"} : left'[u] = left[u] /\ pc'[u] = pc[u]
      BY <1>0, <1>1, <1>2 DEF WatchdogMoves, Enters, Thread, Worker
    <2>2. slowest'.read = slowest.read /\ slowest'.print = slowest.print
      BY <1>2 DEF Enters
    <2>3. left'["watchdog"] > 0 => pc'["watchdog"] = "Sleep" /\ left'["watchdog"] <= WatchdogNap
      BY <1>2 DEF Enters
    <2> QED BY <2>1, <2>2, <2>3 DEF ClockInv, LeftInv, Worker
  <1>7. QuietInv'
    BY <1>1 DEF ClockInv, QuietInv, WatchdogMoves
  <1>8. PlacesInv'
    BY <1>0, PlacesRun DEF ClockInv, QuietInv, Run
  <1>9. left["watchdog"] = 0 /\ (pc'["watchdog"] = "Sleep" => Slept' = 0)
        /\ (pc["watchdog"] = "Sleep" => Slept = WatchdogNap)
        /\ (pc'["watchdog"] # "Sleep" => Slept' = WatchdogNap)
    BY <1>2 DEF Enters, Slept
  <1>10. ASSUME NEW from, NEW to, Step("watchdog", from, to)
         PROVE  pc["watchdog"] = from /\ pc'["watchdog"] = to
    BY <1>0, <1>10, StepMoves
  <1>11. CASE WatchdogStart
    <2>1. /\ pc["watchdog"] = "Start" /\ pc'["watchdog"] = "Clear"
          /\ \A u \in Worker : toClose'[u] = toClose[u]
      BY <1>0, <1>10, <1>11 DEF WatchdogStart
    <2>2. ~Booted
      BY <1>0, <2>1 DEF Booted
    <2>3. NewInv' /\ ClosedInv'
      BY <1>3, <2>1, <2>2 DEF ClockInv, NewInv, ClosedInv
    <2>4. WatchInv'
      BY <1>3, <2>1 DEF ClockInv, WatchInv
    <2> QED BY <1>5, <1>6, <1>7, <1>8, <2>3, <2>4 DEF ClockInv
  <1>12. CASE WatchdogClear
    <2>1. /\ pc["watchdog"] = "Clear" /\ pc'["watchdog"] = "Sleep"
          /\ \A u \in Worker : toClose'[u] = toClose[u] /\ ~checkPoint'[u]
          /\ left'["watchdog"] = WatchdogNap
      BY <1>0, <1>2, <1>10, <1>12 DEF WatchdogClear, NoSignOfLife, Enters
    <2>2. Booted => Booted'
      BY <1>0, <1>1, <2>1 DEF Booted, WatchdogMoves
    <2>3. NewInv' /\ ClosedInv'
      BY <1>3, <2>1, <2>2 DEF ClockInv, NewInv, ClosedInv
    <2>4. WatchInv'
      BY <1>3, <1>4, <1>9, <2>1 DEF ClockInv, WatchInv
    <2> QED BY <1>5, <1>6, <1>7, <1>8, <2>3, <2>4 DEF ClockInv
  <1>13. ASSUME pc["watchdog"] \notin {"Start", "Clear"}, pc'["watchdog"] # "Start"
         PROVE  NewInv'
    <2>1. pc["watchdog"] = "Sleep" => left["watchdog"] # WatchdogNap
      BY <1>9
    <2>2. Booted
      BY <1>13, <2>1 DEF ClockInv, NewInv
    <2> QED BY <1>0, <1>1, <1>13, <2>2 DEF NewInv, Booted, WatchdogMoves
  <1>14. CASE WatchdogWake
    <2>1. /\ pc["watchdog"] = "Sleep" /\ pc'["watchdog"] = "Check"
          /\ UNCHANGED <<toClose, checkPoint>>
      BY <1>10, <1>14 DEF WatchdogWake, ClockInv, QuietInv
    <2>2. WatchInv'
      BY <1>3, <1>9, <2>1 DEF ClockInv, WatchInv
    <2>3. ClosedInv'
      BY <2>1 DEF ClosedInv
    <2> QED BY <1>5, <1>6, <1>7, <1>8, <1>13, <2>1, <2>2, <2>3 DEF ClockInv
  <1>15. CASE WatchdogCheck
    <2>1. /\ pc["watchdog"] = "Check"
          /\ pc'["watchdog"] = IF \A t \in Worker : checkPoint[t] THEN "Clear" ELSE "CloseReader"
          /\ UNCHANGED <<toClose, checkPoint>>
      BY <1>10, <1>15 DEF WatchdogCheck
    <2>2. Slept = WatchdogNap
      BY <1>9 DEF Slept
    <2>3. WatchInv'
      BY <1>3, <2>1, <2>2 DEF ClockInv, WatchInv
    <2>4. ClosedInv'
      BY <2>1 DEF ClosedInv
    <2> QED BY <1>5, <1>6, <1>7, <1>8, <1>13, <2>1, <2>3, <2>4 DEF ClockInv
  <1>16. ASSUME pc["watchdog"] \notin {"Start", "Clear", "Sleep", "Check", "Done"},
                pc'["watchdog"] \notin {"Start", "Clear", "Sleep", "Check"}
         PROVE  NewInv' /\ WatchInv'
    BY <1>3, <1>13, <1>16 DEF ClockInv, WatchInv
  <1>17. CASE WatchdogCloseReader \/ WatchdogCloseAnalyzer \/ WatchdogClosePrinter
    <2>1. ClosedInv' /\ pc["watchdog"] \notin {"Start", "Clear", "Sleep", "Check", "Done"}
          /\ pc'["watchdog"] \notin {"Start", "Clear", "Sleep", "Check"}
      BY <1>0, <1>10, <1>17
         DEF WatchdogCloseReader, WatchdogCloseAnalyzer, WatchdogClosePrinter,
             RequestClose, ClockInv, ClosedInv, Worker
    <2> QED BY <1>5, <1>6, <1>7, <1>8, <1>16, <2>1 DEF ClockInv
  <1>18. CASE WatchdogWakeAnalyzer \/ WatchdogWakePrinter
    <2>1. ClosedInv' /\ pc["watchdog"] \notin {"Start", "Clear", "Sleep", "Check", "Done"}
          /\ pc'["watchdog"] \notin {"Start", "Clear", "Sleep", "Check"}
      BY <1>0, <1>10, <1>18
         DEF WatchdogWakeAnalyzer, WatchdogWakePrinter, WakeAll, ClockInv, ClosedInv
    <2> QED BY <1>5, <1>6, <1>7, <1>8, <1>16, <2>1 DEF ClockInv
  <1> QED BY <1>0, <1>11, <1>12, <1>14, <1>15, <1>17, <1>18 DEF WatchdogStep

\* ... of the SIGTERM thread, which has none but its first ...
LEMMA ClockSigterm ==
  ASSUME ControlInv, ClockInv, Run("sigterm")
  PROVE  /\ ClockInv'
         /\ \A u \in Thread \ {"sigterm"} : pc'[u] = pc[u] /\ left'[u] = left[u]
         /\ UNCHANGED <<process, sync, source, queues, flags>>
         /\ \A u \in Worker : silent'[u] = silent[u]
         /\ slowest'.read = slowest.read /\ slowest'.print = slowest.print
  <1>0. /\ "sigterm" \in Thread /\ Worker \cup {"watchdog"} \subseteq Thread \ {"sigterm"}
        /\ ~done /\ pc["sigterm"] \in {"Start", "Poll"}
    BY DEF Thread, Worker, ClockInv, QuietInv, PlacesInv, Places
  <1>1. SigtermStart
    BY <1>0, StepMoves
       DEF Run, StepOf, SigtermStep, SigtermPoll, SigtermCloseReader,
           SigtermCloseAnalyzer, SigtermClosePrinter, SigtermCloseWatchdog,
           SigtermWakeAnalyzer, SigtermWakePrinter, RequestClose, WakeAll, Step
  <1>2. /\ \A u \in Thread \ {"sigterm"} : pc'[u] = pc[u]
        /\ pc["sigterm"] = "Start" /\ pc'["sigterm"] = "Poll"
        /\ UNCHANGED <<process, sync, source, queues, flags>>
    BY <1>0, <1>1, StepMoves DEF SigtermStart
  <1>3. Enters("sigterm")
    BY <1>0, RunEnters DEF ClockInv
  <1>4. silent' \in [Worker -> 0 .. TooLong + 1] /\ \A u \in Worker : silent'[u] = silent[u]
    BY <1>0, RunSilence DEF ClockInv
  <1>5. PlacesInv' /\ ClockTypes' /\ QuietInv'
    BY <1>0, <1>2, <1>3, <1>4
       DEF ClockInv, PlacesInv, Places, ClockTypes, QuietInv, Enters
  <1>6. \A u \in Thread \ {"sigterm"} : left'[u] = left[u]
    BY <1>3 DEF Enters
  <1>7. slowest'.read = slowest.read /\ slowest'.print = slowest.print
    BY <1>3 DEF Enters
  <1>8. LeftInv'
    BY <1>0, <1>2, <1>3, <1>6, <1>7 DEF ClockInv, LeftInv, Enters, Worker
  <1>9. NewInv'
    BY <1>0, <1>2, <1>4, <1>6 DEF ClockInv, NewInv, Booted
  <1>10. WatchInv' /\ ClosedInv'
    BY <1>0, <1>2, <1>4, <1>6 DEF ClockInv, WatchInv, ClosedInv, Slept
  <1> QED BY <1>2, <1>4, <1>5, <1>6, <1>7, <1>8, <1>9, <1>10 DEF ClockInv

-----------------------------------------------------------------------------
(***************************************************************************)
(* When time passes.  Nobody is about to step, so all are in a slow        *)
(* statement, waiting for each other, or gone.                             *)
(***************************************************************************)

Still ==
  /\ process = "running" /\ Booted
  /\ mutex["queueCpuStatsMutex"] \in {Nobody, "reader"}
  /\ mutex["queueCpuStatsPrinterMutex"] = Nobody
  /\ \/ pc["reader"] \in {"Sleep", "Read"} /\ left["reader"] > 0
     \/ pc["reader"] = "Done"
  /\ \/ pc["analyzer"] = "Barrier" /\ arrived # BarrierCount
     \/ pc["analyzer"] = "Wait" /\ "analyzer" \in waiting["condCpuStatsQueue"]
     \/ pc["analyzer"] \in {"Lock", "Wait"} /\ mutex["queueCpuStatsMutex"] = "reader"
     \/ pc["analyzer"] = "Done"
  /\ \/ pc["printer"] = "Barrier" /\ arrived # BarrierCount
     \/ pc["printer"] = "Wait" /\ "printer" \in waiting["condCpuStatsPrinterQueue"]
     \/ pc["printer"] = "Print" /\ left["printer"] > 0
     \/ pc["printer"] = "Done"
  /\ \/ pc["watchdog"] = "Sleep" /\ left["watchdog"] > 0
     \/ pc["watchdog"] = "Done"

LEMMA ElapseStill ==
  ASSUME ControlInv, ClockInv, Elapse
  PROVE  Still
  <1>0. \A t \in Thread : pc[t] \in Places[t]
    BY DEF ClockInv, PlacesInv
  <1>1. \A t \in Thread : pc[t] \notin {"Sleep", "Read", "Print"} => Blocked(t)
    BY DEF ClockInv, ClockTypes, LeftInv, Elapse, Thread, Worker
  <1>2. \A t \in Thread : \A c \in Cond : t \in waiting[c] => pc[t] = "Wait"
    BY DEF ControlInv, WaitInv, Cond, Thread, Worker
  <1>3. Booted
    <2> SUFFICES ASSUME NEW t \in Thread, pc[t] = "Start" PROVE FALSE
      BY DEF Booted
    <2> QED BY <1>1, <1>2 DEF Blocked, Wants
  <1>4. /\ pc["analyzer"] \notin {"Start", "Take", "Push", "Signal", "Mark"}
        /\ pc["printer"] \notin {"Start", "Take"}
        /\ pc["reader"] \notin {"Start", "Count", "Signal", "Mark", "CheckClose"}
        /\ pc["watchdog"] \in {"Sleep", "Done"}
    BY <1>0, <1>1, <1>2 DEF Blocked, Wants, Thread, Worker, Places
  <1>5. /\ mutex["queueCpuStatsMutex"] \in {Nobody, "reader"}
        /\ mutex["queueCpuStatsPrinterMutex"] = Nobody
    BY <1>4 DEF ControlInv, ControlTypes, LockInv, Mutex, Worker, Nobody
  <1>6. pc["reader"] # "Barrier"
    <2> SUFFICES ASSUME pc["reader"] = "Barrier" PROVE FALSE
      OBVIOUS
    <2>1. arrived # BarrierCount
      BY <1>1, <1>2 DEF Blocked, Wants, Thread, Worker
    <2> QED BY <1>3, <2>1
            DEF ControlInv, BarrierInv, BarrierCount, Consumers, Booted, Thread, Worker
  <1>7. SleepOver
    BY <1>3 DEF SleepOver
  <1>8. ASSUME NEW t \in {"reader", "printer", "watchdog"},
               pc[t] \in {"Sleep", "Read", "Print"}
        PROVE  left[t] > 0
    <2>0. t \in Thread /\ left[t] \in Nat
      BY DEF ClockInv, ClockTypes, Thread, Worker
    <2> SUFFICES ASSUME left[t] = 0 PROVE FALSE
      BY <2>0
    <2>1. Blocked(t)
      BY DEF Elapse, Thread, Worker
    <2>2. t = "reader" /\ pc[t] = "Sleep" /\ mutex["queueCpuStatsMutex"] # Nobody
      BY <1>2, <1>7, <1>8, <2>1 DEF Blocked, Wants, Mutex, Thread, Worker
    <2> QED BY <1>5, <2>2 DEF ControlInv, LockInv
  <1>9. \/ pc["reader"] \in {"Sleep", "Read"} /\ left["reader"] > 0
        \/ pc["reader"] = "Done"
    BY <1>0, <1>4, <1>6, <1>8 DEF Thread, Worker, Places
  <1>10. \/ pc["watchdog"] = "Sleep" /\ left["watchdog"] > 0
         \/ pc["watchdog"] = "Done"
    BY <1>4, <1>8
  <1>11. \/ pc["analyzer"] = "Barrier" /\ arrived # BarrierCount
         \/ pc["analyzer"] = "Wait" /\ "analyzer" \in waiting["condCpuStatsQueue"]
         \/ pc["analyzer"] \in {"Lock", "Wait"} /\ mutex["queueCpuStatsMutex"] = "reader"
         \/ pc["analyzer"] = "Done"
    <2>1. Blocked("analyzer") /\ pc["analyzer"] \in {"Barrier", "Lock", "Wait", "Process", "Done"}
      BY <1>0, <1>1, <1>4 DEF Thread, Worker, Places
    <2> QED BY <1>5, <2>1 DEF Blocked, Wants, Mutex, Cond, ControlInv, WaitInv
  <1>12. \/ pc["printer"] = "Barrier" /\ arrived # BarrierCount
         \/ pc["printer"] = "Wait" /\ "printer" \in waiting["condCpuStatsPrinterQueue"]
         \/ pc["printer"] = "Print" /\ left["printer"] > 0
         \/ pc["printer"] = "Done"
    <2>1. pc["printer"] # "Print" =>
            Blocked("printer") /\ pc["printer"] \in {"Barrier", "Lock", "Wait", "Done"}
      BY <1>0, <1>1, <1>4 DEF Thread, Worker, Places
    <2>2. pc["printer"] = "Print" => left["printer"] > 0
      BY <1>8
    <2> QED BY <1>5, <2>1, <2>2 DEF Blocked, Wants, Mutex, Cond, ControlInv, WaitInv
  <1> QED BY <1>3, <1>5, <1>9, <1>10, <1>11, <1>12 DEF Still, Elapse

\* ... and time.
LEMMA ClockElapse ==
  ASSUME ControlInv, ClockInv, Elapse
  PROVE  ClockInv'
  <1>1. Still
    BY ElapseStill
  <1>2. /\ left' \in [Thread -> Nat]
        /\ \A t \in Thread : left'[t] = IF left[t] > 0 THEN left[t] - 1 ELSE 0
        /\ silent' \in [Worker -> 0 .. TooLong + 1]
        /\ \A t \in Worker : silent'[t] <= silent[t] + 1 /\ silent'[t] <= TooLong + 1
                             /\ (silent[t] <= TooLong => silent'[t] = silent[t] + 1)
        /\ UNCHANGED <<vars, slowest>>
    BY ElapseClock DEF ClockInv
  <1>3. UNCHANGED <<pc, done, toClose, checkPoint>>
    BY <1>2 DEF vars
  <1>4. ClockTypes' /\ PlacesInv' /\ QuietInv' /\ ClosedInv'
    BY <1>2, <1>3 DEF ClockInv, ClockTypes, PlacesInv, Places, QuietInv, ClosedInv
  <1>5. LeftInv'
    <2>1. \A t \in Thread : left[t] \in Nat /\ left'[t] \in Nat
                            /\ (left'[t] > 0 => left[t] > 0) /\ left'[t] <= left[t]
      BY <1>2 DEF ClockInv, ClockTypes
    <2>2. slowest.read \in Nat /\ slowest.print \in Nat /\ slowest' = slowest
      BY <1>2 DEF ClockInv, ClockTypes
    <2> QED BY <1>3, <2>1, <2>2, NapAssumption DEF ClockInv, LeftInv, Thread, Worker
  <1>6. NewInv'
    BY <1>1, <1>3 DEF Still, NewInv, Booted
  <1>7. WatchInv'
    <2>1. CASE pc["watchdog"] = "Done"
      BY <1>3, <2>1 DEF WatchInv
    <2>2. CASE pc["watchdog"] = "Sleep" /\ left["watchdog"] > 0
      <3>1. /\ left["watchdog"] \in Nat /\ left["watchdog"] <= WatchdogNap
            /\ left'["watchdog"] = left["watchdog"] - 1
        BY <1>2, <2>2 DEF ClockInv, ClockTypes, LeftInv, Thread
      <3>2. Slept \in Nat /\ Slept' = Slept + 1 /\ Slept' <= WatchdogNap
        BY <2>2, <3>1, NapAssumption DEF Slept
      <3>3. ASSUME NEW t \in Worker
            PROVE  /\ silent'[t] <= WatchdogNap + Slept'
                   /\ checkPoint[t] => silent'[t] <= Slept'
                   /\ ~checkPoint[t] => silent'[t] >= Slept'
                   /\ silent'[t] <= TooLong
        <4>1. /\ silent[t] <= WatchdogNap + Slept
              /\ checkPoint[t] => silent[t] <= Slept
              /\ ~checkPoint[t] => silent[t] >= Slept
              /\ silent[t] <= TooLong
          BY <2>2 DEF ClockInv, WatchInv
        <4>2. silent'[t] = silent[t] + 1 /\ silent[t] \in Nat
          BY <1>2, <4>1, NapAssumption DEF ClockInv, ClockTypes, TooLong
        <4> QED BY <3>2, <4>1, <4>2, NapAssumption DEF TooLong
      <3> QED BY <1>3, <2>2, <3>3 DEF WatchInv
    <2> QED BY <1>1, <2>1, <2>2 DEF Still
  <1> QED BY <1>4, <1>5, <1>6, <1>7 DEF ClockInv

-----------------------------------------------------------------------------
(***************************************************************************)
(* How the workers go through their functions, and what that does to the   *)
(* queues.                                                                 *)
(***************************************************************************)

GoesFrom(t, from, to) == pc[t] = from /\ pc'[t] \in to

ReaderMoves ==
  /\ UNCHANGED cpuStatsQueuePrint
  /\ \/ /\ \/ GoesFrom("reader", "Start", {"Count"})
           \/ GoesFrom("reader", "Count", {"Barrier", "Done"})
           \/ GoesFrom("reader", "Barrier", {"Sleep"})
           \/ GoesFrom("reader", "Mark", {"CheckClose"})
           \/ GoesFrom("reader", "CheckClose", {"Sleep", "Done"})
        /\ UNCHANGED <<mutex, cpuStatsQueue>>
     \/ /\ GoesFrom("reader", "Sleep", {"Read"})
        /\ mutex'["queueCpuStatsMutex"] = "reader"
        /\ UNCHANGED cpuStatsQueue
     \/ /\ GoesFrom("reader", "Read", {"Signal", "Done"})
        /\ UNCHANGED mutex
        /\ cpuStatsQueue = <<>> => Len(cpuStatsQueue') <= Rows
        /\ cpuStatsQueue # <<>> \/ pc'["reader"] = "Signal" => cpuStatsQueue' # <<>>
     \/ /\ GoesFrom("reader", "Signal", {"Mark"})
        /\ mutex'["queueCpuStatsMutex"] = Nobody
        /\ UNCHANGED cpuStatsQueue

LEMMA ReaderGoes ==
  ASSUME ControlInv, DataInv, ReaderStep, process' = "running"
  PROVE  ReaderMoves
  <1> USE DEF ReaderMoves, GoesFrom
  <1>0. /\ "reader" \in Thread /\ pc \in [Thread -> Label]
        /\ mutex \in [Mutex -> Worker \cup {Nobody}] /\ "queueCpuStatsMutex" \in Mutex
    BY DEF Thread, Worker, Mutex, ControlInv, ControlTypes
  <1>1. ASSUME NEW from, NEW to, Step("reader", from, to)
        PROVE  pc["reader"] = from /\ pc'["reader"] = to
    BY <1>0, <1>1, StepMoves
  <1>2. CASE \/ ReaderStart \/ ReaderCount \/ ReaderLeaveBarrier \/ ReaderMark
             \/ ReaderCheckClose
    BY <1>1, <1>2 DEF ReaderStart, ReaderCount, ReaderLeaveBarrier, LeaveBarrier,
                      ReaderMark, ReaderCheckClose
  <1>3. CASE ReaderLock
    BY <1>0, <1>1, <1>3 DEF ReaderLock, Acquire
  <1>4. CASE ReaderSignal
    BY <1>0, <1>1, <1>4 DEF ReaderSignal, Release
  <1>5. ASSUME NEW n \in 0 .. CpuThreads + 1,
               cpuStatsQueue' = PushAll(cpuStatsQueue, Readings(n))
        PROVE  /\ cpuStatsQueue = <<>> => Len(cpuStatsQueue') <= Rows
               /\ cpuStatsQueue # <<>> \/ n > 0 => cpuStatsQueue' # <<>>
    <2>1. Readings(n) \in Seq(Reading)
      BY ReadingsType DEF DataInv
    <2>2. Len(Readings(n)) = n
      BY CpuThreadsAssumption DEF Readings
    <2>3. cpuStatsQueue \in Seq(Reading) /\ Len(cpuStatsQueue) <= MAX_CAPACITY
      BY DEF DataInv
    <2>4. /\ cpuStatsQueue' \in Seq(Reading)
          /\ Len(cpuStatsQueue') = IF Len(cpuStatsQueue) + n < MAX_CAPACITY
                                   THEN Len(cpuStatsQueue) + n ELSE MAX_CAPACITY
      BY ONLY <1>5, <2>1, <2>2, <2>3, PushAllResult
    <2>5. Len(cpuStatsQueue) \in Nat /\ (cpuStatsQueue # <<>> <=> Len(cpuStatsQueue) > 0)
      BY ONLY <2>3
    <2>6. Len(cpuStatsQueue') \in Nat /\ (cpuStatsQueue' # <<>> <=> Len(cpuStatsQueue') > 0)
      BY ONLY <2>4
    <2> HIDE DEF ReaderMoves
    <2>7. cpuStatsQueue = <<>> => Len(cpuStatsQueue') <= Rows
      BY <2>4, <2>5, <2>6, CapacityAssumption, CpuThreadsAssumption DEF Rows
    <2>8. cpuStatsQueue # <<>> \/ n > 0 => Len(cpuStatsQueue') > 0
      BY <2>4, <2>5, <2>6, CapacityAssumption, CpuThreadsAssumption
    <2> QED BY <2>6, <2>7, <2>8
  <1>6. CASE ReaderRead
    <2>1. threadsNum + 1 \in 0 .. CpuThreads + 1 /\ threadsNum + 1 > 0
      BY <1>6, CpuThreadsAssumption DEF ReaderRead, Step, ControlInv, BarrierInv
    <2>2. cpuStatsQueue' = PushAll(cpuStatsQueue, Readings(threadsNum + 1))
      BY <1>6 DEF ReaderRead
    <2> QED BY <1>1, <1>5, <1>6, <2>1, <2>2 DEF ReaderRead
  <1>7. CASE ReaderReadFails
    <2>1. PICK n \in 0 .. threadsNum :
            cpuStatsQueue' = PushAll(cpuStatsQueue, Readings(n))
      BY <1>7 DEF ReaderReadFails
    <2>2. n \in 0 .. CpuThreads + 1
      BY <2>1, CpuThreadsAssumption DEF ControlInv, ControlTypes
    <2> QED BY <1>1, <1>5, <1>7, <2>1, <2>2 DEF ReaderReadFails
  <1>8. ~ReaderOpenFails
    BY DEF ReaderOpenFails
  <1> QED BY <1>2, <1>3, <1>4, <1>6, <1>7, <1>8 DEF ReaderStep

AnalyzerMoves ==
  /\ mutex'["queueCpuStatsMutex"] = "reader" <=> mutex["queueCpuStatsMutex"] = "reader"
  /\ \/ /\ \/ GoesFrom("analyzer", "Start", {"Barrier"})
           \/ GoesFrom("analyzer", "Barrier", {"Lock"})
           \/ GoesFrom("analyzer", "Lock", {"Take"})
           \/ GoesFrom("analyzer", "Take", {"Wait"}) /\ cpuStatsQueue = <<>>
           \/ GoesFrom("analyzer", "Wait", {"Done"}) /\ toClose["analyzer"]
           \/ GoesFrom("analyzer", "Wait", {"Take"}) /\ ~toClose["analyzer"]
           \/ GoesFrom("analyzer", "Process", {"Push"})
           \/ GoesFrom("analyzer", "Signal", {"Mark"})
           \/ GoesFrom("analyzer", "Mark", {"Lock"})
        /\ UNCHANGED <<cpuStatsQueue, cpuStatsQueuePrint>>
     \/ /\ GoesFrom("analyzer", "Take", {"Process"})
        /\ mutex["queueCpuStatsMutex"] = "analyzer"
        /\ cpuStatsQueue # <<>> /\ cpuStatsQueue' = <<>>
        /\ UNCHANGED cpuStatsQueuePrint
     \/ /\ GoesFrom("analyzer", "Push", {"Signal"})
        /\ UNCHANGED cpuStatsQueue
        /\ cpuStatsQueuePrint' # <<>>
        /\ Len(cpuStatsQueuePrint') <= Len(cpuStatsQueuePrint) + Rows

LEMMA AnalyzerGoes ==
  ASSUME ControlInv, DataInv, AnalyzerStep, process' = "running"
  PROVE  AnalyzerMoves
  <1> USE DEF AnalyzerMoves, GoesFrom
  <1>0. /\ "analyzer" \in Thread /\ pc \in [Thread -> Label]
        /\ mutex \in [Mutex -> Worker \cup {Nobody}]
        /\ Mutex = {"queueCpuStatsMutex", "queueCpuStatsPrinterMutex"}
    BY DEF Thread, Worker, Mutex, ControlInv, ControlTypes
  <1>1. ASSUME NEW from, NEW to, Step("analyzer", from, to)
        PROVE  pc["analyzer"] = from /\ pc'["analyzer"] = to
    BY <1>0, <1>1, StepMoves
  <1>2. CASE AnalyzerStart \/ AnalyzerLeaveBarrier \/ AnalyzerMark
    BY <1>1, <1>2 DEF AnalyzerStart, AnalyzerLeaveBarrier, LeaveBarrier, AnalyzerMark
  <1>3. CASE AnalyzerLock \/ AnalyzerProcess
    BY <1>0, <1>1, <1>3 DEF AnalyzerLock, AnalyzerProcess, Acquire, Nobody
  <1>4. CASE AnalyzerWait
    BY <1>0, <1>1, <1>4 DEF AnalyzerWait, CondWait, Release, Nobody, ControlInv, LockInv
  <1>5. CASE AnalyzerWakeup
    BY <1>0, <1>1, <1>5 DEF AnalyzerWakeup, Acquire, Nobody
  <1>6. CASE AnalyzerTake
    BY <1>0, <1>1, <1>6 DEF AnalyzerTake, Release, Nobody, ControlInv, LockInv
  <1>7. CASE AnalyzerSignal
    BY <1>0, <1>1, <1>7 DEF AnalyzerSignal, Release
  <1>8. CASE AnalyzerPush
    <2>1. Len(cpuStatsQueuePrint') =
              IF Len(cpuStatsQueuePrint) + Rows < MAX_CAPACITY
              THEN Len(cpuStatsQueuePrint) + Rows ELSE MAX_CAPACITY
      BY <1>8, PushedRow
    <2>2. Len(cpuStatsQueuePrint) \in Nat
      BY DEF DataInv
    <2>3. Len(cpuStatsQueuePrint') <= Len(cpuStatsQueuePrint) + Rows
          /\ Len(cpuStatsQueuePrint') > 0
      BY <2>1, <2>2, CapacityAssumption, CpuThreadsAssumption DEF Rows
    <2>4. cpuStatsQueuePrint' # <<>>
      BY <2>3
    <2> QED BY <1>1, <1>8, <2>3, <2>4 DEF AnalyzerPush
  <1>9. ~AnalyzerOverrun
    BY DEF AnalyzerOverrun
  <1> QED BY <1>2, <1>3, <1>4, <1>5, <1>6, <1>7, <1>8, <1>9 DEF AnalyzerStep

PrinterMoves ==
  /\ mutex'["queueCpuStatsMutex"] = mutex["queueCpuStatsMutex"]
  /\ UNCHANGED cpuStatsQueue
  /\ \/ /\ \/ GoesFrom("printer", "Start", {"Barrier"})
           \/ GoesFrom("printer", "Barrier", {"Lock"})
           \/ GoesFrom("printer", "Lock", {"Take"})
           \/ GoesFrom("printer", "Take", {"Wait"})
           \/ GoesFrom("printer", "Wait", {"Done"}) /\ toClose["printer"]
           \/ GoesFrom("printer", "Wait", {"Take"})
           \/ GoesFrom("printer", "Print", {"Lock"})
        /\ UNCHANGED cpuStatsQueuePrint
     \/ /\ GoesFrom("printer", "Take", {"Print"})
        /\ cpuStatsQueuePrint' = <<>>

LEMMA PrinterGoes ==
  ASSUME ControlInv, PrinterStep, process' = "running"
  PROVE  PrinterMoves
  <1> USE DEF PrinterMoves, GoesFrom
  <1>0. /\ "printer" \in Thread /\ pc \in [Thread -> Label]
        /\ mutex \in [Mutex -> Worker \cup {Nobody}]
        /\ Mutex = {"queueCpuStatsMutex", "queueCpuStatsPrinterMutex"}
    BY DEF Thread, Worker, Mutex, ControlInv, ControlTypes
  <1>1. ASSUME NEW from, NEW to, Step("printer", from, to)
        PROVE  pc["printer"] = from /\ pc'["printer"] = to
    BY <1>0, <1>1, StepMoves
  <1>2. CASE PrinterStart \/ PrinterLeaveBarrier \/ PrinterPrint
    BY <1>1, <1>2 DEF PrinterStart, PrinterLeaveBarrier, LeaveBarrier, PrinterPrint
  <1>3. CASE PrinterLock \/ PrinterWakeup
    BY <1>0, <1>1, <1>3 DEF PrinterLock, PrinterWakeup, Acquire
  <1>4. CASE PrinterWait \/ PrinterTake
    BY <1>0, <1>1, <1>4 DEF PrinterWait, PrinterTake, CondWait, Release
  <1>5. ~PrinterOverrun
    BY DEF PrinterOverrun
  <1> QED BY <1>2, <1>3, <1>4, <1>5 DEF PrinterStep

-----------------------------------------------------------------------------
(***************************************************************************)
(* The pipeline.  The reader sets the pace: a round it has pushed is taken *)
(* and analysed in the same instant, so that the analyzer waits while time *)
(* passes.                                                                 *)
(***************************************************************************)

\* How long the reader has been silent.
PaceInv ==
  /\ pc["reader"] \in {"Start", "Count", "Barrier", "CheckClose"} => silent["reader"] = 0
  /\ pc["reader"] = "Sleep" => silent["reader"] + left["reader"] = ReaderNap
  /\ pc["reader"] \in {"Read", "Signal", "Mark"} =>
       /\ silent["reader"] >= ReaderNap
       /\ silent["reader"] + left["reader"] <= ReaderNap + slowest.read

Working == pc["analyzer"] \in {"Process", "Push", "Signal", "Mark"}

\* The instant in which the reader has pushed a round.
JustRead == pc["reader"] = "Mark" \/ silent["reader"] = 0

\* The reader's sleep has begun to pass, or is over.
Away ==
  \/ pc["reader"] = "Sleep" /\ left["reader"] < ReaderNap
  \/ pc["reader"] = "Read"

PipeInv ==
  /\ Away => \/ pc["analyzer"] = "Done"
             \/ cpuStatsQueue = <<>> /\ pc["analyzer"] \in {"Take", "Wait"}
  /\ pc["analyzer"] # "Done" => Len(cpuStatsQueue) <= Rows
  /\ Working \/ pc["analyzer"] \in {"Start", "Barrier"} => cpuStatsQueue = <<>>
  /\ pc["reader"] = "Signal" => cpuStatsQueue # <<>>
  /\ pc["analyzer"] \in {"Process", "Push"} => JustRead
  /\ /\ cpuStatsQueue # <<>> /\ pc["analyzer"] # "Done"
     /\ mutex["queueCpuStatsMutex"] # "reader"
     => JustRead
  /\ mutex["queueCpuStatsMutex"] = "reader" => pc["analyzer"] \in {"Wait", "Done"}

FlowInv == PaceInv /\ PipeInv

\* Everybody but the reader leaves its clock alone.
LEMMA ReaderRests ==
  ASSUME ControlInv, ClockInv, NEW t \in Thread \ {"reader"}, Run(t)
  PROVE  /\ pc'["reader"] = pc["reader"] /\ left'["reader"] = left["reader"]
         /\ silent'["reader"] = silent["reader"] /\ slowest'.read = slowest.read
  <1>0. "reader" \in Thread \ {t} /\ "reader" \in Worker \ {t}
    BY DEF Thread, Worker
  <1>1. pc'["reader"] = pc["reader"]
    <2>1. CASE t \in Worker
      BY <1>0, <2>1, WorkerSigns DEF Run, Signs
    <2>2. CASE t = "watchdog"
      BY <1>0, <2>2, WatchdogSteps DEF Run, StepOf, WatchdogMoves
    <2>3. CASE t = "sigterm"
      BY <1>0, <2>3, ClockSigterm
    <2> QED BY <2>1, <2>2, <2>3 DEF Thread
  <1>2. left'["reader"] = left["reader"] /\ slowest'.read = slowest.read
    BY <1>0, RunEnters DEF ClockInv, Enters
  <1>3. silent'["reader"] = silent["reader"]
    BY <1>0, RunSilence DEF ClockInv
  <1> QED BY <1>1, <1>2, <1>3

\* What is known of a step of the reader.
LEMMA ReaderRuns ==
  ASSUME ControlInv, DataInv, ClockInv, Run("reader"), process' = "running"
  PROVE  /\ ReaderMoves
         /\ pc'["analyzer"] = pc["analyzer"] /\ pc'["printer"] = pc["printer"]
         /\ left["reader"] = 0 /\ left'["reader"] \in Nat
         /\ left'["printer"] = left["printer"]
         /\ pc'["reader"] = "Sleep" => left'["reader"] = ReaderNap
         /\ pc'["reader"] = "Read" => left'["reader"] <= slowest'.read
         /\ pc'["reader"] \notin {"Sleep", "Read"} => left'["reader"] = 0
         /\ slowest.read \in Nat /\ slowest'.read \in Nat /\ slowest.print \in Nat
         /\ slowest'.read >= slowest.read /\ slowest'.print = slowest.print
         /\ silent["reader"] \in Nat
         /\ silent'["reader"] = IF pc["reader"] = "Mark" THEN 0 ELSE silent["reader"]
         /\ silent'["analyzer"] = silent["analyzer"] /\ silent'["printer"] = silent["printer"]
  <1>0. /\ "reader" \in Thread /\ "reader" \in Worker /\ ReaderStep
        /\ {"analyzer", "printer"} \subseteq Thread \ {"reader"}
        /\ {"analyzer", "printer"} \subseteq Worker \ {"reader"}
    BY DEF Thread, Worker, Run, StepOf
  <1>1. ReaderMoves
    BY <1>0, ReaderGoes
  <1>2. pc'["analyzer"] = pc["analyzer"] /\ pc'["printer"] = pc["printer"]
    BY <1>0, WorkerSigns DEF Run, Signs
  <1>3. Enters("reader")
    BY <1>0, RunEnters DEF ClockInv
  <1>4. /\ silent'["reader"] = IF pc["reader"] = "Mark" THEN 0 ELSE silent["reader"]
        /\ silent'["analyzer"] = silent["analyzer"] /\ silent'["printer"] = silent["printer"]
    BY <1>0, RunSilence DEF ClockInv, PlacesInv, Places
  <1>5. slowest.read \in Nat /\ slowest.print \in Nat /\ silent["reader"] \in Nat
    BY <1>0, NapAssumption DEF ClockInv, ClockTypes, TooLong
  <1> QED BY <1>0, <1>1, <1>2, <1>3, <1>4, <1>5 DEF Enters

LEMMA PaceReader ==
  ASSUME ControlInv, DataInv, ClockInv, PaceInv, Run("reader"), process' = "running"
  PROVE  PaceInv'
  <1>1. ReaderMoves
    BY ReaderRuns
  <1>2. /\ left["reader"] = 0 /\ left'["reader"] \in Nat
        /\ pc'["reader"] = "Sleep" => left'["reader"] = ReaderNap
        /\ pc'["reader"] = "Read" => left'["reader"] <= slowest'.read
        /\ pc'["reader"] \notin {"Sleep", "Read"} => left'["reader"] = 0
        /\ slowest.read \in Nat /\ slowest'.read \in Nat /\ slowest'.read >= slowest.read
        /\ silent["reader"] \in Nat
        /\ silent'["reader"] = IF pc["reader"] = "Mark" THEN 0 ELSE silent["reader"]
    BY ReaderRuns
  <1>3. silent'["reader"] \in Nat /\ ReaderNap \in Nat
    BY <1>2, NapAssumption
  <1>4. CASE pc'["reader"] \in {"Count", "Barrier", "CheckClose", "Done"}
    BY <1>1, <1>2, <1>4 DEF PaceInv, ReaderMoves, GoesFrom
  <1>5. CASE pc'["reader"] = "Sleep"
    BY <1>1, <1>2, <1>3, <1>5 DEF PaceInv, ReaderMoves, GoesFrom
  <1>6. CASE pc'["reader"] \in {"Read", "Signal", "Mark"}
    <2>1. pc["reader"] \in {"Sleep", "Read", "Signal"}
      BY <1>1, <1>6 DEF ReaderMoves, GoesFrom
    <2>2. silent'["reader"] = silent["reader"]
      BY <1>2, <2>1
    <2>3. silent["reader"] >= ReaderNap /\ silent["reader"] <= ReaderNap + slowest.read
      <3>1. CASE pc["reader"] = "Sleep"
        <4>1. silent["reader"] + left["reader"] = ReaderNap
          BY <3>1 DEF PaceInv
        <4>2. silent["reader"] = ReaderNap
          BY <1>2, <1>3, <4>1
        <4> QED BY <1>2, <1>3, <4>2
      <3>2. CASE pc["reader"] \in {"Read", "Signal"}
        <4>1. /\ silent["reader"] >= ReaderNap
              /\ silent["reader"] + left["reader"] <= ReaderNap + slowest.read
          BY <3>2 DEF PaceInv
        <4> QED BY <1>2, <1>3, <4>1
      <3> QED BY <2>1, <3>1, <3>2
    <2>4. /\ pc["reader"] = "Sleep" => silent["reader"] = ReaderNap
          /\ pc["reader"] # "Sleep" => pc'["reader"] # "Read"
      <3>1. pc["reader"] = "Sleep" => silent["reader"] + left["reader"] = ReaderNap
        BY DEF PaceInv
      <3>2. pc["reader"] # "Sleep" => pc'["reader"] # "Read"
        BY <1>1 DEF ReaderMoves, GoesFrom
      <3> QED BY <1>2, <1>3, <3>1, <3>2
    <2>5. silent'["reader"] + left'["reader"] <= ReaderNap + slowest'.read
      <3>1. CASE pc'["reader"] = "Read"
        BY <1>2, <1>3, <2>2, <2>4, <3>1
      <3>2. CASE pc'["reader"] # "Read"
        BY <1>2, <1>3, <1>6, <2>2, <2>3, <3>2
      <3> QED BY <3>1, <3>2
    <2> QED BY <1>6, <2>2, <2>3, <2>5 DEF PaceInv
  <1> QED BY <1>1, <1>4, <1>5, <1>6 DEF ReaderMoves, GoesFrom

LEMMA PipeReader ==
  ASSUME ControlInv, DataInv, ClockInv, PaceInv, PipeInv, Run("reader"),
         process' = "running"
  PROVE  PipeInv'
  <1>1. /\ pc["reader"] = "Read" => mutex["queueCpuStatsMutex"] = "reader"
        /\ mutex["queueCpuStatsMutex"] = "reader" => pc["reader"] \in {"Read", "Signal", "Done"}
    BY DEF ControlInv, LockInv
  <1>2. pc'["analyzer"] = "Take" => mutex'["queueCpuStatsMutex"] # "reader"
    BY ControlReader DEF Run, StepOf, ControlInv, LockInv
  <1> QED BY <1>1, <1>2, ReaderRuns, NapAssumption
          DEF PaceInv, PipeInv, ReaderMoves, GoesFrom, Working, JustRead, Away, Nobody

-----------------------------------------------------------------------------
(***************************************************************************)
(* The silence of a worker is noticed                                      *)
(***************************************************************************)

LEMMA ClockInit == TimedInit => ClockInv
  <1> SUFFICES ASSUME TimedInit PROVE ClockInv
    OBVIOUS
  <1>1. /\ \A t \in Thread : pc[t] = "Start" /\ left[t] = 0
        /\ \A t \in Worker : silent[t] = 0 /\ ~toClose[t]
        /\ ~done /\ ~toClose["watchdog"]
    BY DEF TimedInit, Init
  <1>2. ClockTypes
    BY NapAssumption DEF TimedInit, ClockTypes, TooLong
  <1>3. PlacesInv
    BY <1>1 DEF PlacesInv, Places, Thread, Worker
  <1>4. LeftInv /\ QuietInv /\ NewInv /\ ClosedInv
    BY <1>1 DEF LeftInv, QuietInv, NewInv, ClosedInv, Thread, Worker
  <1>5. WatchInv
    BY <1>1, NapAssumption DEF WatchInv, TooLong, Thread, Worker
  <1> QED BY <1>2, <1>3, <1>4, <1>5 DEF ClockInv

\* What is said of the clock is not about who is blocked.
seenVars == <<pc, process, mutex, threadsNum, cpuStatsQueue, cpuStatsQueuePrint,
              checkPoint, toClose, done, left, silent, slowest>>

LEMMA Unseen == UNCHANGED timedVars \/ Spurious => UNCHANGED seenVars
  BY DEF Spurious, SpuriousWakeup, timedVars, vars, seenVars

LEMMA ClockNext == ControlInv /\ ClockInv /\ [TimedNext]_timedVars => ClockInv'
  <1> SUFFICES ASSUME ControlInv, ClockInv, [TimedNext]_timedVars PROVE ClockInv'
    OBVIOUS
  <1>1. CASE UNCHANGED seenVars
    BY <1>1 DEF ClockInv, ClockTypes, PlacesInv, Places, LeftInv, QuietInv, NewInv,
                WatchInv, ClosedInv, Slept, Booted, seenVars
  <1>2. CASE Elapse
    BY <1>2, ClockElapse
  <1>3. ASSUME NEW t \in Thread, Run(t) PROVE ClockInv'
    BY <1>3, ClockWorker, ClockWatchdog, ClockSigterm DEF Thread
  <1> QED BY <1>1, <1>2, <1>3, Unseen DEF TimedNext

\* A worker that gives no sign of life for longer than two rounds of the
\* watchdog has been asked to close: the round before the last unset its check
\* point, the last one found it unset (watchdogThr.c).
THEOREM SilenceNoticedHolds == TimedSpec => []SilenceNoticed
  <1>1. ClockInv => SilenceNoticed
    <2> SUFFICES ASSUME ClockInv, NEW t \in Worker, silent[t] > TooLong PROVE toClose[t]
      BY DEF SilenceNoticed
    <2>1. silent[t] \in Nat /\ TooLong \in Nat
      BY NapAssumption DEF ClockInv, ClockTypes, TooLong
    <2>2. pc["watchdog"] = "Done"
      BY <2>1 DEF ClockInv, WatchInv
    <2> QED BY <2>2 DEF ClockInv, ClosedInv, Worker
  <1> QED BY <1>1, ClockInit, ClockNext, TimedIsUntimed, ControlHolds, PTL
          DEF TimedSpec

LEMMA PaceOther ==
  ASSUME ControlInv, ClockInv, PaceInv, NEW t \in Thread \ {"reader"}, Run(t)
  PROVE  PaceInv'
  BY ReaderRests DEF PaceInv

LEMMA PipeAnalyzer ==
  ASSUME ControlInv, DataInv, ClockInv, PipeInv, Run("analyzer"), process' = "running"
  PROVE  PipeInv'
  <1>0. "analyzer" \in Thread \ {"reader"} /\ AnalyzerStep
    BY DEF Thread, Worker, Run, StepOf
  <1>1. AnalyzerMoves
    BY <1>0, AnalyzerGoes
  <1>2. /\ pc'["reader"] = pc["reader"] /\ left'["reader"] = left["reader"]
        /\ silent'["reader"] = silent["reader"]
    BY <1>0, ReaderRests
  <1>3. pc["reader"] = "Signal" => mutex["queueCpuStatsMutex"] = "reader"
    BY DEF ControlInv, LockInv
  <1>4. Away' = Away /\ JustRead' = JustRead
    BY <1>2 DEF Away, JustRead
  <1>5. Len(<<>>) <= Rows
    BY CpuThreadsAssumption DEF Rows
  <1>6. pc'["analyzer"] = "Take" => mutex'["queueCpuStatsMutex"] # "reader"
    BY <1>0, ControlAnalyzer DEF ControlInv, LockInv
  <1> QED BY <1>1, <1>2, <1>3, <1>4, <1>5, <1>6
          DEF PipeInv, AnalyzerMoves, GoesFrom, Working

LEMMA PipeOther ==
  ASSUME ControlInv, DataInv, ClockInv, PipeInv,
         NEW t \in {"printer", "watchdog", "sigterm"}, Run(t), process' = "running"
  PROVE  PipeInv'
  <1>0. t \in Thread \ {"reader"} /\ "analyzer" \in Thread \ {t}
    BY DEF Thread, Worker
  <1>1. /\ pc'["reader"] = pc["reader"] /\ left'["reader"] = left["reader"]
        /\ silent'["reader"] = silent["reader"]
    BY <1>0, ReaderRests
  <1>2. /\ pc'["analyzer"] = pc["analyzer"] /\ cpuStatsQueue' = cpuStatsQueue
        /\ mutex'["queueCpuStatsMutex"] = mutex["queueCpuStatsMutex"]
    <2>1. CASE t = "printer"
      <3>1. PrinterMoves
        BY <2>1, PrinterGoes DEF Run, StepOf
      <3>2. Signs("printer")
        BY <2>1, WorkerSigns DEF Run, Worker
      <3> QED BY <1>0, <2>1, <3>1, <3>2 DEF PrinterMoves, Signs
    <2>2. CASE t = "watchdog"
      BY <1>0, <2>2, WatchdogSteps DEF Run, StepOf, WatchdogMoves
    <2>3. CASE t = "sigterm"
      BY <1>0, <2>3, ClockSigterm
    <2> QED BY <2>1, <2>2, <2>3
  <1> QED BY <1>1, <1>2 DEF PipeInv, Working, JustRead, Away

LEMMA FlowElapse ==
  ASSUME ControlInv, ClockInv, FlowInv, Elapse
  PROVE  FlowInv'
  <1>1. Still
    BY ElapseStill
  <1>2. /\ left["reader"] \in Nat /\ silent["reader"] \in Nat /\ slowest.read \in Nat
        /\ left'["reader"] = IF left["reader"] > 0 THEN left["reader"] - 1 ELSE 0
        /\ silent'["reader"] \in Nat /\ silent'["reader"] <= silent["reader"] + 1
        /\ silent'["reader"] >= silent["reader"]
        /\ silent["reader"] <= TooLong => silent'["reader"] = silent["reader"] + 1
    BY ElapseClock, NapAssumption DEF ClockInv, ClockTypes, TooLong, Thread, Worker
  <1>3. UNCHANGED <<pc, mutex, cpuStatsQueue, slowest>>
    BY ElapseClock DEF ClockInv, vars
  <1>4. pc["reader"] = "Sleep" =>
          left["reader"] > 0 /\ silent'["reader"] + left'["reader"] = ReaderNap
    <2> SUFFICES ASSUME pc["reader"] = "Sleep"
                 PROVE  left["reader"] > 0 /\ silent'["reader"] + left'["reader"] = ReaderNap
      OBVIOUS
    <2>1. left["reader"] > 0 /\ silent["reader"] + left["reader"] = ReaderNap
      BY <1>1 DEF Still, FlowInv, PaceInv
    <2>2. silent["reader"] <= TooLong
      BY <1>2, <2>1, NapAssumption DEF TooLong
    <2> QED BY <1>2, <2>1, <2>2, NapAssumption
  <1>5. pc["reader"] = "Read" =>
          /\ silent'["reader"] >= ReaderNap
          /\ silent'["reader"] + left'["reader"] <= ReaderNap + slowest.read
    <2> SUFFICES ASSUME pc["reader"] = "Read"
                 PROVE  /\ silent'["reader"] >= ReaderNap
                        /\ silent'["reader"] + left'["reader"] <= ReaderNap + slowest.read
      OBVIOUS
    <2>1. /\ left["reader"] > 0 /\ silent["reader"] >= ReaderNap
          /\ silent["reader"] + left["reader"] <= ReaderNap + slowest.read
      BY <1>1 DEF Still, FlowInv, PaceInv
    <2> QED BY <1>2, <2>1, NapAssumption
  <1>6. PaceInv'
    BY <1>1, <1>3, <1>4, <1>5 DEF Still, PaceInv
  <1>7. \/ pc["analyzer"] = "Barrier" /\ cpuStatsQueue = <<>> /\ pc["reader"] = "Done"
        \/ pc["analyzer"] = "Wait" /\ cpuStatsQueue = <<>>
        \/ pc["analyzer"] \in {"Lock", "Wait"} /\ mutex["queueCpuStatsMutex"] = "reader"
        \/ pc["analyzer"] = "Done"
    <2>1. CASE pc["analyzer"] = "Barrier" /\ arrived # BarrierCount
      BY <1>1, <2>1 DEF Still, FlowInv, PipeInv, ControlInv, BarrierInv, BarrierCount,
                        Consumers, Booted, Thread, Worker
    <2>2. CASE pc["analyzer"] = "Wait" /\ "analyzer" \in waiting["condCpuStatsQueue"]
      BY <2>2 DEF ControlInv, NoMissedWakeup
    <2> QED BY <1>1, <2>1, <2>2 DEF Still
  <1>8. mutex["queueCpuStatsMutex"] = "reader" => pc["reader"] \in {"Read", "Done"}
    BY <1>1 DEF Still, ControlInv, LockInv
  <1>9. PipeInv'
    BY <1>1, <1>3, <1>7, <1>8 DEF Still, FlowInv, PipeInv, Working, JustRead, Away
  <1> QED BY <1>6, <1>9 DEF FlowInv

-----------------------------------------------------------------------------
(***************************************************************************)
(* A healthy program.  The workers' signs of life follow the reader's      *)
(* rounds, so nobody is silent for the time the watchdog sleeps.           *)
(***************************************************************************)

Healthy ==
  /\ slowest.read + slowest.print < WatchdogNap - ReaderNap
  /\ pc["reader"] # "Done"

\* The longest time between two rounds of the reader.
Lag == ReaderNap + slowest.read

\* The time since the reader has pushed a round.
SinceRound == IF pc["reader"] = "Mark" THEN 0 ELSE silent["reader"]

\* There is nothing to show.
Idle ==
  /\ pc["printer"] # "Print" /\ pc["analyzer"] \notin {"Process", "Push"}
  /\ cpuStatsQueue = <<>> /\ cpuStatsQueuePrint = <<>>

\* A consumer with nothing to do has shown a sign of life since the last round;
\* one that works will within the time the work takes.
HealthInv ==
  Healthy =>
    /\ \A t \in Worker : ~toClose[t]
    /\ pc["watchdog"] \in {"Start", "Clear", "Sleep", "Check"}
    /\ silent["analyzer"] <= Lag
    /\ cpuStatsQueue = <<>> /\ ~Working => silent["analyzer"] <= SinceRound
    /\ pc["printer"] = "Print" => silent["printer"] + left["printer"] <= Lag + slowest.print
    /\ pc["printer"] # "Print" => silent["printer"] <= Lag
    /\ Idle => silent["printer"] <= SinceRound

\* The clock of a worker's step.
LEMMA WorkerRuns ==
  ASSUME ControlInv, ClockInv, NEW t \in Worker, Run(t)
  PROVE  /\ \A u \in Worker \ {t} : /\ pc'[u] = pc[u] /\ left'[u] = left[u]
                                    /\ silent'[u] = silent[u]
         /\ silent'[t] = IF pc[t] \in {"Mark", "Print"} THEN 0 ELSE silent[t]
         /\ pc'["watchdog"] = pc["watchdog"]
         /\ \A u \in Worker : toClose'[u] => toClose[u]
         /\ \A u \in Worker : silent[u] \in Nat /\ left[u] \in Nat /\ left'[u] \in Nat
         /\ slowest.read \in Nat /\ slowest.print \in Nat
         /\ slowest'.read \in Nat /\ slowest'.print \in Nat
         /\ slowest'.read >= slowest.read /\ slowest'.print >= slowest.print
         /\ t # "printer" => slowest'.print = slowest.print
         /\ t = "printer" /\ pc'[t] = "Print" => left'[t] <= slowest'.print
  <1>0. t \in Thread /\ Worker \subseteq Thread /\ "watchdog" \in Thread \ {t}
    BY DEF Thread, Worker
  <1>1. Enters(t)
    BY <1>0, RunEnters DEF ClockInv
  <1>2. Signs(t)
    BY WorkerSigns DEF Run
  <1>3. /\ \A u \in Worker \ {t} : silent'[u] = silent[u]
        /\ silent'[t] = IF pc[t] \in {"Mark", "Print"} THEN 0 ELSE silent[t]
    BY <1>0, RunSilence DEF ClockInv
  <1>4. \A u \in Worker : silent[u] \in Nat
    BY NapAssumption DEF ClockInv, ClockTypes, TooLong
  <1>5. slowest.read \in Nat /\ slowest.print \in Nat /\ \A u \in Worker : left[u] \in Nat
    BY <1>0 DEF ClockInv, ClockTypes
  <1>6. \A u \in Worker : toClose'[u] => toClose[u]
    BY <1>2 DEF Signs
  <1> QED BY <1>0, <1>1, <1>2, <1>3, <1>4, <1>5, <1>6 DEF Enters, Signs

\* Who is healthy has been so before.
LEMMA HealthLost ==
  ASSUME slowest.read \in Nat, slowest.print \in Nat,
         slowest'.read \in Nat, slowest'.print \in Nat,
         slowest'.read >= slowest.read, slowest'.print >= slowest.print,
         pc["reader"] = "Done" => pc'["reader"] = "Done", Healthy'
  PROVE  Healthy /\ Lag \in Nat /\ Lag' \in Nat /\ Lag <= Lag'
  BY NapAssumption DEF Healthy, Lag

LEMMA HealthReader ==
  ASSUME ControlInv, DataInv, ClockInv, PipeInv, HealthInv, Run("reader"), process' = "running"
  PROVE  HealthInv'
  <1> SUFFICES ASSUME Healthy' PROVE HealthInv'
    BY DEF HealthInv
  <1>0. "reader" \in Worker /\ Worker = {"reader", "analyzer", "printer"}
    BY DEF Worker
  <1>1. /\ pc'["analyzer"] = pc["analyzer"] /\ pc'["printer"] = pc["printer"]
        /\ left'["printer"] = left["printer"] /\ pc'["watchdog"] = pc["watchdog"]
        /\ silent'["analyzer"] = silent["analyzer"] /\ silent'["printer"] = silent["printer"]
        /\ silent["analyzer"] \in Nat /\ silent["printer"] \in Nat /\ left["printer"] \in Nat
        /\ \A u \in Worker : toClose'[u] => toClose[u]
        /\ slowest.read \in Nat /\ slowest.print \in Nat
        /\ slowest'.read \in Nat /\ slowest'.print \in Nat
        /\ slowest'.read >= slowest.read /\ slowest'.print = slowest.print
        /\ silent'["reader"] = IF pc["reader"] = "Mark" THEN 0 ELSE silent["reader"]
    BY <1>0, WorkerRuns, ReaderRuns
  <1>2. ReaderMoves
    BY ReaderRuns
  <1>3. Healthy /\ Lag \in Nat /\ Lag' \in Nat /\ Lag <= Lag'
    BY <1>1, <1>2, HealthLost DEF ReaderMoves, GoesFrom
  <1>4. cpuStatsQueue' = <<>> => cpuStatsQueue = <<>> /\ SinceRound' = SinceRound
    BY <1>1, <1>2 DEF ReaderMoves, GoesFrom, PipeInv, SinceRound, Healthy
  <1>5. cpuStatsQueuePrint' = cpuStatsQueuePrint
    BY <1>2 DEF ReaderMoves
  <1>6. silent'["analyzer"] <= Lag' /\ (pc'["printer"] # "Print" => silent'["printer"] <= Lag')
    BY <1>1, <1>3 DEF HealthInv
  <1>7. pc'["printer"] = "Print" =>
          silent'["printer"] + left'["printer"] <= Lag' + slowest'.print
    BY <1>1, <1>3 DEF HealthInv
  <1> QED BY <1>1, <1>3, <1>4, <1>5, <1>6, <1>7 DEF HealthInv, Working, Idle

LEMMA HealthAnalyzer ==
  ASSUME ControlInv, DataInv, ClockInv, HealthInv, Run("analyzer"), process' = "running"
  PROVE  HealthInv'
  <1> SUFFICES ASSUME Healthy' PROVE HealthInv'
    BY DEF HealthInv
  <1>0. /\ "analyzer" \in Worker /\ Worker = {"reader", "analyzer", "printer"}
        /\ "analyzer" \in Thread \ {"reader"} /\ AnalyzerStep
    BY DEF Worker, Thread, Run, StepOf
  <1>1. /\ pc'["printer"] = pc["printer"] /\ pc'["reader"] = pc["reader"]
        /\ left'["printer"] = left["printer"] /\ pc'["watchdog"] = pc["watchdog"]
        /\ silent'["reader"] = silent["reader"] /\ silent'["printer"] = silent["printer"]
        /\ silent["reader"] \in Nat /\ silent["analyzer"] \in Nat
        /\ silent'["analyzer"] = IF pc["analyzer"] = "Mark" THEN 0 ELSE silent["analyzer"]
        /\ \A u \in Worker : toClose'[u] => toClose[u]
        /\ slowest.read \in Nat /\ slowest.print \in Nat
        /\ slowest'.read = slowest.read /\ slowest'.print = slowest.print
    BY <1>0, WorkerRuns, ReaderRests DEF ClockInv, PlacesInv, Places
  <1>2. AnalyzerMoves
    BY <1>0, AnalyzerGoes
  <1>3. Healthy /\ Lag \in Nat /\ Lag' = Lag /\ SinceRound' = SinceRound /\ SinceRound \in Nat
    BY <1>1, HealthLost DEF Healthy, Lag, SinceRound
  <1>4. silent'["analyzer"] <= Lag'
    BY <1>1, <1>3 DEF HealthInv
  <1>5. cpuStatsQueue' = <<>> /\ ~Working' => silent'["analyzer"] <= SinceRound'
    BY <1>1, <1>2, <1>3 DEF HealthInv, AnalyzerMoves, GoesFrom, Working
  <1>6. Idle' => Idle
    BY <1>1, <1>2 DEF AnalyzerMoves, GoesFrom, Idle
  <1> QED BY <1>1, <1>3, <1>4, <1>5, <1>6 DEF HealthInv

LEMMA HealthPrinter ==
  ASSUME ControlInv, DataInv, ClockInv, HealthInv, Run("printer"), process' = "running"
  PROVE  HealthInv'
  <1> SUFFICES ASSUME Healthy' PROVE HealthInv'
    BY DEF HealthInv
  <1>0. /\ "printer" \in Worker /\ Worker = {"reader", "analyzer", "printer"}
        /\ "printer" \in Thread \ {"reader"} /\ PrinterStep
    BY DEF Worker, Thread, Run, StepOf
  <1>1. /\ pc'["analyzer"] = pc["analyzer"] /\ pc'["reader"] = pc["reader"]
        /\ pc'["watchdog"] = pc["watchdog"]
        /\ silent'["reader"] = silent["reader"] /\ silent'["analyzer"] = silent["analyzer"]
        /\ silent["reader"] \in Nat /\ silent["printer"] \in Nat /\ left'["printer"] \in Nat
        /\ silent'["printer"] = IF pc["printer"] = "Print" THEN 0 ELSE silent["printer"]
        /\ \A u \in Worker : toClose'[u] => toClose[u]
        /\ slowest.read \in Nat /\ slowest.print \in Nat
        /\ slowest'.read \in Nat /\ slowest'.print \in Nat
        /\ slowest'.read = slowest.read /\ slowest'.print >= slowest.print
        /\ pc'["printer"] = "Print" => left'["printer"] <= slowest'.print
    BY <1>0, WorkerRuns, ReaderRests DEF ClockInv, PlacesInv, Places
  <1>2. PrinterMoves
    BY <1>0, PrinterGoes
  <1>3. /\ Healthy /\ Lag \in Nat /\ Lag' = Lag
        /\ SinceRound' = SinceRound /\ SinceRound \in Nat
    BY <1>1, HealthLost DEF Healthy, Lag, SinceRound
  <1>4. pc'["printer"] # "Print" => silent'["printer"] <= Lag'
    BY <1>1, <1>2, <1>3 DEF HealthInv
  <1>5. pc'["printer"] = "Print" =>
          silent'["printer"] + left'["printer"] <= Lag' + slowest'.print
    <2>1. pc'["printer"] = "Print" => pc["printer"] # "Print"
      BY <1>2 DEF PrinterMoves, GoesFrom
    <2>2. pc'["printer"] = "Print" => silent'["printer"] <= Lag'
      BY <1>1, <1>3, <2>1 DEF HealthInv
    <2>3. silent'["printer"] \in Nat
      BY <1>1
    <2> QED BY <1>1, <1>3, <2>2, <2>3
  <1>6. Idle' => silent'["printer"] <= SinceRound'
    BY <1>1, <1>2, <1>3 DEF HealthInv, PrinterMoves, GoesFrom, Idle
  <1>7. cpuStatsQueue' = cpuStatsQueue
    BY <1>2 DEF PrinterMoves
  <1> QED BY <1>1, <1>3, <1>4, <1>5, <1>6, <1>7 DEF HealthInv, Working

\* The silence of a healthy program's workers.
LEMMA HealthySilence ==
  ASSUME ClockInv, PaceInv, HealthInv, Healthy, NEW t \in Worker
  PROVE  silent[t] < WatchdogNap
  <1>1. /\ slowest.read \in Nat /\ slowest.print \in Nat
        /\ \A u \in Thread : left[u] \in Nat
        /\ \A u \in Worker : silent[u] \in Nat
    BY NapAssumption DEF ClockInv, ClockTypes, TooLong
  <1>2. CASE t = "reader"
    <2>0. left["reader"] \in Nat /\ silent["reader"] \in Nat
      BY <1>1 DEF Thread, Worker
    <2>1. pc["reader"] \in {"Start", "Count", "Barrier", "CheckClose", "Sleep", "Read",
                            "Signal", "Mark"}
      BY DEF ClockInv, PlacesInv, Places, Healthy, Thread, Worker
    <2>2. CASE pc["reader"] \in {"Read", "Signal", "Mark"}
      <3>1. silent["reader"] + left["reader"] <= ReaderNap + slowest.read
        BY <2>2 DEF PaceInv
      <3> QED BY <1>1, <1>2, <2>0, <3>1, NapAssumption DEF Healthy
    <2>3. CASE pc["reader"] = "Sleep"
      <3>1. silent["reader"] + left["reader"] = ReaderNap
        BY <2>3 DEF PaceInv
      <3> QED BY <1>2, <2>0, <3>1, NapAssumption
    <2>4. CASE pc["reader"] \in {"Start", "Count", "Barrier", "CheckClose"}
      BY <1>2, <2>4, NapAssumption DEF PaceInv
    <2> QED BY <2>1, <2>2, <2>3, <2>4
  <1>3. CASE t = "analyzer"
    BY <1>1, <1>3, NapAssumption DEF HealthInv, Healthy, Lag
  <1>4. CASE t = "printer"
    <2>1. left["printer"] \in Nat /\ silent["printer"] \in Nat
      BY <1>1 DEF Thread, Worker
    <2>2. silent["printer"] <= Lag + slowest.print
      <3>1. CASE pc["printer"] = "Print"
        <4>1. silent["printer"] + left["printer"] <= Lag + slowest.print
          BY <3>1 DEF HealthInv
        <4> QED BY <1>1, <2>1, <4>1, NapAssumption DEF Lag
      <3>2. CASE pc["printer"] # "Print"
        <4>1. silent["printer"] <= Lag
          BY <3>2 DEF HealthInv
        <4> QED BY <1>1, <2>1, <4>1, NapAssumption DEF Lag
      <3> QED BY <3>1, <3>2
    <2> QED BY <1>1, <1>4, <2>1, <2>2, NapAssumption DEF Healthy, Lag
  <1> QED BY <1>2, <1>3, <1>4 DEF Worker

\* What the workers do not notice of the watchdog's and the SIGTERM thread's
\* steps.
LEMMA WorkersRest ==
  ASSUME ControlInv, ClockInv, NEW t \in {"watchdog", "sigterm"}, Run(t)
  PROVE  /\ \A u \in Worker : /\ pc'[u] = pc[u] /\ left'[u] = left[u]
                              /\ silent'[u] = silent[u]
         /\ UNCHANGED <<cpuStatsQueue, cpuStatsQueuePrint, threadsNum>>
         /\ slowest'.read = slowest.read /\ slowest'.print = slowest.print
         /\ \A u \in Worker : toClose[u] => toClose'[u]
         /\ process' = "running"
  <1>0. t \in Thread /\ t \notin Worker /\ Worker \subseteq Thread \ {t}
    BY DEF Thread, Worker
  <1>1. \A u \in Worker : silent'[u] = silent[u]
    BY <1>0, RunSilence DEF ClockInv
  <1>2. /\ \A u \in Worker : left'[u] = left[u]
        /\ slowest'.read = slowest.read /\ slowest'.print = slowest.print
    BY <1>0, RunEnters DEF ClockInv, Enters
  <1>3. CASE t = "watchdog"
    BY <1>0, <1>1, <1>2, <1>3, WatchdogSteps DEF Run, StepOf, WatchdogMoves
  <1>4. CASE t = "sigterm"
    <2>1. process = "running"
      BY <1>4 DEF Run, StepOf, SigtermStep, SigtermStart, SigtermPoll,
                  SigtermCloseReader, SigtermCloseAnalyzer, SigtermClosePrinter,
                  SigtermCloseWatchdog, SigtermWakeAnalyzer, SigtermWakePrinter,
                  RequestClose, WakeAll, Step
    <2> QED BY <1>0, <1>1, <1>2, <1>4, <2>1, ClockSigterm
  <1> QED BY <1>3, <1>4

LEMMA HealthRest ==
  ASSUME ControlInv, ClockInv, PaceInv, HealthInv,
         NEW t \in {"watchdog", "sigterm"}, Run(t)
  PROVE  HealthInv'
  <1> SUFFICES ASSUME Healthy' PROVE HealthInv'
    BY DEF HealthInv
  <1>1. /\ pc'["reader"] = pc["reader"] /\ pc'["analyzer"] = pc["analyzer"]
        /\ pc'["printer"] = pc["printer"] /\ left'["printer"] = left["printer"]
        /\ silent'["reader"] = silent["reader"] /\ silent'["analyzer"] = silent["analyzer"]
        /\ silent'["printer"] = silent["printer"]
        /\ UNCHANGED <<cpuStatsQueue, cpuStatsQueuePrint>>
        /\ slowest'.read = slowest.read /\ slowest'.print = slowest.print
    BY WorkersRest DEF Worker
  <1>2. Healthy /\ Lag' = Lag /\ SinceRound' = SinceRound /\ Idle' = Idle /\ Working' = Working
    BY <1>1 DEF Healthy, Lag, SinceRound, Idle, Working
  <1>3. /\ \A u \in Worker : ~toClose'[u]
        /\ pc'["watchdog"] \in {"Start", "Clear", "Sleep", "Check"}
    <2>1. CASE t = "sigterm"
      BY <1>2, <2>1, ClockSigterm DEF HealthInv, Thread, Worker
    <2>2. CASE t = "watchdog"
      <3>0. WatchdogStep /\ "watchdog" \in Thread /\ left["watchdog"] = 0
        BY <2>2 DEF Run, StepOf, Thread, Worker
      <3>1. ASSUME NEW from, NEW to, Step("watchdog", from, to)
            PROVE  pc["watchdog"] = from /\ pc'["watchdog"] = to
        BY <3>0, <3>1, StepMoves
      <3>2. /\ \A u \in Worker : ~toClose[u]
            /\ pc["watchdog"] \in {"Start", "Clear", "Sleep", "Check"}
        BY <1>2 DEF HealthInv
      <3>3. pc["watchdog"] = "Check" => \A u \in Worker : checkPoint[u]
        <4> SUFFICES ASSUME pc["watchdog"] = "Check", NEW u \in Worker, ~checkPoint[u]
                     PROVE  FALSE
          OBVIOUS
        <4>1. silent[u] >= WatchdogNap
          BY <3>0, NapAssumption DEF ClockInv, WatchInv, Slept
        <4>2. silent[u] < WatchdogNap /\ silent[u] \in Nat
          BY <1>2, HealthySilence, NapAssumption DEF ClockInv, ClockTypes, TooLong
        <4> QED BY <4>1, <4>2, NapAssumption
      <3>4. \/ WatchdogStart \/ WatchdogClear \/ WatchdogWake \/ WatchdogCheck
        BY <3>0, <3>1, <3>2
           DEF WatchdogStep, WatchdogCloseReader, WatchdogCloseAnalyzer,
               WatchdogClosePrinter, WatchdogWakeAnalyzer, WatchdogWakePrinter,
               RequestClose, WakeAll
      <3>5. /\ pc'["watchdog"] \in {"Clear", "Sleep", "Check"}
            /\ \A u \in Worker : toClose'[u] = toClose[u]
        BY <3>1, <3>3, <3>4
           DEF WatchdogStart, WatchdogClear, WatchdogWake, WatchdogCheck, ClockInv,
               QuietInv, ControlInv, ControlTypes, Worker
      <3> QED BY <3>2, <3>5
    <2> QED BY <2>1, <2>2
  <1> QED BY <1>1, <1>2, <1>3 DEF HealthInv

LEMMA HealthElapse ==
  ASSUME ControlInv, ClockInv, FlowInv, HealthInv, Elapse
  PROVE  HealthInv'
  <1> SUFFICES ASSUME Healthy' PROVE HealthInv'
    BY DEF HealthInv
  <1>1. Still
    BY ElapseStill
  <1>2. /\ UNCHANGED <<pc, toClose, cpuStatsQueue, cpuStatsQueuePrint, slowest>>
        /\ Healthy /\ Lag' = Lag
    BY ElapseClock DEF ClockInv, vars, Healthy, Lag
  <1>3. /\ left["printer"] \in Nat /\ slowest.read \in Nat /\ slowest.print \in Nat
        /\ left'["printer"] = IF left["printer"] > 0 THEN left["printer"] - 1 ELSE 0
        /\ left["reader"] \in Nat
        /\ left'["reader"] = IF left["reader"] > 0 THEN left["reader"] - 1 ELSE 0
        /\ \A u \in Worker : /\ silent[u] \in Nat /\ silent'[u] \in Nat
                             /\ silent'[u] <= silent[u] + 1
                             /\ silent[u] <= TooLong => silent'[u] = silent[u] + 1
    BY ElapseClock, NapAssumption DEF ClockInv, ClockTypes, TooLong, Thread, Worker
  <1>4. {"reader", "analyzer", "printer"} \subseteq Worker
    BY DEF Worker
  <1>5. /\ pc["analyzer"] # "Done" /\ pc["printer"] # "Done"
        /\ pc["reader"] \in {"Sleep", "Read"} /\ left["reader"] > 0
    BY <1>1, <1>2, <1>4 DEF Still, Healthy, HealthInv, ControlInv, StopsOnlyWhenAsked
  <1>6. arrived = BarrierCount
    BY <1>1, <1>5 DEF Still, ControlInv, BarrierInv, BarrierCount, Consumers, Booted,
                      Thread, Worker
  <1>7. cpuStatsQueue = <<>> /\ pc["analyzer"] \in {"Lock", "Wait", "Take"}
    <2>1. CASE pc["analyzer"] = "Wait" /\ "analyzer" \in waiting["condCpuStatsQueue"]
               /\ mutex["queueCpuStatsMutex"] # "reader"
      BY <2>1 DEF ControlInv, NoMissedWakeup
    <2>2. CASE mutex["queueCpuStatsMutex"] = "reader"
      <3>1. Away
        BY <1>5, <2>2 DEF ControlInv, LockInv, Away
      <3> QED BY <1>5, <3>1 DEF FlowInv, PipeInv
    <2> QED BY <1>1, <1>5, <1>6, <2>1, <2>2 DEF Still
  <1>8. pc["printer"] # "Print" => Idle
    <2>1. pc["printer"] # "Print" => cpuStatsQueuePrint = <<>>
      BY <1>1, <1>5, <1>6 DEF Still, ControlInv, NoMissedWakeup, Nobody
    <2> QED BY <1>7, <2>1 DEF Idle
  <1>9. SinceRound = silent["reader"] /\ SinceRound' = silent'["reader"]
    BY <1>2, <1>5 DEF SinceRound
  <1>10. silent["reader"] + left["reader"] <= Lag /\ silent'["reader"] = silent["reader"] + 1
         /\ silent'["reader"] <= Lag
    <2>1. silent["reader"] + left["reader"] <= Lag
      <3>1. CASE pc["reader"] = "Sleep"
        <4>1. silent["reader"] + left["reader"] = ReaderNap
          BY <3>1 DEF FlowInv, PaceInv
        <4> QED BY <1>3, <4>1, NapAssumption DEF Lag
      <3>2. CASE pc["reader"] = "Read"
        BY <3>2 DEF FlowInv, PaceInv, Lag
      <3> QED BY <1>5, <3>1, <3>2
    <2>2. silent["reader"] \in Nat /\ silent["reader"] < WatchdogNap
      BY <1>2, <1>3, <1>4, HealthySilence DEF FlowInv
    <2>3. silent'["reader"] = silent["reader"] + 1
      BY <1>3, <1>4, <2>2, NapAssumption DEF TooLong
    <2>4. Lag \in Nat
      BY <1>3, NapAssumption DEF Lag
    <2> QED BY <1>3, <1>5, <2>1, <2>2, <2>3, <2>4
  <1>11. silent'["analyzer"] <= SinceRound' /\ silent'["analyzer"] <= Lag'
    <2>1. silent["analyzer"] <= silent["reader"]
      BY <1>2, <1>7, <1>9 DEF HealthInv, Working
    <2>2. silent'["analyzer"] <= silent["analyzer"] + 1 /\ silent["analyzer"] \in Nat
          /\ silent'["analyzer"] \in Nat /\ silent["reader"] \in Nat /\ Lag \in Nat
      BY <1>3, <1>4, NapAssumption DEF Lag
    <2> QED BY <1>2, <1>9, <1>10, <2>1, <2>2
  <1>12. pc["printer"] # "Print" =>
           silent'["printer"] <= SinceRound' /\ silent'["printer"] <= Lag'
    <2>1. pc["printer"] # "Print" => silent["printer"] <= silent["reader"]
      BY <1>2, <1>8, <1>9 DEF HealthInv
    <2>2. silent'["printer"] <= silent["printer"] + 1 /\ silent["printer"] \in Nat
          /\ silent'["printer"] \in Nat /\ silent["reader"] \in Nat /\ Lag \in Nat
      BY <1>3, <1>4, NapAssumption DEF Lag
    <2> QED BY <1>2, <1>9, <1>10, <2>1, <2>2
  <1>13. pc["printer"] = "Print" =>
           silent'["printer"] + left'["printer"] <= Lag' + slowest.print
    <2>1. pc["printer"] = "Print" =>
            left["printer"] > 0 /\ silent["printer"] + left["printer"] <= Lag + slowest.print
      BY <1>1, <1>2 DEF Still, HealthInv
    <2>2. silent'["printer"] <= silent["printer"] + 1 /\ silent["printer"] \in Nat
          /\ silent'["printer"] \in Nat /\ Lag \in Nat
      BY <1>3, <1>4, NapAssumption DEF Lag
    <2> QED BY <1>2, <1>3, <2>1, <2>2
  <1>14. pc' = pc /\ toClose' = toClose /\ slowest' = slowest
    BY <1>2
  <1>15. Idle' => pc["printer"] # "Print"
    BY <1>2 DEF Idle
  <1>16. \A u \in Worker : ~toClose[u]
    BY <1>2 DEF HealthInv
  <1>17. pc["watchdog"] \in {"Start", "Clear", "Sleep", "Check"}
    BY <1>2 DEF HealthInv
  <1> QED BY <1>11, <1>12, <1>13, <1>14, <1>15, <1>16, <1>17 DEF HealthInv

-----------------------------------------------------------------------------
(***************************************************************************)
(* A terminal that blocks.  Between two rounds lies a sleep of the reader, *)
(* so the number of rounds behind the printer says how long it has been in *)
(* its frame.                                                              *)
(***************************************************************************)

\* A round is on its way to the printer.
OnItsWay == cpuStatsQueue # <<>> \/ pc["analyzer"] \in {"Process", "Push"}

\* The time since the last round reached the printer's queue is at least this.
Since == IF OnItsWay THEN ReaderNap ELSE SinceRound

\* For the queue to hold what it holds the printer has been away for T.
Kept(T) ==
  \A k \in Nat : Len(cpuStatsQueuePrint) > k * Rows => k * ReaderNap + Since <= T

\* The analyzer will push no more.
Frozen == toClose["analyzer"] /\ pc["analyzer"] \in {"Wait", "Done"}

\* T is within the frame the printer writes and, while rounds still come,
\* within its silence.
InFrame(T) ==
  /\ T + left["printer"] <= slowest.print
  /\ ~Frozen => T <= TooLong /\ (pc["printer"] = "Print" => T <= silent["printer"])

RoundsInv ==
  \/ cpuStatsQueuePrint = <<>>
  \/ pc["printer"] = "Done" /\ Frozen
  \/ \E T \in Nat : Kept(T) /\ InFrame(T)

\* The analyzer is asked to close before the printer is.
AskedInv == toClose["printer"] => toClose["analyzer"]

\* No more rounds pile up than the reader makes in two rounds of the watchdog.
PileInv == Len(cpuStatsQueuePrint) <= PileUp * Rows

LEMMA KeptStays ==
  ASSUME NEW T \in Nat, NEW d \in Nat, Since \in Nat, Since' \in Nat,
         Since' <= Since + d, cpuStatsQueuePrint' = cpuStatsQueuePrint, Kept(T)
  PROVE  Kept(T + d)'
  <1> SUFFICES ASSUME NEW k \in Nat, Len(cpuStatsQueuePrint) > k * Rows
               PROVE  k * ReaderNap + Since' <= T + d
    BY DEF Kept, Rows
  <1>1. k * ReaderNap + Since <= T
    BY DEF Kept
  <1>2. k * ReaderNap \in Nat
    BY NapAssumption
  <1> QED BY <1>1, <1>2

LEMMA SinceType ==
  ASSUME ClockInv
  PROVE  Since \in Nat /\ SinceRound \in Nat /\ (ClockInv' => Since' \in Nat)
  <1>1. silent["reader"] \in Nat /\ (ClockInv' => silent'["reader"] \in Nat)
    BY NapAssumption DEF ClockInv, ClockTypes, TooLong, Worker
  <1> QED BY <1>1, NapAssumption DEF Since, SinceRound

\* A step that leaves the printer's queue as it is, and takes no time.
LEMMA RoundsStay ==
  ASSUME Since \in Nat, Since' \in Nat, Since' <= Since, RoundsInv,
         cpuStatsQueuePrint' = cpuStatsQueuePrint,
         pc["printer"] = "Done" => pc'["printer"] = "Done", Frozen => Frozen',
         left'["printer"] = left["printer"], left["printer"] \in Nat,
         slowest.print \in Nat, slowest'.print \in Nat, slowest'.print >= slowest.print,
         pc'["printer"] = "Print" => pc["printer"] = "Print"
                                     /\ silent'["printer"] = silent["printer"]
  PROVE  RoundsInv'
  <1>1. ASSUME NEW T \in Nat, Kept(T), InFrame(T)
        PROVE  RoundsInv'
    <2>1. Kept(T + 0)'
      BY <1>1, KeptStays
    <2>2. Kept(T)'
      BY <2>1
    <2>3. T + left'["printer"] <= slowest'.print
      BY <1>1 DEF InFrame
    <2>4. ~Frozen' => /\ T <= TooLong
                      /\ pc'["printer"] = "Print" => T <= silent'["printer"]
      BY <1>1 DEF InFrame
    <2>5. InFrame(T)'
      BY <2>3, <2>4 DEF InFrame, TooLong
    <2> QED BY <2>2, <2>5 DEF RoundsInv
  <1> QED BY <1>1 DEF RoundsInv

LEMMA RoundsReader ==
  ASSUME ControlInv, DataInv, ClockInv, FlowInv, RoundsInv, Run("reader"),
         process' = "running"
  PROVE  RoundsInv'
  <1>0. "reader" \in Worker /\ {"printer", "analyzer"} \subseteq Worker \ {"reader"}
    BY DEF Worker
  <1>1. ReaderMoves
    BY ReaderRuns
  <1>2. /\ pc'["analyzer"] = pc["analyzer"] /\ pc'["printer"] = pc["printer"]
        /\ left'["printer"] = left["printer"] /\ left["printer"] \in Nat
        /\ silent'["printer"] = silent["printer"]
        /\ slowest.print \in Nat /\ slowest'.print = slowest.print
        /\ silent["reader"] \in Nat /\ left["reader"] = 0
        /\ silent'["reader"] = IF pc["reader"] = "Mark" THEN 0 ELSE silent["reader"]
    BY <1>0, ReaderRuns, WorkerRuns
  <1>3. Since \in Nat /\ Since' \in Nat
    BY <1>0, SinceType, ClockWorker
  <1>4. Since' <= Since
    <2>1. CASE pc["reader"] = "Read"
      <3>1. silent["reader"] >= ReaderNap /\ SinceRound = silent["reader"]
        BY <2>1 DEF FlowInv, PaceInv, SinceRound
      <3>2. SinceRound' = SinceRound
        BY <1>1, <1>2, <2>1 DEF ReaderMoves, GoesFrom, SinceRound
      <3>3. OnItsWay => OnItsWay'
        BY <1>1, <1>2, <2>1 DEF ReaderMoves, GoesFrom, OnItsWay
      <3> QED BY <1>2, <3>1, <3>2, <3>3, NapAssumption DEF Since
    <2>2. CASE pc["reader"] = "Signal"
      <3>1. OnItsWay /\ OnItsWay'
        BY <1>1, <2>2 DEF ReaderMoves, GoesFrom, FlowInv, PipeInv, OnItsWay
      <3> QED BY <3>1, NapAssumption DEF Since
    <2>3. CASE pc["reader"] \notin {"Read", "Signal"}
      <3>1. SinceRound' = SinceRound
        BY <1>1, <1>2, <2>3 DEF ReaderMoves, GoesFrom, SinceRound
      <3>2. OnItsWay' = OnItsWay
        BY <1>1, <1>2, <2>3 DEF ReaderMoves, GoesFrom, OnItsWay
      <3> QED BY <1>3, <3>1, <3>2 DEF Since
    <2> QED BY <2>1, <2>2, <2>3
  <1>5. toClose["analyzer"] => toClose'["analyzer"]
    BY <1>0, WorkerSigns DEF Run, Signs
  <1>6. cpuStatsQueuePrint' = cpuStatsQueuePrint
    BY <1>1 DEF ReaderMoves
  <1>7. Frozen => Frozen'
    BY <1>2, <1>5 DEF Frozen
  <1>8. slowest'.print \in Nat /\ slowest'.print >= slowest.print
    BY <1>2
  <1> QED BY <1>2, <1>3, <1>4, <1>6, <1>7, <1>8, RoundsStay

\* A round more: a sleep of the reader lies between it and the one before.
LEMMA RoundsPush ==
  ASSUME ControlInv, DataInv, ClockInv, FlowInv, RoundsInv, Run("analyzer"),
         AnalyzerMoves, pc["analyzer"] = "Push"
  PROVE  RoundsInv'
  <1>0. "analyzer" \in Worker /\ "printer" \in Worker \ {"analyzer"}
        /\ "analyzer" \in Thread \ {"reader"} /\ "printer" \in Thread
    BY DEF Worker, Thread
  <1>1. /\ pc'["reader"] = pc["reader"] /\ silent'["reader"] = silent["reader"]
        /\ pc'["printer"] = pc["printer"] /\ left'["printer"] = left["printer"]
        /\ silent'["printer"] = silent["printer"] /\ silent["printer"] \in Nat
        /\ left["printer"] \in Nat /\ slowest.print \in Nat
        /\ slowest'.print = slowest.print
    BY <1>0, ReaderRests, WorkerRuns
  <1>2. /\ pc'["analyzer"] = "Signal" /\ cpuStatsQueue' = cpuStatsQueue
        /\ Len(cpuStatsQueuePrint') <= Len(cpuStatsQueuePrint) + Rows
    BY DEF AnalyzerMoves, GoesFrom
  <1>3. Since = ReaderNap
    BY DEF Since, OnItsWay
  <1>4. Since' = 0
    BY <1>1, <1>2 DEF FlowInv, PipeInv, Working, JustRead, Since, OnItsWay, SinceRound
  <1>5. Len(cpuStatsQueuePrint) \in Nat
    BY DEF DataInv
  <1>6. Len(cpuStatsQueuePrint') \in Nat
    <2>1. DataInv'
      BY <1>0, DataAnalyzer DEF Run, StepOf
    <2> QED BY <2>1 DEF DataInv
  <1>7. Rows \in Nat \ {0}
    BY CpuThreadsAssumption DEF Rows
  <1>8. ~Frozen
    BY DEF Frozen
  <1>9. CASE cpuStatsQueuePrint = <<>>
    <2>1. ASSUME NEW k \in Nat, Len(cpuStatsQueuePrint') > k * Rows PROVE k = 0
      <3>1. Len(cpuStatsQueuePrint') <= Rows
        BY <1>2, <1>7, <1>9
      <3>2. k * Rows < Rows
        BY <1>6, <1>7, <2>1, <3>1
      <3>3. CASE k >= 1
        <4>1. k * Rows >= Rows
          BY <1>7, <3>3
        <4> QED BY <1>7, <3>2, <4>1
      <3> QED BY <3>3
    <2>2. Kept(0)'
      <3>1. \A k \in Nat : Len(cpuStatsQueuePrint') > k * Rows => k * ReaderNap + Since' <= 0
        BY <1>4, <2>1, NapAssumption
      <3> QED BY <3>1 DEF Kept, Rows
    <2>3. left["printer"] <= slowest.print
      BY <1>0, <1>1 DEF ClockInv, LeftInv
    <2>4. InFrame(0)'
      BY <1>1, <2>3, NapAssumption DEF InFrame, TooLong
    <2> QED BY <2>2, <2>4 DEF RoundsInv
  <1>10. ASSUME NEW T \in Nat, Kept(T), InFrame(T) PROVE RoundsInv'
    <2>1. ASSUME NEW k \in Nat, Len(cpuStatsQueuePrint') > k * Rows
          PROVE  k * ReaderNap <= T
      <3>1. CASE k = 0
        BY <3>1, NapAssumption
      <3>2. CASE k # 0
        <4>1. k - 1 \in Nat /\ (k - 1) * Rows = k * Rows - Rows
              /\ (k - 1) * ReaderNap = k * ReaderNap - ReaderNap
              /\ k * Rows \in Nat /\ k * ReaderNap \in Nat
          BY <1>7, <3>2, NapAssumption
        <4>2. Len(cpuStatsQueuePrint) > (k - 1) * Rows
          BY <1>2, <1>5, <1>6, <1>7, <2>1, <4>1
        <4>3. (k - 1) * ReaderNap + ReaderNap <= T
          BY <1>3, <1>10, <4>1, <4>2 DEF Kept
        <4> QED BY <4>1, <4>3, NapAssumption
      <3> QED BY <3>1, <3>2
    <2>2. Kept(T)'
      <3>1. \A k \in Nat : Len(cpuStatsQueuePrint') > k * Rows => k * ReaderNap + Since' <= T
        BY <1>4, <2>1, NapAssumption
      <3> QED BY <3>1 DEF Kept, Rows
    <2>3. InFrame(T)'
      BY <1>1, <1>8, <1>10 DEF InFrame, TooLong
    <2> QED BY <2>2, <2>3 DEF RoundsInv
  <1> QED BY <1>8, <1>9, <1>10 DEF RoundsInv

LEMMA RoundsAnalyzer ==
  ASSUME ControlInv, DataInv, ClockInv, FlowInv, RoundsInv, Run("analyzer"),
         process' = "running"
  PROVE  RoundsInv'
  <1>0. /\ "analyzer" \in Worker /\ "printer" \in Worker \ {"analyzer"}
        /\ "analyzer" \in Thread \ {"reader"} /\ AnalyzerStep
    BY DEF Worker, Thread, Run, StepOf
  <1>1. AnalyzerMoves
    BY <1>0, AnalyzerGoes
  <1>2. CASE pc["analyzer"] = "Push"
    BY <1>1, <1>2, RoundsPush
  <1>3. CASE pc["analyzer"] # "Push"
    <2>1. /\ pc'["reader"] = pc["reader"] /\ silent'["reader"] = silent["reader"]
          /\ pc'["printer"] = pc["printer"] /\ left'["printer"] = left["printer"]
          /\ silent'["printer"] = silent["printer"]
          /\ left["printer"] \in Nat /\ slowest.print \in Nat
          /\ slowest'.print = slowest.print
      BY <1>0, ReaderRests, WorkerRuns
    <2>2. Since \in Nat /\ Since' \in Nat
      BY <1>0, SinceType, ClockWorker
    <2>3. SinceRound' = SinceRound
      BY <2>1 DEF SinceRound
    <2>4. OnItsWay' = OnItsWay
      BY <1>1, <1>3 DEF AnalyzerMoves, GoesFrom, OnItsWay
    <2>5. Since' = Since
      BY <2>3, <2>4 DEF Since
    <2>6. cpuStatsQueuePrint' = cpuStatsQueuePrint
      BY <1>1, <1>3 DEF AnalyzerMoves, GoesFrom
    <2>7. pc["analyzer"] # "Start" => toClose'["analyzer"] = toClose["analyzer"]
      BY <1>0, WorkerSigns DEF Run, Signs
    <2>8. Frozen => Frozen'
      BY <1>1, <2>7 DEF Frozen, AnalyzerMoves, GoesFrom
    <2>9. Since' <= Since /\ slowest'.print \in Nat /\ slowest'.print >= slowest.print
      BY <2>1, <2>2, <2>5
    <2> QED BY <2>1, <2>2, <2>6, <2>8, <2>9, RoundsStay
  <1> QED BY <1>2, <1>3

LEMMA RoundsPrinter ==
  ASSUME ControlInv, DataInv, ClockInv, RoundsInv, Run("printer"),
         process' = "running"
  PROVE  RoundsInv'
  <1>0. /\ "printer" \in Worker /\ {"analyzer", "reader"} \subseteq Worker \ {"printer"}
        /\ "printer" \in Thread \ {"reader"} /\ PrinterStep
    BY DEF Worker, Thread, Run, StepOf
  <1>1. PrinterMoves
    BY <1>0, PrinterGoes
  <1>2. CASE pc'["printer"] = "Print"
    BY <1>1, <1>2 DEF PrinterMoves, GoesFrom, RoundsInv
  <1>3. CASE pc'["printer"] # "Print"
    <2>1. /\ pc'["reader"] = pc["reader"] /\ silent'["reader"] = silent["reader"]
          /\ pc'["analyzer"] = pc["analyzer"]
          /\ left["printer"] \in Nat /\ slowest.print \in Nat
          /\ slowest'.print \in Nat /\ slowest'.print >= slowest.print
      BY <1>0, WorkerRuns
    <2>2. left["printer"] = 0 /\ left'["printer"] = 0
      BY <1>0, <1>3, RunEnters DEF ClockInv, Enters
    <2>3. Since \in Nat /\ Since' \in Nat
      BY <1>0, SinceType, ClockWorker
    <2>4. cpuStatsQueue' = cpuStatsQueue /\ cpuStatsQueuePrint' = cpuStatsQueuePrint
      BY <1>1, <1>3 DEF PrinterMoves, GoesFrom
    <2>5. Since' = Since
      BY <2>1, <2>4 DEF Since, SinceRound, OnItsWay
    <2>6. toClose'["analyzer"] = toClose["analyzer"]
      BY <1>0, WorkerSigns DEF Run, Signs
    <2>7. Frozen => Frozen'
      BY <2>1, <2>6 DEF Frozen
    <2>8. pc["printer"] # "Done"
      BY <1>1 DEF PrinterMoves, GoesFrom
    <2>9. Since' <= Since
      BY <2>3, <2>5
    <2> QED BY <1>3, <2>1, <2>2, <2>3, <2>4, <2>7, <2>8, <2>9, RoundsStay
  <1> QED BY <1>2, <1>3

LEMMA RoundsRest ==
  ASSUME ControlInv, ClockInv, RoundsInv, NEW t \in {"watchdog", "sigterm"}, Run(t)
  PROVE  RoundsInv'
  <1>1. /\ pc'["reader"] = pc["reader"] /\ silent'["reader"] = silent["reader"]
        /\ pc'["analyzer"] = pc["analyzer"] /\ pc'["printer"] = pc["printer"]
        /\ left'["printer"] = left["printer"] /\ silent'["printer"] = silent["printer"]
        /\ cpuStatsQueue' = cpuStatsQueue /\ cpuStatsQueuePrint' = cpuStatsQueuePrint
        /\ slowest'.print = slowest.print
        /\ toClose["analyzer"] => toClose'["analyzer"]
    BY WorkersRest DEF Worker
  <1>2. Since' = Since /\ (Frozen => Frozen')
    BY <1>1 DEF Since, SinceRound, OnItsWay, Frozen
  <1>3. Since \in Nat /\ left["printer"] \in Nat /\ slowest.print \in Nat
    BY SinceType DEF ClockInv, ClockTypes, Thread, Worker
  <1>4. Since' \in Nat /\ Since' <= Since /\ slowest'.print \in Nat
        /\ slowest'.print >= slowest.print
    BY <1>1, <1>2, <1>3
  <1> QED BY <1>1, <1>2, <1>3, <1>4, RoundsStay

LEMMA RoundsElapse ==
  ASSUME ControlInv, DataInv, ClockInv, FlowInv, EarlyInv, AskedInv, RoundsInv, Elapse
  PROVE  RoundsInv'
  <1>0. {"reader", "analyzer", "printer"} \subseteq Worker /\ Worker \subseteq Thread
    BY DEF Worker, Thread
  <1>1. Still
    BY ElapseStill
  <1>2. UNCHANGED <<pc, toClose, cpuStatsQueue, cpuStatsQueuePrint, slowest>>
    BY ElapseClock DEF ClockInv, vars
  <1>3. /\ left["printer"] \in Nat /\ slowest.print \in Nat
        /\ left'["printer"] = IF left["printer"] > 0 THEN left["printer"] - 1 ELSE 0
        /\ silent["printer"] \in Nat /\ silent'["printer"] \in Nat
        /\ silent["printer"] <= TooLong => silent'["printer"] = silent["printer"] + 1
        /\ silent["reader"] \in Nat /\ silent'["reader"] \in Nat
        /\ silent'["reader"] <= silent["reader"] + 1
    BY <1>0, ElapseClock, NapAssumption DEF ClockInv, ClockTypes, TooLong
  <1>4. CASE cpuStatsQueuePrint = <<>>
    BY <1>2, <1>4 DEF RoundsInv
  <1>5. CASE cpuStatsQueuePrint # <<>>
    <2>1. pc["analyzer"] \in {"Wait", "Done"}
      BY <1>1, <1>5 DEF Still, EarlyInv, FlowInv, PipeInv
    <2>2. \/ pc["printer"] = "Print" /\ left["printer"] > 0
          \/ pc["printer"] = "Done"
      BY <1>1, <1>5, <2>1 DEF Still, ControlInv, NoMissedWakeup, BarrierInv, Nobody
    <2>3. CASE pc["printer"] = "Done"
      <3>1. Frozen
        BY <2>1, <2>3 DEF ControlInv, StopsOnlyWhenAsked, AskedInv, Frozen
      <3> QED BY <1>2, <2>3, <3>1 DEF RoundsInv, Frozen
    <2>4. CASE pc["printer"] = "Print" /\ left["printer"] > 0
      <3>1. PICK T \in Nat : Kept(T) /\ InFrame(T)
        BY <1>5, <2>4 DEF RoundsInv
      <3>2. Since \in Nat /\ Since' \in Nat /\ Since' <= Since + 1
        <4>1. pc["reader"] # "Mark"
          BY <1>1 DEF Still
        <4>2. OnItsWay' = OnItsWay /\ SinceRound = silent["reader"]
              /\ SinceRound' = silent'["reader"]
          BY <1>2, <4>1 DEF OnItsWay, SinceRound
        <4> QED BY <1>3, <4>2, NapAssumption DEF Since
      <3>3. Kept(T + 1)'
        BY <1>2, <3>1, <3>2, KeptStays
      <3>4. T + 1 + left'["printer"] <= slowest'.print
        BY <1>2, <1>3, <2>4, <3>1 DEF InFrame
      <3>5. ASSUME ~Frozen'
            PROVE  T + 1 <= TooLong /\ T + 1 <= silent'["printer"]
        <4>1. ~Frozen
          BY <1>2, <3>5 DEF Frozen
        <4>2. pc["watchdog"] # "Done"
          BY <2>1, <4>1 DEF ClockInv, ClosedInv, Frozen
        <4>3. silent["printer"] <= TooLong /\ silent'["printer"] <= TooLong
          BY <1>0, <1>2, <4>2, ClockElapse DEF ClockInv, WatchInv, TooLong
        <4>4. T <= silent["printer"]
          BY <2>4, <3>1, <4>1 DEF InFrame
        <4>5. TooLong \in Nat
          BY NapAssumption DEF TooLong
        <4> QED BY <1>3, <3>1, <4>3, <4>4, <4>5
      <3>6. InFrame(T + 1)'
        BY <3>4, <3>5 DEF InFrame, TooLong
      <3>7. T + 1 \in Nat
        OBVIOUS
      <3> QED BY <3>3, <3>6, <3>7 DEF RoundsInv
    <2> QED BY <2>2, <2>3, <2>4
  <1> QED BY <1>4, <1>5

\* The watchdog asks the analyzer before the printer.
LEMMA AskedNext ==
  ASSUME ControlInv, ClockInv, AskedInv, [TimedNext]_timedVars
  PROVE  AskedInv'
  <1>0. {"analyzer", "printer"} \subseteq Worker /\ "watchdog" \in Thread /\ Worker \subseteq Thread
    BY DEF Worker, Thread
  <1>1. CASE UNCHANGED seenVars \/ Elapse
    BY <1>1 DEF AskedInv, seenVars, vars, Elapse
  <1>2. ASSUME NEW t \in Worker, Run(t) PROVE AskedInv'
    <2>1. Signs(t)
      BY <1>2, WorkerSigns DEF Run
    <2>2. pc[t] = "Start" => ~Booted
      BY <1>0 DEF Booted
    <2>3. ~Booted => ~toClose["printer"]
      BY <1>0 DEF ClockInv, NewInv
    <2>4. toClose'["printer"] => toClose["printer"]
      BY <1>0, <2>1 DEF Signs
    <2>5. pc[t] # "Start" => toClose'["analyzer"] = toClose["analyzer"]
      BY <1>0, <2>1 DEF Signs
    <2> QED BY <2>2, <2>3, <2>4, <2>5 DEF AskedInv
  <1>3. CASE Run("watchdog")
    <2>0. WatchdogStep
      BY <1>3 DEF Run, StepOf
    <2>1. toClose["analyzer"] => toClose'["analyzer"]
      BY <1>0, <2>0, WatchdogSteps DEF WatchdogMoves
    <2>2. toClose'["printer"] => toClose["printer"] \/ pc["watchdog"] = "ClosePrinter"
      BY <2>0 DEF WatchdogStep, WatchdogStart, WatchdogClear, WatchdogWake,
                  WatchdogCheck, WatchdogCloseReader, WatchdogCloseAnalyzer,
                  WatchdogClosePrinter, WatchdogWakeAnalyzer, WatchdogWakePrinter,
                  RequestClose, WakeAll, Step, ControlInv, ControlTypes, Worker
    <2> QED BY <2>1, <2>2 DEF AskedInv, ClockInv, ClosedInv
  <1>4. CASE Run("sigterm")
    BY <1>4, ClockSigterm DEF AskedInv
  <1> QED BY <1>1, <1>2, <1>3, <1>4, Unseen DEF TimedNext, Thread

-----------------------------------------------------------------------------
(***************************************************************************)
(* The invariant of the program under the clock                            *)
(***************************************************************************)

TimedInv ==
  /\ ClockInv /\ AskedInv
  /\ process = "running" => FlowInv /\ HealthInv /\ RoundsInv

LEMMA TimedInvInit == TimedInit => TimedInv
  <1> SUFFICES ASSUME TimedInit PROVE TimedInv
    OBVIOUS
  <1>1. /\ \A t \in Thread : pc[t] = "Start" /\ left[t] = 0
        /\ \A t \in Worker : silent[t] = 0 /\ ~toClose[t]
        /\ cpuStatsQueue = <<>> /\ cpuStatsQueuePrint = <<>>
        /\ \A m \in Mutex : mutex[m] = Nobody
        /\ slowest.read = 0 /\ slowest.print = 0
    BY DEF TimedInit, Init
  <1>2. /\ pc["reader"] = "Start" /\ pc["analyzer"] = "Start" /\ pc["printer"] = "Start"
        /\ pc["watchdog"] = "Start" /\ left["printer"] = 0
        /\ silent["reader"] = 0 /\ silent["analyzer"] = 0 /\ silent["printer"] = 0
        /\ ~toClose["printer"] /\ mutex["queueCpuStatsMutex"] = Nobody
    BY <1>1 DEF Thread, Worker, Mutex
  <1>3. FlowInv
    BY <1>1, <1>2, CpuThreadsAssumption
       DEF FlowInv, PaceInv, PipeInv, Away, Working, JustRead, Nobody, Rows
  <1>4. HealthInv
    BY <1>1, <1>2, NapAssumption DEF HealthInv, Lag, SinceRound
  <1> QED BY <1>1, <1>2, <1>3, <1>4, ClockInit DEF TimedInv, AskedInv, RoundsInv

\* Only a running program steps.
LEMMA RunsOnly ==
  ASSUME ControlInv, ClockInv, NEW t \in Thread, Run(t)
  PROVE  process = "running"
  <1>1. CASE t \in Worker
    BY <1>1, WorkerSigns DEF Run, Signs
  <1>2. CASE t = "watchdog"
    BY <1>2, WatchdogSteps DEF Run, StepOf, WatchdogMoves
  <1>3. CASE t = "sigterm"
    BY <1>3 DEF Run, StepOf, SigtermStep, SigtermStart, SigtermPoll,
                SigtermCloseReader, SigtermCloseAnalyzer, SigtermClosePrinter,
                SigtermCloseWatchdog, SigtermWakeAnalyzer, SigtermWakePrinter,
                RequestClose, WakeAll, Step
  <1> QED BY <1>1, <1>2, <1>3 DEF Thread

LEMMA TimedInvNext ==
  ControlInv /\ DataInv /\ AdjoinInv /\ TimedInv /\ [TimedNext]_timedVars => TimedInv'
  <1> SUFFICES ASSUME ControlInv, DataInv, AdjoinInv, TimedInv, [TimedNext]_timedVars
               PROVE  TimedInv'
    OBVIOUS
  <1>0. ClockInv /\ EarlyInv
    BY DEF TimedInv, AdjoinInv
  <1>1. ClockInv' /\ AskedInv'
    BY ClockNext, AskedNext DEF TimedInv
  <1> SUFFICES ASSUME process' = "running"
               PROVE  FlowInv' /\ HealthInv' /\ RoundsInv'
    BY <1>1 DEF TimedInv
  <1>2. CASE UNCHANGED seenVars
    <2>1. FlowInv /\ HealthInv /\ RoundsInv
      BY <1>2 DEF TimedInv, seenVars
    <2>2. FlowInv'
      BY <1>2, <2>1 DEF FlowInv, PaceInv, PipeInv, Away, Working, JustRead, seenVars
    <2>3. HealthInv'
      BY <1>2, <2>1 DEF HealthInv, Healthy, Lag, SinceRound, Idle, Working, seenVars
    <2>4. RoundsInv'
      BY <1>2, <2>1 DEF RoundsInv, Kept, InFrame, Frozen, Since, OnItsWay, SinceRound,
                        TooLong, seenVars
    <2> QED BY <2>2, <2>3, <2>4
  <1>3. CASE Elapse
    <2>1. process = "running"
      BY <1>3 DEF Elapse
    <2> QED BY <1>0, <1>3, <2>1, FlowElapse, HealthElapse, RoundsElapse DEF TimedInv
  <1>4. ASSUME NEW t \in Thread, Run(t) PROVE FlowInv' /\ HealthInv' /\ RoundsInv'
    <2>0. FlowInv /\ PaceInv /\ PipeInv /\ HealthInv /\ RoundsInv
      BY <1>0, <1>4, RunsOnly DEF TimedInv, FlowInv
    <2>1. CASE t = "reader"
      BY <1>0, <1>4, <2>0, <2>1, PaceReader, PipeReader, HealthReader, RoundsReader
         DEF FlowInv
    <2>2. CASE t \in Thread \ {"reader"}
      <3>1. PaceInv'
        BY <1>0, <1>4, <2>0, <2>2, PaceOther
      <3>2. CASE t = "analyzer"
        BY <1>0, <1>4, <2>0, <3>1, <3>2, PipeAnalyzer, HealthAnalyzer, RoundsAnalyzer
           DEF FlowInv
      <3>3. CASE t = "printer"
        BY <1>0, <1>4, <2>0, <3>1, <3>3, PipeOther, HealthPrinter, RoundsPrinter
           DEF FlowInv
      <3>4. CASE t \in {"watchdog", "sigterm"}
        BY <1>0, <1>4, <2>0, <3>1, <3>4, PipeOther, HealthRest, RoundsRest DEF FlowInv
      <3> QED BY <2>2, <3>2, <3>3, <3>4 DEF Thread, Worker
    <2> QED BY <2>1, <2>2
  <1> QED BY <1>2, <1>3, <1>4, Unseen DEF TimedNext

BaseInv == ControlInv /\ DataInv /\ AdjoinInv /\ TimedInv

LEMMA BaseHolds == TimedSpec => []BaseInv
  <1>1. Init /\ [][Next]_vars => []AdjoinInv
    BY AdjoinInit, AdjoinNext, ControlHolds, DataHolds, PTL DEF Spec
  <1>2. TimedSpec => [](ControlInv /\ DataInv /\ AdjoinInv)
    BY <1>1, TimedIsUntimed, ControlHolds, DataHolds, PTL DEF Spec
  <1> QED BY <1>2, TimedInvInit, TimedInvNext, PTL DEF TimedSpec, BaseInv

\* What ends the program: a missing /proc/stat, or a batch too big.
LEMMA Stops ==
  ASSUME NEW t \in Worker, Run(t), process' # "running"
  PROVE  /\ \/ AnalyzerOverrun /\ t = "analyzer"
            \/ PrinterOverrun /\ t = "printer"
            \/ process' = "segfault"
         /\ UNCHANGED <<pc, toClose, cpuStatsQueue, cpuStatsQueuePrint, threadsNum>>
  <1> USE DEF Run, StepOf, Step
  <1>1. CASE t = "reader"
    BY <1>1 DEF ReaderStep, ReaderStart, ReaderMark, ReaderCount, ReaderLeaveBarrier,
                LeaveBarrier, ReaderLock, ReaderRead, ReaderReadFails, ReaderOpenFails,
                ReaderSignal, ReaderCheckClose
  <1>2. CASE t = "analyzer"
    BY <1>2 DEF AnalyzerStep, AnalyzerStart, AnalyzerMark, AnalyzerLeaveBarrier,
                LeaveBarrier, AnalyzerLock, AnalyzerWait, AnalyzerWakeup, AnalyzerTake,
                AnalyzerOverrun, AnalyzerProcess, AnalyzerPush, AnalyzerSignal
  <1>3. CASE t = "printer"
    BY <1>3 DEF PrinterStep, PrinterStart, PrinterPrint, PrinterLeaveBarrier,
                LeaveBarrier, PrinterLock, PrinterWait, PrinterWakeup, PrinterTake,
                PrinterOverrun
  <1> QED BY <1>1, <1>2, <1>3 DEF Worker

-----------------------------------------------------------------------------
(***************************************************************************)
(* The properties                                                          *)
(***************************************************************************)

\* While the step that ends the program is taken nobody is healthier.
LEMMA StopClock ==
  ASSUME ControlInv, ClockInv, NEW t \in Worker, Run(t)
  PROVE  Healthy' /\ UNCHANGED pc => Healthy
  <1>1. /\ slowest.read \in Nat /\ slowest.print \in Nat
        /\ slowest'.read \in Nat /\ slowest'.print \in Nat
        /\ slowest'.read >= slowest.read /\ slowest'.print >= slowest.print
    BY WorkerRuns
  <1> QED BY <1>1, HealthLost

LEMMA OpenNext ==
  BaseInv /\ BaseInv' /\ HealthyStaysOpen /\ [TimedNext]_timedVars => HealthyStaysOpen'
  <1> SUFFICES ASSUME BaseInv, BaseInv', HealthyStaysOpen, [TimedNext]_timedVars, Healthy'
               PROVE  ~Closing'
    BY DEF HealthyStaysOpen, Healthy
  <1>0. ControlInv /\ ClockInv
    BY DEF BaseInv, TimedInv
  <1>1. CASE UNCHANGED seenVars
    BY <1>1 DEF HealthyStaysOpen, Healthy, Closing, seenVars
  <1>2. CASE process' = "running"
    <2>1. /\ \A t \in Worker : ~toClose'[t]
          /\ ~toClose'["watchdog"] /\ DOMAIN toClose' = Worker \cup {"watchdog"}
      BY <1>2 DEF BaseInv, TimedInv, HealthInv, ClockInv, QuietInv, ControlInv, ControlTypes
    <2> QED BY <2>1 DEF Closing
  <1>3. CASE process' # "running" /\ ~UNCHANGED seenVars
    <2>0. ~Elapse
      BY <1>3 DEF Elapse, vars
    <2>1. PICK t \in Thread : Run(t)
      BY <1>3, <2>0, Unseen DEF TimedNext
    <2>2. t \in Worker
      BY <1>0, <1>3, <2>1, WorkersRest DEF Thread
    <2>3. UNCHANGED <<pc, toClose>>
      BY <1>3, <2>1, <2>2, Stops
    <2>4. Healthy
      BY <1>0, <2>1, <2>2, <2>3, StopClock
    <2> QED BY <2>3, <2>4 DEF HealthyStaysOpen, Healthy, Closing
  <1> QED BY <1>1, <1>2, <1>3

\* A healthy program is left alone: while a pass and a frame together take less
\* than the second the watchdog sleeps longer than the reader, nobody is asked
\* to close, however the threads' rounds are shifted against each other.
THEOREM HealthyStaysOpenHolds == TimedSpec => []HealthyStaysOpen
  <1>1. TimedInit => HealthyStaysOpen
    BY DEF TimedInit, Init, HealthyStaysOpen, Closing
  <1> QED BY <1>1, OpenNext, BaseHolds, PTL DEF TimedSpec

\* The rounds that fit in two rounds of the watchdog.
LEMMA PileUpTime == PileUp \in Nat /\ PileUp * ReaderNap > TooLong
  <1>1. ReaderNap \in Nat \ {0} /\ TooLong \in Nat
    BY NapAssumption DEF TooLong
  <1> HIDE DEF TooLong
  <1>2. /\ TooLong = ReaderNap * (TooLong \div ReaderNap) + (TooLong % ReaderNap)
        /\ TooLong % ReaderNap \in 0 .. ReaderNap - 1
        /\ TooLong \div ReaderNap \in Nat
    BY <1>1
  <1>3. PileUp * ReaderNap = ReaderNap * (TooLong \div ReaderNap) + ReaderNap
    BY <1>1, <1>2 DEF PileUp
  <1> QED BY <1>1, <1>2, <1>3 DEF PileUp

LEMMA PileNext ==
  BaseInv /\ BaseInv' /\ PileInv /\ [TimedNext]_timedVars => PileInv'
  <1> SUFFICES ASSUME BaseInv, BaseInv', PileInv, [TimedNext]_timedVars PROVE PileInv'
    OBVIOUS
  <1>0. /\ ControlInv /\ DataInv /\ ClockInv
        /\ Len(cpuStatsQueuePrint') \in Nat /\ Len(cpuStatsQueuePrint) \in Nat
        /\ PileUp * Rows \in Nat
    BY PileUpTime, CpuThreadsAssumption DEF BaseInv, TimedInv, DataInv, Rows
  <1>1. CASE UNCHANGED cpuStatsQueuePrint
    BY <1>1 DEF PileInv, PileUp, TooLong, Rows
  <1>2. CASE cpuStatsQueuePrint' = <<>>
    <2>1. Len(cpuStatsQueuePrint') = 0
      BY <1>2
    <2> QED BY <1>0, <2>1 DEF PileInv, PileUp, TooLong, Rows
  <1>3. ASSUME cpuStatsQueuePrint' # cpuStatsQueuePrint, cpuStatsQueuePrint' # <<>>
        PROVE  PileInv'
    <2>1. PICK t \in Thread : Run(t)
      BY <1>3, Unseen DEF TimedNext, Elapse, seenVars, vars
    <2>2. t \in Worker
      BY <1>0, <1>3, <2>1, WorkersRest DEF Thread
    <2>3. process' = "running"
      BY <1>3, <2>1, <2>2, Stops
    <2>4. pc'["analyzer"] = "Signal"
      <3>1. t = "reader" => FALSE
        BY <1>0, <1>3, <2>1, <2>3, ReaderRuns DEF ReaderMoves
      <3>2. t = "printer" => FALSE
        BY <1>0, <1>3, <2>1, <2>3, PrinterGoes DEF Run, StepOf, PrinterMoves
      <3>3. t = "analyzer"
        BY <2>2, <3>1, <3>2 DEF Worker
      <3>4. AnalyzerMoves
        BY <1>0, <2>1, <2>3, <3>3, AnalyzerGoes DEF Run, StepOf
      <3> QED BY <1>3, <3>4 DEF AnalyzerMoves, GoesFrom
    <2>5. RoundsInv' /\ ~Frozen' /\ ClockInv'
      BY <2>3, <2>4 DEF BaseInv, TimedInv, Frozen
    <2>6. PICK T \in Nat : Kept(T)' /\ InFrame(T)'
      BY <1>3, <2>5 DEF RoundsInv
    <2>7. T <= TooLong
      BY <2>5, <2>6 DEF InFrame, TooLong
    <2>8. Since' \in Nat
      BY <2>5, <1>0, SinceType
    <2>9. ~(Len(cpuStatsQueuePrint') > PileUp * Rows)
      <3> SUFFICES ASSUME Len(cpuStatsQueuePrint') > PileUp * Rows PROVE FALSE
        OBVIOUS
      <3>1. \A k \in Nat : Len(cpuStatsQueuePrint') > k * Rows => k * ReaderNap + Since' <= T
        BY <2>6 DEF Kept, Rows
      <3>2. PileUp * ReaderNap + Since' <= T
        BY <3>1, PileUpTime
      <3>3. TooLong \in Nat /\ PileUp * ReaderNap \in Nat
        BY PileUpTime, NapAssumption DEF TooLong
      <3> QED BY <2>7, <2>8, <3>2, <3>3, PileUpTime
    <2>10. Len(cpuStatsQueuePrint') <= PileUp * Rows
      BY <1>0, <2>9
    <2> QED BY <2>10 DEF PileInv, PileUp, TooLong, Rows
  <1> QED BY <1>1, <1>2, <1>3

\* While the terminal blocks, no more rounds pile up behind the printer than
\* the reader makes in two rounds of the watchdog, which then closes the
\* analyzer and with it the source of rounds.
THEOREM PileUpBoundedHolds == TimedSpec => []PileUpBounded
  <1>1. TimedInit => PileInv
    <2> SUFFICES ASSUME TimedInit PROVE PileInv
      OBVIOUS
    <2>1. Len(cpuStatsQueuePrint) = 0
      BY DEF TimedInit, Init
    <2> QED BY <2>1, PileUpTime, CpuThreadsAssumption DEF PileInv, Rows
  <1>2. BaseInv /\ PileInv => PileUpBounded
    <2> SUFFICES ASSUME BaseInv, PileInv PROVE PileUpBounded
      OBVIOUS
    <2>1. CASE cpuStatsQueuePrint = <<>>
      <3>1. Len(cpuStatsQueuePrint) = 0 /\ threadsNum \in Nat
        BY <2>1, CpuThreadsAssumption DEF BaseInv, ControlInv, ControlTypes
      <3> QED BY <3>1, PileUpTime DEF PileUpBounded
    <2>2. CASE cpuStatsQueuePrint # <<>>
      <3>1. threadsNum = CpuThreads
        BY <2>2, ReadyThreads DEF BaseInv, AdjoinInv, EarlyInv
      <3> QED BY <3>1 DEF PileInv, PileUpBounded, Rows
    <2> QED BY <2>1, <2>2
  <1> QED BY <1>1, <1>2, PileNext, BaseHolds, PTL DEF TimedSpec

LEMMA BatchNext ==
  BaseInv /\ BaseInv' /\ BatchFitsInTime /\ [TimedNext]_timedVars => BatchFitsInTime'
  <1> SUFFICES ASSUME BaseInv, BaseInv', BatchFitsInTime, [TimedNext]_timedVars,
                      slowest'.print < 3 * ReaderNap, process' = "overrun"
               PROVE  FALSE
    BY DEF BatchFitsInTime, BatchFits
  <1>0. ControlInv /\ DataInv /\ ClockInv
    BY DEF BaseInv, TimedInv
  <1>1. ~UNCHANGED <<process, slowest>>
    BY DEF BatchFitsInTime, BatchFits
  <1>2. PICK t \in Thread : Run(t)
    BY <1>1, Unseen DEF TimedNext, Elapse, seenVars, vars
  <1>3. t \in Worker
    BY <1>0, <1>2, WorkersRest DEF Thread
  <1>4. /\ AnalyzerOverrun \/ PrinterOverrun
        /\ slowest.print \in Nat /\ slowest'.print \in Nat
        /\ slowest'.print >= slowest.print
    BY <1>0, <1>2, <1>3, Stops, WorkerRuns
  <1>5. FlowInv /\ RoundsInv
    BY <1>4 DEF AnalyzerOverrun, PrinterOverrun, BaseInv, TimedInv
  <1>6. BatchRoom = 3 * Rows
    <2>1. threadsNum = CpuThreads
      BY <1>0, <1>4 DEF AnalyzerOverrun, PrinterOverrun, ControlInv, BarrierInv,
                        BarrierCount, Consumers
    <2> QED BY <2>1, CpuThreadsAssumption DEF BatchRoom, Rows
  <1>7. Rows \in Nat /\ Len(cpuStatsQueue) \in Nat /\ Len(cpuStatsQueuePrint) \in Nat
    BY <1>0, CpuThreadsAssumption DEF Rows, DataInv
  <1>8. CASE AnalyzerOverrun
    <2>1. Len(cpuStatsQueue) <= Rows /\ Len(cpuStatsQueue) > 3 * Rows
      BY <1>5, <1>6, <1>8 DEF AnalyzerOverrun, FlowInv, PipeInv
    <2> QED BY <1>7, <2>1
  <1>9. CASE PrinterOverrun
    <2>1. Len(cpuStatsQueuePrint) > 3 * Rows /\ pc["printer"] # "Done"
      BY <1>6, <1>9 DEF PrinterOverrun
    <2>2. cpuStatsQueuePrint # <<>>
      BY <1>7, <2>1
    <2>3. PICK T \in Nat : Kept(T) /\ InFrame(T)
      BY <1>5, <2>1, <2>2 DEF RoundsInv
    <2>4. 3 * ReaderNap + Since <= T
      BY <2>1, <2>3 DEF Kept
    <2>5. Since \in Nat /\ left["printer"] \in Nat
      BY <1>0, SinceType DEF ClockInv, ClockTypes, Thread, Worker
    <2>6. T + left["printer"] <= slowest.print
      BY <2>3 DEF InFrame
    <2> QED BY <1>4, <2>4, <2>5, <2>6, NapAssumption
  <1> QED BY <1>4, <1>8, <1>9

\* The room for three rounds in the batch buffers of analyzer and printer is
\* enough while no frame takes three sleeps of the reader to write.
THEOREM BatchFitsInTimeHolds == TimedSpec => []BatchFitsInTime
  <1>1. TimedInit => BatchFitsInTime
    BY DEF TimedInit, Init, BatchFitsInTime, BatchFits
  <1> QED BY <1>1, BatchNext, BaseHolds, PTL DEF TimedSpec
=============================================================================
