----------------------------- MODULE StatParser -----------------------------
(***************************************************************************)
(* getCpuThreadsNum and getCpuStatsFromFile of src/readerThr.c, one action *)
(* per call of fgets.                                                      *)
(*                                                                         *)
(* A file is the sequence of pieces that successive fgets(buf, 100, ...)   *)
(* return, as a rule its lines.  A piece is its first word, as a tuple that *)
(* begins with "cpu" if the word does, and the numbers that follow.        *)
(***************************************************************************)
EXTENDS Naturals, Sequences

VARIABLES
  reading,         \* which function has the file open: "count", "stats", "no"
  file,            \* the pieces not read yet
  threadsNum,
  cpuStats,        \* the static struct a line is parsed into
  rows,            \* what this call has pushed on cpuStatsQueue
  result           \* of the last call

parserVars == <<reading, file, threadsNum, cpuStats, rows, result>>

\* The counters of a line, in the order of the accessor functions.
accessorsCpu == <<"user", "nice", "system", "idle", "iowait", "irq",
                  "softirq", "steal", "guest", "guestNice">>
Counter == {accessorsCpu[j] : j \in 1 .. 10}

\* memcmp(ptrStringSplit, "cpu", 3) == 0
IsCpu(piece) == Head(piece.name) = "cpu"

ParserInit ==
  /\ reading = "no" /\ file = <<>> /\ result = "none"
  /\ threadsNum = 0
  /\ cpuStats = [name |-> <<"">>, t |-> [c \in Counter |-> 0]]
  /\ rows = <<>>

\* Mutant: the first accessor is passed over.
Parsed_Late(stats, piece) ==
  [name |-> piece.name,
   t |-> [c \in Counter |->
            LET j == CHOOSE k \in 1 .. 10 : accessorsCpu[k] = c
            IN  IF j <= Len(piece.values) + 1 /\ j > 1
                THEN piece.values[j - 1] ELSE stats.t[c]]]

\* The struct after a piece has been parsed into it: a counter the piece has
\* no number for keeps the one of an earlier line.
Parsed(stats, piece) ==
  [name |-> piece.name,
   t |-> [c \in Counter |->
            LET j == CHOOSE k \in 1 .. 10 : accessorsCpu[k] = c
            IN  IF j <= Len(piece.values) THEN piece.values[j] ELSE stats.t[c]]]

Return(r) ==
  /\ result' = r
  /\ reading' = "no"
  /\ file' = <<>>

-----------------------------------------------------------------------------
(* getCpuThreadsNum *)

CountOpen(pieces) ==
  /\ reading' = "count"
  /\ file' = pieces
  /\ threadsNum' = 0
  /\ UNCHANGED <<cpuStats, rows, result>>

CountOpenFails ==
  /\ Return("FILE_OPEN_ERROR")
  /\ threadsNum' = 0
  /\ UNCHANGED <<cpuStats, rows>>

CountLine ==
  /\ reading = "count" /\ file # <<>>
  /\ IsCpu(Head(file))
  /\ threadsNum' = threadsNum + 1
  /\ file' = Tail(file)
  /\ UNCHANGED <<reading, cpuStats, rows, result>>

\* The first other line: the line "cpu", which sums up the others, does not
\* count as a thread.
CountEnd ==
  /\ reading = "count" /\ file # <<>>
  /\ ~IsCpu(Head(file))
  /\ threadsNum' = IF threadsNum # 0 THEN threadsNum - 1 ELSE 0
  /\ Return(IF threadsNum' = 0 THEN "READ_NO_CPU_THR" ELSE "OK")
  /\ UNCHANGED <<cpuStats, rows>>

-----------------------------------------------------------------------------
(* getCpuStatsFromFile *)

StatsOpen(pieces) ==
  /\ reading' = "stats"
  /\ file' = pieces
  /\ rows' = <<>>
  /\ UNCHANGED <<threadsNum, cpuStats, result>>

\* Mutant: the numbers behind the tenth are passed over.
StatsLine_AnyLength ==
  /\ reading = "stats" /\ file # <<>>
  /\ Len(rows) < threadsNum + 1
  /\ cpuStats' = Parsed(cpuStats, Head(file))
  /\ rows' = Append(rows, cpuStats')
  /\ file' = Tail(file)
  /\ UNCHANGED <<reading, threadsNum, result>>

StatsLine ==
  /\ reading = "stats" /\ file # <<>>
  /\ Len(rows) < threadsNum + 1
  /\ Len(Head(file).values) <= 10
  /\ cpuStats' = Parsed(cpuStats, Head(file))
  /\ rows' = Append(rows, cpuStats')
  /\ file' = Tail(file)
  /\ UNCHANGED <<reading, threadsNum, result>>

\* An eleventh number: ten have been stored, the line is not pushed, and the
\* file stays open.
StatsLineTooLong ==
  /\ reading = "stats" /\ file # <<>>
  /\ Len(rows) < threadsNum + 1
  /\ Len(Head(file).values) > 10
  /\ cpuStats' = Parsed(cpuStats, Head(file))
  /\ Return("INCORRECT_NUM_CPU_USAGE")
  /\ UNCHANGED <<threadsNum, rows>>

StatsEnd ==
  /\ reading = "stats"
  /\ Len(rows) = threadsNum + 1
  /\ Return("OK")
  /\ UNCHANGED <<threadsNum, cpuStats, rows>>

\* Either function, when the file has no line left.
EndOfFile ==
  /\ reading # "no" /\ file = <<>>
  /\ reading = "stats" => Len(rows) < threadsNum + 1
  /\ Return("FILE_READ_ERROR")
  /\ UNCHANGED <<threadsNum, cpuStats, rows>>

ParserStep ==
  \/ CountLine
  \/ CountEnd
  \/ StatsLine
  \/ StatsLineTooLong
  \/ StatsEnd
  \/ EndOfFile
=============================================================================
