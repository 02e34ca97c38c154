----------------------------- MODULE MCMeasure -----------------------------
(* An instance of Measure for TLC, see MCMeasure.cfg. *)
EXTENDS Measure

\* A CPU idles, does nothing that a clock has noticed, or works most of the time
\* while its I/O clock is corrected by what it idles.
MCMoves == {[busy |-> 0, idle |-> 3, iowait |-> 0],
            [busy |-> 0, idle |-> 0, iowait |-> 0],
            [busy |-> 2, idle |-> 1, iowait |-> -1]}

\* Soon to wrap round with four bits.
MCOrigins == {[busy |-> 12, idle |-> 13, iowait |-> 2]}

\* A truncated copy; a line "intr" with more numbers than a line of a CPU; and
\* one of few but long numbers, the last of which is in a piece of its own.
MCRests == {<<>>, <<[j \in 1 .. 12 |-> 1]>>, <<[j \in 1 .. 6 |-> 9], <<>>>>}
=============================================================================
