--------------------------- MODULE MCUnityFixture ---------------------------
(* An instance of UnityFixture for TLC, see MCUnityFixture.cfg. *)
EXTENDS UnityFixture

MCCommandLines == {<<>>, <<"-n", "ab", "-r">>, <<"-v", "-g", "h", "-s", "-r", "1">>,
                   <<"-x", "-r", "0">>, <<"-r", "2", "-h">>, <<"-g">>}

MCNumber == [s \in {"0", "1", "2"} |->
               CASE s = "0" -> 0 [] s = "1" -> 1 [] s = "2" -> 2]

MCProgram == << [group |-> {"g"}, name |-> {"a", "ab"}, ignore |-> FALSE],
                [group |-> {"g", "h"}, name |-> {"a", "ab"}, ignore |-> TRUE],
                [group |-> {"g", "h"}, name |-> {"a"}, ignore |-> FALSE] >>
=============================================================================
