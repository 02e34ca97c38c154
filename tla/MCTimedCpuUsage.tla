-------------------------- MODULE MCTimedCpuUsage --------------------------
(* Instances of TimedCpuUsage for TLC, see the .cfg files. *)
EXTENDS TimedCpuUsage
=============================================================================
