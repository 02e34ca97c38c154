----------------------------- MODULE MCCpuUsage -----------------------------
(* CpuUsage for TLC.  The constants are given in the .cfg files, one per    *)
(* question; the environment (what /proc/stat and the user may do) and the  *)
(* bounds differ from one to the other.                                     *)
EXTENDS CpuUsage
=============================================================================
