--------------------------- MODULE MCUsageRollups ---------------------------
(* Instances of UsageRollups for TLC. *)
EXTENDS UsageRollups
=============================================================================
