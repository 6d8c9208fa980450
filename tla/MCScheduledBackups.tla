------------------------- MODULE MCScheduledBackups -------------------------
(* Two scheduled profiles; the reports of the second one are refused where *)
(* Rejected says so.                                                       *)
EXTENDS ScheduledBackups

Hours == <<3, 4>>
=============================================================================
