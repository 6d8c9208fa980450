------------------------- MODULE MCSuricataAdapter -------------------------
(* Small instances of SuricataAdapter.                                     *)
EXTENDS SuricataAdapter, TLC

FirstFile == CHOOSE i \in Inodes : TRUE

(* The alerts are numbers, logged in that order, and the log begins in the *)
(* first file: any other choice is the same behaviour with other names.    *)
Named ==
    /\ \A i \in DOMAIN written : written[i] = i
    /\ written = <<>> => eve = FirstFile

(* The alerts a fault has come near to.                                    *)
Struck ==
    unreadable \cup quarantine \cup torn \cup outrun \cup missed \cup passed
        \cup ({unfinished} \ {Absent})

(* Bound: the faults together strike one alert, in as many ways as they    *)
(* can; while the log is in another file only rotations do.                *)
OneStruck ==
    /\ Cardinality(Struck) <= 1
    /\ eve = FirstFile \/ Struck \subseteq missed
=============================================================================
