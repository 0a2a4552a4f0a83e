------------------------------- MODULE MCLog -------------------------------
(***************************************************************************)
(* Instances of Log for TLC.  Three slots hold two lines, so that four     *)
(* calls fill the ring, overflow it and wrap both indexes.  The levels are *)
(* one below every threshold, BOOT, which ignores it, and one above the    *)
(* lower threshold.                                                        *)
(***************************************************************************)
EXTENDS Log

MCLevels == {LOG_LEVEL_ERROR, LOG_LEVEL_BOOT, 3}
MCThresholds == {0, 3}
=============================================================================
