--------------------------- MODULE MCSignalProcess ---------------------------
(***************************************************************************)
(* Small instances of SignalProcess for TLC.  The clock has to run on for  *)
(* a duration, a settling time and a few cycles after the last event, or   *)
(* the consequences of that event would lie beyond the bound.              *)
(***************************************************************************)
EXTENDS SignalProcess

ASSUME ClockOutlastsEvents ==
  MaxClock >= LastEvent + (IF Duration > Settle THEN Duration ELSE Settle) + MaxLag
===============================================================================
