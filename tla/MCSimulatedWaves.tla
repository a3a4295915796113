--------------------------- MODULE MCSimulatedWaves ---------------------------
(***************************************************************************)
(* An instance of SimulatedWaves for TLC: a channel of each kind, and a    *)
(* square wave without a period.  With half a second and a second to a     *)
(* cycle the other has four and two cycles to its period, or one less; in  *)
(* cycles of a quarter of a second, or of nothing, it has more than fit.   *)
(***************************************************************************)
EXTENDS SimulatedWaves

Blank == [kind |-> "BoolOutput", togglePeriodMs |-> 0, dutyCyclePercent |-> 50,
          incrementPerCycle |-> 1, minValue |-> 0, maxValue |-> 0, frequencyHz |-> 0]

MCDefinitions == <<
  [Blank EXCEPT !.kind = "BoolInput", !.togglePeriodMs = 2000],
  [Blank EXCEPT !.kind = "FloatInput"],
  [Blank EXCEPT !.kind = "IntInput", !.minValue = -1, !.maxValue = 1],
  [Blank EXCEPT !.kind = "BoolInput"],
  Blank >>
===============================================================================
