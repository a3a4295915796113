----------------------------- MODULE SimulatedWaves -----------------------------
(***************************************************************************)
(* The waves of the simulated backend and its cycle period:                *)
(* SimulatedRTBackend::buildRT(), onBeforeReadInputs() in the thread of    *)
(* the cycle, and setCyclePeriod(), "safe to call mid-flight", in another. *)
(*                                                                         *)
(* The second writes the fields of the channels while the first reads      *)
(* them, without a lock; each field is written as a whole.  The hook of a  *)
(* square wave looks at them three times.  Where in the image a value goes *)
(* is RtContext; its amplitude and offset are left out.                    *)
(*                                                                         *)
(* Times are whole nanoseconds; a phase is in parts of a turn, 10^9 of     *)
(* them, so that a wave of f Hz advances by f * cycleNs parts in a cycle.  *)
(***************************************************************************)
EXTENDS Integers, Sequences

CONSTANTS
  Definitions,  \* the channels of the definitions file
  FileCycles,   \* the cycle times it may give
  MaxCycles,    \* the largest number of cycles that a field holds
  Requests,     \* arguments of setGlobalCyclePeriod()
  MaxCount      \* bound of the history counters

Turn == 1000000000
MaxCycleNs == 1000000000

Channels == DOMAIN Definitions
Square == {c \in Channels : Definitions[c].kind \in {"BoolInput", "BoolOutput"}}
Sawtooth == {c \in Channels : Definitions[c].kind = "IntInput"}
Sine == {c \in Channels : Definitions[c].kind = "FloatInput"}

(* SimChannelDef *)
SimChannelDef ==
  [kind : {"BoolInput", "BoolOutput", "IntInput", "FloatInput"},
   togglePeriodMs : Nat, dutyCyclePercent : Nat,
   incrementPerCycle : Int, minValue : Int, maxValue : Int, frequencyHz : Nat]

ASSUME DefinitionsAssumption ==
  /\ Definitions \in Seq(SimChannelDef)
  /\ Definitions # << >>
  /\ \A c \in Sawtooth : Definitions[c].minValue <= Definitions[c].maxValue

ASSUME CyclesAssumption ==
  /\ FileCycles \subseteq Nat
  /\ MaxCycles \in Nat
  /\ Requests \subseteq Nat
  /\ MaxCount \in Nat \ {0}

VARIABLES
  cycleNs,   \* cycleNs_
  toggle,    \* togglePeriodCycles of each channel
  high,      \* highCycles of each channel
  increment, \* phaseIncrement of each channel
  tick,      \* tickCount of each channel
  isHigh,    \* isHigh of each channel, and its byte in the image
  intValue,  \* intValue of each channel
  phase,     \* floatPhase of each channel
  at,        \* the channel the hook is at
  stage,     \* how far it is with it
  setAt,     \* the channel setCyclePeriod() is at, or 0
  setTo,     \* what it has computed for that channel
  setLeft,   \* the fields it has still to write
  run,       \* history: cycles of each channel since it last turned
  turns,     \* history: its turns since its fields were last written
  since      \* history: its cycles since they were last written

fields == <<toggle, high, increment>>
waves == <<tick, isHigh, intValue, phase>>
hook == <<at, stage>>
setter == <<cycleNs, setAt, setTo, setLeft>>
history == <<run, turns, since>>
vars == <<fields, waves, hook, setter, history>>

-------------------------------------------------------------------------------
(* togglePeriodMs / 1000.0 * cyclesPerSec, truncated to a uint32_t.  In      *)
(* binary fractions the product can come out just below a whole number.  Of  *)
(* more than the field holds, and of cycles without a length, the conversion *)
(* is undefined.                                                             *)
CyclesOf(c, ns) ==
  LET wanted == Definitions[c].togglePeriodMs * 1000000
      exact == wanted \div ns
  IN IF wanted = 0 THEN {0}
     ELSE IF ns = 0 THEN 0..MaxCycles
     ELSE IF exact > MaxCycles THEN 0..MaxCycles
     ELSE {exact} \cup {n \in {exact - 1} : n >= 0 /\ exact * ns = wanted}

HighOf(c, cycles) == (cycles * Definitions[c].dutyCyclePercent) \div 100

(* A frequency of zero is 1 Hz. *)
FrequencyHz(c) == IF Definitions[c].frequencyHz > 0 THEN Definitions[c].frequencyHz ELSE 1
IncrementOf(c, ns) == FrequencyHz(c) * ns

Nowhere == [toggle |-> 0, high |-> 0]

(* buildRT() after loadDefinitions() *)
Init ==
  /\ cycleNs \in FileCycles
  /\ toggle \in [Channels -> {0} \cup UNION {CyclesOf(c, cycleNs) : c \in Square}]
  /\ \A c \in Channels : toggle[c] \in IF c \in Square THEN CyclesOf(c, cycleNs) ELSE {0}
  /\ high = [c \in Channels |-> IF c \in Square THEN HighOf(c, toggle[c]) ELSE 0]
  /\ increment = [c \in Channels |-> IF c \in Sine THEN IncrementOf(c, cycleNs) ELSE 0]
  /\ tick = [c \in Channels |-> 0]
  /\ isHigh = [c \in Channels |-> FALSE]
  /\ intValue = [c \in Channels |-> 0]
  /\ phase = [c \in Channels |-> 0]
  /\ at = 1
  /\ stage = "begin"
  /\ setAt = 0
  /\ setTo = Nowhere
  /\ setLeft = {}
  /\ run = [c \in Channels |-> 0]
  /\ turns = [c \in Channels |-> 0]
  /\ since = [c \in Channels |-> 0]

-------------------------------------------------------------------------------
(* onBeforeReadInputs(), cycle after cycle. *)
HookNext ==
  /\ at' = IF at = Len(Definitions) THEN 1 ELSE at + 1
  /\ stage' = "begin"

(* Outputs, and a square wave without a period. *)
HookSkip ==
  /\ stage = "begin"
  /\ \/ Definitions[at].kind = "BoolOutput"
     \/ Definitions[at].kind = "BoolInput" /\ toggle[at] = 0
  /\ HookNext
  /\ UNCHANGED <<fields, waves, setter, history>>

HookBegin ==
  /\ stage = "begin"
  /\ Definitions[at].kind = "BoolInput"
  /\ toggle[at] > 0
  /\ stage' = "compare"
  /\ UNCHANGED <<fields, waves, at, setter, history>>

Counted(n) == IF n < MaxCount THEN n + 1 ELSE n

ShouldBeHigh(c) == tick[c] < high[c]

HookCompare ==
  /\ stage = "compare"
  /\ isHigh' = [isHigh EXCEPT ![at] = ShouldBeHigh(at)]
  /\ since' = [since EXCEPT ![at] = Counted(@)]
  /\ IF isHigh'[at] # isHigh[at]
       THEN run' = [run EXCEPT ![at] = 1] /\ turns' = [turns EXCEPT ![at] = Counted(@)]
       ELSE run' = [run EXCEPT ![at] = Counted(@)] /\ UNCHANGED turns
  /\ stage' = "count"
  /\ UNCHANGED <<fields, tick, intValue, phase, at, setter>>

(* Mistake: the end of the period is the tick that equals it. *)
NextTickEqual(c) == IF tick[c] + 1 = toggle[c] THEN 0 ELSE tick[c] + 1

(* Mistake: the period is a tick too long. *)
NextTickLate(c) == IF tick[c] + 1 > toggle[c] THEN 0 ELSE tick[c] + 1

(* A tick beyond the end of a period that has become shorter ends it too. *)
NextTick(c) == IF tick[c] + 1 >= toggle[c] THEN 0 ELSE tick[c] + 1

HookCount ==
  /\ stage = "count"
  /\ tick' = [tick EXCEPT ![at] = NextTick(at)]
  /\ HookNext
  /\ UNCHANGED <<fields, isHigh, intValue, phase, setter, history>>

HookSawtooth ==
  /\ stage = "begin"
  /\ at \in Sawtooth
  /\ LET d == Definitions[at]
         next == intValue[at] + d.incrementPerCycle
     IN intValue' = [intValue EXCEPT ![at] =
          IF next > d.maxValue THEN d.minValue
          ELSE IF next < d.minValue THEN d.maxValue ELSE next]
  /\ HookNext
  /\ UNCHANGED <<fields, tick, isHigh, phase, setter, history>>

(* Mistake: a phase of a turn or more stays. *)
AdvancedUnwrapped(p, by) == p + by

Advanced(p, by) == IF p + by > Turn THEN p + by - Turn ELSE p + by

HookSine ==
  /\ stage = "begin"
  /\ at \in Sine
  /\ phase' = [phase EXCEPT ![at] = Advanced(@, increment[at])]
  /\ HookNext
  /\ UNCHANGED <<fields, tick, isHigh, intValue, setter, history>>

-------------------------------------------------------------------------------
(* setGlobalCyclePeriod(), which refuses what is out of range, and           *)
(* setCyclePeriod().                                                         *)
SetBegin(ns) ==
  /\ setAt = 0
  /\ ns > 0
  /\ ns <= MaxCycleNs
  /\ cycleNs' = ns
  /\ setAt' = 1
  /\ UNCHANGED <<fields, waves, hook, setTo, setLeft, history>>

SetNext ==
  /\ setAt' = IF setAt = Len(Definitions) THEN 0 ELSE setAt + 1
  /\ setTo' = Nowhere
  /\ setLeft' = {}

Periodic == {c \in Square : Definitions[c].togglePeriodMs > 0}

SetCompute ==
  /\ setAt \in Periodic
  /\ setLeft = {}
  /\ \E t \in CyclesOf(setAt, cycleNs) :
       setTo' = [toggle |-> t, high |-> HighOf(setAt, t)]
  /\ setLeft' = {"toggle", "high"}
  /\ UNCHANGED <<fields, waves, hook, cycleNs, setAt, history>>

(* The fields of a square wave; nothing orders the two writes for a reader.  *)
SetField(f) ==
  /\ f \in setLeft
  /\ toggle' = IF f = "toggle" THEN [toggle EXCEPT ![setAt] = setTo.toggle] ELSE toggle
  /\ high' = IF f = "high" THEN [high EXCEPT ![setAt] = setTo.high] ELSE high
  /\ IF setLeft = {f}
       THEN SetNext
       ELSE setLeft' = setLeft \ {f} /\ UNCHANGED <<setAt, setTo>>
  /\ turns' = [turns EXCEPT ![setAt] = 0]
  /\ since' = [since EXCEPT ![setAt] = 0]
  /\ UNCHANGED <<increment, waves, hook, cycleNs, run>>

(* Mistake: a sine wave keeps its increment. *)
SetPhaseForgotten ==
  /\ setAt \in Sine
  /\ SetNext
  /\ UNCHANGED <<fields, waves, hook, cycleNs, history>>

(* The phase stays, so that the wave goes on where it was. *)
SetPhase ==
  /\ setAt \in Sine
  /\ increment' = [increment EXCEPT ![setAt] = IncrementOf(setAt, cycleNs)]
  /\ SetNext
  /\ UNCHANGED <<toggle, high, waves, hook, cycleNs, history>>

SetSkip ==
  /\ setAt \in Channels \ (Periodic \cup Sine)
  /\ SetNext
  /\ UNCHANGED <<fields, waves, hook, cycleNs, history>>

Next ==
  \/ HookSkip \/ HookBegin \/ HookCompare \/ HookCount \/ HookSawtooth \/ HookSine
  \/ \E ns \in Requests : SetBegin(ns)
  \/ SetCompute \/ SetField("toggle") \/ SetField("high") \/ SetPhase \/ SetSkip

Spec == Init /\ [][Next]_vars

-------------------------------------------------------------------------------
(* A sample for each turn of a wave at least: what setGlobalCyclePeriod()    *)
(* lets through keeps every phase within a turn.                             *)
Sampled == \A c \in Sine, ns \in FileCycles \cup {r \in Requests : r <= MaxCycleNs} :
             IncrementOf(c, ns) <= Turn

TypeOK ==
  /\ cycleNs \in Nat
  /\ toggle \in [Channels -> Nat]
  /\ high \in [Channels -> Nat]
  /\ increment \in [Channels -> Nat]
  /\ tick \in [Channels -> Nat]
  /\ isHigh \in [Channels -> BOOLEAN]
  /\ \A c \in Sawtooth :
       intValue[c] \in {0} \cup Definitions[c].minValue..Definitions[c].maxValue
  /\ Sampled => phase \in [Channels -> 0..Turn]
  /\ at \in Channels
  /\ stage \in {"begin", "compare", "count"}
  /\ setAt \in Channels \cup {0}
  /\ setTo \in [toggle : Nat, high : Nat]
  /\ setLeft \subseteq {"toggle", "high"}
  /\ run \in [Channels -> 0..MaxCount]
  /\ turns \in [Channels -> 0..MaxCount]
  /\ since \in [Channels -> 0..MaxCount]

(* The fields of the channel agree with the cycle period and each other.     *)
Agrees(c) ==
  /\ c \in Periodic => toggle[c] \in CyclesOf(c, cycleNs)
  /\ c \in Square => high[c] = HighOf(c, toggle[c])
  /\ c \in Sine => increment[c] = IncrementOf(c, cycleNs)

(* When setCyclePeriod() is not at work, and behind it when it is, every     *)
(* channel has the fields that buildRT() would have given it for the period  *)
(* the backend reports.                                                      *)
FieldsFollow == \A c \in Channels : setAt = 0 \/ c < setAt => Agrees(c)

(* The inductive invariant behind FieldsFollow: of the fields of the channel *)
(* it is at, setCyclePeriod() has written what is not left.                  *)
FieldsInv ==
  /\ cycleNs \in Nat
  /\ toggle \in [Channels -> Int]
  /\ high \in [Channels -> Int]
  /\ increment \in [Channels -> Int]
  /\ setAt \in Channels \cup {0}
  /\ setTo \in [toggle : Int, high : Int]
  /\ setLeft \in SUBSET {"toggle", "high"}
  /\ \A c \in Channels \ Periodic : c \in Square => high[c] = HighOf(c, toggle[c])
  /\ setLeft # {} =>
       /\ setAt \in Periodic
       /\ setTo.toggle \in CyclesOf(setAt, cycleNs)
       /\ setTo.high = HighOf(setAt, setTo.toggle)
       /\ "toggle" \notin setLeft => toggle[setAt] = setTo.toggle
       /\ "high" \notin setLeft => high[setAt] = setTo.high
  /\ FieldsFollow

(* A square wave with both a high and a low part turns at least once in a    *)
(* period, also after a change that left its tick beyond the end of it.      *)
NeverStuck ==
  \A c \in Square :
    0 < high[c] /\ high[c] < toggle[c] /\ toggle[c] < MaxCount =>
      run[c] <= toggle[c] \/ since[c] <= toggle[c]

(* From the second turn after a change of its fields on, a square wave is    *)
(* high for highCycles and low for the rest of the period, wherever in the   *)
(* hook and between which two writes the change fell.                        *)
TurnsInTime ==
  [][\A c \in Square :
       isHigh'[c] # isHigh[c] /\ turns[c] >= 2 /\ toggle[c] < MaxCount =>
         run[c] = IF isHigh[c] THEN high[c] ELSE toggle[c] - high[c]]_vars
===============================================================================
