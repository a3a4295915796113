------------------------- MODULE SignalProcessProofs -------------------------
(***************************************************************************)
(* Theorems about SignalProcess, for every duration, settling time and     *)
(* length of the cycles.  The inductive invariant ties the machines' own   *)
(* timestamps to what was sampled and when a pulse was begun.              *)
(***************************************************************************)
EXTENDS SignalProcess, TLAPS

(* What relates the histories to the machines' own state. *)
Machines ==
  /\ samples = [value |-> rawInput, since |-> settleStart]
  /\ boolVal = settledV
  /\ settled => settledV = rawInput
  /\ step \in {"process", "write"} /\ nowNs - settleStart >= Settle => settled
  /\ active => Duration > 0 /\ expiresAt = armedAt + Duration
  /\ Duration > 0 /\ pin => active

Inv == TypeOK /\ Machines

LEMMA InitInv == Init => Inv
<1> SUFFICES ASSUME Init PROVE TypeOK /\ Machines
  BY DEF Inv
<1>1. TypeOK
  <2>1. /\ clock \in Nat /\ nowNs \in 0..clock /\ settleStart \in 0..nowNs
        /\ expiresAt \in 0..(nowNs + Duration) /\ armedAt \in 0..nowNs
        /\ samples \in [value : BOOLEAN, since : 0..nowNs]
    BY DurationAssumption DEF Init
  <2> QED
    BY <2>1, Zenon DEF Init, TypeOK
<1>2. Machines
  BY Zenon DEF Init, Machines
<1> QED
  BY <1>1, <1>2

(* read(): the only step that touches the debounce machine. *)
LEMMA ReadInv == Inv /\ Read => Inv'
<1> SUFFICES ASSUME Inv, Read PROVE Inv'
  OBVIOUS
<1> USE DurationAssumption, BoundAssumption
  DEF Inv, TypeOK, Machines, Read, Filter, Restarted, SettleStart, Settled, pulse
<1>1. /\ rawInput' = level
      /\ settleStart' = IF level # rawInput THEN nowNs ELSE settleStart
      /\ settled' \in BOOLEAN /\ settledV' \in BOOLEAN
      /\ boolVal' = settledV'
  OBVIOUS
<1>2. samples' = [value |-> rawInput', since |-> settleStart']
  BY <1>1
<1>3. settled' => settledV' = rawInput'
  BY <1>1
<1>4. nowNs - settleStart' >= Settle => settled'
  BY <1>1
<1>5. TypeOK'
  BY <1>1, <1>2
<1> QED
  BY <1>1, <1>2, <1>3, <1>4, <1>5

(* setBool(): the only step that starts a pulse. *)
LEMMA SetBoolInv == Inv /\ (\E v \in BOOLEAN : SetBool(v)) => Inv'
<1> SUFFICES ASSUME Inv, NEW v \in BOOLEAN, SetBool(v) PROVE Inv'
  OBVIOUS
<1> USE DurationAssumption, BoundAssumption
  DEF Inv, TypeOK, Machines, SetBool, Arm, Armed, debounce
<1>1. CASE Duration > 0
  <2>1. /\ active' \in BOOLEAN /\ latched' = latched
        /\ active' => expiresAt' = armedAt' + Duration
        /\ expiresAt' \in 0..(nowNs + Duration)
        /\ armedAt' \in 0..nowNs
    BY <1>1
  <2> QED
    BY <1>1, <2>1
<1>2. CASE ~(Duration > 0)
  BY <1>2
<1> QED
  BY <1>1, <1>2

(* writeAll(): the only step that ends one. *)
LEMMA WriteInv == Inv /\ Write => Inv'
<1> SUFFICES ASSUME Inv, Write PROVE Inv'
  OBVIOUS
<1>1. /\ active' \in BOOLEAN /\ pin' \in BOOLEAN
      /\ active' => active
      /\ Duration > 0 /\ pin' => active'
  BY Zenon DEF Inv, TypeOK, Write, PulseTick
<1>2. /\ step' = "tick" /\ latched' = latched /\ expiresAt' = expiresAt
      /\ UNCHANGED <<clock, nowNs, level, debounce, boolVal, armedAt, samples>>
  BY DEF Write, PulseTick
<1> QED
  BY <1>1, <1>2 DEF Inv, TypeOK, Machines, debounce

(* The top of the cycle: what was no later than the timestamp still is. *)
LEMMA TickNowInv == Inv /\ TickNow => Inv'
<1> SUFFICES ASSUME Inv, TickNow PROVE Inv'
  OBVIOUS
<1>1. /\ clock \in Nat /\ nowNs \in 0..clock
      /\ settleStart \in 0..nowNs /\ armedAt \in 0..nowNs
      /\ expiresAt \in 0..(nowNs + Duration)
  BY DEF Inv, TypeOK
<1>2. /\ step' = "read"
      /\ UNCHANGED <<clock, level, debounce, boolVal, pulse, pin, armedAt, samples>>
  BY Zenon DEF TickNow
<1>3. nowNs' = nowNs \/ nowNs' = clock
  BY DEF TickNow
<1>4. /\ nowNs' \in 0..clock'
      /\ settleStart' \in 0..nowNs' /\ armedAt' \in 0..nowNs'
      /\ expiresAt' \in 0..(nowNs' + Duration)
  BY <1>1, <1>2, <1>3, DurationAssumption DEF debounce, pulse
<1>5. samples' \in [value : BOOLEAN, since : 0..nowNs']
  BY <1>2, <1>4 DEF Inv, TypeOK, Machines, debounce
<1>6. TypeOK'
  BY <1>2, <1>4, <1>5 DEF Inv, TypeOK, debounce, pulse
<1>7. Machines'
  BY <1>2 DEF Inv, Machines, debounce, pulse
<1> QED
  BY <1>6, <1>7 DEF Inv

LEMMA OtherInv ==
  Inv /\ (Elapse \/ LevelChange \/ TickNow \/ ProcessDone \/ UNCHANGED vars) => Inv'
<1> SUFFICES ASSUME Inv, Elapse \/ LevelChange \/ TickNow \/ ProcessDone \/ UNCHANGED vars
             PROVE Inv'
  OBVIOUS
<1> USE DurationAssumption, BoundAssumption
  DEF Inv, TypeOK, Machines, debounce, pulse
<1>1. CASE Elapse
  BY <1>1 DEF Elapse
<1>2. CASE LevelChange
  BY <1>2 DEF LevelChange
<1>3. CASE TickNow
  BY <1>3, TickNowInv
<1>4. CASE ProcessDone
  BY <1>4 DEF ProcessDone
<1>5. CASE UNCHANGED vars
  BY <1>5 DEF vars
<1> QED
  BY <1>1, <1>2, <1>3, <1>4, <1>5

LEMMA StepInv == Inv /\ [Next]_vars => Inv'
BY ReadInv, SetBoolInv, WriteInv, OtherInv DEF Next, Cycle

LEMMA InvAlways == Spec => []Inv
BY InitInv, StepInv, PTL DEF Spec

-------------------------------------------------------------------------------
(* The types of the timestamps: none is ahead of the clock it was read from. *)
THEOREM TypeCorrect == Spec => []TypeOK
<1>1. Inv => TypeOK
  BY DEF Inv
<1> QED
  BY <1>1, InvAlways, PTL

(* At every sample that shows the input stable for the settling time, the    *)
(* debounced value is that of the samples.                                   *)
THEOREM SettlesPromptly == Spec => []DebouncePrompt
<1>1. Inv => DebouncePrompt
  BY DEF Inv, TypeOK, Machines, DebouncePrompt
<1> QED
  BY <1>1, InvAlways, PTL

(* The debounced value changes only to one that was stable.                  *)
THEOREM ChangesWhenStable == Spec => DebounceStable
<1>1. Inv /\ [Next]_vars =>
        [boolVal' # boolVal =>
           /\ boolVal' = samples'.value
           /\ nowNs - samples'.since >= Settle]_vars
  <2> SUFFICES ASSUME Inv, Next, boolVal' # boolVal
               PROVE  boolVal' = samples'.value /\ nowNs - samples'.since >= Settle
    BY DEF vars
  <2>1. Read
    BY DEF Next, Cycle, Elapse, LevelChange, SetBool, TickNow, ProcessDone, Write
  <2>2. samples' = [value |-> rawInput', since |-> settleStart']
    BY <2>1, ReadInv DEF Inv, Machines
  <2> QED
    BY <2>1, <2>2 DEF Inv, Machines, TypeOK, Read, Filter, Restarted, SettleStart, Settled
<1> QED
  BY <1>1, InvAlways, PTL DEF Spec, DebounceStable

(* A pulse lasts its duration, and a request made meanwhile does not extend  *)
(* it.                                                                       *)
THEOREM PulsesLast == Spec => PulseLength
<1>1. Inv /\ [Next]_vars =>
        [Duration > 0 =>
           /\ pin /\ ~pin' => nowNs >= armedAt + Duration
           /\ step = "write" /\ step' = "tick" /\ pin' => nowNs < armedAt + Duration]_vars
  <2> SUFFICES ASSUME Inv, Next, Duration > 0
               PROVE  /\ pin /\ ~pin' => nowNs >= armedAt + Duration
                      /\ step = "write" /\ step' = "tick" /\ pin' => nowNs < armedAt + Duration
    BY DEF vars
  <2>1. CASE Write
    <3>1. /\ pin /\ ~pin' => active /\ Expired
          /\ pin' => active /\ ~Expired
      BY <2>1, Zenon DEF Inv, Machines, Write, PulseTick
    <3>2. active => expiresAt = armedAt + Duration
      BY DEF Inv, Machines
    <3> QED
      BY <3>1, <3>2, DurationAssumption DEF Inv, TypeOK, Expired
  <2>2. CASE ~Write
    <3>1. pin' = pin /\ ~(step = "write" /\ step' = "tick")
      BY <2>2 DEF Next, Cycle, Elapse, LevelChange, SetBool, TickNow, Read, ProcessDone
    <3> QED
      BY <3>1 DEF Inv, TypeOK
  <2> QED
    BY <2>1, <2>2
<1> QED
  BY <1>1, InvAlways, PTL DEF Spec, PulseLength

(* A pulse is written out at least once, however long the cycle.             *)
THEOREM PulsesReachThePin == Spec => PulseSeen
<1>1. Inv /\ [Next]_vars =>
        [step = "write" /\ step' = "tick" /\ active /\ armedAt = nowNs => pin']_vars
  <2> SUFFICES ASSUME Inv, Next, step = "write", step' = "tick", active, armedAt = nowNs
               PROVE  pin'
    BY DEF vars
  <2>1. Write
    BY DEF Next, Cycle, Elapse, LevelChange, SetBool, TickNow, Read, ProcessDone
  <2>2. Duration > 0 /\ ~Expired
    BY DurationAssumption DEF Inv, TypeOK, Machines, Expired
  <2> QED
    BY <2>1, <2>2, Zenon DEF Write, PulseTick
<1> QED
  BY <1>1, InvAlways, PTL DEF Spec, PulseSeen
===============================================================================
