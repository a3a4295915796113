------------------------ MODULE SimulatedBackendProofs ------------------------
(***************************************************************************)
(* The simulated backend.  First its waves: the fields of the channels     *)
(* follow the cycle period, for every definitions file and every sequence  *)
(* of changes.  Then the definitions file: for every file and every writer *)
(* the two readings of it agree and the entries lie apart.                 *)
(***************************************************************************)
EXTENDS SimulatedWaves, SimulatedDefinitions, WellFoundedInduction, TLAPS

(* What SetField(), SetPhase() and SetSkip() leave behind them: the next     *)
(* channel, or none when that was the last.                                  *)
LEMMA NextChannel ==
  ASSUME setAt \in Channels, SetNext
  PROVE  /\ setAt' \in Channels \cup {0}
         /\ setTo' \in [toggle : Int, high : Int]
         /\ setLeft' = {}
         /\ \A c \in Channels : setAt' = 0 \/ c < setAt' => c <= setAt
  <1>1. /\ Len(Definitions) \in Nat
        /\ Channels = 1..Len(Definitions)
    BY DefinitionsAssumption DEF Channels
  <1> QED  BY <1>1 DEF SetNext, Nowhere

LEMMA Typed ==
  /\ Channels \subseteq Nat \ {0}
  /\ \A c \in Channels : Definitions[c] \in SimChannelDef
  BY DefinitionsAssumption DEF Channels

LEMMA CyclesInt ==
  ASSUME NEW c \in Channels, NEW ns \in Nat
  PROVE  CyclesOf(c, ns) \subseteq Int
  <1>1. Definitions[c].togglePeriodMs \in Nat
    BY Typed DEF SimChannelDef
  <1> QED  BY <1>1 DEF CyclesOf

LEMMA HighInt ==
  ASSUME NEW c \in Channels, NEW n \in Int
  PROVE  HighOf(c, n) \in Int
  <1>1. Definitions[c].dutyCyclePercent \in Nat
    BY Typed DEF SimChannelDef
  <1> QED  BY <1>1 DEF HighOf

LEMMA IncrementInt ==
  ASSUME NEW c \in Channels, NEW ns \in Nat
  PROVE  IncrementOf(c, ns) \in Int
  <1>1. Definitions[c].frequencyHz \in Nat
    BY Typed DEF SimChannelDef
  <1> QED  BY <1>1 DEF IncrementOf, FrequencyHz

LEMMA KindsApart ==
  /\ Channels \subseteq Nat \ {0}
  /\ Square \subseteq Channels /\ Sine \subseteq Channels
  /\ Periodic \subseteq Square
  /\ Square \cap Sine = {}
  <1>1. Channels \subseteq Nat \ {0}
    BY Typed
  <1>2. Square \subseteq Channels /\ Sine \subseteq Channels /\ Periodic \subseteq Square
    BY DEF Square, Sine, Periodic
  <1>3. Square \cap Sine = {}
    BY DEF Square, Sine
  <1> QED  BY <1>1, <1>2, <1>3

LEMMA FieldsInit == Init => FieldsInv
  <1> SUFFICES ASSUME Init  PROVE FieldsInv
    OBVIOUS
  <1>1. cycleNs \in Nat
    BY CyclesAssumption DEF Init
  <1>2. \A c \in Square : CyclesOf(c, cycleNs) \subseteq Int
    BY <1>1, CyclesInt, KindsApart
  <1>3. toggle \in [Channels -> Int]
    BY <1>2 DEF Init
  <1>4. high \in [Channels -> Int]
    BY <1>3, HighInt DEF Init
  <1>5. increment \in [Channels -> Int]
    BY <1>1, IncrementInt DEF Init
  <1>6. \A c \in Channels : Agrees(c)
    BY KindsApart DEF Init, Agrees
  <1>7. setTo \in [toggle : Int, high : Int]
    BY DEF Init, Nowhere
  <1> QED
    BY <1>1, <1>3, <1>4, <1>5, <1>6, <1>7 DEF Init, FieldsInv, FieldsFollow, Agrees

LEMMA FieldsStep == FieldsInv /\ [Next]_vars => FieldsInv'
  <1> SUFFICES ASSUME FieldsInv, [Next]_vars  PROVE FieldsInv'
    OBVIOUS
  <1>1. ASSUME UNCHANGED <<fields, setter>>  PROVE FieldsInv'
    BY <1>1 DEF FieldsInv, FieldsFollow, Agrees, fields, setter
  <1>2. ASSUME NEW ns \in Requests, SetBegin(ns)  PROVE FieldsInv'
    <2>1. ns \in Nat \ {0} /\ cycleNs' = ns /\ setAt' = 1 /\ setLeft = {} /\ setLeft' = {}
      BY <1>2, CyclesAssumption, KindsApart DEF SetBegin, FieldsInv
    <2>2. 1 \in Channels
      BY DefinitionsAssumption DEF Channels
    <2>3. UNCHANGED <<toggle, high, increment, setTo>>
      BY <1>2 DEF SetBegin, fields
    <2>4. FieldsFollow'
      BY <2>1, KindsApart DEF FieldsFollow
    <2> QED  BY <2>1, <2>2, <2>3, <2>4 DEF FieldsInv
  <1>3. CASE SetCompute
    <2>1. PICK t \in CyclesOf(setAt, cycleNs) :
            setTo' = [toggle |-> t, high |-> HighOf(setAt, t)]
      BY <1>3 DEF SetCompute
    <2>2. UNCHANGED <<toggle, high, increment, cycleNs, setAt>>
            /\ setAt \in Periodic /\ setLeft' = {"toggle", "high"}
      BY <1>3 DEF SetCompute, fields
    <2>3. t \in Int
      BY <2>1, <2>2, CyclesInt, KindsApart DEF FieldsInv
    <2>4. HighOf(setAt, t) \in Int
      BY <2>2, <2>3, HighInt, KindsApart
    <2>5. FieldsFollow'
      BY <2>2 DEF FieldsFollow, Agrees, FieldsInv
    <2> QED  BY <2>1, <2>2, <2>3, <2>4, <2>5 DEF FieldsInv
  <1>4. ASSUME NEW f \in {"toggle", "high"}, SetField(f)  PROVE FieldsInv'
    <2>1. /\ UNCHANGED <<increment, cycleNs>>
          /\ f \in setLeft /\ setAt \in Periodic /\ setAt \in Channels
          /\ setTo.toggle \in Int /\ setTo.high \in Int
      BY <1>4, KindsApart DEF SetField, FieldsInv
    <2>2. PICK i \in Periodic : i = setAt
      BY <2>1
    <2>3. i \in Square /\ i \in Channels /\ i \notin Sine
      BY KindsApart
    <2>4. /\ toggle' = IF f = "toggle" THEN [toggle EXCEPT ![i] = setTo.toggle] ELSE toggle
          /\ high' = IF f = "high" THEN [high EXCEPT ![i] = setTo.high] ELSE high
      BY <1>4, <2>2 DEF SetField
    <2>5. toggle' \in [Channels -> Int] /\ high' \in [Channels -> Int]
      BY <2>1, <2>4 DEF FieldsInv
    <2>6. \A c \in Channels : c # i => toggle'[c] = toggle[c] /\ high'[c] = high[c]
      BY <2>4 DEF FieldsInv
    <2>7. \A c \in Channels : c # i => (Agrees(c) => Agrees(c)')
      BY <2>1, <2>6 DEF Agrees
    <2>8. \A c \in Channels \ Periodic : c \in Square => high'[c] = HighOf(c, toggle'[c])
      BY <2>6 DEF FieldsInv
    <2>9. CASE setLeft = {f}
      <3>1. SetNext
        BY <1>4, <2>9 DEF SetField
      <3>2. toggle'[i] = setTo.toggle /\ high'[i] = setTo.high
        BY <2>2, <2>3, <2>4, <2>9 DEF FieldsInv
      <3>3. Agrees(i)'
        BY <2>1, <2>2, <2>3, <3>2 DEF Agrees, FieldsInv
      <3>4. \A c \in Channels : c <= setAt => Agrees(c)'
        <4> SUFFICES ASSUME NEW c \in Channels, c <= setAt, c # i  PROVE Agrees(c)'
          BY <3>3
        <4>1. c < setAt
          BY <2>1, <2>2, KindsApart
        <4> QED  BY <2>7, <4>1 DEF FieldsInv, FieldsFollow
      <3>5. \A c \in Channels : setAt' = 0 \/ c < setAt' => Agrees(c)'
        BY <2>1, <3>1, <3>4, NextChannel
      <3>6. FieldsFollow'
        BY <3>5 DEF FieldsFollow
      <3> QED  BY <2>1, <2>5, <2>8, <3>1, <3>6, NextChannel DEF FieldsInv
    <2>10. CASE setLeft # {f}
      <3>1. setLeft' = setLeft \ {f} /\ UNCHANGED <<setAt, setTo>>
        BY <1>4, <2>10 DEF SetField
      <3>2. \A c \in Channels : setAt' = 0 \/ c < setAt' => Agrees(c)'
        <4> SUFFICES ASSUME NEW c \in Channels, setAt' = 0 \/ c < setAt'  PROVE Agrees(c)'
          OBVIOUS
        <4>1. c < setAt /\ c # i
          BY <2>1, <2>2, <3>1, KindsApart
        <4> QED  BY <2>7, <4>1 DEF FieldsInv, FieldsFollow
      <3>3. FieldsFollow'
        BY <3>2 DEF FieldsFollow
      <3>4. /\ "toggle" \notin setLeft' => toggle'[i] = setTo.toggle
            /\ "high" \notin setLeft' => high'[i] = setTo.high
        BY <2>1, <2>2, <2>3, <2>4, <3>1 DEF FieldsInv
      <3> QED  BY <2>1, <2>2, <2>5, <2>8, <3>1, <3>3, <3>4 DEF FieldsInv
    <2> QED  BY <2>9, <2>10
  <1>5. CASE SetPhase
    <2>1. PICK i \in Sine : i = setAt
      BY <1>5 DEF SetPhase
    <2>2. /\ increment' = [increment EXCEPT ![i] = IncrementOf(i, cycleNs)]
          /\ SetNext
          /\ UNCHANGED <<toggle, high, cycleNs>>
          /\ i \in Channels /\ i \notin Square /\ setAt \in Channels
      BY <1>5, <2>1, KindsApart DEF SetPhase
    <2>3. increment' \in [Channels -> Int]
      BY <2>2, IncrementInt DEF FieldsInv
    <2>4. Agrees(i)'
      BY <2>2, KindsApart DEF Agrees, FieldsInv
    <2>5. \A c \in Channels : c <= setAt => Agrees(c)'
      <3> SUFFICES ASSUME NEW c \in Channels, c <= setAt, c # i  PROVE Agrees(c)'
        BY <2>4
      <3>1. c < setAt
        BY <2>1, <2>2, KindsApart
      <3>2. Agrees(c) /\ increment'[c] = increment[c]
        BY <2>2, <3>1 DEF FieldsInv, FieldsFollow
      <3> QED  BY <2>2, <3>2 DEF Agrees
    <2>6. FieldsFollow'
      BY <2>2, <2>5, NextChannel DEF FieldsFollow
    <2> QED  BY <2>2, <2>3, <2>6, NextChannel DEF FieldsInv
  <1>6. CASE SetSkip
    <2>1. /\ UNCHANGED <<toggle, high, increment, cycleNs>>
          /\ SetNext
          /\ setAt \in Channels \ (Periodic \cup Sine)
      BY <1>6 DEF SetSkip, fields
    <2>2. Agrees(setAt)
      BY <2>1 DEF Agrees, FieldsInv
    <2>3. \A c \in Channels : c <= setAt => Agrees(c)
      BY <2>1, <2>2, KindsApart DEF FieldsInv, FieldsFollow
    <2>4. \A c \in Channels : c <= setAt => Agrees(c)'
      BY <2>1, <2>3 DEF Agrees
    <2>5. FieldsFollow'
      BY <2>1, <2>4, NextChannel DEF FieldsFollow
    <2> QED  BY <2>1, <2>5, NextChannel DEF FieldsInv
  <1>7. ASSUME HookSkip \/ HookBegin \/ HookCompare \/ HookCount \/ HookSawtooth \/ HookSine
        PROVE  FieldsInv'
    BY <1>1, <1>7 DEF HookSkip, HookBegin, HookCompare, HookCount, HookSawtooth, HookSine
  <1>8. CASE UNCHANGED vars
    BY <1>1, <1>8 DEF vars
  <1> QED
    BY <1>2, <1>3, <1>4, <1>5, <1>6, <1>7, <1>8 DEF Next

(* The fields and the half-done writes of setCyclePeriod() belong together.  *)
THEOREM FieldsInvariant == Spec => []FieldsInv
  BY FieldsInit, FieldsStep, PTL DEF Spec

(* Every channel has the fields that belong to the cycle period the backend  *)
(* reports, for every file and every sequence of setCyclePeriod() calls;     *)
(* while a call is at work, the channels behind it do.                       *)
THEOREM FieldsFollowPeriod == Spec => []FieldsFollow
  <1>1. FieldsInv => FieldsFollow
    BY DEF FieldsInv
  <1> QED  BY <1>1, FieldsInvariant, PTL
-------------------------------------------------------------------------------
(* Types and ranges. *)

LEMMA TurnNat == Turn \in Nat
  BY SMT DEF Turn

LEMMA NatProduct == \A m, n \in Nat : m * n \in Nat
  OBVIOUS

LEMMA NatQuotient == \A m \in Nat, n \in Nat \ {0} : m \div n \in Nat
  OBVIOUS

LEMMA CyclesNat ==
  ASSUME NEW c \in Channels, NEW ns \in Nat
  PROVE  CyclesOf(c, ns) \subseteq Nat
  <1> DEFINE wanted == Definitions[c].togglePeriodMs * 1000000
             exact == wanted \div ns
  <1>1. Definitions[c].togglePeriodMs \in Nat
    BY Typed DEF SimChannelDef
  <1>2. wanted \in Nat
    BY <1>1, SMT
  <1>5. CyclesOf(c, ns) = IF wanted = 0 THEN {0}
                          ELSE IF ns = 0 THEN 0..MaxCycles
                          ELSE IF exact > MaxCycles THEN 0..MaxCycles
                          ELSE {exact} \cup {n \in {exact - 1} : n >= 0 /\ exact * ns = wanted}
    BY SMT DEF CyclesOf
  <1> HIDE DEF wanted
  <1>3. ns # 0 => exact \in Nat
    BY <1>2, NatQuotient
  <1> HIDE DEF exact
  <1> QED  BY <1>3, <1>5, CyclesAssumption

LEMMA HighNat ==
  ASSUME NEW c \in Channels, NEW n \in Nat
  PROVE  HighOf(c, n) \in Nat
  <1>1. Definitions[c].dutyCyclePercent \in Nat
    BY Typed DEF SimChannelDef
  <1>2. n * Definitions[c].dutyCyclePercent \in Nat
    BY <1>1, NatProduct
  <1> QED  BY <1>2, NatQuotient DEF HighOf

LEMMA IncrementNat ==
  ASSUME NEW c \in Channels, NEW ns \in Nat
  PROVE  IncrementOf(c, ns) \in Nat
  <1>1. FrequencyHz(c) \in Nat
    BY Typed DEF SimChannelDef, FrequencyHz
  <1> QED  BY <1>1, NatProduct DEF IncrementOf

(* The cycle times the backend can have. *)
Allowed == FileCycles \cup {r \in Requests : r <= MaxCycleNs}

(* No sine wave advances by more than a turn. *)
Slow == Sampled => \A c \in Sine : increment[c] <= Turn

TypeInv ==
  /\ TypeOK
  /\ cycleNs \in Allowed
  /\ Slow
  /\ setLeft # {} => setAt \in Channels

LEMMA TypeInit == Init => TypeInv
  <1> SUFFICES ASSUME Init  PROVE TypeInv
    OBVIOUS
  <1>1. cycleNs \in Nat /\ cycleNs \in Allowed
    BY CyclesAssumption DEF Init, Allowed
  <1>2. \A c \in Square : CyclesOf(c, cycleNs) \subseteq Nat
    BY <1>1, CyclesNat, KindsApart
  <1>3. toggle \in [Channels -> Nat]
    BY <1>2 DEF Init
  <1>4. high \in [Channels -> Nat]
    BY <1>3, HighNat DEF Init
  <1>5. increment \in [Channels -> Nat]
    BY <1>1, IncrementNat DEF Init
  <1>6. Slow
    BY <1>1, KindsApart DEF Init, Slow, Sampled, Allowed
  <1>7. 1 \in Channels
    BY DefinitionsAssumption DEF Channels
  <1>8. \A c \in Sawtooth : c \in Channels
    BY DEF Sawtooth
  <1>9. /\ tick \in [Channels -> Nat] /\ isHigh \in [Channels -> BOOLEAN]
        /\ \A c \in Sawtooth : intValue[c] = 0
    BY <1>8 DEF Init
  <1>10. phase \in [Channels -> 0..Turn]
    BY TurnNat DEF Init
  <1>11. 0 \in 0..MaxCount
    BY CyclesAssumption
  <1>12. /\ run \in [Channels -> 0..MaxCount] /\ turns \in [Channels -> 0..MaxCount]
         /\ since \in [Channels -> 0..MaxCount]
    BY <1>11 DEF Init
  <1>13. setTo \in [toggle : Nat, high : Nat]
    BY DEF Init, Nowhere
  <1>14. at = 1 /\ stage = "begin" /\ setAt = 0 /\ setLeft = {}
    BY DEF Init
  <1>15. TypeOK
    BY <1>1, <1>3, <1>4, <1>5, <1>7, <1>9, <1>10, <1>12, <1>13, <1>14 DEF TypeOK
  <1> QED
    BY <1>1, <1>6, <1>14, <1>15 DEF TypeInv

LEMMA HookPlace ==
  ASSUME at \in Channels, HookNext
  PROVE  at' \in Channels /\ stage' = "begin"
  <1>1. Len(Definitions) \in Nat /\ Channels = 1..Len(Definitions)
    BY DefinitionsAssumption DEF Channels
  <1> QED  BY <1>1 DEF HookNext

LEMMA SetPlace ==
  ASSUME setAt \in Channels, SetNext
  PROVE  /\ setAt' \in Channels \cup {0}
         /\ setTo' \in [toggle : Nat, high : Nat]
         /\ setLeft' = {}
  <1>1. Len(Definitions) \in Nat /\ Channels = 1..Len(Definitions)
    BY DefinitionsAssumption DEF Channels
  <1> QED  BY <1>1 DEF SetNext, Nowhere

LEMMA CountedBound == \A n \in 0..MaxCount : Counted(n) \in 0..MaxCount /\ Counted(n) <= n + 1
  BY CyclesAssumption DEF Counted

LEMMA TypeStep == TypeInv /\ [Next]_vars => TypeInv'
  <1> SUFFICES ASSUME TypeInv, [Next]_vars  PROVE TypeInv'
    OBVIOUS
  <1> USE DEF TypeInv
  <1>1. CASE HookSkip
    BY <1>1, HookPlace DEF HookSkip, TypeOK, Slow, fields, waves, setter, history
  <1>2. CASE HookBegin
    BY <1>2 DEF HookBegin, TypeOK, Slow, fields, waves, setter, history
  <1>3. CASE HookCompare
    <2>1. isHigh' \in [Channels -> BOOLEAN]
      BY <1>3 DEF HookCompare, TypeOK, ShouldBeHigh
    <2>2. since' \in [Channels -> 0..MaxCount]
      BY <1>3, CountedBound DEF HookCompare, TypeOK
    <2>3. run' \in [Channels -> 0..MaxCount] /\ turns' \in [Channels -> 0..MaxCount]
      <3>1. CASE isHigh'[at] = isHigh[at]
        BY <1>3, <3>1, CountedBound DEF HookCompare, TypeOK
      <3>2. CASE isHigh'[at] # isHigh[at]
        <4>1. MaxCount \in Nat
          BY CyclesAssumption
        <4>2. run' = [run EXCEPT ![at] = 1] /\ turns' = [turns EXCEPT ![at] = Counted(@)]
          BY <1>3, <3>2 DEF HookCompare
        <4>3. MaxCount >= 1
          BY CyclesAssumption
        <4> QED  BY <4>1, <4>2, <4>3, CountedBound DEF TypeOK
      <3> QED  BY <3>1, <3>2
    <2> QED
      BY <1>3, <2>1, <2>2, <2>3 DEF HookCompare, TypeOK, Slow, fields, setter
  <1>4. CASE HookCount
    <2>1. NextTick(at) \in Nat
      BY DEF TypeOK, NextTick
    <2>2. tick' \in [Channels -> Nat]
      BY <1>4, <2>1 DEF HookCount, TypeOK
    <2> QED
      BY <1>4, <2>2, HookPlace DEF HookCount, TypeOK, Slow, fields, setter, history
  <1>5. CASE HookSawtooth
    <2> DEFINE d == Definitions[at]
    <2>1. /\ at \in Sawtooth /\ at \in Channels
          /\ d.minValue \in Int /\ d.maxValue \in Int /\ d.incrementPerCycle \in Int
          /\ d.minValue <= d.maxValue
      BY <1>5, Typed, DefinitionsAssumption DEF HookSawtooth, TypeOK, SimChannelDef
    <2>2. \E v \in d.minValue..d.maxValue : intValue' = [intValue EXCEPT ![at] = v]
      <3> DEFINE next == intValue[at] + d.incrementPerCycle
                 v == IF next > d.maxValue THEN d.minValue
                      ELSE IF next < d.minValue THEN d.maxValue ELSE next
      <3>1. next \in Int
        BY <2>1 DEF TypeOK
      <3>2. v \in d.minValue..d.maxValue
        BY <2>1, <3>1
      <3>3. intValue' = [intValue EXCEPT ![at] = v]
        BY <1>5 DEF HookSawtooth
      <3> HIDE DEF v
      <3> QED  BY <3>2, <3>3
    <2>3. \A c \in Sawtooth : intValue'[c] \in {0} \cup Definitions[c].minValue..Definitions[c].maxValue
      BY <2>1, <2>2 DEF TypeOK
    <2> QED
      BY <1>5, <2>3, HookPlace DEF HookSawtooth, TypeOK, Slow, fields, setter, history
  <1>6. CASE HookSine
    <2>1. Sampled => phase' \in [Channels -> 0..Turn]
      <3> SUFFICES ASSUME Sampled  PROVE phase' \in [Channels -> 0..Turn]
        OBVIOUS
      <3>1. at \in Channels /\ phase[at] \in 0..Turn
        BY DEF TypeOK
      <3>2. increment[at] \in Nat /\ increment[at] <= Turn
        BY <1>6, <3>1 DEF HookSine, TypeOK, Slow
      <3>3. Advanced(phase[at], increment[at]) \in 0..Turn
        BY <3>1, <3>2, TurnNat DEF Advanced
      <3>4. phase' = [phase EXCEPT ![at] = Advanced(phase[at], increment[at])]
        BY <1>6 DEF HookSine
      <3> QED  BY <3>3, <3>4 DEF TypeOK
    <2> QED
      BY <1>6, <2>1, HookPlace DEF HookSine, TypeOK, Slow, Sampled, fields, setter, history
  <1>7. ASSUME NEW ns \in Requests, SetBegin(ns)  PROVE TypeInv'
    <2>1. ns \in Nat \ {0} /\ ns \in Allowed
      BY <1>7, CyclesAssumption DEF SetBegin, Allowed
    <2>2. 1 \in Channels
      BY DefinitionsAssumption DEF Channels
    <2> QED
      BY <1>7, <2>1, <2>2 DEF SetBegin, TypeOK, Slow, fields, waves, hook, history
  <1>8. CASE SetCompute
    <2>1. PICK t \in CyclesOf(setAt, cycleNs) :
            setTo' = [toggle |-> t, high |-> HighOf(setAt, t)]
      BY <1>8 DEF SetCompute
    <2>2. setAt \in Channels
      BY <1>8, KindsApart DEF SetCompute
    <2>3. t \in Nat
      BY <2>2, CyclesNat DEF TypeOK
    <2>4. setTo' \in [toggle : Nat, high : Nat]
      BY <2>1, <2>2, <2>3, HighNat
    <2> QED
      BY <1>8, <2>2, <2>4 DEF SetCompute, TypeOK, Slow, fields, waves, hook, history
  <1>9. ASSUME NEW f \in {"toggle", "high"}, SetField(f)  PROVE TypeInv'
    <2>1. setAt \in Channels /\ setTo.toggle \in Nat /\ setTo.high \in Nat
      BY <1>9 DEF SetField, TypeOK
    <2>2. toggle' \in [Channels -> Nat] /\ high' \in [Channels -> Nat]
      BY <1>9, <2>1 DEF SetField, TypeOK
    <2>3. 0 \in 0..MaxCount
      BY CyclesAssumption
    <2>4. turns' \in [Channels -> 0..MaxCount] /\ since' \in [Channels -> 0..MaxCount]
      BY <1>9, <2>1, <2>3 DEF SetField, TypeOK
    <2>5. /\ setAt' \in Channels \cup {0} /\ setTo' \in [toggle : Nat, high : Nat]
          /\ setLeft' \subseteq {"toggle", "high"} /\ (setLeft' # {} => setAt' \in Channels)
      BY <1>9, <2>1, SetPlace DEF SetField, TypeOK
    <2> QED
      BY <1>9, <2>2, <2>4, <2>5 DEF SetField, TypeOK, Slow, waves, hook
  <1>10. CASE SetPhase
    <2>1. setAt \in Sine /\ setAt \in Channels
      BY <1>10, KindsApart DEF SetPhase
    <2>2. IncrementOf(setAt, cycleNs) \in Nat
      BY <2>1, IncrementNat DEF TypeOK
    <2>3. Sampled => IncrementOf(setAt, cycleNs) <= Turn
      BY <2>1 DEF Sampled, Allowed
    <2>4. increment' = [increment EXCEPT ![setAt] = IncrementOf(setAt, cycleNs)]
      BY <1>10 DEF SetPhase
    <2>5. increment' \in [Channels -> Nat] /\ Slow'
      BY <2>1, <2>2, <2>3, <2>4, KindsApart DEF TypeOK, Slow, Sampled
    <2> QED
      BY <1>10, <2>1, <2>5, SetPlace DEF SetPhase, TypeOK, waves, hook, history
  <1>11. CASE SetSkip
    <2>1. setAt \in Channels
      BY <1>11 DEF SetSkip
    <2> QED
      BY <1>11, <2>1, SetPlace DEF SetSkip, TypeOK, Slow, fields, waves, hook, history
  <1>12. CASE UNCHANGED vars
    BY <1>12 DEF vars, TypeOK, Slow, fields, waves, hook, setter, history
  <1> QED
    BY <1>1, <1>2, <1>3, <1>4, <1>5, <1>6, <1>7, <1>8, <1>9, <1>10, <1>11, <1>12 DEF Next

(* The values stay in their ranges: a sawtooth between its limits once it    *)
(* has moved, and a sine within its turn when no cycle time that is let      *)
(* through makes it skip one.                                                *)
THEOREM WavesTyped == Spec => []TypeOK
  <1>1. TypeInv => TypeOK
    BY DEF TypeInv
  <1> QED  BY <1>1, TypeInit, TypeStep, PTL DEF Spec

-------------------------------------------------------------------------------
(* A square wave keeps turning. *)

(* Channel c has a high and a low part. *)
Turning(c) == 0 < high[c] /\ high[c] < toggle[c]

(* The hook has compared the tick of c and not yet counted it. *)
Compared(c) == at = c /\ stage = "count"

(* Tick t is the last one compared: the wave is where that tick is, and has  *)
(* not run on for longer than since the period began, or since its fields    *)
(* were last written.                                                        *)
AtTick(c, t) ==
  /\ isHigh[c] <=> t < high[c]
  /\ since[c] <= 1 \/ t < toggle[c]
  /\ since[c] <= t + 1 \/ run[c] <= t + 1

(* The last tick compared was the last of a period. *)
AtEnd(c) ==
  /\ ~isHigh[c]
  /\ since[c] <= toggle[c] \/ run[c] <= toggle[c]

TurnInv(c) ==
  Turning(c) /\ since[c] # 0 =>
    /\ Compared(c) => AtTick(c, tick[c])
    /\ ~Compared(c) /\ tick[c] = 0 => AtEnd(c)
    /\ ~Compared(c) /\ tick[c] # 0 => AtTick(c, tick[c] - 1) /\ tick[c] < toggle[c]

StuckInv == \A c \in Channels : TurnInv(c)

LEMMA Integers ==
  ASSUME TypeOK, NEW c \in Channels
  PROVE  /\ toggle[c] \in Nat /\ high[c] \in Nat /\ tick[c] \in Nat /\ isHigh[c] \in BOOLEAN
         /\ run[c] \in Nat /\ since[c] \in Nat
         /\ run[c] \in 0..MaxCount /\ since[c] \in 0..MaxCount
  BY CyclesAssumption DEF TypeOK

(* Nothing of a channel changes unless the hook or the setter is at it. *)
LEMMA SameTurn ==
  ASSUME NEW c \in Channels, TurnInv(c), Compared(c)' <=> Compared(c),
         toggle'[c] = toggle[c], high'[c] = high[c], tick'[c] = tick[c],
         isHigh'[c] = isHigh[c], run'[c] = run[c], since'[c] = since[c]
  PROVE  TurnInv(c)'
  BY DEF TurnInv, Turning, AtTick, AtEnd

LEMMA CompareTurn ==
  ASSUME TypeOK, NEW c \in Channels, TurnInv(c), at = c, HookCompare
  PROVE  TurnInv(c)'
  <1>1. /\ toggle'[c] = toggle[c] /\ high'[c] = high[c] /\ tick'[c] = tick[c]
        /\ ~Compared(c) /\ Compared(c)'
    BY DEF HookCompare, fields, Compared
  <1>2. isHigh'[c] <=> tick[c] < high[c]
    BY DEF HookCompare, ShouldBeHigh, TypeOK
  <1>3. since'[c] = Counted(since[c])
    BY DEF HookCompare, TypeOK
  <1>4. run'[c] = IF isHigh'[c] # isHigh[c] THEN 1 ELSE Counted(run[c])
    BY DEF HookCompare, TypeOK
  <1>5. since'[c] <= since[c] + 1 /\ since'[c] \in Nat
    BY <1>3, Integers, CountedBound, CyclesAssumption
  <1>6. run'[c] = 1 \/ (isHigh'[c] = isHigh[c] /\ run'[c] <= run[c] + 1)
    BY <1>4, Integers, CountedBound
  <1>7. run'[c] \in Nat
    BY <1>4, Integers, CountedBound, CyclesAssumption
  <1> SUFFICES ASSUME Turning(c)  PROVE AtTick(c, tick[c])'
    BY <1>1 DEF TurnInv, Turning
  <1>8. CASE since[c] = 0
    BY <1>1, <1>2, <1>5, <1>8, Integers DEF AtTick
  <1>9. CASE since[c] # 0 /\ tick[c] = 0
    <2>1. ~isHigh[c]
      BY <1>1, <1>9 DEF TurnInv, AtEnd
    <2>2. isHigh'[c]
      BY <1>2, <1>9 DEF Turning
    <2>3. run'[c] = 1
      BY <1>6, <2>1, <2>2
    <2> QED  BY <1>1, <1>2, <1>9, <2>3, Integers DEF AtTick, Turning
  <1>10. CASE since[c] # 0 /\ tick[c] # 0
    <2>1. AtTick(c, tick[c] - 1) /\ tick[c] < toggle[c]
      BY <1>1, <1>10 DEF TurnInv
    <2>2. since[c] <= tick[c] \/ run[c] <= tick[c]
      BY <2>1, Integers DEF AtTick
    <2>3. since'[c] <= tick[c] + 1 \/ run'[c] <= tick[c] + 1
      BY <1>5, <1>6, <1>7, <2>2, Integers
    <2> QED  BY <1>1, <1>2, <2>1, <2>3 DEF AtTick
  <1> QED  BY <1>8, <1>9, <1>10

LEMMA CountTurn ==
  ASSUME TypeOK, NEW c \in Channels, TurnInv(c), at = c, HookCount
  PROVE  TurnInv(c)'
  <1>1. /\ toggle'[c] = toggle[c] /\ high'[c] = high[c] /\ isHigh'[c] = isHigh[c]
        /\ run'[c] = run[c] /\ since'[c] = since[c]
        /\ tick'[c] = NextTick(c) /\ Compared(c) /\ ~Compared(c)'
    BY DEF HookCount, HookNext, fields, history, Compared, TypeOK
  <1> SUFFICES ASSUME Turning(c), since[c] # 0
               PROVE  /\ tick'[c] = 0 => AtEnd(c)
                      /\ tick'[c] # 0 => AtTick(c, tick'[c] - 1) /\ tick'[c] < toggle[c]
    BY <1>1 DEF TurnInv, Turning, AtTick, AtEnd
  <1>2. AtTick(c, tick[c])
    BY <1>1 DEF TurnInv
  <1>3. CASE tick[c] + 1 >= toggle[c]
    <2>1. tick'[c] = 0
      BY <1>1, <1>3 DEF NextTick
    <2>2. ~isHigh[c]
      BY <1>2, <1>3, Integers DEF AtTick, Turning
    <2>3. since[c] <= toggle[c] \/ run[c] <= toggle[c]
      BY <1>2, <1>3, Integers DEF AtTick, Turning
    <2> QED  BY <2>1, <2>2, <2>3 DEF AtEnd
  <1>4. CASE ~(tick[c] + 1 >= toggle[c])
    <2>1. tick'[c] = tick[c] + 1 /\ tick'[c] - 1 = tick[c] /\ tick'[c] # 0
      BY <1>1, <1>4, Integers DEF NextTick
    <2> QED  BY <1>2, <1>4, <2>1, Integers
  <1> QED  BY <1>3, <1>4

LEMMA StuckStep == TypeInv /\ StuckInv /\ [Next]_vars => StuckInv'
  <1> SUFFICES ASSUME TypeInv, StuckInv, [Next]_vars, NEW c \in Channels
               PROVE  TurnInv(c)'
    BY DEF StuckInv
  <1>1. TypeOK /\ TurnInv(c)
    BY DEF TypeInv, StuckInv
  <1>2. CASE HookCompare
    <2>1. CASE at = c
      BY <1>1, <1>2, <2>1, CompareTurn
    <2>2. CASE at # c
      <3>1. /\ toggle'[c] = toggle[c] /\ high'[c] = high[c] /\ tick'[c] = tick[c]
            /\ isHigh'[c] = isHigh[c] /\ since'[c] = since[c]
            /\ ~Compared(c) /\ ~Compared(c)'
        BY <1>1, <1>2, <2>2 DEF HookCompare, fields, Compared, TypeOK
      <3>2. run'[c] = run[c]
        BY <1>1, <1>2, <2>2 DEF HookCompare, TypeOK
      <3> QED  BY <1>1, <3>1, <3>2, SameTurn
    <2> QED  BY <2>1, <2>2
  <1>3. CASE HookCount
    <2>1. CASE at = c
      BY <1>1, <1>3, <2>1, CountTurn
    <2>2. CASE at # c
      <3>1. /\ toggle'[c] = toggle[c] /\ high'[c] = high[c] /\ tick'[c] = tick[c]
            /\ isHigh'[c] = isHigh[c] /\ since'[c] = since[c] /\ run'[c] = run[c]
            /\ ~Compared(c) /\ ~Compared(c)'
        BY <1>1, <1>3, <2>2 DEF HookCount, HookNext, fields, history, Compared, TypeOK
      <3> QED  BY <1>1, <3>1, SameTurn
    <2> QED  BY <2>1, <2>2
  <1>4. CASE HookSkip \/ HookBegin \/ HookSawtooth \/ HookSine
    <2>1. /\ toggle'[c] = toggle[c] /\ high'[c] = high[c] /\ tick'[c] = tick[c]
          /\ isHigh'[c] = isHigh[c] /\ since'[c] = since[c] /\ run'[c] = run[c]
          /\ ~Compared(c) /\ ~Compared(c)'
      BY <1>4 DEF HookSkip, HookBegin, HookSawtooth, HookSine, HookNext, Compared, fields, waves,
                  history
    <2> QED  BY <1>1, <2>1, SameTurn
  <1>5. CASE (\E ns \in Requests : SetBegin(ns)) \/ SetCompute \/ SetPhase \/ SetSkip
    <2>1. /\ UNCHANGED <<toggle, high, tick, isHigh, since, run, at, stage>>
      BY <1>5 DEF SetBegin, SetCompute, SetPhase, SetSkip, fields, waves, hook, history
    <2> QED  BY <1>1, <2>1, SameTurn DEF Compared
  <1>6. ASSUME NEW f \in {"toggle", "high"}, SetField(f)  PROVE TurnInv(c)'
    <2>1. setAt \in Channels /\ UNCHANGED <<waves, hook, run>>
      BY <1>6 DEF SetField, TypeInv
    <2>2. CASE setAt = c
      <3>1. since'[c] = 0
        BY <1>1, <1>6, <2>1, <2>2 DEF SetField, TypeOK
      <3> QED  BY <3>1 DEF TurnInv
    <2>3. CASE setAt # c
      <3>1. toggle'[c] = toggle[c] /\ high'[c] = high[c] /\ since'[c] = since[c]
        BY <1>1, <1>6, <2>3 DEF SetField, TypeOK
      <3> QED  BY <1>1, <2>1, <3>1, SameTurn DEF Compared, waves, hook
    <2> QED  BY <2>2, <2>3
  <1>7. CASE UNCHANGED vars
    <2>1. UNCHANGED <<toggle, high, tick, isHigh, since, run, at, stage>>
      BY <1>7 DEF vars, fields, waves, hook, history
    <2> QED  BY <1>1, <2>1, SameTurn DEF Compared
  <1> QED  BY <1>2, <1>3, <1>4, <1>5, <1>6, <1>7 DEF Next

LEMMA NotStuck == TypeInv /\ StuckInv => NeverStuck
  <1> SUFFICES ASSUME TypeInv, StuckInv, NEW c \in Square, 0 < high[c], high[c] < toggle[c]
               PROVE  run[c] <= toggle[c] \/ since[c] <= toggle[c]
    BY DEF NeverStuck
  <1>1. c \in Channels /\ TypeOK /\ TurnInv(c) /\ Turning(c)
    BY KindsApart DEF TypeInv, StuckInv, Turning
  <1>2. CASE since[c] = 0
    BY <1>1, <1>2, Integers
  <1>3. CASE since[c] # 0 /\ Compared(c)
    BY <1>1, <1>3, Integers DEF TurnInv, AtTick
  <1>4. CASE since[c] # 0 /\ ~Compared(c) /\ tick[c] = 0
    BY <1>1, <1>4 DEF TurnInv, AtEnd
  <1>5. CASE since[c] # 0 /\ ~Compared(c) /\ tick[c] # 0
    BY <1>1, <1>5, Integers DEF TurnInv, AtTick
  <1> QED  BY <1>2, <1>3, <1>4, <1>5

(* No square wave with a high and a low part stops turning, whatever moment  *)
(* of the hook a change of its period falls on, and whichever of its two     *)
(* fields the hook sees first.                                               *)
THEOREM NoWaveStuck == Spec => []NeverStuck
  <1>1. Init => StuckInv
    BY DEF Init, StuckInv, TurnInv
  <1> QED  BY <1>1, TypeInit, TypeStep, StuckStep, NotStuck, PTL DEF Spec

-------------------------------------------------------------------------------
(* A square wave turns in time. *)

(* How long the wave has run at tick t of its period. *)
RunAt(c, t) == IF t < high[c] THEN t + 1 ELSE t - high[c] + 1

(* Tick t is the last one compared: after two turns it is within the period, *)
(* and the wave has run since this period, or its low part, began.           *)
ExactAt(c, t) ==
  /\ isHigh[c] <=> t < high[c]
  /\ turns[c] >= 2 => t < toggle[c]
  /\ turns[c] >= 2 /\ Turning(c) /\ toggle[c] < MaxCount => run[c] = RunAt(c, t)

(* The last tick compared was the last of a period. *)
ExactEnd(c) ==
  /\ Turning(c) => ~isHigh[c]
  /\ high[c] = 0 => ~isHigh[c]
  /\ turns[c] >= 2 /\ Turning(c) /\ toggle[c] < MaxCount => run[c] = toggle[c] - high[c]
  /\ turns[c] >= 2 /\ high[c] >= toggle[c] => isHigh[c]

ExactInv(c) ==
  /\ since[c] = 0 => turns[c] = 0
  /\ since[c] # 0 =>
       /\ at = c /\ stage = "compare" => toggle[c] # 0
       /\ Compared(c) => ExactAt(c, tick[c])
       /\ ~Compared(c) /\ tick[c] = 0 => ExactEnd(c)
       /\ ~Compared(c) /\ tick[c] # 0 => ExactAt(c, tick[c] - 1) /\ tick[c] < toggle[c]

InTime(c) ==
  isHigh'[c] # isHigh[c] /\ turns[c] >= 2 /\ toggle[c] < MaxCount =>
    run[c] = IF isHigh[c] THEN high[c] ELSE toggle[c] - high[c]

LEMMA TurnsNat ==
  ASSUME TypeOK, NEW c \in Channels
  PROVE  turns[c] \in 0..MaxCount /\ turns[c] \in Nat
  BY CyclesAssumption DEF TypeOK

LEMMA SameExact ==
  ASSUME NEW c \in Channels, ExactInv(c), Compared(c)' <=> Compared(c),
         at' = c /\ stage' = "compare" => (at = c /\ stage = "compare") \/ toggle[c] # 0,
         toggle'[c] = toggle[c], high'[c] = high[c], tick'[c] = tick[c],
         isHigh'[c] = isHigh[c], run'[c] = run[c], since'[c] = since[c], turns'[c] = turns[c]
  PROVE  ExactInv(c)' /\ InTime(c)
  BY DEF ExactInv, Turning, ExactAt, ExactEnd, RunAt, InTime

LEMMA CompareExact ==
  ASSUME TypeOK, NEW c \in Channels, ExactInv(c), at = c, HookCompare
  PROVE  ExactInv(c)' /\ InTime(c)
  <1>1. /\ toggle'[c] = toggle[c] /\ high'[c] = high[c] /\ tick'[c] = tick[c]
        /\ at = c /\ stage = "compare" /\ stage' = "count"
        /\ ~Compared(c) /\ Compared(c)'
    BY DEF HookCompare, fields, Compared
  <1>2. isHigh'[c] \in BOOLEAN /\ (isHigh'[c] <=> tick[c] < high[c])
    <2>1. isHigh'[c] = (tick[c] < high[c])
      BY DEF HookCompare, ShouldBeHigh, TypeOK
    <2>2. (tick[c] < high[c]) \in BOOLEAN
      BY Integers
    <2> QED  BY <2>1, <2>2, Zenon
  <1>3. since'[c] # 0
    BY Integers, CyclesAssumption DEF HookCompare, TypeOK, Counted
  <1>4. CASE isHigh'[c] # isHigh[c]
    <2>1. run'[c] = 1 /\ turns'[c] <= turns[c] + 1 /\ turns'[c] \in Nat
      BY <1>4, TurnsNat, CountedBound, CyclesAssumption DEF HookCompare, TypeOK
    <2>2. CASE since[c] = 0
      <3>1. turns[c] = 0
        BY <2>2 DEF ExactInv
      <3> QED  BY <1>1, <1>2, <1>3, <2>1, <3>1 DEF ExactInv, ExactAt, InTime
    <2>3. CASE since[c] # 0 /\ tick[c] = 0
      <3>1. ExactEnd(c) /\ toggle[c] # 0
        BY <1>1, <2>3 DEF ExactInv
      <3>2. CASE Turning(c)
        <4>1. ~isHigh[c] /\ isHigh'[c] /\ tick[c] < toggle[c] /\ RunAt(c, tick[c]) = 1
          BY <1>2, <2>3, <3>1, <3>2, Integers DEF ExactEnd, Turning, RunAt
        <4>2. InTime(c)
          BY <3>1, <3>2, <4>1 DEF ExactEnd, InTime
        <4>3. ExactAt(c, tick[c])'
          BY <1>1, <1>2, <2>1, <4>1 DEF ExactAt, RunAt
        <4> QED  BY <1>1, <1>3, <4>2, <4>3 DEF ExactInv
      <3>3. CASE ~Turning(c)
        <4>1. high[c] # 0
          BY <1>2, <1>4, <2>3, <3>1, Integers DEF ExactEnd
        <4>2. high[c] >= toggle[c]
          BY <3>3, <4>1, Integers DEF Turning
        <4>3. isHigh'[c] /\ tick[c] < toggle[c]
          BY <1>2, <2>3, <3>1, <4>1, Integers
        <4>4. ~(turns[c] >= 2)
          BY <1>4, <3>1, <4>2, <4>3, Integers DEF ExactEnd
        <4>5. ExactAt(c, tick[c])'
          BY <1>1, <1>2, <3>3, <4>3 DEF ExactAt, Turning
        <4> QED  BY <1>1, <1>3, <4>4, <4>5 DEF ExactInv, InTime
      <3> QED  BY <3>2, <3>3
    <2>4. CASE since[c] # 0 /\ tick[c] # 0
      <3>1. ExactAt(c, tick[c] - 1) /\ tick[c] < toggle[c]
        BY <1>1, <2>4 DEF ExactInv
      <3>2. isHigh[c] /\ ~isHigh'[c] /\ tick[c] = high[c] /\ Turning(c)
        BY <1>2, <1>4, <2>4, <3>1, Integers DEF ExactAt, Turning
      <3>3. InTime(c)
        BY <2>4, <3>1, <3>2, Integers DEF ExactAt, RunAt, InTime
      <3>4. ExactAt(c, tick[c])'
        BY <1>1, <1>2, <2>1, <3>1, <3>2, Integers DEF ExactAt, RunAt
      <3> QED  BY <1>1, <1>3, <3>3, <3>4 DEF ExactInv
    <2> QED  BY <2>2, <2>3, <2>4
  <1>5. CASE isHigh'[c] = isHigh[c]
    <2>1. run'[c] = Counted(run[c]) /\ turns'[c] = turns[c]
      BY <1>5 DEF HookCompare, TypeOK
    <2> SUFFICES ExactAt(c, tick[c])'
      BY <1>1, <1>3, <1>5 DEF ExactInv, InTime
    <2>2. CASE since[c] = 0
      <3>1. turns[c] = 0
        BY <2>2 DEF ExactInv
      <3> QED  BY <1>1, <1>2, <2>1, <3>1 DEF ExactAt
    <2>3. CASE since[c] # 0 /\ tick[c] = 0
      <3>1. ExactEnd(c) /\ toggle[c] # 0
        BY <1>1, <2>3 DEF ExactInv
      <3>2. ~Turning(c) /\ tick[c] < toggle[c]
        BY <1>2, <1>5, <2>3, <3>1, Integers DEF ExactEnd, Turning
      <3> QED  BY <1>1, <1>2, <3>2 DEF ExactAt, Turning
    <2>4. CASE since[c] # 0 /\ tick[c] # 0
      <3>1. ExactAt(c, tick[c] - 1) /\ tick[c] < toggle[c]
        BY <1>1, <2>4 DEF ExactInv
      <3>2. ASSUME turns[c] >= 2, Turning(c), toggle[c] < MaxCount
            PROVE  run'[c] = RunAt(c, tick[c])
        <4>1. run[c] = RunAt(c, tick[c] - 1)
          BY <3>1, <3>2 DEF ExactAt
        <4>2. RunAt(c, tick[c]) = RunAt(c, tick[c] - 1) + 1 /\ run[c] < MaxCount
          BY <1>2, <1>5, <2>4, <3>1, <3>2, <4>1, Integers, CyclesAssumption
             DEF ExactAt, RunAt, Turning
        <4> QED  BY <2>1, <4>1, <4>2 DEF Counted
      <3> QED  BY <1>1, <1>2, <2>1, <3>1, <3>2 DEF ExactAt, Turning, RunAt
    <2> QED  BY <2>2, <2>3, <2>4
  <1> QED  BY <1>4, <1>5

LEMMA CountExact ==
  ASSUME TypeOK, NEW c \in Channels, ExactInv(c), at = c, HookCount
  PROVE  ExactInv(c)' /\ InTime(c)
  <1>1. /\ toggle'[c] = toggle[c] /\ high'[c] = high[c] /\ isHigh'[c] = isHigh[c]
        /\ run'[c] = run[c] /\ since'[c] = since[c] /\ turns'[c] = turns[c]
        /\ tick'[c] = NextTick(c) /\ Compared(c) /\ ~Compared(c)' /\ stage' = "begin"
    BY DEF HookCount, HookNext, fields, history, Compared, TypeOK
  <1> SUFFICES ASSUME since[c] # 0
               PROVE  /\ tick'[c] = 0 => ExactEnd(c)
                      /\ tick'[c] # 0 => ExactAt(c, tick'[c] - 1) /\ tick'[c] < toggle[c]
    BY <1>1 DEF ExactInv, Turning, ExactAt, ExactEnd, RunAt, InTime
  <1>2. ExactAt(c, tick[c])
    BY <1>1 DEF ExactInv
  <1>3. CASE tick[c] + 1 >= toggle[c]
    <2>1. tick'[c] = 0
      BY <1>1, <1>3 DEF NextTick
    <2>2. (Turning(c) \/ high[c] = 0) => ~isHigh[c]
      BY <1>2, <1>3, Integers DEF ExactAt, Turning
    <2>3. turns[c] >= 2 => tick[c] = toggle[c] - 1
      BY <1>2, <1>3, Integers DEF ExactAt
    <2>4. turns[c] >= 2 /\ Turning(c) /\ toggle[c] < MaxCount => run[c] = toggle[c] - high[c]
      BY <1>2, <2>3, Integers DEF ExactAt, Turning, RunAt
    <2>5. turns[c] >= 2 /\ high[c] >= toggle[c] => isHigh[c]
      BY <1>2, <2>3, Integers DEF ExactAt
    <2> QED  BY <2>1, <2>2, <2>4, <2>5 DEF ExactEnd
  <1>4. CASE ~(tick[c] + 1 >= toggle[c])
    <2>1. tick'[c] = tick[c] + 1 /\ tick'[c] - 1 = tick[c] /\ tick'[c] # 0
      BY <1>1, <1>4, Integers DEF NextTick
    <2> QED  BY <1>2, <1>4, <2>1, Integers
  <1> QED  BY <1>3, <1>4

LEMMA ExactStep ==
  ASSUME TypeInv, NEW c \in Channels, ExactInv(c), [Next]_vars
  PROVE  ExactInv(c)' /\ InTime(c)
  <1>1. TypeOK
    BY DEF TypeInv
  <1>2. CASE HookCompare
    <2>1. CASE at = c
      BY <1>1, <1>2, <2>1, CompareExact
    <2>2. CASE at # c
      <3>1. /\ toggle'[c] = toggle[c] /\ high'[c] = high[c] /\ tick'[c] = tick[c]
            /\ isHigh'[c] = isHigh[c] /\ since'[c] = since[c]
            /\ ~Compared(c) /\ ~Compared(c)' /\ at' = at
        BY <1>1, <1>2, <2>2 DEF HookCompare, fields, Compared, TypeOK
      <3>2. run'[c] = run[c] /\ turns'[c] = turns[c]
        BY <1>1, <1>2, <2>2 DEF HookCompare, TypeOK
      <3> QED  BY <2>2, <3>1, <3>2, SameExact
    <2> QED  BY <2>1, <2>2
  <1>3. CASE HookCount
    <2>1. CASE at = c
      BY <1>1, <1>3, <2>1, CountExact
    <2>2. CASE at # c
      <3>1. /\ toggle'[c] = toggle[c] /\ high'[c] = high[c] /\ tick'[c] = tick[c]
            /\ isHigh'[c] = isHigh[c] /\ since'[c] = since[c] /\ run'[c] = run[c]
            /\ turns'[c] = turns[c] /\ ~Compared(c) /\ ~Compared(c)' /\ stage' = "begin"
        BY <1>1, <1>3, <2>2 DEF HookCount, HookNext, fields, history, Compared, TypeOK
      <3> QED  BY <3>1, SameExact
    <2> QED  BY <2>1, <2>2
  <1>4. CASE HookBegin
    <2>1. /\ UNCHANGED <<toggle, high, tick, isHigh, since, run, turns, at>>
          /\ ~Compared(c) /\ ~Compared(c)' /\ toggle[at] > 0
      BY <1>4 DEF HookBegin, Compared, fields, waves, history
    <2>2. at' = c => toggle[c] # 0
      BY <1>1, <2>1, Integers
    <2> QED  BY <2>1, <2>2, SameExact
  <1>5. CASE HookSkip \/ HookSawtooth \/ HookSine
    <2>1. /\ toggle'[c] = toggle[c] /\ high'[c] = high[c] /\ tick'[c] = tick[c]
          /\ isHigh'[c] = isHigh[c] /\ since'[c] = since[c] /\ run'[c] = run[c]
          /\ turns'[c] = turns[c] /\ ~Compared(c) /\ ~Compared(c)' /\ stage' = "begin"
      BY <1>5 DEF HookSkip, HookSawtooth, HookSine, HookNext, Compared, fields, waves, history
    <2> QED  BY <2>1, SameExact
  <1>6. CASE (\E ns \in Requests : SetBegin(ns)) \/ SetCompute \/ SetPhase \/ SetSkip
    <2>1. UNCHANGED <<toggle, high, tick, isHigh, since, run, turns, at, stage>>
      BY <1>6 DEF SetBegin, SetCompute, SetPhase, SetSkip, fields, waves, hook, history
    <2> QED  BY <2>1, SameExact DEF Compared
  <1>7. ASSUME NEW f \in {"toggle", "high"}, SetField(f)  PROVE ExactInv(c)' /\ InTime(c)
    <2>1. setAt \in Channels /\ UNCHANGED <<waves, hook, run>>
      BY <1>7 DEF SetField, TypeInv
    <2>2. CASE setAt = c
      <3>1. since'[c] = 0 /\ turns'[c] = 0 /\ isHigh' = isHigh
        BY <1>1, <1>7, <2>1, <2>2 DEF SetField, TypeOK, waves
      <3> QED  BY <3>1 DEF ExactInv, InTime
    <2>3. CASE setAt # c
      <3>1. /\ toggle'[c] = toggle[c] /\ high'[c] = high[c] /\ since'[c] = since[c]
            /\ turns'[c] = turns[c]
        BY <1>1, <1>7, <2>3 DEF SetField, TypeOK
      <3> QED  BY <2>1, <3>1, SameExact DEF Compared, waves, hook
    <2> QED  BY <2>2, <2>3
  <1>8. CASE UNCHANGED vars
    <2>1. UNCHANGED <<toggle, high, tick, isHigh, since, run, turns, at, stage>>
      BY <1>8 DEF vars, fields, waves, hook, history
    <2> QED  BY <2>1, SameExact DEF Compared
  <1> QED  BY <1>2, <1>3, <1>4, <1>5, <1>6, <1>7, <1>8 DEF Next

(* From the second turn after a change of its fields on, a square wave is    *)
(* high and low for as long as these say.                                    *)
THEOREM WavesTurnInTime == Spec => TurnsInTime
  <1> DEFINE Exact == \A c \in Channels : ExactInv(c)
             Timely == \A c \in Square :
               isHigh'[c] # isHigh[c] /\ turns[c] >= 2 /\ toggle[c] < MaxCount =>
                 run[c] = IF isHigh[c] THEN high[c] ELSE toggle[c] - high[c]
  <1>1. Init => Exact
    BY DEF Init, ExactInv
  <1>2. TypeInv /\ Exact /\ [Next]_vars => Exact'
    BY ExactStep
  <1>3. TypeInv /\ Exact /\ [Next]_vars => [Timely]_vars
    BY ExactStep, KindsApart DEF InTime
  <1> QED  BY <1>1, <1>2, <1>3, TypeInit, TypeStep, PTL DEF Spec, TurnsInTime

-------------------------------------------------------------------------------
(* Induction and recursion over the positions of a sequence.  A set of       *)
(* positions has a first one: the library's theorem on minimal elements has  *)
(* no operator for a parameter.                                              *)
LEMMA LeastNatural ==
  ASSUME NEW S, S \subseteq Nat, S # {}
  PROVE  \E n \in S : \A k \in S : n <= k
<1> DEFINE R == OpToRel(<, Nat)
<1>1. IsWellFoundedOn(R, Nat)
  BY Zenon, NatLessThanWellFounded
<1>2. \A k, n \in Nat : k < n => <<k, n>> \in R
  BY Zenon DEF OpToRel
<1> HIDE DEF R
<1>3. PICK n \in S : \A k \in S : ~(<<k, n>> \in R)
  BY Zenon, <1>1, WFMin
<1>4. \A k \in S : ~(k < n)
  BY Zenon, <1>2, <1>3
<1>5. \A k \in S : n <= k
  BY <1>4
<1> QED
  BY Zenon, <1>5

(* The induction is over the set of the positions for which something holds: *)
(* the first one that is not in it has a predecessor that is.                *)
LEMMA PositionInduction ==
  ASSUME NEW N \in Nat, NEW P, 0 \in P,
         ASSUME NEW n \in 1..N, n - 1 \in P PROVE n \in P
  PROVE  0..N \subseteq P
<1> DEFINE Bad == (0..N) \ P
<1>1. CASE Bad = {}
  BY <1>1
<1>2. CASE Bad # {}
  <2>1. Bad \subseteq Nat
    OBVIOUS
  <2>2. PICK n \in Bad : \A k \in Bad : n <= k
    <3> HIDE DEF Bad
    <3> QED  BY <1>2, <2>1, LeastNatural
  <2>3. n \in 1..N /\ n - 1 \in 0..N /\ n \notin P
    BY <2>2
  <2>4. n - 1 \in P
    BY <2>2, <2>3
  <2> QED
    BY <2>3, <2>4
<1> QED
  BY <1>1, <1>2

(* There is a function for what is defined by recursion over the positions. *)
Recurs(g, N, S, base, step) ==
  /\ g \in [0..N -> S]
  /\ g[0] = base
  /\ \A n \in 1..N : g[n] = step[n][g[n - 1]]

LEMMA PositionRecursion ==
  ASSUME NEW N \in Nat, NEW S, NEW base \in S, NEW step \in [1..N -> [S -> S]]
  PROVE  \E g : Recurs(g, N, S, base, step)
<1> DEFINE Upto(m, g) == g[0] = base /\ \A n \in 1..m : g[n] = step[n][g[n - 1]]
           P == {m \in 0..N : \E g \in [0..m -> S] : Upto(m, g)}
<1>1. 0 \in P
  <2> DEFINE g == [i \in 0..0 |-> base]
  <2>1. g \in [0..0 -> S] /\ Upto(0, g)
    OBVIOUS
  <2>2. \E f \in [0..0 -> S] : Upto(0, f)
    <3> HIDE DEF g, Upto
    <3> QED  BY <2>1
  <2> QED
    BY <2>2
<1>2. ASSUME NEW n \in 1..N, n - 1 \in P
      PROVE  n \in P
  <2>1. PICK g \in [0..(n - 1) -> S] : Upto(n - 1, g)
    BY <1>2
  <2> DEFINE h == [i \in 0..n |-> IF i = n THEN step[n][g[n - 1]] ELSE g[i]]
  <2>2. step[n][g[n - 1]] \in S
    OBVIOUS
  <2>3. h \in [0..n -> S]
    BY <2>2
  <2>4. \A i \in 0..(n - 1) : h[i] = g[i]
    OBVIOUS
  <2>5. h[n] = step[n][g[n - 1]]
    OBVIOUS
  <2>6. h[0] = base
    BY <2>1, <2>4
  <2>7. ASSUME NEW i \in 1..n
        PROVE  h[i] = step[i][h[i - 1]]
    <3> HIDE DEF h
    <3>1. CASE i = n
      BY <2>4, <2>5, <3>1
    <3>2. CASE i # n
      <4>1. i \in 1..(n - 1) /\ i \in 0..(n - 1) /\ i - 1 \in 0..(n - 1)
        BY <3>2
      <4> QED
        BY <2>1, <2>4, <4>1
    <3> QED
      BY <3>1, <3>2
  <2>8. Upto(n, h)
    BY <2>6, <2>7
  <2>9. n \in 0..N
    OBVIOUS
  <2> QED
    BY <2>3, <2>8, <2>9
<1>3. 0..N \subseteq P
  <2> HIDE DEF P
  <2> QED  BY <1>1, <1>2, PositionInduction
<1>4. N \in P
  BY <1>3
<1> QED
  BY <1>4 DEF Recurs

-------------------------------------------------------------------------------
(* The two tables of types agree on what is an output, and no type is wider  *)
(* than what the loader reserves for it.                                     *)
SizeOf(c) == EntryByteSize(Loaded(c.type))

LEMMA LoadedType ==
  ASSUME NEW name
  PROVE  /\ Loaded(name) \in EntryType
         /\ IsOutput(Loaded(name)) <=> Scanned(name) = "out"
<1> DEFINE Types == Resolved \cup {NoType}
<1>1. /\ Loaded(name) \in Types
      /\ ResolvedOutputs \subseteq Resolved
      /\ NoType \notin ResolvedOutputs
  BY DEF Loaded, Resolved, ResolvedOutputs, NoType,
         BoolOutput, IntOutput, FloatOutput
<1>2. \A t \in Types : t \in EntryType
  <2>1. \A n \in {8, 16, 32} : IntInput(n) \in EntryType
    BY DEF IntInput, EntryType
  <2>2. \A n \in {8, 16, 32} : IntOutput(n) \in EntryType
    BY DEF IntOutput, EntryType
  <2>3. /\ BoolInput \in EntryType
        /\ BoolOutput \in EntryType
    BY DEF BoolInput, BoolOutput, EntryType
  <2>4. /\ FloatInput \in EntryType
        /\ FloatOutput \in EntryType
        /\ NoType \in EntryType
    BY DEF FloatInput, FloatOutput, NoType, EntryType
  <2> QED
    BY <2>1, <2>2, <2>3, <2>4 DEF Resolved
<1>3. \A t \in ResolvedOutputs : IsOutput(t)
  BY DEF ResolvedOutputs, IsOutput,
         BoolOutput, IntOutput, FloatOutput
<1>4. \A t \in Types : IsOutput(t) => t \in ResolvedOutputs
  BY DEF Resolved, ResolvedOutputs, NoType, IsOutput,
         BoolInput, BoolOutput, IntInput, IntOutput,
         FloatInput, FloatOutput
<1>5. Scanned(name) = "out" <=> name \in ResolvedOutputs
  BY DEF Scanned
<1>6. Loaded(name) \in ResolvedOutputs <=> name \in ResolvedOutputs
  BY <1>1 DEF Loaded
<1> QED
  BY <1>1, <1>2, <1>3, <1>4, <1>5, <1>6

LEMMA LoadedSize ==
  ASSUME NEW name
  PROVE  /\ EntryByteSize(Loaded(name)) \in Nat
         /\ Bytes(Loaded(name)) \in Nat
         /\ Bytes(Loaded(name)) <= EntryByteSize(Loaded(name))
<1> USE DEF Loaded, Resolved, NoType,
        EntryByteSize, Bytes, BoolInput, BoolOutput, IntInput,
        IntOutput, FloatInput, FloatOutput
<1>1. CASE name \in Resolved
  BY <1>1
<1>2. CASE name \notin Resolved
  BY <1>2
<1> QED
  BY <1>1, <1>2

(* The sizes of the channels of a file are summed up. *)
LEMMA LayoutBytes ==
  ASSUME NEW chs \in Seq(Channel)
  PROVE  /\ BytesOf(chs) \in [0..Len(chs) -> Nat]
         /\ BytesOf(chs)[0] = 0
         /\ \A n \in 1..Len(chs) :
              BytesOf(chs)[n] = BytesOf(chs)[n - 1] + SizeOf(chs[n])
<1> DEFINE N == Len(chs)
           B == BytesOf(chs)
           step == [n \in 1..N |-> [x \in Nat |-> x + SizeOf(chs[n])]]
           Sum(g) == [n \in 0..N |-> IF n = 0 THEN 0 ELSE g[n - 1] + SizeOf(chs[n])]
<1>1. N \in Nat /\ \A n \in 1..N : SizeOf(chs[n]) \in Nat
  BY LoadedSize DEF SizeOf
<1>2. step \in [1..N -> [Nat -> Nat]]
  BY <1>1
<1>3. PICK g : Recurs(g, N, Nat, 0, step)
  <2>1. 0 \in Nat
    OBVIOUS
  <2> HIDE DEF step, N
  <2>2. N \in Nat
    BY <1>1
  <2> QED  BY Zenon, <1>2, <2>1, <2>2, PositionRecursion
<1>4. g = Sum(g)
  <2>1. ASSUME NEW n \in 1..N
        PROVE  g[n] = g[n - 1] + SizeOf(chs[n])
    <3>1. n - 1 \in 0..N /\ g[n - 1] \in Nat
      BY <1>1, <1>3 DEF Recurs
    <3>2. step[n][g[n - 1]] = g[n - 1] + SizeOf(chs[n])
      BY <3>1
    <3> QED
      BY <1>3, <3>2 DEF Recurs
  <2>2. \A n \in 0..N : n = 0 \/ n \in 1..N
    BY <1>1
  <2> HIDE DEF step
  <2> QED
    BY <1>3, <2>1, <2>2 DEF Recurs
<1>5. B = CHOOSE f : f = Sum(f)
  BY DEF BytesOf, SizeOf
<1>6. B = Sum(B)
  <2> HIDE DEF B, Sum
  <2> QED  BY <1>4, <1>5
<1>7. B[0] = 0 /\ \A n \in 1..N : B[n] = B[n - 1] + SizeOf(chs[n])
  <2> HIDE DEF B
  <2>1. 0 \in 0..N /\ \A n \in 1..N : n \in 0..N /\ n # 0
    BY <1>1
  <2> QED  BY <1>6, <2>1
<1>8. 0..N \subseteq {n \in 0..N : B[n] \in Nat}
  <2> DEFINE P == {n \in 0..N : B[n] \in Nat}
  <2> HIDE DEF B
  <2>1. 0 \in P
    BY <1>1, <1>7
  <2>2. ASSUME NEW n \in 1..N, n - 1 \in P
        PROVE  n \in P
    BY <1>1, <1>7, <2>2
  <2> HIDE DEF P
  <2>3. 0..N \subseteq P
    BY <1>1, <2>1, <2>2, PositionInduction
  <2> QED
    BY <2>3 DEF P
<1>9. B \in [0..N -> Nat]
  <2> HIDE DEF B
  <2> QED  BY <1>6, <1>8
<1> QED
  BY <1>7, <1>9

(* No channel begins before the end of an earlier one. *)
LEMMA LayoutGrows ==
  ASSUME NEW chs \in Seq(Channel), NEW j \in 0..Len(chs), NEW i \in 0..j
  PROVE  BytesOf(chs)[i] <= BytesOf(chs)[j]
<1> DEFINE N == Len(chs)
           B == BytesOf(chs)
           P == {n \in 0..N : \A m \in 0..n : B[m] <= B[n]}
<1>1. N \in Nat /\ \A n \in 1..N : SizeOf(chs[n]) \in Nat
  BY LoadedSize DEF SizeOf
<1>2. B \in [0..N -> Nat] /\ \A n \in 1..N : B[n] = B[n - 1] + SizeOf(chs[n])
  BY LayoutBytes
<1> HIDE DEF N, B
<1>3. 0 \in P
  BY <1>1, <1>2
<1>4. ASSUME NEW n \in 1..N, n - 1 \in P
      PROVE  n \in P
  <2>1. n \in 0..N /\ n - 1 \in 0..N /\ B[n] \in Nat /\ B[n - 1] \in Nat
    BY <1>1, <1>2
  <2>2. B[n - 1] <= B[n]
    BY <1>1, <1>2, <2>1
  <2>3. ASSUME NEW m \in 0..n
        PROVE  B[m] <= B[n]
    <3>1. m \in 0..N /\ B[m] \in Nat
      BY <1>1, <1>2
    <3>2. CASE m = n
      BY <3>1, <3>2
    <3>3. CASE m # n
      <4>1. m \in 0..(n - 1)
        BY <3>3
      <4>2. B[m] <= B[n - 1]
        BY <1>4, <4>1
      <4> QED
        BY <2>1, <2>2, <3>1, <4>2
    <3> QED
      BY <3>2, <3>3
  <2> QED
    BY <2>1, <2>3
<1>5. 0..N \subseteq P
  <2> HIDE DEF P
  <2> QED  BY <1>1, <1>3, <1>4, PositionInduction
<1>6. j \in P
  BY <1>5 DEF N
<1> QED
  BY <1>6 DEF B

(* What buildRT() offers is part of what is mapped. *)
Mappable == [uuid : Uuids, type : MappedTypes]

LEMMA OfferedMapped ==
  ASSUME mapped \in Seq(Mappable)
  PROVE  Offered \in Seq(Mappable)
<1> DEFINE N == Len(mapped)
           S == Seq(Mappable)
           IsListed(n) == catalog[mapped[n].uuid] # "absent"
           step == [n \in 1..N |-> [x \in S |-> IF IsListed(n) THEN Append(x, mapped[n]) ELSE x]]
           Chosen(g) == [n \in 0..N |-> IF n = 0 THEN << >>
                                        ELSE IF catalog[mapped[n].uuid] = "absent" THEN g[n - 1]
                                        ELSE Append(g[n - 1], mapped[n])]
           F == CHOOSE f : f = Chosen(f)
<1>1. N \in Nat /\ << >> \in S /\ \A n \in 1..N : mapped[n] \in Mappable
  OBVIOUS
<1>2. step \in [1..N -> [S -> S]]
  <2>1. \A n \in 1..N : \A x \in S : Append(x, mapped[n]) \in S
    BY <1>1
  <2> HIDE DEF S, IsListed
  <2> QED
    BY <2>1
<1>3. PICK g : Recurs(g, N, S, << >>, step)
  <2> HIDE DEF step, N, S
  <2> QED  BY Zenon, <1>1, <1>2, PositionRecursion
<1>4. g = Chosen(g)
  <2>1. ASSUME NEW n \in 1..N
        PROVE  g[n] = IF catalog[mapped[n].uuid] = "absent" THEN g[n - 1]
                      ELSE Append(g[n - 1], mapped[n])
    <3>1. n - 1 \in 0..N /\ g[n - 1] \in S
      <4> HIDE DEF S, step
      <4> QED  BY <1>1, <1>3 DEF Recurs
    <3>2. step[n][g[n - 1]] = IF IsListed(n) THEN Append(g[n - 1], mapped[n]) ELSE g[n - 1]
      <4> HIDE DEF S, IsListed
      <4> QED  BY <3>1
    <3> QED
      BY <1>3, <3>2 DEF Recurs
  <2>2. \A n \in 0..N : n = 0 \/ n \in 1..N
    BY <1>1
  <2> HIDE DEF step, S
  <2> QED
    BY <1>3, <2>1, <2>2 DEF Recurs
<1>5. Offered = F[N]
  BY DEF Offered
<1>6. F = Chosen(F)
  <2> HIDE DEF Chosen
  <2> QED  BY <1>4
<1>7. 0..N \subseteq {n \in 0..N : F[n] \in S}
  <2> DEFINE P == {n \in 0..N : F[n] \in S}
  <2> HIDE DEF F
  <2>1. 0 \in P
    BY <1>1, <1>6
  <2>2. ASSUME NEW n \in 1..N, n - 1 \in P
        PROVE  n \in P
    <3>1. n \in 0..N /\ n # 0 /\ F[n - 1] \in S
      BY <1>1, <2>2
    <3>2. F[n] = F[n - 1] \/ F[n] = Append(F[n - 1], mapped[n])
      BY <1>6, <3>1
    <3>3. F[n] \in S
      <4>1. \A x \in S : Append(x, mapped[n]) \in S
        BY <1>1
      <4> HIDE DEF S, F
      <4> QED  BY <3>1, <3>2, <4>1
    <3> QED
      BY <3>1, <3>3
  <2> HIDE DEF P, S
  <2>3. 0..N \subseteq P
    BY <1>1, <2>1, <2>2, PositionInduction
  <2> QED
    BY <2>3 DEF P
<1>8. F[N] \in S
  <2> HIDE DEF F, S
  <2> QED  BY <1>1, <1>7
<1> QED
  BY <1>5, <1>8

-------------------------------------------------------------------------------
(* Entries that lie apart, in an image of this size. *)
Apart(es, size) ==
  \A i \in DOMAIN es :
    /\ Touched(es[i]) \subseteq 0..(size - 1)
    /\ \A j \in DOMAIN es : i # j => Touched(es[i]) \cap Touched(es[j]) = {}

(* The entries for a file, and those for narrow mapped channels, lie apart. *)
LEMMA FileEntriesApart ==
  ASSUME NEW chs \in Seq(Channel)
  PROVE  /\ FileEntries(chs) \in Seq(Entry)
         /\ BytesOf(chs)[Len(chs)] \in Nat
         /\ Apart(FileEntries(chs), BytesOf(chs)[Len(chs)])
<1> DEFINE N == Len(chs)
           B == BytesOf(chs)
           es == FileEntries(chs)
<1>1. /\ N \in Nat /\ DOMAIN chs = 1..N
      /\ \A n \in 1..N : chs[n] \in Channel
  OBVIOUS
<1>2. /\ B \in [0..N -> Nat]
      /\ \A n \in 1..N : B[n] = B[n - 1] + SizeOf(chs[n])
      /\ \A j \in 0..N : \A i \in 0..j : B[i] <= B[j]
  BY LayoutBytes, LayoutGrows
<1>3. es = [i \in 1..N |-> [uuid |-> Defaulted(chs[i].uuid), type |-> Loaded(chs[i].type),
                            offset |-> B[i - 1]]]
  BY <1>1 DEF FileEntries
<1> HIDE DEF N, B, es
<1>4. ASSUME NEW i \in 1..N
      PROVE  /\ es[i] \in Entry
             /\ Touched(es[i]) \subseteq B[i - 1]..(B[i] - 1)
  <2>1. i - 1 \in 0..N /\ i \in 0..N /\ B[i - 1] \in Nat /\ B[i] \in Nat
    BY <1>1, <1>2
  <2>2. Defaulted(chs[i].uuid) \in Uuids \cup {Blank, Unknown}
    BY <1>1 DEF Channel, Defaulted
  <2>3. /\ es[i].offset = B[i - 1] /\ es[i].type = Loaded(chs[i].type)
        /\ es[i] \in Entry
    BY <1>3, <2>1, <2>2, LoadedType DEF Entry
  <2>4. /\ Bytes(es[i].type) \in Nat /\ SizeOf(chs[i]) \in Nat
        /\ Bytes(es[i].type) <= SizeOf(chs[i])
    BY <2>3, LoadedSize DEF SizeOf
  <2>5. B[i] = B[i - 1] + SizeOf(chs[i])
    BY <1>2
  <2>6. Touched(es[i]) = B[i - 1]..(B[i - 1] + Bytes(es[i].type) - 1)
    BY <2>3 DEF Touched
  <2> QED
    BY <2>1, <2>3, <2>4, <2>5, <2>6
<1>5. DOMAIN es = 1..N /\ es \in Seq(Entry)
  <2>1. es = [i \in 1..N |-> es[i]]
    BY <1>3
  <2>2. es \in [1..N -> Entry]
    BY <1>4, <2>1
  <2> QED
    BY <1>1, <2>2
<1>6. N \in 0..N /\ B[N] \in Nat
  BY <1>1, <1>2
<1>7. ASSUME NEW i \in 1..N
      PROVE  Touched(es[i]) \subseteq 0..(B[N] - 1)
  <2>1. /\ i \in 0..N /\ i - 1 \in 0..N /\ N \in 0..N
        /\ B[i - 1] \in Nat /\ B[i] \in Nat /\ B[i] <= B[N]
    BY <1>1, <1>2, <1>6
  <2>2. B[i - 1]..(B[i] - 1) \subseteq 0..(B[N] - 1)
    BY <1>6, <2>1
  <2> QED
    BY <1>4, <2>2
<1>8. ASSUME NEW i \in 1..N, NEW j \in 1..N, i < j
      PROVE  Touched(es[i]) \cap Touched(es[j]) = {}
  <2>1. i \in 0..N /\ j - 1 \in 0..N /\ i - 1 \in 0..N /\ j \in 0..N /\ i \in 0..(j - 1)
    BY <1>1, <1>8
  <2>2. B[i - 1] \in Nat /\ B[i] \in Nat /\ B[j - 1] \in Nat /\ B[j] \in Nat /\ B[i] <= B[j - 1]
    BY <1>2, <2>1
  <2>3. \A a, b, c, d \in Nat : b <= c => (a..(b - 1)) \cap (c..(d - 1)) = {}
    OBVIOUS
  <2>4. (B[i - 1]..(B[i] - 1)) \cap (B[j - 1]..(B[j] - 1)) = {}
    BY <2>2, <2>3
  <2> QED
    BY Zenon, <1>4, <2>4
<1>9. ASSUME NEW i \in 1..N, NEW j \in 1..N, i # j
      PROVE  Touched(es[i]) \cap Touched(es[j]) = {}
  <2>1. i < j \/ j < i
    BY <1>1, <1>9
  <2> QED
    BY <1>8, <2>1
<1>10. Apart(es, B[N])
  BY <1>5, <1>7, <1>9 DEF Apart
<1> QED
  BY <1>5, <1>6, <1>10 DEF N, B, es

LEMMA BytesNat ==
  ASSUME NEW t \in EntryType
  PROVE  Bytes(t) \in Nat
<1>1. t.size \in {1, 8, 16, 32}
  BY DEF EntryType
<1>2. t.size \div 8 \in Nat
  BY <1>1
<1> QED
  BY <1>2 DEF Bytes

LEMMA MappedEntriesApart ==
  ASSUME mapped \in Seq(Mappable)
  PROVE  /\ MappedEntries \in Seq(Entry)
         /\ Len(Offered) \in Nat
         /\ (\A i \in DOMAIN MappedEntries :
               Bytes(MappedEntries[i].type) <= 1) =>
              Apart(MappedEntries, Len(Offered))
<1> DEFINE N == Len(Offered)
           chs == Offered
           es == MappedEntries
<1>1. /\ N \in Nat /\ DOMAIN chs = 1..N
      /\ \A n \in 1..N : chs[n] \in Mappable
  BY OfferedMapped
<1>2. es = [i \in 1..N |-> [uuid |-> Renamed, type |-> chs[i].type, offset |-> i - 1]]
  BY <1>1 DEF MappedEntries
<1> HIDE DEF N, chs, es
<1>3. ASSUME NEW i \in 1..N
      PROVE  /\ es[i] \in Entry
             /\ Bytes(es[i].type) \in Nat
             /\ Touched(es[i]) = (i - 1)..(i - 1 + Bytes(es[i].type) - 1)
  <2>1. chs[i].type \in EntryType
    BY <1>1, MappedTypesAssumption DEF Mappable
  <2>2. es[i].type = chs[i].type /\ es[i].offset = i - 1 /\ es[i] \in Entry
    BY <1>1, <1>2, <2>1 DEF Entry
  <2> QED
    BY <2>1, <2>2, BytesNat DEF Touched
<1>4. DOMAIN es = 1..N /\ es \in Seq(Entry)
  <2>1. es = [i \in 1..N |-> es[i]]
    BY <1>2
  <2>2. es \in [1..N -> Entry]
    BY <1>3, <2>1
  <2> QED
    BY <1>1, <2>2
<1>5. ASSUME \A i \in 1..N : Bytes(es[i].type) <= 1
      PROVE  Apart(es, N)
  <2>1. \A i \in 1..N : Touched(es[i]) \subseteq {i - 1}
    BY <1>3, <1>5
  <2>2. \A i \in 1..N : i - 1 \in 0..(N - 1)
    BY <1>1
  <2>3. \A i, j \in 1..N : i # j => i - 1 # j - 1
    BY <1>1
  <2> QED
    BY <1>4, <2>1, <2>2, <2>3 DEF Apart
<1> QED
  BY <1>1, <1>4, <1>5 DEF N, es

(* What the catalog says of a uuid. *)
LEMMA ListingSays ==
  ASSUME NEW chs \in Seq(Channel), NEW u
  PROVE  /\ Listing(chs, u) \in {"absent", "in", "out"}
         /\ Listing(chs, u) # "absent" <=> \E i \in DOMAIN chs : Identified(chs[i].uuid) = u
         /\ \A i \in DOMAIN chs :
              (/\ Identified(chs[i].uuid) = u
               /\ \A j \in DOMAIN chs : Identified(chs[j].uuid) = u => i = j) =>
                Listing(chs, u) = Scanned(chs[i].type)
<1> DEFINE with == {i \in DOMAIN chs : Identified(chs[i].uuid) = u}
           last == CHOOSE i \in with : \A j \in with : j <= i
<1>1. Listing(chs, u) = IF with = {} THEN "absent" ELSE Scanned(chs[last].type)
  BY DEF Listing
<1>2. \A name : Scanned(name) \in {"in", "out"}
  BY DEF Scanned
<1>3. ASSUME NEW i \in DOMAIN chs, Identified(chs[i].uuid) = u,
             \A j \in DOMAIN chs : Identified(chs[j].uuid) = u => i = j
      PROVE  Listing(chs, u) = Scanned(chs[i].type)
  <2>1. with = {i} /\ i \in Nat
    BY <1>3
  <2>2. last = i
    BY <2>1
  <2> QED
    BY <1>1, <2>1, <2>2
<1> QED
  BY <1>1, <1>2, <1>3

(* The uuid an entry is listed under is the one its channel got in the scan. *)
LEMMA UnderIdentified ==
  ASSUME NEW c \in Channel, NEW e, e.uuid = Defaulted(c.uuid)
  PROVE  Under(e) = Identified(c.uuid) /\ Under(e) \in Uuids
<1>1. c.uuid \in Uuids \cup {Missing, Blank}
  BY DEF Channel
<1>2. CASE c.uuid \in Uuids
  BY <1>2, UuidsAssumption DEF Defaulted, Under, Identified
<1>3. CASE c.uuid \in {Missing, Blank}
  BY <1>3, UuidsAssumption DEF Defaulted, Under, Identified
<1> QED
  BY <1>1, <1>2, <1>3

-------------------------------------------------------------------------------
(* The invariant of the definitions file: what the two readings found.       *)
Readings == DefinitionsInv /\ EntriesApart /\ CatalogServed

LEMMA ReadingsInit == DefInit => Readings
<1> SUFFICES ASSUME DefInit  PROVE Readings
  OBVIOUS
<1>1. mapped = << >> /\ entries = << >> /\ image = 0 /\ layout = "none" /\ builder = "new"
  BY DEF DefInit
<1>2. DefTypeOK
  <2>1. \A S : << >> \in Seq(S)
    OBVIOUS
  <2>2. catalog \in [Uuids -> {"absent", "in", "out"}]
    BY DEF DefInit
  <2> QED
    BY <2>1, <2>2 DEF DefInit, DefTypeOK
<1>3. CallsKept
  BY DEF DefInit, CallsKept
<1>4. EntriesApart /\ CatalogServed
  BY <1>1 DEF EntriesApart, CatalogServed
<1> QED
  BY <1>2, <1>3, <1>4 DEF Readings, DefinitionsInv

(* What is built stays as it is. *)
LEMMA BuiltStays ==
  ASSUME Readings, UNCHANGED built
  PROVE  EntriesApart'
<1> QED
  BY DEF Readings, EntriesApart, built, Touched

(* What a file has, and what the scan finds in it. *)
LEMMA FileChannels ==
  ASSUME NEW f \in Files
  PROVE  f.channels \in Seq(Channel) /\ f.form \in Forms
<1>1. f.channels \in UNION {[1..n -> Channel] : n \in 0..MaxChannels} /\ f.form \in Forms
  BY DEF Files
<1>2. PICK n \in 0..MaxChannels : f.channels \in [1..n -> Channel]
  BY <1>1
<1> QED
  BY <1>1, <1>2

LEMMA FoundChannels ==
  ASSUME DefTypeOK
  PROVE  /\ Parsed => file \in Files
         /\ Found \in Seq(Channel)
         /\ Parsed => ToBuild \in Seq(Channel)
<1>1. Parsed => file \in Files
  BY DEF DefTypeOK, Parsed
<1> QED
  BY <1>1, FileChannels DEF Found, ToBuild

LEMMA ReadingsStep == Readings /\ [DefNext]_defVars => Readings'
<1> SUFFICES ASSUME Readings, [DefNext]_defVars  PROVE Readings'
  OBVIOUS
<1> USE DEF Readings, DefinitionsInv, app, built
<1>1. CASE SaveOpen
  <2>1. DefTypeOK'
    BY <1>1 DEF SaveOpen, DefTypeOK
  <2>2. CallsKept'
    BY <1>1 DEF SaveOpen, DefTypeOK, CallsKept
  <2>3. CatalogServed'
    BY <1>1 DEF SaveOpen, CatalogServed, Alone, Under
  <2> QED
    BY <1>1, <2>1, <2>2, <2>3, BuiltStays DEF SaveOpen
<1>2. ASSUME NEW f \in Files, SaveWrite(f)
      PROVE  Readings'
  <2>1. DefTypeOK'
    BY <1>2 DEF SaveWrite, DefTypeOK
  <2>2. CallsKept'
    BY <1>2 DEF SaveWrite, CallsKept
  <2>3. CatalogServed'
    BY <1>2 DEF SaveWrite, CatalogServed, Alone, Under
  <2> QED
    BY <1>2, <2>1, <2>2, <2>3, BuiltStays DEF SaveWrite
<1>3. CASE Discover
  <2>1. \A u \in Uuids : Listing(Found, u) \in {"absent", "in", "out"}
    BY FoundChannels, ListingSays
  <2>2. catalog' \in [Uuids -> {"absent", "in", "out"}]
    BY <1>3, <2>1 DEF Discover, DefTypeOK
  <2>3. DefTypeOK'
    BY <1>3, <2>2 DEF Discover, DefTypeOK
  <2>4. Found' = Found
    BY <1>3 DEF Discover, Found, Parsed
  <2>5. CallsKept'
    <3>1. Found' # << >> => catalog' = [u \in Uuids |-> Listing(Found', u)]
      BY <1>3, <2>4 DEF Discover
    <3>2. file' # TornFile /\ builder' = "mapping" /\ layout' = "none"
      BY <1>3 DEF Discover, Unscannable, CallsKept
    <3> QED
      BY <3>1, <3>2 DEF CallsKept, Listing, Identified, Scanned
  <2>6. CatalogServed'
    BY <1>3 DEF Discover, CallsKept, CatalogServed
  <2> QED
    BY <1>3, <2>3, <2>5, <2>6, BuiltStays DEF Discover
<1>4. CASE ScanThrows
  <2>1. DefTypeOK'
    BY <1>4 DEF ScanThrows, DefTypeOK
  <2>2. CallsKept'
    BY <1>4 DEF ScanThrows, CallsKept
  <2>3. CatalogServed'
    BY <1>4 DEF ScanThrows, CallsKept, CatalogServed
  <2> QED
    BY <1>4, <2>1, <2>2, <2>3, BuiltStays DEF ScanThrows
<1>5. ASSUME NEW u \in Uuids, NEW t \in MappedTypes,
             MapChannel(u, t)
      PROVE  Readings'
  <2>1. DefTypeOK'
    <3>1. [uuid |-> u, type |-> t] \in Mappable
      BY DEF Mappable
    <3>2. mapped' \in Seq(Mappable)
      <4>1. mapped \in Seq(Mappable) /\ mapped' = Append(mapped, [uuid |-> u, type |-> t])
        BY <1>5 DEF MapChannel, DefTypeOK, Mappable
      <4> QED
        BY <3>1, <4>1
    <3> QED
      BY <1>5, <3>2 DEF MapChannel, DefTypeOK, Mappable
  <2>2. CallsKept'
    BY <1>5 DEF MapChannel, CallsKept,
                Found, Parsed
  <2>3. CatalogServed'
    BY <1>5 DEF MapChannel, CatalogServed, Alone, Under
  <2> QED
    BY <1>5, <2>1, <2>2, <2>3, BuiltStays DEF MapChannel
<1>6. CASE BuildNothing
  <2>1. DefTypeOK'
    BY <1>6 DEF BuildNothing, DefTypeOK
  <2>2. CallsKept'
    BY <1>6 DEF BuildNothing, CallsKept
  <2>3. CatalogServed'
    BY <1>6 DEF BuildNothing, CatalogServed, Alone, Under
  <2> QED
    BY <1>6, <2>1, <2>2, <2>3, BuiltStays DEF BuildNothing
<1>7. CASE BuildMapped
  <2>1. mapped \in Seq(Mappable)
    BY DEF DefTypeOK, Mappable
  <2>2. /\ builder' = "built" /\ layout' = "mapped"
        /\ entries' = MappedEntries /\ image' = Len(Offered)
        /\ UNCHANGED <<file, catalog, adapter, mapped, stale>>
    BY <1>7 DEF BuildMapped
  <2>3. DefTypeOK'
    BY <2>1, <2>2, MappedEntriesApart DEF DefTypeOK
  <2>4. EntriesApart'
    BY <2>1, <2>2, MappedEntriesApart DEF EntriesApart, Apart
  <2>5. CallsKept' /\ CatalogServed'
    BY <2>2 DEF CallsKept, CatalogServed
  <2> QED
    BY <2>3, <2>4, <2>5
<1>8. CASE BuildFromFile
  <2> DEFINE chs == ToBuild
  <2>1. /\ builder' = "built"
        /\ layout' = file.form
        /\ entries' = FileEntries(chs) /\ image' = BytesOf(chs)[Len(chs)]
        /\ UNCHANGED <<file, catalog, adapter, mapped, stale>>
    BY <1>8 DEF BuildFromFile
  <2>2. chs \in Seq(Channel) /\ file.form \in Forms
    BY <1>8, FoundChannels, FileChannels DEF BuildFromFile
  <2>3. DefTypeOK'
    BY <2>1, <2>2, FileEntriesApart DEF DefTypeOK
  <2>4. EntriesApart'
    BY <2>1, <2>2, FileEntriesApart DEF EntriesApart, Apart
  <2>5. CallsKept'
    BY <2>1 DEF CallsKept
  <2>6. CatalogServed'
    <3> SUFFICES ASSUME file.form = "array", ~stale, entries' # << >>
                 PROVE  CatalogServed'
      BY <2>1, <2>2 DEF CatalogServed
    <3>1. Found = chs
      BY <1>8 DEF BuildFromFile, Found, ToBuild
    <3>2. DOMAIN entries' = DOMAIN chs
      BY <2>1 DEF FileEntries
    <3>3. chs # << >>
      BY <2>1, <2>2, <3>2 DEF FileEntries
    <3>4. builder = "mapping"
      BY <1>8 DEF BuildFromFile, Buildable, CallsKept
    <3>5. catalog' = [u \in Uuids |-> Listing(chs, u)]
      BY <2>1, <3>1, <3>3, <3>4 DEF CallsKept
    <3>6. ASSUME NEW i \in DOMAIN chs
          PROVE  /\ Under(entries'[i]) = Identified(chs[i].uuid) /\ Under(entries'[i]) \in Uuids
                 /\ entries'[i].type = Loaded(chs[i].type)
      <4>1. chs[i] \in Channel
        BY <2>2
      <4>2. entries'[i] = [uuid |-> Defaulted(chs[i].uuid), type |-> Loaded(chs[i].type),
                           offset |-> BytesOf(chs)[i - 1]]
        BY <2>1 DEF FileEntries
      <4> QED
        BY <4>1, <4>2, UnderIdentified
    <3>7. {u \in Uuids : catalog'[u] # "absent"} = {Under(entries'[i]) : i \in DOMAIN entries'}
      <4>1. \A u \in Uuids :
              catalog'[u] # "absent" <=> \E i \in DOMAIN chs : Identified(chs[i].uuid) = u
        BY <2>2, <3>5, ListingSays
      <4> QED
        BY <3>2, <3>6, <4>1
    <3>8. ASSUME NEW i \in DOMAIN entries',
                 \A j \in DOMAIN entries' : Under(entries'[j]) = Under(entries'[i]) => i = j
          PROVE  catalog'[Under(entries'[i])] = "out" <=> IsOutput(entries'[i].type)
      <4>1. \A j \in DOMAIN chs : Identified(chs[j].uuid) = Identified(chs[i].uuid) => i = j
        BY <3>2, <3>6, <3>8
      <4>2. catalog'[Identified(chs[i].uuid)] = Scanned(chs[i].type)
        BY <2>2, <3>2, <3>5, <3>6, <4>1, ListingSays
      <4> QED
        BY <3>2, <3>6, <4>2, LoadedType
    <3> QED
      BY <3>7, <3>8 DEF CatalogServed, Alone, Under
  <2> QED
    BY <2>3, <2>4, <2>5, <2>6
<1>9. CASE BuildTerminates
  <2>1. DefTypeOK'
    BY <1>9 DEF BuildTerminates, DefTypeOK
  <2>2. CallsKept'
    BY <1>9 DEF BuildTerminates, Buildable, CallsKept
  <2>3. CatalogServed'
    BY <1>9 DEF BuildTerminates, CatalogServed, Alone, Under
  <2> QED
    BY <1>9, <2>1, <2>2, <2>3, BuiltStays DEF BuildTerminates
<1>10. CASE Restart
  <2>1. DefTypeOK'
    <3>1. \A S : << >> \in Seq(S)
      OBVIOUS
    <3>2. catalog' \in [Uuids -> {"absent", "in", "out"}]
      BY <1>10 DEF Restart, DefTypeOK
    <3> QED
      BY <1>10, <3>1, <3>2 DEF Restart, DefTypeOK
  <2>2. CallsKept'
    BY <1>10 DEF Restart, CallsKept
  <2>3. CatalogServed' /\ EntriesApart'
    BY <1>10 DEF Restart, CatalogServed, EntriesApart
  <2> QED
    BY <2>1, <2>2, <2>3
<1>11. CASE UNCHANGED defVars
  <2>1. DefTypeOK'
    BY <1>11 DEF defVars, DefTypeOK
  <2>2. CallsKept'
    BY <1>11 DEF defVars, CallsKept, Found, Parsed
  <2>3. CatalogServed'
    BY <1>11 DEF defVars, CatalogServed, Alone, Under
  <2> QED
    BY <1>11, <2>1, <2>2, <2>3, BuiltStays DEF defVars
<1> QED
  BY <1>1, <1>2, <1>3, <1>4, <1>5, <1>6, <1>7, <1>8, <1>9, <1>10, <1>11 DEF DefNext

(* The inductive invariant of the definitions file: DefinitionsInv with its  *)
(* CallsKept is what scan() leaves behind for buildRT().                     *)
THEOREM ReadingsInvariant == DefSpec => []Readings
  BY ReadingsInit, ReadingsStep, PTL DEF DefSpec

(* Before discover() there is no adapter; and what was scanned and not       *)
(* touched since parses and is listed.                                       *)
THEOREM DefinitionsTyped == DefSpec => []DefinitionsInv
  <1>1. Readings => DefinitionsInv
    BY DEF Readings
  <1> QED  BY <1>1, ReadingsInvariant, PTL

(* The process only ends in loadDefinitions() when someone wrote to the file *)
(* after the scan, or at a value that the scan does not look at.             *)
THEOREM DeathIsExplained == DefSpec => DeathExplained
<1> DEFINE Explained == builder # "dead" /\ builder' = "dead" =>
             stale \/ (Parsed /\ file.mistyped = "parameter")
<1>1. Readings /\ [DefNext]_defVars => Explained
  <2> SUFFICES ASSUME Readings, [DefNext]_defVars, builder # "dead", builder' = "dead"
               PROVE  stale \/ (Parsed /\ file.mistyped = "parameter")
    OBVIOUS
  <2>1. BuildTerminates
    BY DEF DefNext, defVars, app, SaveOpen, SaveWrite, Discover, ScanThrows, MapChannel,
      BuildNothing, BuildMapped, BuildFromFile, Restart
  <2>2. builder = "mapping" /\ Unloadable
    BY <2>1 DEF BuildTerminates, Buildable, Readings, DefinitionsInv, CallsKept
  <2> QED
    BY <2>2 DEF Unloadable, Readings, DefinitionsInv, CallsKept
<1> QED
  BY <1>1, ReadingsInvariant, PTL DEF DefSpec, DeathExplained

(* Whatever the file, what read() and write() of an entry touch lies in the  *)
(* image that buildRT() or build(channels) sized, and belongs to that entry  *)
(* alone; of a mapping this holds where no channel is wider than a byte.     *)
THEOREM EntriesLieApart == DefSpec => []EntriesApart
  <1>1. Readings => EntriesApart
    BY DEF Readings
  <1> QED  BY <1>1, ReadingsInvariant, PTL

(* Whatever the file, with an array of channels: unless it was written to    *)
(* between scan() and buildRT(), the entries are for what the catalog lists, *)
(* in the same direction; those without a uuid of their own are listed under *)
(* one generated for all of them.                                            *)
THEOREM ReadingsAgree == DefSpec => []CatalogServed
  <1>1. Readings => CatalogServed
    BY DEF Readings
  <1> QED  BY <1>1, ReadingsInvariant, PTL
===============================================================================
