-------------------------- MODULE GpioChannelsProofs --------------------------
(***************************************************************************)
(* GpioInv is inductive, for any board, any programs and any types.  What  *)
(* the names of types do to a definition comes down to two facts about the *)
(* type Reload(t) that is left of t: it is one that reloading leaves as it *)
(* is, and it is an input if t was one.                                    *)
(***************************************************************************)
EXTENDS GpioChannels, SequenceTheorems, TLAPS

(* Whatever type is written out, one of the listed types is read back. *)
LEMMA ReloadListed ==
  ASSUME NEW t
  PROVE  Reload(t) \in Listed
<1>1. BoolInput \in Listed /\ IntInput(32) \in Listed /\ IntInput(16) \in Listed
  BY DEF Listed
<1>2. CASE t \in WellKnown
  <2>1. NameOf(t).known /\ NameOf(t).type = t
    BY <1>2 DEF NameOf
  <2> QED
    BY <1>1, <2>1 DEF Reload, TypeNamed
<1>3. CASE t \notin WellKnown
  <2>1. ~NameOf(t).known
    BY <1>3 DEF NameOf
  <2> QED
    BY <1>1, <2>1 DEF Reload, TypeNamed
<1> QED
  BY <1>2, <1>3

LEMMA ListedReloads ==
  ASSUME NEW t \in Listed
  PROVE  Reload(t) = t
<1>1. t \in WellKnown
  BY DEF WellKnown
<1>2. NameOf(t).known /\ NameOf(t).type = t
  BY <1>1 DEF NameOf
<1> QED
  BY <1>2 DEF Reload, TypeNamed

(* A type changes at the first reload or never. *)
LEMMA ReloadSettles ==
  ASSUME NEW t
  PROVE  Reload(Reload(t)) = Reload(t)
BY ReloadListed, ListedReloads

LEMMA ListedAreTypes == Listed \subseteq EntryType
BY DEF Listed, EntryType, BoolInput, BoolOutput, IntInput, IntOutput, FloatInput, FloatOutput,
       MessageIn, MessageOut

(* An input is never read back as an output. *)
LEMMA InputStaysInput ==
  ASSUME NEW t, IsInput(t)
  PROVE  IsInput(Reload(t))
<1>1. IsInput(BoolInput) /\ IsInput(IntInput(32)) /\ IsInput(IntInput(16))
  BY DEF IsInput, BoolInput, IntInput
<1>2. CASE t \in Listed
  BY <1>2, ListedReloads
<1>3. CASE t \in WellKnown \ Listed
  <2>1. NameOf(t).known /\ NameOf(t).type = t
    BY <1>3 DEF NameOf
  <2> QED
    BY <1>1, <1>3, <2>1 DEF Reload, TypeNamed
<1>4. CASE t \notin WellKnown
  <2>1. ~NameOf(t).known
    BY <1>4 DEF NameOf
  <2> QED
    BY <1>1, <2>1 DEF Reload, TypeNamed
<1> QED
  BY <1>2, <1>3, <1>4 DEF WellKnown
-------------------------------------------------------------------------------
(* Sequences by their functions. *)
LEMMA FunctionIsSeq ==
  ASSUME NEW S, NEW n \in Nat, NEW f \in [1..n -> S]
  PROVE  f \in Seq(S)
BY Zenon, SeqDef

LEMMA SeqElement ==
  ASSUME NEW S, NEW s \in Seq(S), NEW i \in DOMAIN s
  PROVE  s[i] \in S /\ i \in Nat
<1>1. i \in 1..Len(s)
  BY LenProperties
<1> QED
  BY <1>1, ElementOfSeq, LenProperties

(* What is said of a definition and of a name in the file lasts, and carries *)
(* over from one to the other.                                               *)
LEMMA DescendsLasts ==
  ASSUME NEW l, NEW t, Descends(l, t), asked \subseteq asked'
  PROVE  Descends(l, t)'
BY DEF Descends

LEMMA ReloadedDescends ==
  ASSUME NEW l, NEW t, Descends(l, t)
  PROVE  Descends(l, Reload(t))
BY ReloadSettles DEF Descends

LEMMA LoadedDefinitions ==
  ASSUME TypeOK, FileDescends
  PROVE  /\ Loaded(mappingFile) \in Seq(Definition)
         /\ \A i \in DOMAIN Loaded(mappingFile) :
              Descends(Loaded(mappingFile)[i].line, Loaded(mappingFile)[i].type)
<1> DEFINE L == Loaded(mappingFile)
<1>1. /\ mappingFile \in Seq([line : Lines, name : Names])
      /\ DOMAIN L = DOMAIN mappingFile
  BY DEF TypeOK, Loaded
<1>2. ASSUME NEW i \in DOMAIN mappingFile
      PROVE  L[i] \in Definition /\ Descends(L[i].line, L[i].type)
  <2>1. mappingFile[i].line \in Lines
    <3>1. mappingFile[i] \in [line : Lines, name : Names]
      BY Zenon, <1>1, SeqElement
    <3> QED
      BY <3>1
  <2>2. PICK t \in DefinitionTypes :
          mappingFile[i].name = NameOf(t) /\ Descends(mappingFile[i].line, t)
    BY <1>2 DEF FileDescends
  <2>3. L[i] = [line |-> mappingFile[i].line, type |-> Reload(t)]
    BY <2>2 DEF Loaded, Reload
  <2>4. Reload(t) \in EntryType
    BY ReloadListed, ListedAreTypes
  <2> QED
    BY <2>1, <2>2, <2>3, <2>4, ReloadedDescends DEF Definition
<1>3. DOMAIN L = 1..Len(mappingFile) /\ Len(mappingFile) \in Nat
  BY <1>1
<1>4. L = [i \in 1..Len(mappingFile) |-> L[i]]
  BY <1>3 DEF Loaded
<1> HIDE DEF L
<1>5. L \in [1..Len(mappingFile) -> Definition]
  BY <1>1, <1>2, <1>3, <1>4
<1>6. L \in Seq(Definition)
  BY Zenon, <1>3, <1>5, FunctionIsSeq
<1> QED
  BY <1>1, <1>2, <1>6 DEF L

LEMMA SavedNames ==
  ASSUME TypeOK, TypesSettle, NEW p \in Apps
  PROVE  /\ Saved(p) \in Seq([line : Lines, name : Names])
         /\ DOMAIN Saved(p) = DOMAIN defs[p]
         /\ \A i \in DOMAIN Saved(p) :
              /\ Saved(p)[i].line = defs[p][i].line
              /\ \E t \in DefinitionTypes :
                   Saved(p)[i].name = NameOf(t) /\ Descends(Saved(p)[i].line, t)
<1> DEFINE S == Saved(p)
<1>1. defs[p] \in Seq(Definition) /\ DOMAIN S = DOMAIN defs[p]
  BY DEF TypeOK, Saved, Written
<1>2. ASSUME NEW i \in DOMAIN defs[p]
      PROVE  /\ S[i] \in [line : Lines, name : Names]
             /\ S[i].line = defs[p][i].line
             /\ \E t \in DefinitionTypes : S[i].name = NameOf(t) /\ Descends(S[i].line, t)
  <2>1. S[i] = [line |-> defs[p][i].line, name |-> NameOf(defs[p][i].type)]
    BY DEF Saved, Written
  <2>2. defs[p][i] \in Definition
    BY <1>1
  <2>3. Descends(defs[p][i].line, defs[p][i].type)
    BY DEF TypesSettle
  <2>4. defs[p][i].type \in DefinitionTypes
    BY <2>3 DEF Descends, DefinitionTypes
  <2> QED
    BY <2>1, <2>2, <2>3, <2>4 DEF Definition, Names
<1>3. DOMAIN S = 1..Len(defs[p]) /\ Len(defs[p]) \in Nat
  BY <1>1
<1>4. S = [i \in 1..Len(defs[p]) |-> S[i]]
  BY <1>3 DEF Saved, Written
<1> HIDE DEF S
<1>5. S \in [1..Len(defs[p]) -> [line : Lines, name : Names]]
  BY <1>1, <1>2, <1>3, <1>4
<1>6. S \in Seq([line : Lines, name : Names])
  BY Zenon, <1>3, <1>5, FunctionIsSeq
<1> QED
  BY <1>1, <1>2, <1>6 DEF S
-------------------------------------------------------------------------------
(* What is requested is a definition of a line. *)
LEMMA RequestedDefinition ==
  ASSUME TypeOK, NEW p \in Apps, Requesting(p)
  PROVE  Requested(p).line \in Lines /\ Requested(p) = defs[p][request[p]]
<1>1. Requested(p) \in Definition
  BY DEF TypeOK, Requesting, Requested
<1> QED
  BY <1>1 DEF Definition, Requested

LEMMA LostLines ==
  ASSUME TypeOK, NEW l \in Lines, NEW q
  PROVE  Lost(l, q) \in [Apps -> SUBSET Lines]
BY DEF TypeOK, Lost

LEMMA StepTypes ==
  ASSUME GpioInv, [Next]_vars
  PROVE  TypeOK'
<1> USE DEF GpioInv
<1>1. ASSUME NEW l \in Lines, KernelTakes(l) \/ KernelReturns(l)
      PROVE  TypeOK'
  <2>1. CASE KernelTakes(l)
    BY <2>1, LostLines DEF TypeOK, KernelTakes, files, builder
  <2>2. CASE KernelReturns(l)
    BY <2>2 DEF TypeOK, KernelReturns, files, builder
  <2> QED
    BY <1>1, <2>1, <2>2
<1>2. ASSUME NEW p \in Apps, NEW l \in Lines, NEW t \in Types, MapChannel(p, l, t)
      PROVE  TypeOK'
  <2>1. [line |-> l, type |-> t] \in Definition
    BY TypesAssumption DEF Definition
  <2>2. Append(defs[p], [line |-> l, type |-> t]) \in Seq(Definition)
    BY <2>1 DEF TypeOK
  <2>3. defs' \in [Apps -> Seq(Definition)]
    BY <1>2, <2>2 DEF TypeOK, MapChannel
  <2> QED
    BY <1>2, <2>3 DEF TypeOK, MapChannel, kernel, files
<1>3. ASSUME NEW p \in Apps, LoadMappings(p)
      PROVE  TypeOK'
  <2>1. Loaded(mappingFile) \in Seq(Definition)
    BY LoadedDefinitions
  <2>2. defs[p] \o Loaded(mappingFile) \in Seq(Definition)
    BY <2>1, ConcatProperties DEF TypeOK
  <2>3. defs' \in [Apps -> Seq(Definition)]
    BY <1>3, <2>2 DEF TypeOK, LoadMappings
  <2> QED
    BY <1>3, <2>3 DEF TypeOK, LoadMappings, kernel, files
<1>4. ASSUME NEW p \in Apps, DiscoverScan(p)
      PROVE  TypeOK'
  BY <1>4 DEF TypeOK, DiscoverScan, Unused, kernel, files
<1>5. ASSUME NEW p \in Apps, DiscoverSave(p)
      PROVE  TypeOK'
  <2>1. Saved(p) \in Seq([line : Lines, name : Names])
    BY SavedNames
  <2>2. mappingFile' \in Seq([line : Lines, name : Names])
    BY <1>5, <2>1 DEF TypeOK, DiscoverSave
  <2> QED
    BY <1>5, <2>2 DEF TypeOK, DiscoverSave, kernel
<1>6. ASSUME NEW p \in Apps, BuildBegin(p) \/ LineRefused(p) \/ BuildEnd(p)
      PROVE  TypeOK'
  <2>1. CASE BuildBegin(p)
    BY <2>1 DEF TypeOK, BuildBegin, kernel, files
  <2>2. CASE LineRefused(p)
    BY <2>2 DEF TypeOK, LineRefused, kernel, files
  <2>3. CASE BuildEnd(p)
    BY <2>3 DEF TypeOK, BuildEnd, kernel, files
  <2> QED
    BY <1>6, <2>1, <2>2, <2>3
<1>9. ASSUME NEW p \in Apps, LineGranted(p)
      PROVE  TypeOK'
  <2>1. RequestedAs(Requested(p).type) \in {"none", "in", "out"}
    BY DEF RequestedAs
  <2>2. Requested(p).line \in Lines
    BY <1>9, RequestedDefinition DEF LineGranted
  <2>3. Lost(Requested(p).line, p) \in [Apps -> SUBSET Lines]
    BY <2>2, LostLines
  <2>4. consumer' \in [Lines -> Apps \cup {Kernel, NoOne}]
    BY <1>9, <2>2 DEF TypeOK, LineGranted
  <2>5. direction' \in [Lines -> {"none", "in", "out"}]
    BY <1>9, <2>1, <2>2 DEF TypeOK, LineGranted
  <2>6. request' \in [Apps -> Nat]
    BY <1>9 DEF TypeOK, LineGranted
  <2> QED
    BY <1>9, <2>3, <2>4, <2>5, <2>6 DEF TypeOK, LineGranted, files
<1>7. ASSUME NEW p \in Apps, Exit(p)
      PROVE  TypeOK'
  BY <1>7 DEF TypeOK, Exit, files
<1>8. CASE UNCHANGED vars
  BY <1>8 DEF TypeOK, vars, kernel, files, builder
<1> QED
  BY <1>1, <1>2, <1>3, <1>4, <1>5, <1>6, <1>7, <1>8, <1>9 DEF Next

LEMMA StepHeld ==
  ASSUME GpioInv, [Next]_vars
  PROVE  HeldByBuilt'
<1> USE DEF GpioInv
<1>1. ASSUME NEW l \in Lines, KernelTakes(l) \/ KernelReturns(l)
      PROVE  HeldByBuilt'
  BY <1>1, AppsAssumption
     DEF TypeOK, HeldByBuilt, KernelTakes, KernelReturns, files, builder
<1>2. ASSUME NEW p \in Apps,
             (\E l \in Lines, t \in Types : MapChannel(p, l, t)) \/ LoadMappings(p)
      PROVE  HeldByBuilt'
  BY <1>2 DEF HeldByBuilt, MapChannel, LoadMappings, kernel
<1>3. ASSUME NEW p \in Apps, DiscoverScan(p) \/ DiscoverSave(p)
      PROVE  HeldByBuilt'
  <2>1. /\ stage[p] \in {"new", "scanned"} /\ UNCHANGED kernel
        /\ \A q \in Apps : q # p => stage'[q] = stage[q]
    BY <1>3 DEF TypeOK, DiscoverScan, DiscoverSave
  <2> QED
    BY <2>1 DEF HeldByBuilt, kernel
<1>4. ASSUME NEW p \in Apps, BuildBegin(p) \/ LineRefused(p) \/ BuildEnd(p)
      PROVE  HeldByBuilt'
  BY <1>4 DEF TypeOK, HeldByBuilt, BuildBegin, LineRefused, BuildEnd, kernel
<1>7. ASSUME NEW p \in Apps, LineGranted(p)
      PROVE  HeldByBuilt'
  <2>1. RequestedAs(Requested(p).type) # "none" /\ stage[p] = "building"
    BY <1>7 DEF RequestedAs, LineGranted, Requesting
  <2> QED
    BY <1>7, <2>1 DEF TypeOK, HeldByBuilt, LineGranted
<1>5. ASSUME NEW p \in Apps, Exit(p)
      PROVE  HeldByBuilt'
  BY <1>5, AppsAssumption DEF TypeOK, HeldByBuilt, Exit
<1>6. CASE UNCHANGED vars
  BY <1>6 DEF HeldByBuilt, vars, kernel, builder
<1> QED
  BY <1>1, <1>2, <1>3, <1>4, <1>5, <1>6, <1>7 DEF Next

LEMMA StepAsked ==
  ASSUME [Next]_vars
  PROVE  asked \subseteq asked'
BY DEF Next, vars, KernelTakes, KernelReturns, MapChannel, LoadMappings, DiscoverScan,
       DiscoverSave, BuildBegin, LineGranted, LineRefused, BuildEnd, Exit

LEMMA StepFile ==
  ASSUME GpioInv, [Next]_vars
  PROVE  FileDescends'
<1> USE DEF GpioInv
<1>1. CASE UNCHANGED mappingFile
  <2>1. ASSUME NEW i \in DOMAIN mappingFile
        PROVE  (\E t \in DefinitionTypes : mappingFile[i].name = NameOf(t) /\ Descends(mappingFile[i].line, t))'
    <3>1. PICK t \in DefinitionTypes : mappingFile[i].name = NameOf(t) /\ Descends(mappingFile[i].line, t)
      BY DEF FileDescends
    <3>2. Descends(mappingFile[i].line, t)'
      BY <1>1, <3>1, StepAsked DEF Descends
    <3> QED
      BY <1>1, <3>1, <3>2
  <2> QED
    BY <1>1, <2>1 DEF FileDescends
<1>2. ASSUME NEW p \in Apps, DiscoverSave(p), mappingFile' # mappingFile
      PROVE  FileDescends'
  <2>1. mappingFile' = Saved(p) /\ asked' = asked
    BY <1>2 DEF DiscoverSave
  <2>2. ASSUME NEW i \in DOMAIN Saved(p)
        PROVE  (\E t \in DefinitionTypes : mappingFile[i].name = NameOf(t) /\ Descends(mappingFile[i].line, t))'
    <3>1. PICK t \in DefinitionTypes : Saved(p)[i].name = NameOf(t) /\ Descends(Saved(p)[i].line, t)
      BY SavedNames
    <3>2. Descends(mappingFile[i].line, t)'
      BY <2>1, <3>1 DEF Descends
    <3> QED
      BY <2>1, <3>1, <3>2
  <2> QED
    BY <2>1, <2>2 DEF FileDescends
<1> QED
  BY <1>1, <1>2 DEF Next, vars, files, KernelTakes, KernelReturns, MapChannel, LoadMappings,
                    DiscoverScan, DiscoverSave, BuildBegin, LineGranted, LineRefused, BuildEnd,
                    Exit

LEMMA StepSettles ==
  ASSUME GpioInv, [Next]_vars
  PROVE  TypesSettle'
<1> USE DEF GpioInv
<1> DEFINE Settled(q, i) == Descends(defs[q][i].line, defs[q][i].type)
<1>1. ASSUME NEW q \in Apps, defs'[q] = defs[q], NEW i \in DOMAIN defs'[q]
      PROVE  Settled(q, i)'
  <2>1. Settled(q, i)
    BY <1>1 DEF TypesSettle
  <2> QED
    BY <1>1, <2>1, StepAsked DEF Descends
<1>2. ASSUME NEW p \in Apps, NEW l \in Lines, NEW t \in Types, MapChannel(p, l, t),
             NEW i \in DOMAIN defs'[p]
      PROVE  Settled(p, i)'
  <2>1. defs[p] \in Seq(Definition) /\ defs'[p] = Append(defs[p], [line |-> l, type |-> t])
    BY <1>2 DEF TypeOK, MapChannel
  <2>2. CASE i \in DOMAIN defs[p]
    <3>1. Settled(p, i) /\ defs'[p][i] = defs[p][i]
      BY <2>1, <2>2 DEF TypesSettle
    <3> QED
      BY <3>1, StepAsked DEF Descends
  <2>3. CASE i \notin DOMAIN defs[p]
    <3>1. defs'[p][i] = [line |-> l, type |-> t]
      BY <1>2, <2>1, <2>3
    <3>2. <<l, t>> \in asked'
      BY <1>2 DEF MapChannel
    <3> QED
      BY <3>1, <3>2 DEF Descends
  <2> QED
    BY <2>2, <2>3
<1>3. ASSUME NEW p \in Apps, LoadMappings(p), NEW i \in DOMAIN defs'[p]
      PROVE  Settled(p, i)'
  <2> DEFINE L == Loaded(mappingFile)
  <2>1. /\ L \in Seq(Definition)
        /\ \A k \in DOMAIN L : Descends(L[k].line, L[k].type)
    BY LoadedDefinitions
  <2>2. defs[p] \in Seq(Definition) /\ defs'[p] = defs[p] \o L /\ asked' = asked
    BY <1>3 DEF TypeOK, LoadMappings
  <2> HIDE DEF L
  <2>3. CASE i \in DOMAIN defs[p]
    <3>1. Settled(p, i) /\ defs'[p][i] = defs[p][i]
      BY <2>1, <2>2, <2>3 DEF TypesSettle
    <3> QED
      BY <2>2, <3>1 DEF Descends
  <2>4. CASE i \notin DOMAIN defs[p]
    <3>1. i - Len(defs[p]) \in DOMAIN L /\ defs'[p][i] = L[i - Len(defs[p])]
      BY <1>3, <2>1, <2>2, <2>4
    <3> QED
      BY <2>1, <2>2, <3>1 DEF Descends
  <2> QED
    BY <2>3, <2>4
<1>4. ASSUME NEW p \in Apps, Exit(p)
      PROVE  TypesSettle'
  <2>1. defs' = [defs EXCEPT ![p] = << >>] /\ defs'[p] = << >>
    BY <1>4 DEF TypeOK, Exit
  <2>2. \A q \in Apps : q # p => defs'[q] = defs[q]
    BY <2>1 DEF TypeOK
  <2> QED
    BY <1>1, <2>1, <2>2 DEF TypesSettle
<1>5. CASE UNCHANGED defs
  BY <1>1, <1>5 DEF TypesSettle
<1>6. ASSUME NEW p \in Apps,
             (\E l \in Lines, t \in Types : MapChannel(p, l, t)) \/ LoadMappings(p)
      PROVE  TypesSettle'
  <2>1. \A q \in Apps : q # p => defs'[q] = defs[q]
    BY <1>6 DEF TypeOK, MapChannel, LoadMappings
  <2>2. \A i \in DOMAIN defs'[p] : Settled(p, i)'
    BY <1>2, <1>3, <1>6
  <2> QED
    BY <1>1, <2>1, <2>2 DEF TypesSettle
<1> QED
  BY <1>4, <1>5, <1>6 DEF Next, vars, builder, KernelTakes, KernelReturns, DiscoverScan,
                          DiscoverSave, BuildBegin, LineGranted, LineRefused, BuildEnd

(* GpioInv holds in every reachable state, on any board: whatever the        *)
(* programs do, a line belongs to a program that has built, and the types of *)
(* definitions settle after one stay in the mapping file.                    *)
THEOREM GpioInvariant == Spec => []GpioInv
<1>1. Init => GpioInv
  BY AppsAssumption DEF Init, GpioInv, TypeOK, HeldByBuilt, FileDescends, TypesSettle
<1>2. GpioInv /\ [Next]_vars => GpioInv'
  BY StepTypes, StepHeld, StepFile, StepSettles DEF GpioInv
<1> QED
  BY <1>1, <1>2, PTL DEF Spec
-------------------------------------------------------------------------------
(* What a line was driven for. *)
LEMMA DrivenWasAsked ==
  ASSUME GpioInv, NEW p \in Apps, NEW i \in DOMAIN defs[p],
         RequestedAs(defs[p][i].type) = "out"
  PROVE  \E t \in Types : <<defs[p][i].line, t>> \in asked /\ ~IsInput(t)
<1>1. Descends(defs[p][i].line, defs[p][i].type)
  BY DEF GpioInv, TypesSettle
<1>2. PICK o \in Types :
        <<defs[p][i].line, o>> \in asked /\ defs[p][i].type \in {o, Reload(o)}
  BY <1>1 DEF Descends
<1>3. ~IsInput(defs[p][i].type)
  BY DEF RequestedAs
<1>4. ~IsInput(o)
  BY <1>2, <1>3, InputStaysInput
<1> QED
  BY <1>2, <1>4

LEMMA StepDriven ==
  ASSUME GpioInv, NeverDriven, [Next]_vars
  PROVE  NeverDriven'
<1>1. ASSUME NEW l \in Lines, direction'[l] = "out", direction[l] = "out"
      PROVE  \E t \in Types : <<l, t>> \in asked' /\ ~IsInput(t)
  BY <1>1, StepAsked DEF NeverDriven
<1>2. ASSUME NEW p \in Apps, LineGranted(p), NEW l \in Lines, direction'[l] = "out"
      PROVE  \E t \in Types : <<l, t>> \in asked' /\ ~IsInput(t)
  <2>1. CASE l = Requested(p).line
    <3>1. request[p] \in DOMAIN defs[p] /\ Requested(p) = defs[p][request[p]]
      BY <1>2 DEF LineGranted, Requesting, Requested
    <3>2. RequestedAs(Requested(p).type) = "out"
      BY <1>2, <2>1 DEF GpioInv, TypeOK, LineGranted
    <3>3. \E t \in Types : <<l, t>> \in asked /\ ~IsInput(t)
      BY <2>1, <3>1, <3>2, DrivenWasAsked
    <3> QED
      BY <3>3, StepAsked
  <2>2. CASE l # Requested(p).line
    <3>1. direction'[l] = direction[l]
      BY <1>2, <2>2 DEF GpioInv, TypeOK, LineGranted
    <3> QED
      BY <1>1, <1>2, <3>1
  <2> QED
    BY <2>1, <2>2
<1>3. ASSUME NEW p \in Apps, Exit(p), NEW l \in Lines, direction'[l] = "out"
      PROVE  direction[l] = "out"
  BY <1>3 DEF Exit
<1>4. CASE UNCHANGED direction
  BY <1>1, <1>4 DEF NeverDriven
<1> QED
  BY <1>1, <1>2, <1>3, <1>4
     DEF NeverDriven, Next, vars, kernel, KernelTakes, KernelReturns, MapChannel, LoadMappings,
         DiscoverScan, DiscoverSave, BuildBegin, LineRefused, BuildEnd

(* No line is driven, over any number of restarts, that was never mapped as  *)
(* anything but an input: names may lose a type, but never its being an      *)
(* input.                                                                    *)
THEOREM InputsNeverDriven == Spec => []NeverDriven
<1>1. Init => NeverDriven
  BY DEF Init, NeverDriven
<1>2. GpioInv /\ NeverDriven /\ [Next]_vars => NeverDriven'
  BY StepDriven
<1> QED
  BY <1>1, <1>2, GpioInvariant, PTL DEF Spec

-------------------------------------------------------------------------------
(* A mapped line that no one else had since a buildRT() began is free or the *)
(* program's own.                                                            *)
UncontestedFree ==
  \A p \in Apps : \A l \in Lines \ contested[p] :
    stage[p] = "building" /\ Offered(p, l) # {} => consumer[l] \in {NoOne, p}

FirstInv == UncontestedFree /\ FirstMappingDecides

(* The parts of FirstInv for one program and one line. *)
Free(p, l) ==
  l \notin contested[p] /\ stage[p] = "building" /\ Offered(p, l) # {}
    => consumer[l] \in {NoOne, p}

Decided(p, l) ==
  l \notin contested[p] /\ consumer[l] = p =>
    \E i \in DOMAIN defs[p] :
      /\ defs[p][i].line = l /\ RequestedAs(defs[p][i].type) = direction[l]
      /\ \A j \in 1..(i - 1) : defs[p][j].line # l

Held(p, l) ==
  l \notin contested[p] /\ stage[p] = "building" /\ (\E i \in Offered(p, l) : i < request[p])
    => consumer[l] = p

LEMMA FirstByLine ==
  FirstInv <=> \A p \in Apps, l \in Lines : Free(p, l) /\ Decided(p, l) /\ Held(p, l)
BY DEF FirstInv, UncontestedFree, FirstMappingDecides, Free, Decided, Held

(* A program whose builder does not move keeps what is said of it, if a line *)
(* that changes hands comes to no one else unnoticed.                        *)
LEMMA FirstKept ==
  ASSUME GpioInv, FirstInv, NEW p \in Apps, NEW l \in Lines,
         stage'[p] = stage[p], catalog'[p] = catalog[p], defs'[p] = defs[p],
         request'[p] = request[p],
         contested[p] \subseteq contested'[p],
         \/ consumer'[l] = consumer[l] /\ direction'[l] = direction[l]
         \/ consumer[l] # p /\ consumer'[l] = NoOne
         \/ /\ consumer[l] # p /\ consumer'[l] # p
            /\ stage[p] = "building" /\ Offered(p, l) # {} => l \in contested'[p]
  PROVE  Free(p, l)' /\ Decided(p, l)' /\ Held(p, l)'
<1>1. Free(p, l) /\ Decided(p, l) /\ Held(p, l)
  BY FirstByLine
<1>2. Offered(p, l)' = Offered(p, l)
  BY DEF Offered
<1>3. p # NoOne
  BY AppsAssumption
<1>4. Free(p, l)'
  BY <1>1, <1>2 DEF Free
<1>5. Decided(p, l)'
  BY <1>1, <1>3 DEF Decided
<1>6. Held(p, l)'
  BY <1>1, <1>2, <1>3 DEF Held
<1> QED
  BY <1>4, <1>5, <1>6

LEMMA StepFirst ==
  ASSUME GpioInv, FirstInv, [Next]_vars
  PROVE  FirstInv'
<1> USE DEF GpioInv
<1> DEFINE First(p) == \A l \in Lines : Free(p, l)' /\ Decided(p, l)' /\ Held(p, l)'
<1>1. ASSUME NEW p \in Apps, UNCHANGED <<stage, catalog, defs, request, contested, kernel>>
      PROVE  First(p)
  BY <1>1, FirstKept DEF kernel
<1>2. ASSUME NEW k \in Lines, KernelTakes(k), NEW p \in Apps
      PROVE  First(p)
  <2>1. /\ UNCHANGED <<stage, catalog, defs, request, direction>>
        /\ consumer' = [consumer EXCEPT ![k] = Kernel] /\ consumer[k] = NoOne
        /\ contested' = Lost(k, Kernel)
    BY <1>2 DEF KernelTakes, builder
  <2>2. p # Kernel /\ p # NoOne
    BY AppsAssumption
  <2>3. /\ contested[p] \subseteq contested'[p]
        /\ stage[p] = "building" /\ Offered(p, k) # {} => k \in contested'[p]
    BY <2>1, <2>2 DEF TypeOK, Lost
  <2>4. \A l \in Lines : l # k => consumer'[l] = consumer[l]
    BY <2>1 DEF TypeOK
  <2>5. consumer'[k] = Kernel
    BY <2>1 DEF TypeOK
  <2> QED
    BY <2>1, <2>2, <2>3, <2>4, <2>5, FirstKept
<1>3. ASSUME NEW k \in Lines, KernelReturns(k), NEW p \in Apps
      PROVE  First(p)
  <2>1. /\ UNCHANGED <<stage, catalog, defs, request, contested, direction>>
        /\ consumer' = [consumer EXCEPT ![k] = NoOne] /\ consumer[k] = Kernel
    BY <1>3 DEF KernelReturns, builder
  <2>2. p # Kernel
    BY AppsAssumption
  <2>3. consumer'[k] = NoOne /\ \A l \in Lines : l # k => consumer'[l] = consumer[l]
    BY <2>1 DEF TypeOK
  <2> QED
    BY <2>1, <2>2, <2>3, FirstKept
<1>4. ASSUME NEW p \in Apps, NEW l \in Lines, stage[p] \in {"new", "scanned", "ready"}
      PROVE  consumer[l] # p
  BY <1>4 DEF HeldByBuilt
<1>5. ASSUME NEW p \in Apps, UNCHANGED kernel,
             stage[p] \in {"new", "scanned", "ready"}, stage'[p] # "building"
      PROVE  First(p)
  BY <1>4, <1>5 DEF kernel, Free, Decided, Held
<1>6. ASSUME NEW q \in Apps,
             \/ \E l \in Lines, t \in Types : MapChannel(q, l, t)
             \/ LoadMappings(q) \/ DiscoverScan(q) \/ DiscoverSave(q),
             NEW p \in Apps
      PROVE  First(p)
  <2>1. CASE p = q
    <3>1. /\ UNCHANGED kernel
          /\ stage[p] \in {"new", "scanned", "ready"} /\ stage'[p] # "building"
      BY <1>6, <2>1 DEF TypeOK, MapChannel, LoadMappings, DiscoverScan, DiscoverSave, Open
    <3> QED
      BY <1>5, <3>1
  <2>2. CASE p # q
    <3>1. /\ UNCHANGED kernel
          /\ stage'[p] = stage[p] /\ catalog'[p] = catalog[p] /\ defs'[p] = defs[p]
          /\ request'[p] = request[p] /\ contested'[p] = contested[p]
      BY <1>6, <2>2 DEF TypeOK, MapChannel, LoadMappings, DiscoverScan, DiscoverSave
    <3> QED
      BY <3>1, FirstKept DEF kernel
  <2> QED
    BY <2>1, <2>2
<1>7. ASSUME NEW q \in Apps, BuildBegin(q) \/ LineRefused(q) \/ BuildEnd(q), NEW p \in Apps, p # q
      PROVE  First(p)
  <2>1. /\ UNCHANGED kernel
        /\ stage'[p] = stage[p] /\ catalog'[p] = catalog[p] /\ defs'[p] = defs[p]
        /\ request'[p] = request[p] /\ contested'[p] = contested[p]
    BY <1>7 DEF TypeOK, BuildBegin, LineRefused, BuildEnd
  <2> QED
    BY <2>1, FirstKept DEF kernel
<1>8. ASSUME NEW p \in Apps, BuildBegin(p)
      PROVE  First(p)
  <2>1. /\ UNCHANGED <<kernel, catalog, defs>> /\ stage[p] = "ready" /\ request'[p] = 1
        /\ contested'[p] = {l \in Lines : consumer[l] # NoOne /\ Offered(p, l) # {}}
    BY <1>8 DEF TypeOK, BuildBegin
  <2>2. \A l : Offered(p, l)' = Offered(p, l)
    BY <2>1 DEF Offered
  <2>3. \A l : \A i \in Offered(p, l) : ~(i < 1)
    BY DEF TypeOK, Offered
  <2>4. \A l \in Lines : Free(p, l)'
    BY <2>1, <2>2 DEF Free, kernel
  <2>5. \A l \in Lines : Decided(p, l)'
    BY <1>4, <2>1 DEF Decided, kernel
  <2>6. \A l \in Lines : Held(p, l)'
    BY <2>1, <2>2, <2>3 DEF Held
  <2> QED
    BY <2>4, <2>5, <2>6
<1>9. ASSUME NEW p \in Apps, LineRefused(p)
      PROVE  First(p)
  <2>1. /\ UNCHANGED <<kernel, stage, catalog, defs, contested>>
        /\ request'[p] = request[p] + 1 /\ Requesting(p) /\ ~Grantable(p)
    BY <1>9 DEF TypeOK, LineRefused
  <2>2. \A l \in Lines : Free(p, l) /\ Decided(p, l) /\ Held(p, l)
    BY FirstByLine
  <2>3. \A l : Offered(p, l)' = Offered(p, l)
    BY <2>1 DEF Offered
  <2>4. \A l \in Lines : Free(p, l)' /\ Decided(p, l)'
    BY <2>1, <2>2, <2>3 DEF Free, Decided, kernel
  <2>5. ASSUME NEW l \in Lines, l \notin contested'[p], NEW i \in Offered(p, l),
               stage'[p] = "building", i < request'[p]
        PROVE  consumer'[l] = p
    <3>1. i \in Nat /\ request[p] \in Nat /\ defs[p][i].line = l /\ l \in catalog[p]
      BY <2>5 DEF TypeOK, Offered
    <3>2. CASE i < request[p]
      BY <2>1, <2>2, <2>5, <3>2 DEF Held, kernel
    <3>3. CASE i = request[p]
      <4>1. consumer[l] # NoOne
        BY <2>1, <3>1, <3>3 DEF Grantable, Requested
      <4> QED
        BY <2>1, <2>2, <2>5, <4>1 DEF Free, kernel
    <3> QED
      BY <2>1, <2>5, <3>1, <3>2, <3>3
  <2>6. \A l \in Lines : Held(p, l)'
    BY <2>3, <2>5 DEF Held
  <2> QED
    BY <2>4, <2>6
<1>10. ASSUME NEW p \in Apps, BuildEnd(p)
       PROVE  First(p)
  <2>1. UNCHANGED <<kernel, defs, contested>> /\ stage'[p] = "built"
    BY <1>10 DEF TypeOK, BuildEnd
  <2>2. \A l \in Lines : Decided(p, l)
    BY FirstByLine
  <2> QED
    BY <2>1, <2>2 DEF Free, Decided, Held, kernel
<1>11. ASSUME NEW q \in Apps, LineGranted(q), NEW p \in Apps
       PROVE  First(p)
  <2>0. PICK k \in Lines : k = Requested(q).line
    BY <1>11, RequestedDefinition DEF LineGranted
  <2>1. /\ UNCHANGED <<stage, catalog, defs>> /\ contested' = Lost(k, q)
        /\ consumer' = [consumer EXCEPT ![k] = q]
        /\ direction' = [direction EXCEPT ![k] = RequestedAs(Requested(q).type)]
        /\ request' = [request EXCEPT ![q] = @ + 1]
        /\ Requesting(q) /\ k \in catalog[q] /\ consumer[k] = NoOne
    BY <1>11, <2>0 DEF LineGranted, Grantable
  <2>2. k \in Lines
    OBVIOUS
  <2>3. \A l \in Lines : l # k => consumer'[l] = consumer[l] /\ direction'[l] = direction[l]
    BY <2>1 DEF TypeOK
  <2>4. consumer'[k] = q /\ direction'[k] = RequestedAs(Requested(q).type)
    BY <2>1, <2>2 DEF TypeOK
  <2>5. CASE p # q
    <3>1. /\ contested[p] \subseteq contested'[p] /\ request'[p] = request[p]
          /\ stage[p] = "building" /\ Offered(p, k) # {} => k \in contested'[p]
      BY <2>1, <2>5 DEF TypeOK, Lost
    <3>2. consumer[k] # p
      BY <2>1, AppsAssumption
    <3> QED
      BY <2>1, <2>3, <2>4, <2>5, <3>1, <3>2, FirstKept
  <2>6. CASE p = q
    <3>1. contested'[p] = contested[p] /\ request'[p] = request[p] + 1
      BY <2>1, <2>6 DEF TypeOK, Lost
    <3>2. \A l \in Lines : Free(p, l) /\ Decided(p, l) /\ Held(p, l)
      BY FirstByLine
    <3>3. \A l : Offered(p, l)' = Offered(p, l)
      BY <2>1 DEF Offered
    <3>4. /\ request[p] \in DOMAIN defs[p] /\ k = defs[p][request[p]].line
          /\ Requested(p) = defs[p][request[p]] /\ stage[p] = "building"
      BY <2>0, <2>1, <2>6 DEF Requesting, Requested
    <3>5. request[p] \in Nat /\ request[p] \in Offered(p, k)
      BY <2>1, <2>6, <3>4 DEF TypeOK, Offered
    <3>6. Free(p, k)' /\ Held(p, k)'
      BY <2>4, <2>6 DEF Free, Held
    <3>7. Decided(p, k)'
      <4> SUFFICES ASSUME k \notin contested[p]
                   PROVE  Decided(p, k)'
        BY <3>1 DEF Decided
      <4>1. ASSUME NEW j \in 1..(request[p] - 1)
            PROVE  defs[p][j].line # k
        <5>1. j \in DOMAIN defs[p] /\ j < request[p]
          BY <3>4, <3>5 DEF TypeOK
        <5>2. consumer[k] # p
          BY <2>1, AppsAssumption
        <5>3. j \notin Offered(p, k)
          BY <2>2, <3>2, <3>4, <5>1, <5>2 DEF Held
        <5> QED
          BY <2>1, <2>6, <5>1, <5>3 DEF Offered
      <4>2. RequestedAs(defs[p][request[p]].type) = direction'[k]
        BY <2>4, <2>6, <3>4
      <4>3. defs' = defs
        BY <2>1
      <4> QED
        BY <3>4, <4>1, <4>2, <4>3 DEF Decided
    <3>8. ASSUME NEW l \in Lines, l # k
          PROVE  Free(p, l)' /\ Decided(p, l)' /\ Held(p, l)'
      <4>1. Free(p, l) /\ Decided(p, l) /\ Held(p, l)
        BY <3>2
      <4>2. consumer'[l] = consumer[l] /\ direction'[l] = direction[l]
        BY <2>3, <3>8
      <4>3. \A i \in Offered(p, l) : i \in Nat /\ i # request[p]
        BY <3>4, <3>8 DEF TypeOK, Offered
      <4>4. \A i \in Offered(p, l) : i < request[p] + 1 => i < request[p]
        BY <3>5, <4>3
      <4>5. Free(p, l)' /\ Decided(p, l)'
        BY <2>1, <3>1, <3>3, <4>1, <4>2 DEF Free, Decided
      <4>6. Held(p, l)'
        BY <2>1, <3>1, <3>3, <4>1, <4>2, <4>4 DEF Held
      <4> QED
        BY <4>5, <4>6
    <3> QED
      BY <3>6, <3>7, <3>8
  <2> QED
    BY <2>5, <2>6
<1>12. ASSUME NEW q \in Apps, Exit(q), NEW p \in Apps
       PROVE  First(p)
  <2>1. /\ consumer' = [l \in Lines |-> IF consumer[l] = q THEN NoOne ELSE consumer[l]]
        /\ direction' = [l \in Lines |-> IF consumer[l] = q THEN "none" ELSE direction[l]]
    BY <1>12 DEF Exit
  <2>2. CASE p # q
    <3>1. /\ stage'[p] = stage[p] /\ catalog'[p] = catalog[p] /\ defs'[p] = defs[p]
          /\ request'[p] = request[p] /\ contested'[p] = contested[p]
      BY <1>12, <2>2 DEF TypeOK, Exit
    <3> QED
      BY <2>1, <2>2, <3>1, FirstKept
  <2>3. CASE p = q
    <3>1. stage'[p] = "new" /\ \A l \in Lines : consumer'[l] # p
      BY <1>12, <2>1, <2>3, AppsAssumption DEF TypeOK, Exit
    <3> QED
      BY <3>1 DEF Free, Decided, Held
  <2> QED
    BY <2>2, <2>3
<1>13. \A p \in Apps : First(p)
  BY <1>1, <1>2, <1>3, <1>6, <1>7, <1>8, <1>9, <1>10, <1>11, <1>12 DEF Next, vars, builder
<1>14. (\A p \in Apps, l \in Lines : Free(p, l) /\ Decided(p, l) /\ Held(p, l))'
  BY <1>13
<1> QED
  BY <1>14 DEF FirstInv, UncontestedFree, FirstMappingDecides, Free, Decided, Held

(* However often a line is mapped, restored or both, one that no one else    *)
(* had at any time of the buildRT() is held in the direction of its first    *)
(* definition.                                                               *)
THEOREM FirstMappingHolds == Spec => []FirstMappingDecides
<1>1. Init => FirstInv
  BY AppsAssumption DEF Init, FirstInv, UncontestedFree, FirstMappingDecides
<1>2. GpioInv /\ FirstInv /\ [Next]_vars => FirstInv'
  BY StepFirst
<1>3. FirstInv => FirstMappingDecides
  BY DEF FirstInv
<1> QED
  BY <1>1, <1>2, <1>3, GpioInvariant, PTL DEF Spec

-------------------------------------------------------------------------------
(* What the mapping file has, a builder that has loaded it has. *)
RestoredInv ==
  \A p \in Mappers : restored[p] => MappedLines(mappingFile) \subseteq MappedLines(defs[p])

LEMMA SavedLines ==
  ASSUME TypeOK, NEW p \in Apps
  PROVE  MappedLines(Saved(p)) = MappedLines(defs[p])
BY DEF MappedLines, Saved, Written

LEMMA StepRestored ==
  ASSUME NEW app \in Apps, Mappers = {app}, GpioInv, RestoredInv, [Next]_vars
  PROVE  RestoredInv'
<1> USE DEF GpioInv
<1>1. defs[app] \in Seq(Definition)
  BY DEF TypeOK
<1>2. ASSUME NEW l \in Lines, NEW t \in Types, MapChannel(app, l, t)
      PROVE  RestoredInv'
  <2>1. defs'[app] = Append(defs[app], [line |-> l, type |-> t])
    BY <1>2 DEF TypeOK, MapChannel
  <2>2. MappedLines(defs[app]) \subseteq MappedLines(defs'[app])
    BY <1>1, <2>1 DEF MappedLines
  <2> QED
    BY <1>2, <2>2 DEF RestoredInv, MapChannel, files
<1>3. CASE LoadMappings(app)
  <2> DEFINE L == Loaded(mappingFile)
  <2>1. L \in Seq(Definition) /\ DOMAIN L = DOMAIN mappingFile
    BY LoadedDefinitions DEF Loaded
  <2>2. \A i \in DOMAIN mappingFile : L[i].line = mappingFile[i].line
    BY DEF Loaded
  <2>3. defs'[app] = defs[app] \o L /\ mappingFile' = mappingFile
    BY <1>3 DEF TypeOK, LoadMappings, files
  <2> HIDE DEF L
  <2>4. ASSUME NEW i \in DOMAIN mappingFile
        PROVE  mappingFile[i].line \in MappedLines(defs'[app])
    <3>1. /\ Len(defs[app]) + i \in DOMAIN defs'[app]
          /\ defs'[app][Len(defs[app]) + i] = L[i]
      BY <1>1, <2>1, <2>3, <2>4
    <3> QED
      BY <2>2, <3>1 DEF MappedLines
  <2>5. MappedLines(mappingFile') \subseteq MappedLines(defs'[app])
    BY <2>3, <2>4 DEF MappedLines
  <2> QED
    BY <2>5 DEF RestoredInv
<1>4. CASE DiscoverSave(app)
  <2>1. mappingFile' \in {mappingFile, Saved(app)} /\ defs' = defs /\ restored' = restored
    BY <1>4 DEF DiscoverSave
  <2> QED
    BY <2>1, SavedLines DEF RestoredInv
<1>5. CASE Exit(app)
  BY <1>5 DEF TypeOK, RestoredInv, Exit
<1>6. ASSUME NEW p \in Apps, p # app, DiscoverSave(p) \/ Exit(p)
      PROVE  RestoredInv'
  BY <1>6 DEF TypeOK, RestoredInv, DiscoverSave, Exit, files
<1>7. CASE UNCHANGED <<mappingFile, defs, restored>>
  BY <1>7 DEF RestoredInv
<1>8. ASSUME NEW p \in Apps, p # app,
             (\E l \in Lines, t \in Types : MapChannel(p, l, t)) \/ LoadMappings(p)
      PROVE  FALSE
  BY <1>8 DEF MapChannel, LoadMappings
<1> QED
  BY <1>2, <1>3, <1>4, <1>5, <1>6, <1>7, <1>8
     DEF Next, vars, files, builder, KernelTakes, KernelReturns, DiscoverScan, BuildBegin,
         LineGranted, LineRefused, BuildEnd

(* Where one program alone keeps the mapping file, a save after a restore    *)
(* keeps the definition of every line, purged from the catalog or not.       *)
THEOREM MappingsSurvive ==
  ASSUME NEW app \in Apps, Mappers = {app}
  PROVE  Spec => MappingSurvivesPurge
<1>1. Init => RestoredInv
  BY AppsAssumption DEF Init, RestoredInv
<1>2. GpioInv /\ RestoredInv /\ [Next]_vars => RestoredInv'
  BY StepRestored
<1>3. GpioInv /\ RestoredInv /\ [Next]_vars =>
        [\A p \in Apps : DiscoverSave(p) /\ restored[p] =>
           MappedLines(mappingFile) \subseteq MappedLines(mappingFile')]_vars
  <2> SUFFICES ASSUME GpioInv, RestoredInv, NEW p \in Apps, DiscoverSave(p), restored[p]
               PROVE  MappedLines(mappingFile) \subseteq MappedLines(mappingFile')
    OBVIOUS
  <2>1. mappingFile' = mappingFile \/ (p \in Mappers /\ mappingFile' = Saved(p))
    BY DEF DiscoverSave
  <2> QED
    BY <2>1, SavedLines DEF GpioInv, RestoredInv
<1> QED
  BY <1>1, <1>2, <1>3, GpioInvariant, PTL DEF Spec, MappingSurvivesPurge
===============================================================================
