-------------------------- MODULE VectorBufferProofs --------------------------
(***************************************************************************)
(* Proofs about the ring of VectorBuffer.tla, for every capacity, every    *)
(* set of items and every consumer.                                        *)
(***************************************************************************)
EXTENDS VectorBuffer, SequenceTheorems, TLAPS

USE CapacityAssumption DEF Slots

(* The masked successor of an index steps to the next slot and wraps.      *)
LEMMA MaskedNext ==
  ASSUME NEW i \in Slots
  PROVE  Masked(i + 1) = IF i + 1 = Capacity THEN 0 ELSE i + 1
<1>1. CASE i + 1 = Capacity
  BY <1>1, SMTT(20) DEF Masked
<1>2. CASE i + 1 # Capacity
  BY <1>2, SMTT(20) DEF Masked
<1>3. QED
  BY <1>1, <1>2

(* The masked difference of two indices is their distance round the ring.  *)
LEMMA MaskedDistance ==
  ASSUME NEW w \in Slots, NEW r \in Slots
  PROVE  Masked(w - r) = IF w >= r THEN w - r ELSE w - r + Capacity
<1>1. CASE w >= r
  BY <1>1, SMTT(20) DEF Masked
<1>2. CASE w < r
  BY <1>2, SMTT(20) DEF Masked
<1>3. QED
  BY <1>1, <1>2

(* A concatenation holds the elements of the first part, then the second's. *)
LEMMA ConcatElements ==
  ASSUME NEW S, NEW s \in Seq(S), NEW t \in Seq(S)
  PROVE  /\ s \o t \in Seq(S)
         /\ Len(s \o t) = Len(s) + Len(t)
         /\ \A i \in 1..Len(s) : (s \o t)[i] = s[i]
         /\ \A j \in 1..Len(t) : (s \o t)[Len(s) + j] = t[j]
<1>1. Len(s) \in Nat /\ Len(t) \in Nat
  OBVIOUS
<1>2. ASSUME NEW i \in 1..Len(s) PROVE (s \o t)[i] = s[i]
  BY <1>1, ConcatProperties
<1>3. ASSUME NEW j \in 1..Len(t) PROVE (s \o t)[Len(s) + j] = t[j]
  <2>1. Len(s) + j \in 1..(Len(s) + Len(t)) /\ ~(Len(s) + j <= Len(s))
        /\ Len(s) + j - Len(s) = j
    BY <1>1
  <2>2. QED
    BY <2>1, ConcatProperties
<1>4. QED
  BY <1>2, <1>3, ConcatProperties

(* The ring starts empty.                                                  *)
LEMMA InitRing == Init => RingInv
  BY MaskedNext DEF Init, RingInv, TypeOK, Conserved, TakenInv, ProducerInv,
                    ConsumerInv, Count, HandedFor

-------------------------------------------------------------------------------
(* Steps that move neither index nor a slot nor a history.                 *)
LEMMA PushFullRing ==
  ASSUME RingInv, PushFull
  PROVE  RingInv'
  BY DEF RingInv, TypeOK, Conserved, TakenInv, ProducerInv, ConsumerInv, Count,
         SlotOf, HandedFor, PushFull, consVars

LEMMA PushBeginRing ==
  ASSUME RingInv, NEW item \in Items, PushBegin(item)
  PROVE  RingInv'
  BY DEF RingInv, TypeOK, Conserved, TakenInv, ProducerInv, ConsumerInv, Count,
         SlotOf, HandedFor, PushBegin, consVars

LEMMA TakeEmptyRing ==
  ASSUME RingInv, TakeEmpty
  PROVE  RingInv'
  BY DEF RingInv, TypeOK, Conserved, TakenInv, ProducerInv, ConsumerInv, Count,
         SlotOf, HandedFor, TakeEmpty, prodVars

-------------------------------------------------------------------------------
(* The slot a push writes is outside the published elements.               *)
LEMMA PushStoreRing ==
  ASSUME RingInv, PushStore
  PROVE  RingInv'
<1> USE DEF RingInv, PushStore, consVars
<1>1. TypeOK'
  BY DEF TypeOK, ProducerInv
<1>2. Count' = Count /\ \A k \in 0..Count : SlotOf(k)' = SlotOf(k)
  BY DEF Count, SlotOf
<1>3. ASSUME NEW k \in 0..(Count - 1)
      PROVE  SlotOf(k) \in Slots /\ SlotOf(k) # writeIdx
  BY <1>3 DEF Count, SlotOf, TypeOK
<1>4. Conserved'
  BY <1>2, <1>3 DEF Conserved, TypeOK, Count
<1>5. TakenInv' /\ ProducerInv'
  BY DEF TakenInv, ProducerInv, HandedFor, TypeOK
<1>6. ConsumerInv'
  <2>1. Count \in Nat
    BY DEF TypeOK, Count
  <2>2. consPc = "read" => SlotOf(span)' = SlotOf(span)
    BY <1>2, <2>1 DEF ConsumerInv
  <2>3. QED
    BY <1>2, <2>1, <2>2 DEF ConsumerInv, HandedFor
<1>7. QED
  BY <1>1, <1>4, <1>5, <1>6

(* Publishing a push adds its slot at the end of the published elements.   *)
LEMMA PublishedGrows ==
  ASSUME RingInv, PushPublish
  PROVE  /\ Count' = Count + 1
         /\ \A k \in 0..Count' : SlotOf(k)' = SlotOf(k)
         /\ SlotOf(Count) = writeIdx
<1> USE DEF RingInv, PushPublish, consVars
<1>1. writeIdx' = (IF writeIdx + 1 = Capacity THEN 0 ELSE writeIdx + 1)
  BY MaskedNext DEF TypeOK
<1>2. writeIdx' # readIdx
  BY DEF ProducerInv
<1>3. \A k \in 0..Count' : SlotOf(k)' = SlotOf(k)
  BY DEF SlotOf
<1>4. CASE writeIdx >= readIdx
  BY <1>1, <1>2, <1>3, <1>4 DEF Count, SlotOf, TypeOK
<1>5. CASE writeIdx < readIdx
  <2>1. writeIdx' = writeIdx + 1 /\ writeIdx' < readIdx
    BY <1>1, <1>2, <1>5 DEF TypeOK
  <2>2. Count' = Count + 1
    <3>1. readIdx' = readIdx /\ writeIdx \in Nat /\ readIdx \in Nat
      BY DEF TypeOK
    <3>2. Count = writeIdx - readIdx + Capacity
      BY <1>5, <3>1 DEF Count
    <3>3. Count' = writeIdx' - readIdx + Capacity
      BY <2>1, <3>1 DEF Count
    <3>4. QED
      BY <2>1, <3>1, <3>2, <3>3
  <2>3. SlotOf(Count) = writeIdx
    BY <1>5 DEF Count, SlotOf, TypeOK
  <2>4. QED
    BY <1>3, <2>2, <2>3
<1>6. QED
  BY <1>4, <1>5 DEF TypeOK

(* Publishing a push appends its slot to the published elements.           *)
LEMMA PushPublishRing ==
  ASSUME RingInv, PushPublish
  PROVE  RingInv'
<1> USE DEF RingInv, PushPublish, consVars
<1>1. TypeOK'
  BY MaskedNext DEF TypeOK, ProducerInv
<1>2. /\ Count' = Count + 1
      /\ \A k \in 0..Count' : SlotOf(k)' = SlotOf(k)
      /\ SlotOf(Count) = writeIdx
  BY PublishedGrows
<1>3. /\ Len(pushed') = Len(pushed) + 1
      /\ pushed'[Len(pushed) + 1] = prodItem
      /\ \A i \in 1..Len(pushed) : pushed'[i] = pushed[i]
  BY DEF TypeOK
<1>4. Count \in Nat /\ Len(pushed) \in Nat /\ Len(taken) \in Nat
  BY DEF Count, TypeOK
<1>5. Conserved'
  <2>1. Len(pushed') = Len(taken') + Count'
    BY <1>2, <1>3, <1>4 DEF Conserved
  <2>2. ASSUME NEW k \in 0..(Count' - 1)
        PROVE  storage'[SlotOf(k)'] = pushed'[Len(taken') + k + 1]
    <3>1. CASE k = Count
      BY <3>1, <1>2, <1>3, <1>4 DEF Conserved, ProducerInv
    <3>2. CASE k \in 0..(Count - 1)
      BY <3>2, <1>2, <1>3, <1>4 DEF Conserved
    <3>3. k = Count \/ k \in 0..(Count - 1)
      BY <1>2, <1>4
    <3>4. QED
      BY <3>1, <3>2, <3>3
  <2>3. QED
    BY <2>1, <2>2 DEF Conserved
<1>6. \A v, i : i \in 1..Len(pushed) /\ HandedFor(v, i) => HandedFor(v, i)'
  BY <1>3 DEF HandedFor
<1>7. TakenInv'
  BY <1>3, <1>4, <1>6 DEF TakenInv, Conserved
<1>8. ProducerInv'
  BY DEF ProducerInv
<1>9. ConsumerInv'
  <2> SUFFICES ASSUME consPc = "read"
               PROVE  ConsumerInv'
    BY DEF ConsumerInv
  <2>1. /\ span \in 1..Count /\ span \in 1..Count'
        /\ consEnd' = SlotOf(span)'
    BY <1>2, <1>4 DEF ConsumerInv
  <2>2. ASSUME NEW j \in 1..Len(batch)
        PROVE  HandedFor(batch[j], Len(taken) + j)'
    <3>1. Len(taken) + j \in 1..Len(pushed)
      BY <2>1, <1>4 DEF ConsumerInv, Conserved, TypeOK
    <3>2. QED
      BY <3>1, <1>6 DEF ConsumerInv
  <2>3. QED
    BY <2>1, <2>2 DEF ConsumerInv
<1>10. QED
  BY <1>1, <1>5, <1>7, <1>8, <1>9

-------------------------------------------------------------------------------
(* A call that begins covers at least one published element, and none that *)
(* is not published.                                                       *)
LEMMA PopBeginRing ==
  ASSUME RingInv, PopBegin
  PROVE  RingInv'
<1> USE DEF RingInv, PopBegin, prodVars
<1>1. TypeOK'
  BY MaskedNext DEF TypeOK
<1>2. Count' = Count /\ Count \in Nat \ {0} /\ \A k \in Nat : SlotOf(k)' = SlotOf(k)
  BY DEF Count, SlotOf, TypeOK
<1>3. Conserved' /\ TakenInv' /\ ProducerInv'
  BY <1>2 DEF Conserved, TakenInv, ProducerInv, HandedFor
<1>4. consEnd' = SlotOf(1)
  BY MaskedNext DEF SlotOf, TypeOK
<1>5. ConsumerInv'
  BY <1>2, <1>4 DEF ConsumerInv, HandedFor
<1>6. QED
  BY <1>1, <1>3, <1>5

LEMMA DrainBeginRing ==
  ASSUME RingInv, DrainBegin
  PROVE  RingInv'
<1> USE DEF RingInv, DrainBegin, prodVars
<1>1. span' = Count /\ Count \in Nat \ {0}
  <2>1. span' = IF writeIdx >= readIdx THEN writeIdx - readIdx
                                       ELSE writeIdx - readIdx + Capacity
    BY MaskedDistance DEF TypeOK
  <2>2. QED
    BY <2>1 DEF Count, TypeOK
<1>2. TypeOK'
  BY <1>1 DEF TypeOK
<1>3. Count' = Count /\ \A k \in Nat : SlotOf(k)' = SlotOf(k)
  BY DEF Count, SlotOf
<1>4. Conserved' /\ TakenInv' /\ ProducerInv'
  BY <1>1, <1>3 DEF Conserved, TakenInv, ProducerInv, HandedFor
<1>5. SlotOf(Count) = writeIdx
  BY DEF SlotOf, Count, TypeOK
<1>6. ConsumerInv'
  BY <1>1, <1>3, <1>5 DEF ConsumerInv, HandedFor
<1>7. QED
  BY <1>2, <1>4, <1>6

(* The element read is the next one pushed, or lies past the storage.      *)
LEMMA TakeReadRing ==
  ASSUME RingInv, TakeRead
  PROVE  RingInv'
<1> USE DEF RingInv, TakeRead, prodVars
<1>1. TypeOK'
  BY DEF TypeOK, ReadPos
<1>2. Count' = Count /\ \A k \in Nat : SlotOf(k)' = SlotOf(k)
  BY DEF Count, SlotOf
<1>3. Conserved' /\ TakenInv' /\ ProducerInv'
  BY <1>2 DEF Conserved, TakenInv, ProducerInv, HandedFor
<1> DEFINE n == Len(batch)
           v == IF ReadPos \in Slots THEN storage[ReadPos] ELSE OutOfStorage
<1>4. /\ n \in 0..(span - 1) /\ n \in 0..(Count - 1)
      /\ batch' = Append(batch, v)
  BY DEF ConsumerInv, TypeOK, Count
<1>5. HandedFor(v, Len(taken) + n + 1)
  <2>1. CASE ReadPos \in Slots
    <3>1. SlotOf(n) = ReadPos
      BY <2>1 DEF SlotOf, ReadPos, TypeOK
    <3>2. QED
      BY <2>1, <3>1, <1>4 DEF Conserved, HandedFor
  <2>2. CASE ReadPos \notin Slots
    <3>1. n # 0
      BY <2>2 DEF ReadPos, TypeOK
    <3>2. "drain" \in ConsumerOps
      BY <3>1, <1>4 DEF ConsumerInv
    <3>3. QED
      BY <2>2, <3>2 DEF HandedFor
  <2>3. QED
    BY <2>1, <2>2
<1>6. /\ Len(batch') = n + 1
      /\ batch'[n + 1] = v
      /\ \A j \in 1..n : batch'[j] = batch[j]
  BY <1>4 DEF TypeOK
<1>7. \A x, i : HandedFor(x, i)' = HandedFor(x, i)
  BY DEF HandedFor
<1>8. ASSUME NEW j \in 1..Len(batch')
      PROVE  HandedFor(batch'[j], Len(taken) + j)
  <2>1. CASE j = n + 1
    BY <2>1, <1>5, <1>6 DEF TypeOK
  <2>2. CASE j \in 1..n
    BY <2>2, <1>6 DEF ConsumerInv
  <2>3. QED
    BY <2>1, <2>2, <1>4, <1>6
<1>9. ConsumerInv'
  <2>1. /\ span \in 1..Count'
        /\ consEnd' = SlotOf(span)'
        /\ "drain" \notin ConsumerOps => span = 1
    BY <1>2 DEF ConsumerInv, TypeOK, Count
  <2>2. Len(batch') <= span'
    BY <1>4, <1>6 DEF TypeOK
  <2>3. ASSUME NEW j \in 1..Len(batch')
        PROVE  HandedFor(batch[j], Len(taken) + j)'
    BY <1>8 DEF HandedFor
  <2>4. QED
    BY <2>1, <2>2, <2>3 DEF ConsumerInv
<1>10. QED
  BY <1>1, <1>3, <1>9

-------------------------------------------------------------------------------
(* Giving slots back leaves the published elements behind them.            *)
LEMMA PublishedShrinks ==
  ASSUME RingInv, TakePublish
  PROVE  /\ span \in 1..Count /\ Count \in Nat
         /\ readIdx' = SlotOf(span)
         /\ Len(batch) = span
         /\ Count' = Count - span
         /\ \A k \in 0..(Count' - 1) : SlotOf(k)' = SlotOf(k + span)
<1> USE DEF RingInv, TakePublish, prodVars
<1>1. /\ span \in 1..Count /\ Count \in Nat
      /\ readIdx' = SlotOf(span)
      /\ Len(batch) = span
  BY DEF ConsumerInv, TypeOK, Count
<1>2. /\ Count' = Count - span
      /\ \A k \in 0..(Count' - 1) : SlotOf(k)' = SlotOf(k + span)
  <2>1. CASE readIdx + span < Capacity
    BY <1>1, <2>1 DEF Count, SlotOf, TypeOK
  <2>2. CASE readIdx + span >= Capacity
    BY <1>1, <2>2 DEF Count, SlotOf, TypeOK
  <2>3. QED
    BY <2>1, <2>2, <1>1 DEF TypeOK
<1>3. QED
  BY <1>1, <1>2

(* Giving the slots back removes the elements read from the front.         *)
LEMMA TakePublishRing ==
  ASSUME RingInv, TakePublish
  PROVE  RingInv'
<1> USE DEF RingInv, TakePublish, prodVars
<1>1. /\ span \in 1..Count /\ Count \in Nat
      /\ readIdx' = SlotOf(span)
      /\ Len(batch) = span
  BY PublishedShrinks
<1>2. /\ Count' = Count - span
      /\ \A k \in 0..(Count' - 1) : SlotOf(k)' = SlotOf(k + span)
  BY PublishedShrinks
<1>3. /\ Len(taken') = Len(taken) + span
      /\ \A i \in 1..Len(taken) : taken'[i] = taken[i]
      /\ \A j \in 1..span : taken'[Len(taken) + j] = batch[j]
  <2>1. /\ taken \in Seq(Items \cup {BlankItem, OutOfStorage})
        /\ batch \in Seq(Items \cup {BlankItem, OutOfStorage})
    BY DEF TypeOK
  <2>2. PICK S : taken \in Seq(S) /\ batch \in Seq(S)
    BY <2>1
  <2>3. /\ Len(taken \o batch) = Len(taken) + Len(batch)
        /\ \A i \in 1..Len(taken) : (taken \o batch)[i] = taken[i]
        /\ \A j \in 1..Len(batch) : (taken \o batch)[Len(taken) + j] = batch[j]
    BY ONLY <2>2, ConcatElements
  <2>4. QED
    BY <1>1, <2>3
<1>4. TypeOK'
  BY <1>1 DEF TypeOK
<1>5. Len(taken) \in Nat /\ Len(pushed) \in Nat
  BY DEF TypeOK
<1>6. Conserved'
  <2>1. Len(pushed') = Len(taken') + Count'
    <3>1. pushed' = pushed
      OBVIOUS
    <3>2. Len(pushed) = Len(taken) + Count
      BY DEF Conserved
    <3>3. Len(taken') = Len(taken) + span /\ Count' = Count - span
      BY <1>2, <1>3
    <3>4. span \in Int /\ Count \in Int /\ Len(taken) \in Int
      BY <1>1, <1>5
    <3>5. QED
      BY ONLY <3>1, <3>2, <3>3, <3>4
  <2>2. ASSUME NEW k \in 0..(Count' - 1)
        PROVE  storage'[SlotOf(k)'] = pushed'[Len(taken') + k + 1]
    <3>1. k + span \in 0..(Count - 1)
      BY <1>1, <1>2
    <3>2. SlotOf(k)' = SlotOf(k + span)
      BY <1>2
    <3>3. storage[SlotOf(k + span)] = pushed[Len(taken) + (k + span) + 1]
      BY <3>1 DEF Conserved
    <3>4. Len(taken') + k + 1 = Len(taken) + (k + span) + 1
      BY <1>1, <1>2, <1>3, <1>5
    <3>5. QED
      BY <3>2, <3>3, <3>4
  <2>3. QED
    BY <2>1, <2>2 DEF Conserved
<1>7. TakenInv'
  <2>1. ASSUME NEW i \in 1..Len(taken')
        PROVE  HandedFor(taken'[i], i)
    <3>1. CASE i \in 1..Len(taken)
      BY <3>1, <1>3 DEF TakenInv
    <3>2. CASE i \in (Len(taken) + 1)..(Len(taken) + span)
      <4>1. i - Len(taken) \in 1..span /\ i = Len(taken) + (i - Len(taken))
        BY <3>2, <1>1, <1>5
      <4>2. QED
        BY <4>1, <1>1, <1>3 DEF ConsumerInv
    <3>3. QED
      BY <3>1, <3>2, <1>1, <1>3, <1>5
  <2>2. QED
    BY <2>1 DEF TakenInv, HandedFor
<1>8. ProducerInv'
  <2>1. SUFFICES ASSUME prodPc # "idle"
                 PROVE  Masked(writeIdx + 1) # SlotOf(span)
    BY <1>1 DEF ProducerInv
  <2>2. Masked(writeIdx + 1) # readIdx
    BY <2>1 DEF ProducerInv
  <2>3. QED
    BY <2>2, <1>1, MaskedNext DEF Count, SlotOf, TypeOK
<1>9. ConsumerInv'
  BY DEF ConsumerInv
<1>10. QED
  BY <1>4, <1>6, <1>7, <1>8, <1>9

-------------------------------------------------------------------------------
(* Every step of either thread keeps the ring's invariant.                 *)
LEMMA StepRing == RingInv /\ [Next]_vars => RingInv'
<1> SUFFICES ASSUME RingInv, [Next]_vars
             PROVE  RingInv'
  OBVIOUS
<1>1. CASE Producer
  BY <1>1, PushFullRing, PushBeginRing, PushStoreRing, PushPublishRing DEF Producer
<1>2. CASE Consumer
  BY <1>2, TakeEmptyRing, PopBeginRing, DrainBeginRing, TakeReadRing, TakePublishRing
     DEF Consumer
<1>3. CASE UNCHANGED vars
  BY <1>3 DEF vars, prodVars, consVars, RingInv, TypeOK, Conserved, TakenInv,
              ProducerInv, ConsumerInv, Count, SlotOf, HandedFor
<1>4. QED
  BY <1>1, <1>2, <1>3 DEF Next

THEOREM RingInvariant == Spec => []RingInv
<1>1. QED
  BY InitRing, StepRing, PTL DEF Spec

(* The indices stay within the storage, and every variable within its type. *)
THEOREM TypeCorrect == Spec => []TypeOK
<1>1. RingInv => TypeOK
  BY DEF RingInv
<1>2. QED
  BY <1>1, RingInvariant, PTL

(* VectorBuffer.h:49-71: no element accepted by tryPush is lost, overwritten *)
(* or repeated while it waits in the storage, whatever the interleaving.     *)
THEOREM ElementsConserved == Spec => []Conserved
<1>1. RingInv => Conserved
  BY DEF RingInv
<1>2. QED
  BY <1>1, RingInvariant, PTL

(* VectorBuffer.h:58, 69, 86: tryPush never writes a slot that tryPop or the *)
(* callback of drain is reading.                                             *)
THEOREM RaceFreedom == Spec => []NoSlotRace
<1>1. RingInv => NoSlotRace
  BY DEF RingInv, TypeOK, ConsumerInv, NoSlotRace, ReadPos, Count
<1>2. QED
  BY <1>1, RingInvariant, PTL

(* A consumer that only calls tryPop is handed the items pushed, in order.   *)
THEOREM PopIsFifo ==
  ASSUME "drain" \notin ConsumerOps
  PROVE  Spec => []FifoDelivery
<1>1. RingInv => FifoDelivery
  <2> SUFFICES ASSUME RingInv
               PROVE  FifoDelivery
    OBVIOUS
  <2>1. Len(taken) <= Len(pushed)
    BY DEF RingInv, Conserved, TypeOK, Count
  <2>2. \A i \in 1..Len(taken) : taken[i] = pushed[i]
    BY DEF RingInv, TakenInv, HandedFor
  <2>3. QED
    BY <2>1, <2>2 DEF FifoDelivery
<1>2. QED
  BY <1>1, RingInvariant, PTL

(* Whatever the consumer calls, it is handed the items pushed, in order,     *)
(* except where drain reads past the end of the storage.                     *)
THEOREM DeliveryInOrder == Spec => []InOrder
<1>1. RingInv => InOrder
  BY DEF RingInv, Conserved, TakenInv, HandedFor, InOrder, TypeOK, Count
<1>2. QED
  BY <1>1, RingInvariant, PTL

-------------------------------------------------------------------------------
(* What the refinement needs besides RingInv: a push in progress was one to  *)
(* accept, and what was read is each slot as it is until it is given back,   *)
(* up to the end of the storage.                                             *)
StepInv ==
  /\ prodPc # "idle" => prodItem \in Items /\ Len(pushed) < MaxPushes
  /\ \A j \in 1..Len(batch) :
       batch[j] = IF readIdx + j <= Capacity THEN storage[SlotOf(j - 1)] ELSE OutOfStorage

(* The published elements, oldest first.                                     *)
Published == [k \in 1..Count |-> storage[SlotOf(k - 1)]]

(* A push in progress leaves the published elements alone.                   *)
LEMMA PushStoreApart ==
  ASSUME RingInv, NEW k \in 0..(Count - 1)
  PROVE  SlotOf(k) \in Slots /\ SlotOf(k) # writeIdx
  BY DEF RingInv, Count, SlotOf, TypeOK

LEMMA CountBounds ==
  ASSUME RingInv
  PROVE  /\ Count \in 0..(Capacity - 1)
         /\ Len(batch) \in 0..Count
  BY DEF RingInv, Count, TypeOK, ConsumerInv

LEMMA StepInvKept == RingInv /\ StepInv /\ [Next]_vars => StepInv'
<1> SUFFICES ASSUME RingInv, StepInv, [Next]_vars
             PROVE  StepInv'
  OBVIOUS
<1>1. CASE PushFull
  BY <1>1 DEF StepInv, SlotOf, PushFull, consVars
<1>2. ASSUME NEW item \in Items, PushBegin(item)
      PROVE  StepInv'
  BY <1>2 DEF StepInv, SlotOf, PushBegin, consVars
<1>3. CASE PushStore
  <2>1. ASSUME NEW j \in 1..Len(batch)
        PROVE  storage'[SlotOf(j - 1)] = storage[SlotOf(j - 1)]
    <3>1. j - 1 \in 0..(Count - 1)
      BY CountBounds
    <3>2. QED
      BY <1>3, <3>1, PushStoreApart DEF PushStore, RingInv, TypeOK
  <2>2. QED
    BY <1>3, <2>1 DEF StepInv, SlotOf, PushStore, consVars
<1>4. CASE PushPublish
  BY <1>4 DEF StepInv, SlotOf, PushPublish, consVars
<1>5. CASE TakeEmpty
  BY <1>5 DEF StepInv, SlotOf, TakeEmpty, prodVars
<1>6. CASE PopBegin
  BY <1>6 DEF StepInv, SlotOf, PopBegin, prodVars
<1>7. CASE DrainBegin
  BY <1>7 DEF StepInv, SlotOf, DrainBegin, prodVars
<1>8. CASE TakeRead
  <2> DEFINE n == Len(batch)
             v == IF ReadPos \in Slots THEN storage[ReadPos] ELSE OutOfStorage
  <2>1. /\ n \in Nat
        /\ batch' = Append(batch, v)
        /\ Len(batch') = n + 1
        /\ batch'[n + 1] = v
        /\ \A j \in 1..n : batch'[j] = batch[j]
    BY <1>8 DEF TakeRead, RingInv, TypeOK
  <2>2. v = IF readIdx + (n + 1) <= Capacity THEN storage[SlotOf(n)] ELSE OutOfStorage
    BY <2>1 DEF ReadPos, SlotOf, RingInv, TypeOK
  <2>3. ASSUME NEW j \in 1..(n + 1)
        PROVE  batch'[j] = IF readIdx + j <= Capacity THEN storage[SlotOf(j - 1)] ELSE OutOfStorage
    <3>1. CASE j = n + 1
      <4>1. j - 1 = n
        BY <3>1, <2>1
      <4>2. QED
        BY <3>1, <4>1, <2>1, <2>2
    <3>2. CASE j \in 1..n
      BY <3>2, <2>1 DEF StepInv
    <3>3. QED
      BY <3>1, <3>2, <2>1
  <2>4. QED
    BY <1>8, <2>1, <2>3 DEF StepInv, SlotOf, TakeRead, prodVars
<1>9. CASE TakePublish
  BY <1>9 DEF StepInv, TakePublish, prodVars
<1>10. CASE UNCHANGED vars
  BY <1>10 DEF StepInv, SlotOf, vars, prodVars, consVars
<1>11. QED
  BY <1>1, <1>2, <1>3, <1>4, <1>5, <1>6, <1>7, <1>8, <1>9, <1>10
     DEF Next, Producer, Consumer

-------------------------------------------------------------------------------
(* The published elements are a sequence of what the storage holds.          *)
LEMMA PublishedSeq ==
  ASSUME RingInv
  PROVE  /\ Published \in Seq(Items \cup {BlankItem, OutOfStorage})
         /\ Len(Published) = Count
         /\ \A i \in 1..Count : Published[i] = storage[SlotOf(i - 1)]
<1> DEFINE S == Items \cup {BlankItem, OutOfStorage}
<1>1. Count \in Nat
  BY CountBounds
<1>2. ASSUME NEW k \in 1..Count
      PROVE  storage[SlotOf(k - 1)] \in S
  <2>1. k - 1 \in 0..(Count - 1)
    BY <1>1
  <2>2. SlotOf(k - 1) \in Slots
    BY <2>1, PushStoreApart
  <2>3. QED
    BY <2>2 DEF RingInv, TypeOK
<1>3. QED
  BY <1>1, <1>2 DEF Published

(* Steps of the ring that are no step of the queue.                          *)
LEMMA UnseenSteps ==
  ASSUME RingInv, UNCHANGED <<writeIdx, readIdx, pushed, taken, pushResult, takeResult>>,
         UNCHANGED storage \/ PushStore
  PROVE  UNCHANGED Queue!vars
<1>1. Count' = Count /\ \A k \in 1..Count : SlotOf(k - 1)' = SlotOf(k - 1)
  BY DEF Count, SlotOf
<1>2. ASSUME NEW k \in 1..Count
      PROVE  storage'[SlotOf(k - 1)] = storage[SlotOf(k - 1)]
  <2>1. CASE UNCHANGED storage
    BY <2>1
  <2>2. CASE PushStore
    <3>1. k - 1 \in 0..(Count - 1)
      BY CountBounds
    <3>2. QED
      BY <2>2, <3>1, PushStoreApart DEF PushStore, RingInv, TypeOK
  <2>3. QED
    BY <2>1, <2>2
<1>3. Published' = Published
  BY <1>1, <1>2 DEF Published
<1>4. QED
  BY <1>3 DEF Queue!vars, Published

LEMMA PushFullRefuses ==
  ASSUME RingInv, PushFull
  PROVE  Queue!Refuse
<1>1. Count = Capacity - 1
  BY MaskedNext DEF RingInv, TypeOK, PushFull, Count
<1>2. Len(Published) = Capacity - 1
  BY <1>1, PublishedSeq
<1>3. Published' = Published
  BY DEF PushFull, consVars, Published, Count, SlotOf
<1>4. QED
  BY <1>2, <1>3 DEF Queue!Refuse, Published, PushFull, consVars

LEMMA PushPublishPushes ==
  ASSUME RingInv, RingInv', StepInv, PushPublish
  PROVE  Queue!Push(prodItem)
<1> DEFINE S == Items \cup {BlankItem, OutOfStorage}
<1>1. /\ Count' = Count + 1
      /\ \A k \in 0..Count' : SlotOf(k)' = SlotOf(k)
      /\ SlotOf(Count) = writeIdx
  BY PublishedGrows
<1>2. Count \in Nat /\ Count + 1 <= Capacity - 1
  <2>1. Count # Capacity - 1
    BY MaskedNext DEF RingInv, ProducerInv, TypeOK, PushPublish, Count
  <2>2. QED
    BY <2>1, CountBounds
<1>3. prodItem \in Items /\ Len(pushed) < MaxPushes /\ storage[writeIdx] = prodItem
  BY DEF PushPublish, StepInv, RingInv, ProducerInv
<1>4. Published' = [k \in 1..(Count + 1) |-> storage[SlotOf(k - 1)]]
  <2>1. storage' = storage
    BY DEF PushPublish
  <2>2. \A k \in 1..(Count + 1) : SlotOf(k - 1)' = SlotOf(k - 1)
    BY <1>1, <1>2
  <2>3. QED
    BY <2>1, <2>2, <1>1 DEF Published
<1>5. /\ Published' \in Seq(S)
      /\ Len(Published') = Count + 1
      /\ \A i \in 1..(Count + 1) : Published'[i] = storage[SlotOf(i - 1)]
  <2>1. \A k \in 1..(Count + 1) : storage[SlotOf(k - 1)] \in S
    <3>1. ASSUME NEW k \in 1..(Count + 1)
          PROVE  SlotOf(k - 1) \in Slots
      <4>1. CASE k = Count + 1
        BY <4>1, <1>1, <1>2 DEF RingInv, TypeOK
      <4>2. CASE k \in 1..Count
        <5>1. k - 1 \in 0..(Count - 1)
          BY <4>2, <1>2
        <5>2. QED
          BY <5>1, PushStoreApart
      <4>3. QED
        BY <4>1, <4>2, <1>2
    <3>2. QED
      BY <3>1 DEF RingInv, TypeOK
  <2>2. QED
    BY <1>2, <1>4, <2>1
<1>6. /\ Published \in Seq(S) /\ prodItem \in S
      /\ Len(Published) = Count
      /\ \A i \in 1..Count : Published[i] = storage[SlotOf(i - 1)]
  BY <1>3, PublishedSeq
<1>7. /\ Append(Published, prodItem) \in Seq(S)
      /\ Len(Append(Published, prodItem)) = Count + 1
      /\ Append(Published, prodItem)[Count + 1] = prodItem
      /\ \A i \in 1..Count : Append(Published, prodItem)[i] = Published[i]
  BY ONLY <1>2, <1>6, AppendProperties
<1>8. ASSUME NEW i \in 1..(Count + 1)
      PROVE  Published'[i] = Append(Published, prodItem)[i]
  <2>1. CASE i = Count + 1
    <3>1. SlotOf(i - 1) = writeIdx
      BY <2>1, <1>1, <1>2
    <3>2. QED
      BY <2>1, <3>1, <1>3, <1>5, <1>7
  <2>2. CASE i \in 1..Count
    BY <2>2, <1>5, <1>6, <1>7
  <2>3. i = Count + 1 \/ i \in 1..Count
    BY <1>2
  <2>4. QED
    BY <2>1, <2>2, <2>3
<1>9. Published' = Append(Published, prodItem)
  <2> HIDE DEF S
  <2>1. Len(Published') = Len(Append(Published, prodItem))
    BY <1>5, <1>7
  <2>2. \A i \in 1..Len(Published') : Published'[i] = Append(Published, prodItem)[i]
    BY <1>5, <1>8
  <2>3. QED
    BY <1>5, <1>7, <2>1, <2>2, SeqEqual
<1>10. Len(pushed') = Len(pushed) + 1
  BY DEF PushPublish, RingInv, TypeOK
<1>11. QED
  <2>1. Len([k \in 1..Count |-> storage[SlotOf(k - 1)]]) < Capacity - 1
    BY <1>2, <1>6 DEF Published
  <2>2. [k \in 1..Count |-> storage[SlotOf(k - 1)]]'
          = Append([k \in 1..Count |-> storage[SlotOf(k - 1)]], prodItem)
    BY ONLY <1>9 DEF Published
  <2>3. pushResult' = "pushed" /\ UNCHANGED <<taken, takeResult>>
    BY DEF PushPublish, consVars
  <2>4. QED
    BY <2>1, <2>2, <2>3, <1>3, <1>10 DEF Queue!Push

LEMMA TakeEmptyFindsEmpty ==
  ASSUME RingInv, TakeEmpty
  PROVE  Queue!FindEmpty
<1>1. Count = 0
  BY DEF RingInv, TypeOK, TakeEmpty, Count
<1>2. Published = << >>
  BY <1>1 DEF Published
<1>3. Published' = Published
  BY DEF TakeEmpty, prodVars, Published, Count, SlotOf
<1>4. QED
  BY <1>2, <1>3 DEF Queue!FindEmpty, Published, TakeEmpty, prodVars

(* How many of the elements read lie within the storage.                     *)
Readable == IF readIdx + span <= Capacity THEN span ELSE Capacity - readIdx

LEMMA TakePublishTakes ==
  ASSUME RingInv, StepInv, TakePublish
  PROVE  Queue!Take(span, Readable)
<1> DEFINE S == Items \cup {BlankItem, OutOfStorage}
           m == Readable
           tail == [i \in 1..(span - m) |-> OutOfStorage]
<1>1. /\ span \in 1..Count /\ Count \in Nat
      /\ Len(batch) = span
      /\ Count' = Count - span
      /\ \A k \in 0..(Count' - 1) : SlotOf(k)' = SlotOf(k + span)
  BY PublishedShrinks
<1>2. m \in 1..span
  BY <1>1 DEF Readable, RingInv, TypeOK
<1>3. /\ Published \in Seq(S)
      /\ Len(Published) = Count
      /\ \A i \in 1..Count : Published[i] = storage[SlotOf(i - 1)]
  BY PublishedSeq
<1>4. \A i \in 1..Count : Published[i] \in S
  BY <1>3
<1>5. Published' = SubSeq(Published, span + 1, Len(Published))
  <2> DEFINE rest == SubSeq(Published, span + 1, Count)
  <2>1. /\ rest \in Seq(S)
        /\ Len(rest) = Count - span
        /\ \A i \in 1..(Count - span) : rest[i] = Published[span + i]
    <3>1. \A i \in (span + 1)..Count : Published[i] \in S
      BY <1>1, <1>4
    <3>2. /\ rest \in Seq(S)
          /\ Len(rest) = IF span + 1 <= Count THEN Count - (span + 1) + 1 ELSE 0
          /\ \A i \in 1..(Count - (span + 1) + 1) : rest[i] = Published[(span + 1) + i - 1]
      BY ONLY <1>1, <3>1, SubSeqProperties
    <3>3. QED
      BY <1>1, <3>2
  <2>2. Published' = [k \in 1..(Count - span) |-> storage[SlotOf((k - 1) + span)]]
    <3>1. storage' = storage
      BY DEF TakePublish
    <3>2. \A k \in 1..(Count - span) : SlotOf(k - 1)' = SlotOf((k - 1) + span)
      BY <1>1
    <3>3. QED
      BY <1>1, <3>1, <3>2 DEF Published
  <2>3. ASSUME NEW i \in 1..(Count - span)
        PROVE  storage[SlotOf((i - 1) + span)] = rest[i]
    <3>1. span + i \in 1..Count /\ (span + i) - 1 = (i - 1) + span
      BY <1>1
    <3>2. QED
      BY <3>1, <1>3, <2>1
  <2>4. /\ Published' \in Seq(S)
        /\ Len(Published') = Count - span
        /\ \A i \in 1..(Count - span) : Published'[i] = rest[i]
    <3>1. Count - span \in Nat
      BY <1>1
    <3>2. \A k \in 1..(Count - span) : storage[SlotOf((k - 1) + span)] \in S
      <4> HIDE DEF S, rest
      <4>1. \A i \in 1..(Count - span) : rest[i] \in S
        BY <2>1, <3>1
      <4>2. QED
        BY <2>3, <4>1
    <3>3. Published' \in Seq(S) /\ Len(Published') = Count - span
      BY <2>2, <3>1, <3>2
    <3>4. \A i \in 1..(Count - span) : Published'[i] = rest[i]
      <4> HIDE DEF rest
      <4>1. QED
        BY <2>2, <2>3
    <3>5. QED
      BY <3>3, <3>4
  <2>5. Published' = rest
    BY ONLY <2>1, <2>4, SeqEqual
  <2>6. QED
    BY <2>5, <1>3
<1>6. /\ SubSeq(Published, 1, m) \in Seq(S)
      /\ Len(SubSeq(Published, 1, m)) = m
      /\ \A i \in 1..m : SubSeq(Published, 1, m)[i] = Published[i]
  <2>1. \A i \in 1..m : Published[i] \in S
    BY <1>1, <1>2, <1>4
  <2>2. /\ SubSeq(Published, 1, m) \in Seq(S)
        /\ Len(SubSeq(Published, 1, m)) = IF 1 <= m THEN m - 1 + 1 ELSE 0
        /\ \A i \in 1..(m - 1 + 1) : SubSeq(Published, 1, m)[i] = Published[1 + i - 1]
    BY ONLY <1>1, <1>2, <2>1, SubSeqProperties
  <2>3. QED
    BY <1>1, <1>2, <2>2
<1>7. tail \in Seq(S) /\ Len(tail) = span - m
  BY <1>1, <1>2
<1>8. batch = SubSeq(Published, 1, m) \o tail
  <2> DEFINE read == SubSeq(Published, 1, m)
  <2>1. /\ read \o tail \in Seq(S)
        /\ Len(read \o tail) = m + (span - m)
        /\ \A i \in 1..m : (read \o tail)[i] = read[i]
        /\ \A j \in 1..(span - m) : (read \o tail)[m + j] = tail[j]
    <3>1. read \in Seq(S) /\ tail \in Seq(S) /\ Len(read) = m /\ Len(tail) = span - m
      BY <1>6, <1>7
    <3> HIDE DEF S, tail, read
    <3>2. read \o tail \in Seq(S)
      BY ONLY <3>1, ConcatProperties
    <3>3. /\ Len(read \o tail) = Len(read) + Len(tail)
          /\ \A i \in 1..Len(read) : (read \o tail)[i] = read[i]
          /\ \A j \in 1..Len(tail) : (read \o tail)[Len(read) + j] = tail[j]
      <4>1. PICK T : read \in Seq(T) /\ tail \in Seq(T)
        BY ONLY <3>1
      <4>2. QED
        BY ONLY <4>1, ConcatElements
    <3>4. QED
      BY ONLY <3>1, <3>2, <3>3
  <2>2. ASSUME NEW i \in 1..span
        PROVE  batch[i] = (read \o tail)[i]
    <3>1. batch[i] = IF readIdx + i <= Capacity THEN storage[SlotOf(i - 1)] ELSE OutOfStorage
      BY <1>1 DEF StepInv
    <3>2. CASE i \in 1..m
      <4>1. readIdx + i <= Capacity /\ i \in 1..Count
        BY <3>2, <1>1, <1>2 DEF Readable, RingInv, TypeOK
      <4>2. QED
        BY <3>1, <3>2, <4>1, <2>1, <1>3, <1>6
    <3>3. CASE i \notin 1..m
      <4>1. /\ ~(readIdx + i <= Capacity)
            /\ i - m \in 1..(span - m) /\ i = m + (i - m)
        BY <3>3, <1>1, <1>2 DEF Readable, RingInv, TypeOK
      <4>2. (read \o tail)[i] = tail[i - m]
        BY <4>1, <2>1
      <4>3. QED
        BY <3>1, <4>1, <4>2
    <3>4. QED
      BY <3>2, <3>3
  <2>3. batch \in Seq(S) /\ Len(batch) = Len(read \o tail)
    BY <1>1, <1>2, <2>1 DEF RingInv, TypeOK
  <2>4. QED
    BY ONLY <2>1, <2>2, <2>3, <1>1, SeqEqual
<1>9. taken' = (taken \o SubSeq(Published, 1, m)) \o tail
  <2>1. taken \in Seq(S)
    BY DEF RingInv, TypeOK
  <2> DEFINE read == SubSeq(Published, 1, m)
  <2>2. (taken \o read) \o tail = taken \o (read \o tail)
    <3>1. read \in Seq(S) /\ tail \in Seq(S)
      BY <1>6, <1>7
    <3> HIDE DEF S, tail, read
    <3>2. QED
      BY ONLY <2>1, <3>1, ConcatAssociative
  <2>3. taken' = taken \o batch
    BY DEF TakePublish
  <2>4. QED
    BY ONLY <2>2, <2>3, <1>8
<1>10. QED
  <2>1. [k \in 1..Count |-> storage[SlotOf(k - 1)]]'
          = SubSeq([k \in 1..Count |-> storage[SlotOf(k - 1)]], span + 1,
                   Len([k \in 1..Count |-> storage[SlotOf(k - 1)]]))
    BY ONLY <1>5 DEF Published
  <2>2. taken' = (taken \o SubSeq([k \in 1..Count |-> storage[SlotOf(k - 1)]], 1, m)) \o tail
    BY ONLY <1>9 DEF Published
  <2>3. takeResult' = "items" /\ UNCHANGED <<Len(pushed), pushResult>>
    BY DEF TakePublish, prodVars
  <2>4. QED
    BY ONLY <2>1, <2>2, <2>3 DEF Queue!Take

LEMMA InitQueue == Init => Queue!Init
<1> SUFFICES ASSUME Init
             PROVE  Queue!Init
  OBVIOUS
<1>1. Count = 0
  BY DEF Init, Count
<1>2. [k \in 1..Count |-> storage[SlotOf(k - 1)]] = << >>
  BY <1>1
<1>3. QED
  BY <1>2 DEF Init, Queue!Init

LEMMA StepQueue ==
  RingInv /\ RingInv' /\ StepInv /\ [Next]_vars => [Queue!Next]_(Queue!vars)
<1> SUFFICES ASSUME RingInv, RingInv', StepInv, [Next]_vars
             PROVE  [Queue!Next]_(Queue!vars)
  OBVIOUS
<1>1. CASE PushFull
  BY <1>1, PushFullRefuses DEF Queue!Next
<1>2. ASSUME NEW item \in Items, PushBegin(item)
      PROVE  UNCHANGED Queue!vars
  BY <1>2, UnseenSteps DEF PushBegin, consVars
<1>3. CASE PushStore
  BY <1>3, UnseenSteps DEF PushStore, consVars
<1>4. CASE PushPublish
  <2>1. prodItem \in Items
    BY <1>4 DEF StepInv, PushPublish
  <2>2. QED
    BY <1>4, <2>1, PushPublishPushes DEF Queue!Next
<1>5. CASE TakeEmpty
  BY <1>5, TakeEmptyFindsEmpty DEF Queue!Next
<1>6. CASE PopBegin
  BY <1>6, UnseenSteps DEF PopBegin, prodVars
<1>7. CASE DrainBegin
  BY <1>7, UnseenSteps DEF DrainBegin, prodVars
<1>8. CASE TakeRead
  BY <1>8, UnseenSteps DEF TakeRead, prodVars
<1>9. CASE TakePublish
  <2>1. Queue!Take(span, Readable)
    BY <1>9, TakePublishTakes
  <2>2. span \in 1..Count /\ Len([k \in 1..Count |-> storage[SlotOf(k - 1)]]) = Count
    BY <1>9, PublishedShrinks, PublishedSeq DEF Published
  <2>3. Readable \in 1..span
    BY <2>2 DEF Readable, RingInv, TypeOK, Count
  <2>4. QED
    BY <2>1, <2>2, <2>3 DEF Queue!Next
<1>10. CASE UNCHANGED vars
  BY <1>10, UnseenSteps DEF vars, prodVars, consVars
<1>11. QED
  BY <1>1, <1>2, <1>3, <1>4, <1>5, <1>6, <1>7, <1>8, <1>9, <1>10
     DEF Next, Producer, Consumer

(* VectorBuffer.h:49-88: with any interleaving of the two threads, every     *)
(* call of the ring is one atomic step of a queue of Capacity - 1 items: it  *)
(* refuses only when full, finds empty only what is, and gives back each     *)
(* item once, in order, where drain stays within the storage as it was.      *)
THEOREM RingImplementsQueue == Spec => QueueSpec
<1>1. Init => StepInv
  BY DEF Init, StepInv
<1>2. Spec => []StepInv
  BY <1>1, InitRing, StepRing, StepInvKept, PTL DEF Spec
<1>3. QED
  BY <1>2, InitQueue, StepQueue, RingInvariant, PTL DEF Spec, QueueSpec, Queue!Spec
===============================================================================
