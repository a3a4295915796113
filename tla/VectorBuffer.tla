----------------------------- MODULE VectorBuffer -----------------------------
(***************************************************************************)
(* include/dynamichardware/rt/VectorBuffer.h: the lock-free ring between   *)
(* one real-time producer thread (tryPush) and one consumer thread         *)
(* (tryPop, drain).                                                        *)
(*                                                                         *)
(* Each call is split where the other thread can run: the loads that       *)
(* decide it, every access to a slot of the (non-atomic) storage, and the  *)
(* store that publishes the new index.  A thread's own index changes only  *)
(* by its own hand, so the load of it needs no step of its own; the        *)
(* release store and the acquire load of the other index order the slot    *)
(* accesses, so the steps interleave.                                      *)
(*                                                                         *)
(* drain() hands the callback one contiguous span of `available` elements  *)
(* that starts at readPos and does not wrap.  Elements past the end of the *)
(* storage do not exist: reading one yields OutOfStorage.                  *)
(***************************************************************************)
EXTENDS Integers, Sequences

CONSTANTS
  Capacity,     \* slots of the storage; the constructor asserts a power of two
  Items,        \* values the producer pushes
  BlankItem,    \* the value-initialised T the storage is created with
  OutOfStorage, \* what reading past the end of the storage gives
  ConsumerOps,  \* the consumer calls the application uses
  MaxPushes     \* bound on the pushes that are accepted

ASSUME CapacityAssumption == Capacity \in Nat \ {0}
ASSUME PowerOfTwoAssumption == \E k \in 0..Capacity : Capacity = 2 ^ k
ASSUME OpsAssumption == ConsumerOps \subseteq {"tryPop", "drain"}
ASSUME MaxPushesAssumption == MaxPushes \in Nat
ASSUME BlankAssumption == BlankItem \notin Items /\ OutOfStorage \notin Items

VARIABLES
  storage,     \* storage_
  writeIdx,    \* writeIdx_
  readIdx,     \* readIdx_
  prodPc,      \* where the producer is in tryPush
  prodItem,    \* the argument of the tryPush in progress
  pushResult,  \* what the last finished tryPush returned
  consPc,      \* where the consumer is in tryPop or drain
  span,        \* how many elements the call in progress reads
  consEnd,     \* the index it will publish
  batch,       \* the elements it has read so far
  takeResult,  \* what the last finished consumer call returned
  pushed,      \* history: the items accepted, in order
  taken        \* history: the elements handed to the consumer, in order

prodVars == <<writeIdx, prodPc, prodItem, pushResult, pushed>>
consVars == <<readIdx, consPc, span, consEnd, batch, takeResult, taken>>
vars == <<storage, prodVars, consVars>>

Slots == 0..(Capacity - 1)

(* Mistake: the mask one too wide. *)
MaskedTooWide(x) == x % (Capacity + 1)

(* x & mask_, with mask_ = capacity - 1 and a power-of-two capacity. *)
Masked(x) == x % Capacity

Init ==
  /\ storage = [s \in Slots |-> BlankItem]
  /\ writeIdx = 0
  /\ readIdx = 0
  /\ prodPc = "idle"
  /\ prodItem = BlankItem
  /\ pushResult = "none"
  /\ consPc = "idle"
  /\ span = 0
  /\ consEnd = 0
  /\ batch = << >>
  /\ takeResult = "none"
  /\ pushed = << >>
  /\ taken = << >>

-------------------------------------------------------------------------------
(* Mistakes a change to this code could make; the properties below catch them. *)

(* tryPush reports a full ring one slot too early. *)
PushFullEarly ==
  /\ prodPc = "idle"
  /\ Masked(writeIdx + 2) = readIdx
  /\ pushResult' = "full"
  /\ UNCHANGED <<storage, writeIdx, prodPc, prodItem, pushed, consVars>>

(* tryPush without its test for a full ring. *)
PushBeginUnchecked(item) ==
  /\ prodPc = "idle"
  /\ Len(pushed) < MaxPushes
  /\ prodItem' = item
  /\ prodPc' = "store"
  /\ UNCHANGED <<storage, writeIdx, pushResult, pushed, consVars>>

(* tryPop without its test for an empty ring. *)
PopBeginUnchecked ==
  /\ "tryPop" \in ConsumerOps
  /\ consPc = "idle"
  /\ span' = 1
  /\ consEnd' = Masked(readIdx + 1)
  /\ consPc' = "read"
  /\ UNCHANGED <<storage, readIdx, batch, takeResult, taken, prodVars>>

(* The consumer publishes the write index as it is now, not as it was loaded. *)
TakePublishReloaded ==
  /\ consPc = "read"
  /\ Len(batch) = span
  /\ readIdx' = writeIdx
  /\ taken' = taken \o batch
  /\ takeResult' = "items"
  /\ consPc' = "idle"
  /\ batch' = << >>
  /\ UNCHANGED <<storage, span, consEnd, prodVars>>

-------------------------------------------------------------------------------
(* tryPush: load readIdx_ and give up when the next position is taken. *)
PushFull ==
  /\ prodPc = "idle"
  /\ Masked(writeIdx + 1) = readIdx
  /\ pushResult' = "full"
  /\ UNCHANGED <<storage, writeIdx, prodPc, prodItem, pushed, consVars>>

(* tryPush: there is room, go on to the slot. *)
PushBegin(item) ==
  /\ prodPc = "idle"
  /\ Len(pushed) < MaxPushes
  /\ Masked(writeIdx + 1) # readIdx
  /\ prodItem' = item
  /\ prodPc' = "store"
  /\ UNCHANGED <<storage, writeIdx, pushResult, pushed, consVars>>

(* storage_[writePos] = item *)
PushStore ==
  /\ prodPc = "store"
  /\ storage' = [storage EXCEPT ![writeIdx] = prodItem]
  /\ prodPc' = "publish"
  /\ UNCHANGED <<writeIdx, prodItem, pushResult, pushed, consVars>>

(* writeIdx_.store(nextPos, release) *)
PushPublish ==
  /\ prodPc = "publish"
  /\ writeIdx' = Masked(writeIdx + 1)
  /\ pushed' = Append(pushed, prodItem)
  /\ pushResult' = "pushed"
  /\ prodPc' = "idle"
  /\ UNCHANGED <<storage, prodItem, consVars>>

-------------------------------------------------------------------------------
(* tryPop and drain on an empty ring. *)
TakeEmpty ==
  /\ consPc = "idle"
  /\ readIdx = writeIdx
  /\ takeResult' = "empty"
  /\ UNCHANGED <<storage, readIdx, consPc, span, consEnd, batch, taken, prodVars>>

(* tryPop: one element, then publish the position after it. *)
PopBegin ==
  /\ "tryPop" \in ConsumerOps
  /\ consPc = "idle"
  /\ readIdx # writeIdx
  /\ span' = 1
  /\ consEnd' = Masked(readIdx + 1)
  /\ consPc' = "read"
  /\ UNCHANGED <<storage, readIdx, batch, takeResult, taken, prodVars>>

(* drain: everything up to the write position loaded now. *)
DrainBegin ==
  /\ "drain" \in ConsumerOps
  /\ consPc = "idle"
  /\ readIdx # writeIdx
  /\ span' = Masked(writeIdx - readIdx)
  /\ consEnd' = writeIdx
  /\ consPc' = "read"
  /\ UNCHANGED <<storage, readIdx, batch, takeResult, taken, prodVars>>

(* The address storage_.data() + readPos + (elements already read). *)
ReadPos == readIdx + Len(batch)

(* One element of the span is read, by tryPop or by drain's callback. *)
TakeRead ==
  /\ consPc = "read"
  /\ Len(batch) < span
  /\ batch' = Append(batch, IF ReadPos \in Slots THEN storage[ReadPos]
                                                 ELSE OutOfStorage)
  /\ UNCHANGED <<storage, readIdx, consPc, span, consEnd, takeResult, taken, prodVars>>

(* readIdx_.store(..., release): the slots go back to the producer. *)
TakePublish ==
  /\ consPc = "read"
  /\ Len(batch) = span
  /\ readIdx' = consEnd
  /\ taken' = taken \o batch
  /\ takeResult' = "items"
  /\ consPc' = "idle"
  /\ batch' = << >>
  /\ UNCHANGED <<storage, span, consEnd, prodVars>>

-------------------------------------------------------------------------------
Producer == PushFull \/ (\E item \in Items : PushBegin(item)) \/ PushStore \/ PushPublish
Consumer == TakeEmpty \/ PopBegin \/ DrainBegin \/ TakeRead \/ TakePublish
Next == Producer \/ Consumer

Spec == Init /\ [][Next]_vars

(* A push that has begun is finished, and the consumer thread keeps calling; *)
(* nothing obliges the producer to push.                                     *)
Fairness ==
  /\ WF_vars(PushStore \/ PushPublish)
  /\ WF_vars(PopBegin \/ DrainBegin \/ TakeRead \/ TakePublish)

FairSpec == Spec /\ Fairness

-------------------------------------------------------------------------------
TypeOK ==
  /\ storage \in [Slots -> Items \cup {BlankItem}]
  /\ writeIdx \in Slots
  /\ readIdx \in Slots
  /\ prodPc \in {"idle", "store", "publish"}
  /\ prodItem \in Items \cup {BlankItem}
  /\ pushResult \in {"none", "pushed", "full"}
  /\ consPc \in {"idle", "read"}
  /\ span \in Nat
  /\ consEnd \in Slots
  /\ batch \in Seq(Items \cup {BlankItem, OutOfStorage})
  /\ takeResult \in {"none", "items", "empty"}
  /\ pushed \in Seq(Items \cup {BlankItem})
  /\ taken \in Seq(Items \cup {BlankItem, OutOfStorage})

(* The number of published elements, and the slot of the k-th of them. *)
Count == IF writeIdx >= readIdx THEN writeIdx - readIdx
                                ELSE writeIdx - readIdx + Capacity
SlotOf(k) == IF readIdx + k < Capacity THEN readIdx + k ELSE readIdx + k - Capacity

(* The producer never writes the slot the consumer is reading (neither       *)
(* access is atomic, so an overlap would be a data race).                    *)
NoSlotRace ==
  prodPc = "store" /\ consPc = "read" /\ Len(batch) < span
    => writeIdx # ReadPos

(* Every accepted item is either still in the ring, at its place in order,   *)
(* or was counted once in what the consumer was handed: none is lost,        *)
(* overwritten, repeated or reordered on its way through the slots.          *)
Conserved ==
  /\ Len(pushed) = Len(taken) + Count
  /\ \A k \in 0..(Count - 1) : storage[SlotOf(k)] = pushed[Len(taken) + k + 1]

(* What the consumer is handed is what was pushed, except where drain's      *)
(* unwrapped span runs past the end of the storage.                          *)
InOrder ==
  /\ Len(taken) <= Len(pushed)
  /\ \A i \in 1..Len(taken) : taken[i] \in {pushed[i], OutOfStorage}

(* The n-th item the consumer is handed is the n-th item pushed.             *)
FifoDelivery ==
  /\ Len(taken) <= Len(pushed)
  /\ \A i \in 1..Len(taken) : taken[i] = pushed[i]

(* v may stand for the i-th item pushed: it is that item, or drain read it   *)
(* past the end of the storage.                                              *)
HandedFor(v, i) ==
  v = pushed[i] \/ (v = OutOfStorage /\ "drain" \in ConsumerOps)

TakenInv ==
  \A i \in 1..Len(taken) : HandedFor(taken[i], i)

(* A push in progress still has its slot, which after PushStore holds its    *)
(* item.                                                                     *)
ProducerInv ==
  /\ prodPc # "idle" => Masked(writeIdx + 1) # readIdx
  /\ prodPc = "publish" => storage[writeIdx] = prodItem

(* A consumer call in progress covers a prefix of the published elements and *)
(* has read the first of them in order.                                      *)
ConsumerInv ==
  /\ consPc = "idle" => batch = << >>
  /\ consPc = "read" =>
       /\ span \in 1..Count
       /\ "drain" \notin ConsumerOps => span = 1
       /\ consEnd = SlotOf(span)
       /\ Len(batch) <= span
       /\ \A j \in 1..Len(batch) : HandedFor(batch[j], Len(taken) + j)

(* The inductive invariant behind the safety properties above.               *)
RingInv == TypeOK /\ Conserved /\ TakenInv /\ ProducerInv /\ ConsumerInv

(* Item n was passed over by one drain() across the end of the storage: it   *)
(* and all before it in its lap, which is not the first, and the last two    *)
(* slots of a lap never.                                                     *)
PassedOver(n) ==
  /\ n > Capacity
  /\ Masked(n - 1) < Capacity - 2
  /\ \A k \in (n - Masked(n - 1))..n : taken[k] = OutOfStorage

(* The turn of every accepted item comes: it is handed over as it was        *)
(* pushed, or passed over by a drain() whose span left the storage.          *)
AllDelivered ==
  \A n \in 1..MaxPushes :
    Len(pushed) >= n ~> Len(taken) >= n /\ (taken[n] = pushed[n] \/ PassedOver(n))

(* The ring implements the atomic queue that holds Capacity - 1 items: each  *)
(* call takes effect at one point, refuses only a full queue, finds only an  *)
(* empty one empty, and a tryPop hands over the oldest item as it was.       *)
Queue == INSTANCE SpscQueue
  WITH queue <- [k \in 1..Count |-> storage[SlotOf(k - 1)]],
       accepted <- Len(pushed),
       MaxLength <- Capacity - 1,
       Unreadable <- OutOfStorage

QueueSpec == Queue!Spec
===============================================================================
