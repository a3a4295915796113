------------------------------ MODULE SpscQueue ------------------------------
(***************************************************************************)
(* What a single-producer / single-consumer queue promises its two         *)
(* threads, with every call atomic.  VectorBuffer.tla (the lock-free ring  *)
(* of include/dynamichardware/rt/VectorBuffer.h) implements it.            *)
(***************************************************************************)
EXTENDS Naturals, Sequences

CONSTANTS
  Items,      \* the values the producer may push
  MaxLength,  \* the most items the queue ever holds
  MaxPushes,  \* bound: how many pushes the queue accepts in all
  Unreadable  \* what the consumer may be handed in place of an item

VARIABLES
  queue,      \* the accepted items that no consumer call has returned yet
  taken,      \* history: everything the consumer has been handed, in order
  accepted,   \* history: how many pushes were accepted
  pushResult, \* what the producer's last finished call returned
  takeResult  \* what the consumer's last finished call returned

vars == <<queue, taken, accepted, pushResult, takeResult>>

Init ==
  /\ queue = << >>
  /\ taken = << >>
  /\ accepted = 0
  /\ pushResult = "none"
  /\ takeResult = "none"

(* An item is accepted only when there is room for it ... *)
Push(item) ==
  /\ accepted < MaxPushes
  /\ Len(queue) < MaxLength
  /\ queue' = Append(queue, item)
  /\ accepted' = accepted + 1
  /\ pushResult' = "pushed"
  /\ UNCHANGED <<taken, takeResult>>

(* ... and refused only when there is none. *)
Refuse ==
  /\ Len(queue) = MaxLength
  /\ pushResult' = "full"
  /\ UNCHANGED <<queue, taken, accepted, takeResult>>

(* The consumer takes the n oldest items, in order, the oldest in any case   *)
(* as it was pushed; of the others only the first m may be readable.         *)
Take(n, m) ==
  /\ queue' = SubSeq(queue, n + 1, Len(queue))
  /\ taken' = taken \o SubSeq(queue, 1, m) \o [i \in 1..(n - m) |-> Unreadable]
  /\ takeResult' = "items"
  /\ UNCHANGED <<accepted, pushResult>>

(* It is told the queue is empty only when it is. *)
FindEmpty ==
  /\ queue = << >>
  /\ takeResult' = "empty"
  /\ UNCHANGED <<queue, taken, accepted, pushResult>>

Next ==
  \/ \E item \in Items : Push(item)
  \/ Refuse
  \/ \E n \in 1..Len(queue) : \E m \in 1..n : Take(n, m)
  \/ FindEmpty

Spec == Init /\ [][Next]_vars
==============================================================================
