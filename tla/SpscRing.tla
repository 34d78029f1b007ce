------------------------------ MODULE SpscRing ------------------------------
(***************************************************************************)
(* The lock-free ring between the realtime thread and a worker             *)
(* (src/realtime/ring.rs).                                                 *)
(*                                                                         *)
(* head and tail are words of the machine: they count modulo Modulus (two  *)
(* to the width of usize) and are reduced modulo Capacity to index the     *)
(* storage.  Each side loads the other's index with Acquire, which may     *)
(* return any value between the one it saw last and the current one.       *)
(***************************************************************************)
EXTENDS Naturals, Sequences

CONSTANTS
  Capacity,  \* slots of the ring
  Modulus,   \* an index is an element of 0..Modulus-1
  Values,    \* what is handed over
  None       \* no value: an uninitialised slot, Option::None

(* Where an index wraps, the sequence of slots goes on as it should only   *)
(* if the capacity divides the range of the word.  Other capacities are    *)
(* safe as long as the word is not exhausted, which takes 2^64 pushes on   *)
(* the targets of the crate.                                               *)
ASSUME RingAssumption ==
  /\ Capacity \in Nat \ {0}
  /\ Modulus \in Nat
  /\ Capacity < Modulus
  /\ Modulus % Capacity = 0
  /\ None \notin Values
  /\ {"nothing", "empty", "notEmpty"} \cap (Values \cup {None}) = {}

VARIABLES
  head,      \* next index to pop, written by the consumer
  tail,      \* next index to push, written by the producer
  slots,     \* the storage: None where no value is owned by the ring
  seenHead,  \* the value of head the producer loaded last
  seenTail,  \* the value of tail the consumer loaded last
  pushing,   \* where the producer is in try_push
  popping,   \* where the consumer is in try_pop
  carried,   \* per side: the value its call holds
  sent,      \* what the producer's last call answered
  got,       \* what the consumer's last call answered
  open,      \* the handles not dropped yet
  cursor     \* i of Drop for Shared, once both handles are gone

producerVars == <<pushing, sent, seenHead>>
consumerVars == <<popping, got, seenTail>>
handles == <<open, cursor>>
vars == <<head, tail, slots, carried, producerVars, consumerVars, handles>>

Indices == 0 .. Modulus - 1
Sides == {"producer", "consumer"}

(* Mutant: the index is never brought back into a word.                    *)
IncUnbounded(i) == i + 1

(* wrapping_add(1), wrapping_sub and the reduction to a slot.              *)
Inc(i) == (i + 1) % Modulus
Dist(from, to) == (Modulus + to - from) % Modulus
SlotOf(i) == i % Capacity

(* What an Acquire load may return: coherence forbids going back.          *)
Visible(seen, current) == {i \in Indices : Dist(seen, i) <= Dist(seen, current)}

TypeOK ==
  /\ head \in Indices /\ tail \in Indices
  /\ slots \in [0 .. Capacity - 1 -> Values \cup {None}]
  /\ seenHead \in Indices /\ seenTail \in Indices
  /\ pushing \in {"idle", "write", "publish"}
  /\ popping \in {"idle", "read", "release"}
  /\ carried \in [Sides -> Values \cup {None}]
  /\ sent \in {"nothing", "ok", "refused", "full", "notFull"}
  /\ got \in Values \cup {None, "nothing", "empty", "notEmpty"}
  /\ open \subseteq Sides
  /\ cursor \in Indices

(* spsc(Capacity).                                                         *)
Init ==
  /\ head = 0 /\ tail = 0
  /\ slots = [s \in 0 .. Capacity - 1 |-> None]
  /\ seenHead = 0 /\ seenTail = 0
  /\ pushing = "idle" /\ popping = "idle"
  /\ carried = [s \in Sides |-> None]
  /\ sent = "nothing" /\ got = "nothing"
  /\ open = Sides
  /\ cursor = 0

-----------------------------------------------------------------------------
(* Producer::try_push: load both indices, write the slot, publish it.      *)

(* Mutant: the ring takes one value more than it has slots for.            *)
FullOneLate(h) == Dist(h, tail) = Capacity + 1

Full(h) == Dist(h, tail) = Capacity

PushLoad ==
  /\ "producer" \in open /\ pushing = "idle"
  /\ \E h \in Visible(seenHead, head), v \in Values :
       /\ seenHead' = h
       /\ IF Full(h)
          THEN sent' = "refused" /\ UNCHANGED <<pushing, carried>>
          ELSE /\ pushing' = "write"
               /\ carried' = [carried EXCEPT !["producer"] = v]
               /\ UNCHANGED sent
  /\ UNCHANGED <<head, tail, slots, consumerVars, handles>>

(* Mutant: the slot is computed from the consumer's index.                 *)
PushWriteAtHead ==
  /\ pushing = "write"
  /\ slots' = [slots EXCEPT ![SlotOf(seenHead)] = carried["producer"]]
  /\ pushing' = "publish"
  /\ carried' = [carried EXCEPT !["producer"] = None]
  /\ UNCHANGED <<head, tail, seenHead, sent, consumerVars, handles>>

PushWrite ==
  /\ pushing = "write"
  /\ slots' = [slots EXCEPT ![SlotOf(tail)] = carried["producer"]]
  /\ pushing' = "publish"
  /\ carried' = [carried EXCEPT !["producer"] = None]
  /\ UNCHANGED <<head, tail, seenHead, sent, consumerVars, handles>>

PushPublish ==
  /\ pushing = "publish"
  /\ tail' = Inc(tail)
  /\ pushing' = "idle"
  /\ sent' = "ok"
  /\ UNCHANGED <<head, slots, carried, seenHead, consumerVars, handles>>

(* Mutant: full is reported one value early, and not when it is reached.   *)
IsFullOneEarly ==
  /\ "producer" \in open /\ pushing = "idle"
  /\ \E h \in Visible(seenHead, head) :
       /\ seenHead' = h
       /\ sent' = IF Dist(h, tail) = Capacity - 1 THEN "full" ELSE "notFull"
  /\ UNCHANGED <<head, tail, slots, pushing, carried, consumerVars, handles>>

IsFull ==
  /\ "producer" \in open /\ pushing = "idle"
  /\ \E h \in Visible(seenHead, head) :
       /\ seenHead' = h
       /\ sent' = IF Full(h) THEN "full" ELSE "notFull"
  /\ UNCHANGED <<head, tail, slots, pushing, carried, consumerVars, handles>>

-----------------------------------------------------------------------------
(* Consumer::try_pop: load both indices, move the value out, release the   *)
(* slot.                                                                   *)

(* Mutant: an empty ring is not told from one with a value.                *)
PopLoadUnchecked ==
  /\ "consumer" \in open /\ popping = "idle"
  /\ seenTail' \in Visible(seenTail, tail)
  /\ popping' = "read"
  /\ UNCHANGED <<head, tail, slots, carried, got, producerVars, handles>>

PopLoad ==
  /\ "consumer" \in open /\ popping = "idle"
  /\ \E t \in Visible(seenTail, tail) :
       /\ seenTail' = t
       /\ IF head = t
          THEN got' = None /\ UNCHANGED popping
          ELSE popping' = "read" /\ UNCHANGED got
  /\ UNCHANGED <<head, tail, slots, carried, producerVars, handles>>

PopRead ==
  /\ popping = "read"
  /\ carried' = [carried EXCEPT !["consumer"] = slots[SlotOf(head)]]
  /\ slots' = [slots EXCEPT ![SlotOf(head)] = None]
  /\ popping' = "release"
  /\ UNCHANGED <<head, tail, got, seenTail, producerVars, handles>>

PopRelease ==
  /\ popping = "release"
  /\ head' = Inc(head)
  /\ popping' = "idle"
  /\ got' = carried["consumer"]
  /\ carried' = [carried EXCEPT !["consumer"] = None]
  /\ UNCHANGED <<tail, slots, seenTail, producerVars, handles>>

IsEmpty ==
  /\ "consumer" \in open /\ popping = "idle"
  /\ \E t \in Visible(seenTail, tail) :
       /\ seenTail' = t
       /\ got' = IF head = t THEN "empty" ELSE "notEmpty"
  /\ UNCHANGED <<head, tail, slots, popping, carried, producerVars, handles>>

-----------------------------------------------------------------------------
(* Each handle is one of the two owners of the Arc; it is not borrowed by  *)
(* a call when it is dropped.  The last to go drops the Shared, which      *)
(* drops the values from head to tail.                                     *)

DropHandle(side) ==
  /\ side \in open
  /\ (IF side = "producer" THEN pushing ELSE popping) = "idle"
  /\ open' = open \ {side}
  /\ cursor' = head
  /\ UNCHANGED <<head, tail, slots, carried, producerVars, consumerVars>>

(* Mutant: the loop ends one value short.                                  *)
DrainOneShort ==
  /\ open = {} /\ Dist(cursor, tail) > 1
  /\ slots' = [slots EXCEPT ![SlotOf(cursor)] = None]
  /\ cursor' = Inc(cursor)
  /\ UNCHANGED <<head, tail, carried, producerVars, consumerVars, open>>

DrainOne ==
  /\ open = {} /\ cursor # tail
  /\ slots' = [slots EXCEPT ![SlotOf(cursor)] = None]
  /\ cursor' = Inc(cursor)
  /\ UNCHANGED <<head, tail, carried, producerVars, consumerVars, open>>

Next ==
  \/ PushLoad \/ PushWrite \/ PushPublish \/ IsFull
  \/ PopLoad \/ PopRead \/ PopRelease \/ IsEmpty
  \/ \E side \in Sides : DropHandle(side)
  \/ DrainOne

(* Drop for Shared is a loop of the thread that dropped the last handle:   *)
(* once entered it runs to its end.                                        *)
Spec == Init /\ [][Next]_vars /\ WF_vars(DrainOne)

-----------------------------------------------------------------------------
(* Properties.                                                             *)

(* A value is written only into a slot that owns none, and read or dropped *)
(* only from one that does: nothing is overwritten (leaked), read          *)
(* uninitialised or dropped twice.                                         *)
SlotsOwnedOnce ==
  /\ pushing = "write" => slots[SlotOf(tail)] = None
  /\ popping = "read" => slots[SlotOf(head)] # None
  /\ open = {} /\ cursor # tail => slots[SlotOf(cursor)] # None

(* The two sides never access the same slot at once, and the producer      *)
(* reuses a slot only when it has seen the consumer release it.            *)
NoSlotRace ==
  /\ pushing = "write" /\ popping = "read" => SlotOf(tail) # SlotOf(head)
  /\ pushing = "write" => Dist(seenHead, tail) < Capacity
  /\ popping = "read" => Dist(head, seenTail) \in 1 .. Dist(head, tail)

(* "If is_full returns false, the next try_push from this producer cannot  *)
(* fail", and likewise of is_empty and try_pop, whatever the other side    *)
(* does meanwhile and however late it is seen.                             *)
AnswersHold ==
  [][/\ sent = "notFull" => sent' # "refused"
     /\ got = "notEmpty" => got' # None]_vars

(* Once both handles are gone every value that was neither popped nor      *)
(* refused is dropped: "drain any items still in the ring so their         *)
(* destructors run".                                                       *)
LeftoversDropped ==
  open = {} ~> \A s \in 0 .. Capacity - 1 : slots[s] = None

(* The ring implements a bounded queue: a push takes effect when it is     *)
(* published, a pop when its slot is released.                             *)
First == IF open = {} THEN cursor ELSE head

Waiting ==
  [k \in 1 .. Dist(First, tail) |->
     IF k = 1 /\ popping = "release" THEN carried["consumer"]
     ELSE slots[SlotOf((First + k - 1) % Modulus)]]

Queue == INSTANCE BoundedQueue WITH queue <- Waiting

ImplementsQueue == Queue!Spec
=============================================================================
