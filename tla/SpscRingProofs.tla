--------------------------- MODULE SpscRingProofs ---------------------------
(* Proofs about SpscRing, for every capacity, every word size it divides   *)
(* and every set of values.                                                *)
EXTENDS SpscRing, SequenceTheorems, TLAPS

-----------------------------------------------------------------------------
(* Arithmetic of indices.                                                  *)

LEMMA ModSmall ==
  ASSUME NEW n \in Nat \ {0}, NEW i \in 0 .. n - 1
  PROVE  i % n = i
OBVIOUS

LEMMA ModOnce ==
  ASSUME NEW n \in Nat \ {0}, NEW i \in n .. 2 * n - 1
  PROVE  i % n = i - n
OBVIOUS

LEMMA IncIs ==
  ASSUME NEW i \in Indices
  PROVE  Inc(i) = IF i = Modulus - 1 THEN 0 ELSE i + 1
BY RingAssumption, ModSmall, ModOnce DEF Inc, Indices

LEMMA DistIs ==
  ASSUME NEW i \in Indices, NEW j \in Indices
  PROVE  Dist(i, j) = IF i <= j THEN j - i ELSE Modulus + j - i
<1> USE RingAssumption DEF Indices
<1>1. CASE i <= j
  <2>1. Modulus + j - i \in Modulus .. 2 * Modulus - 1
    BY <1>1
  <2>2. Dist(i, j) = (Modulus + j - i) - Modulus
    BY <2>1, ModOnce DEF Dist
  <2> QED
    BY <1>1, <2>2
<1>2. CASE ~(i <= j)
  <2>1. Modulus + j - i \in 0 .. Modulus - 1
    BY <1>2
  <2> QED
    BY <1>2, <2>1, ModSmall DEF Dist
<1> QED
  BY <1>1, <1>2

LEMMA MultipleSmall ==
  ASSUME NEW c \in Nat \ {0}, NEW z \in Int, -c < c * z, c * z < c
  PROVE  z = 0
<1>1. ASSUME z >= 1 PROVE FALSE
  <2>1. c * z = c * (z - 1) + c
    OBVIOUS
  <2>2. c * (z - 1) >= 0
    BY <1>1
  <2> QED
    BY <2>1, <2>2
<1>2. ASSUME z <= -1 PROVE FALSE
  <2>1. c * z = c * (z + 1) - c
    OBVIOUS
  <2>2. c * (z + 1) <= 0
    BY <1>2
  <2> QED
    BY <2>1, <2>2
<1> QED
  BY <1>1, <1>2

LEMMA Distribute ==
  ASSUME NEW c \in Nat, NEW x \in Nat, NEW y \in Nat, NEW z \in Nat
  PROVE  c * (x + y - z) = (c * x) + (c * y) - (c * z)
OBVIOUS

LEMMA DivMod ==
  ASSUME NEW c \in Nat \ {0}, NEW i \in Nat
  PROVE  /\ i \div c \in Nat
         /\ i % c \in 0 .. c - 1
         /\ i = (c * (i \div c)) + (i % c)
OBVIOUS

LEMMA ModUnique ==
  ASSUME NEW c \in Nat \ {0}, NEW q \in Nat, NEW r \in 0 .. c - 1
  PROVE  ((c * q) + r) % c = r
OBVIOUS

LEMMA SlotIs ==
  ASSUME NEW i \in Indices
  PROVE  \E a \in Nat : i = (Capacity * a) + SlotOf(i)
<1>1. i \in Nat /\ Capacity \in Nat \ {0}
  BY RingAssumption DEF Indices
<1> QED
  BY <1>1, DivMod DEF SlotOf

LEMMA SlotInRange ==
  ASSUME NEW i \in Indices
  PROVE  SlotOf(i) \in 0 .. Capacity - 1
<1>1. i \in Nat /\ Capacity \in Nat \ {0}
  BY RingAssumption DEF Indices
<1> QED
  BY <1>1, DivMod DEF SlotOf

LEMMA WordIsMultiple == \E q \in Nat : Modulus = Capacity * q
<1>1. Modulus \in Nat /\ Capacity \in Nat \ {0} /\ Modulus % Capacity = 0
  BY RingAssumption
<1>2. Modulus = (Capacity * (Modulus \div Capacity)) + (Modulus % Capacity)
  BY <1>1, DivMod
<1>3. Modulus \div Capacity \in Nat
  BY <1>1, DivMod
<1> QED
  BY <1>1, <1>2, <1>3

(* Indices less than a capacity apart are stored in different slots, also  *)
(* where the word wraps between them.                                      *)
LEMMA SlotsDiffer ==
  ASSUME NEW i \in Indices, NEW j \in Indices,
         SlotOf(i) = SlotOf(j), Dist(i, j) < Capacity
  PROVE  i = j
<1>0. i \in Nat /\ j \in Nat /\ i < Modulus /\ j < Modulus
      /\ Modulus \in Nat /\ Capacity \in Nat \ {0}
  BY RingAssumption DEF Indices
<1>1. PICK q \in Nat : Modulus = Capacity * q
  BY WordIsMultiple
<1>2. PICK a \in Nat : i = (Capacity * a) + SlotOf(i)
  BY SlotIs
<1>3. PICK b \in Nat : j = (Capacity * b) + SlotOf(j)
  BY SlotIs
<1>4. SlotOf(i) \in Int
  BY SlotInRange, <1>0
<1>5. CASE i <= j
  <2>1. j - i = Capacity * (b - a)
    BY <1>0, <1>2, <1>3, <1>4
  <2>2. Dist(i, j) = j - i
    BY <1>5, DistIs
  <2>3. b - a = 0
    <3>1. -Capacity < Capacity * (b - a) /\ Capacity * (b - a) < Capacity
      BY <1>0, <1>5, <2>1, <2>2
    <3>2. b - a \in Int
      OBVIOUS
    <3> QED
      BY <3>1, <3>2, <1>0, MultipleSmall
  <2> QED
    BY <1>0, <2>1, <2>3
<1>6. CASE ~(i <= j)
  <2>1. Modulus + j - i = Capacity * (q + b - a)
    <3>1. Capacity * (q + b - a) = (Capacity * q) + (Capacity * b) - (Capacity * a)
      BY <1>0, Distribute
    <3>2. /\ Capacity * q \in Int
          /\ Capacity * b \in Int
          /\ Capacity * a \in Int
      BY <1>0
    <3>3. Capacity * (q + b - a) = Modulus + (j - SlotOf(j)) - (i - SlotOf(i))
      BY <1>1, <1>2, <1>3, <1>4, <3>1, <3>2
    <3> QED
      BY <1>0, <1>4, <3>3
  <2>2. Dist(i, j) = Modulus + j - i
    BY <1>6, DistIs
  <2>3. q + b - a = 0
    <3>1. -Capacity < Capacity * (q + b - a) /\ Capacity * (q + b - a) < Capacity
      BY <1>0, <1>6, <2>1, <2>2
    <3>2. q + b - a \in Int
      OBVIOUS
    <3> QED
      BY <3>1, <3>2, <1>0, MultipleSmall
  <2> QED
    BY <1>0, <2>1, <2>3
<1> QED
  BY <1>5, <1>6

(* Indices exactly a capacity apart share their slot.                      *)
LEMMA SlotReused ==
  ASSUME NEW i \in Indices, NEW j \in Indices, Dist(i, j) = Capacity
  PROVE  SlotOf(i) = SlotOf(j)
<1>0. i \in Nat /\ j \in Nat /\ i < Modulus /\ j < Modulus
      /\ Modulus \in Nat /\ Capacity \in Nat \ {0}
  BY RingAssumption DEF Indices
<1>1. PICK q \in Nat : Modulus = Capacity * q
  BY WordIsMultiple
<1>2. PICK a \in Nat : i = (Capacity * a) + SlotOf(i)
  BY SlotIs
<1>3. SlotOf(i) \in 0 .. Capacity - 1
  BY SlotInRange
<1>4. \E b \in Nat : j = (Capacity * b) + SlotOf(i)
  <2>1. CASE i <= j
    <3>1. j = (Capacity * (a + 1)) + SlotOf(i)
      BY <1>0, <1>2, <1>3, <2>1, DistIs
    <3> QED
      BY <3>1
  <2>2. CASE ~(i <= j)
    <3>1. j = (Capacity * (a + 1 - q)) + SlotOf(i)
      BY <1>0, <1>1, <1>2, <1>3, <2>2, DistIs
    <3>2. a + 1 - q >= 0
      <4>1. SUFFICES ASSUME a + 1 - q <= -1 PROVE FALSE
        OBVIOUS
      <4>2. Capacity * (a + 1 - q) = Capacity * (a + 2 - q) - Capacity
        BY <1>0
      <4>3. Capacity * (a + 2 - q) <= 0
        BY <1>0, <4>1
      <4> QED
        BY <1>0, <1>3, <3>1, <4>2, <4>3
    <3> QED
      BY <3>1, <3>2
  <2> QED
    BY <2>1, <2>2
<1> QED
  BY <1>0, <1>3, <1>4, ModUnique DEF SlotOf

-----------------------------------------------------------------------------
(* The inductive invariant.                                                *)

(* What each side has seen of the other lies behind where the other is,    *)
(* and no more values wait than there are slots, seen from either side.    *)
Seen ==
  /\ Dist(First, tail) <= Capacity
  /\ Dist(seenHead, head) <= Dist(seenHead, tail)
  /\ Dist(seenHead, tail) <= Capacity
  /\ Dist(head, seenTail) <= Dist(head, tail)

(* The slots from First to tail own a value, the others none, but for the  *)
(* one a call is at work on.                                               *)
Owned ==
  \A i \in Indices :
    Dist(First, i) < Dist(First, tail) =>
      \/ i = head /\ popping = "release"
      \/ slots[SlotOf(i)] # None

Free ==
  \A i \in Indices :
    Dist(First, tail) <= Dist(First, i) /\ Dist(First, i) < Capacity =>
      \/ i = tail /\ pushing = "publish"
      \/ slots[SlotOf(i)] = None

(* A call goes on only while its handle is held, on what its load saw.     *)
AtWork ==
  /\ pushing # "idle" => "producer" \in open /\ Dist(seenHead, tail) < Capacity
  /\ pushing = "write" => carried["producer"] # None
  /\ pushing = "publish" => slots[SlotOf(tail)] # None
  /\ popping # "idle" => "consumer" \in open /\ head # seenTail
  /\ popping = "release" =>
       slots[SlotOf(head)] = None /\ carried["consumer"] # None

(* What an answer has promised still stands.                               *)
Promised ==
  /\ sent = "notFull" => Dist(seenHead, tail) < Capacity
  /\ got = "notEmpty" => head # seenTail

Sound == Seen /\ Owned /\ Free /\ AtWork /\ Promised

IInv == TypeOK /\ Sound

-----------------------------------------------------------------------------
(* How the distances move.  The proofs below reason about them only        *)
(* through these facts.                                                    *)

LEMMA DistInRange ==
  ASSUME NEW i \in Indices, NEW j \in Indices
  PROVE  Dist(i, j) \in 0 .. Modulus - 1 /\ (Dist(i, j) = 0 <=> i = j)
BY DistIs, RingAssumption DEF Indices

LEMMA IncInRange ==
  ASSUME NEW i \in Indices
  PROVE  Inc(i) \in Indices
BY IncIs, RingAssumption DEF Indices

LEMMA DistToNext ==
  ASSUME NEW i \in Indices, NEW j \in Indices, Dist(i, j) < Capacity
  PROVE  Dist(i, Inc(j)) = Dist(i, j) + 1
<1>1. /\ Dist(i, Inc(j)) = IF i <= Inc(j) THEN Inc(j) - i
                          ELSE Modulus + Inc(j) - i
      /\ Dist(i, j) = IF i <= j THEN j - i ELSE Modulus + j - i
      /\ Inc(j) = IF j = Modulus - 1 THEN 0 ELSE j + 1
  BY IncInRange, DistIs, IncIs
<1> QED
  BY <1>1, RingAssumption DEF Indices

LEMMA DistFromNext ==
  ASSUME NEW i \in Indices, NEW j \in Indices, i # j
  PROVE  Dist(Inc(i), j) = Dist(i, j) - 1
<1>1. /\ Dist(Inc(i), j) = IF Inc(i) <= j THEN j - Inc(i)
                          ELSE Modulus + j - Inc(i)
      /\ Dist(i, j) = IF i <= j THEN j - i ELSE Modulus + j - i
      /\ Inc(i) = IF i = Modulus - 1 THEN 0 ELSE i + 1
  BY IncInRange, DistIs, IncIs
<1> QED
  BY <1>1, RingAssumption DEF Indices

LEMMA DistBetween ==
  ASSUME NEW i \in Indices, NEW j \in Indices, NEW k \in Indices,
         Dist(i, j) <= Dist(i, k)
  PROVE  Dist(i, k) = Dist(i, j) + Dist(j, k)
BY RingAssumption, DistIs DEF Indices

LEMMA DistExtended ==
  ASSUME NEW i \in Indices, NEW j \in Indices, NEW k \in Indices,
         NEW t \in Indices,
         Dist(i, j) <= Dist(i, k), Dist(j, t) <= Dist(j, k)
  PROVE  Dist(i, t) = Dist(i, j) + Dist(j, t)
BY RingAssumption, DistIs DEF Indices

LEMMA DistSame ==
  ASSUME NEW i \in Indices, NEW j \in Indices, NEW k \in Indices,
         Dist(i, j) = Dist(i, k)
  PROVE  j = k
BY RingAssumption, DistIs DEF Indices

LEMMA DistAllButOne ==
  ASSUME NEW i \in Indices
  PROVE  Dist(Inc(i), i) = Modulus - 1
<1>1. /\ Dist(Inc(i), i) = IF Inc(i) <= i THEN i - Inc(i)
                          ELSE Modulus + i - Inc(i)
      /\ Inc(i) = IF i = Modulus - 1 THEN 0 ELSE i + 1
  BY IncInRange, DistIs, IncIs
<1> QED
  BY <1>1, RingAssumption DEF Indices

-----------------------------------------------------------------------------
(* What a load of the other side's index may return, and what it leaves    *)
(* true of what was seen before.                                           *)

LEMMA HeadSeen ==
  ASSUME TypeOK, Seen, NEW h \in Visible(seenHead, head)
  PROVE  /\ h \in Indices
         /\ Dist(h, head) <= Dist(h, tail)
         /\ Dist(h, tail) <= Dist(seenHead, tail)
<1>1. /\ seenHead \in Indices /\ head \in Indices /\ tail \in Indices
      /\ h \in Indices /\ Dist(seenHead, h) <= Dist(seenHead, head)
  BY DEF TypeOK, Visible
<1>2. /\ Dist(seenHead, h) \in Int /\ Dist(seenHead, head) \in Int
      /\ Dist(seenHead, tail) \in Int /\ Dist(h, head) \in Int
      /\ Dist(h, tail) \in Int /\ Dist(seenHead, h) >= 0
  BY <1>1, DistInRange, RingAssumption
<1>3. Dist(seenHead, head) = Dist(seenHead, h) + Dist(h, head)
  BY <1>1, DistBetween
<1>4. Dist(seenHead, h) <= Dist(seenHead, tail)
  BY <1>1, <1>2 DEF Seen
<1>5. Dist(seenHead, tail) = Dist(seenHead, h) + Dist(h, tail)
  BY <1>1, <1>4, DistBetween
<1> QED
  BY <1>1, <1>2, <1>3, <1>5 DEF Seen

LEMMA TailSeen ==
  ASSUME TypeOK, Seen, NEW t \in Visible(seenTail, tail)
  PROVE  /\ t \in Indices
         /\ Dist(head, t) <= Dist(head, tail)
         /\ head # seenTail => head # t
<1>1. /\ seenTail \in Indices /\ head \in Indices /\ tail \in Indices
      /\ t \in Indices /\ Dist(seenTail, t) <= Dist(seenTail, tail)
  BY DEF TypeOK, Visible
<1>2. Dist(head, seenTail) <= Dist(head, tail)
  BY DEF Seen
<1>3. Dist(head, t) = Dist(head, seenTail) + Dist(seenTail, t)
  BY <1>1, <1>2, DistExtended
<1>4. Dist(head, tail) = Dist(head, seenTail) + Dist(seenTail, tail)
  BY <1>1, <1>2, DistBetween
<1>5. /\ Dist(head, t) \in Nat /\ Dist(head, seenTail) \in Nat
      /\ Dist(seenTail, t) \in Nat /\ Dist(seenTail, tail) \in Nat
      /\ Dist(head, seenTail) = 0 <=> head = seenTail
      /\ Dist(head, t) = 0 <=> head = t
  BY <1>1, DistInRange, RingAssumption
<1> QED
  BY <1>1, <1>3, <1>4, <1>5

-----------------------------------------------------------------------------
(* Every step keeps the invariant.                                         *)

LEMMA Starts == Init => IInv
<1> SUFFICES ASSUME Init PROVE IInv
  OBVIOUS
<1>1. 0 \in Indices /\ Capacity \in Nat /\ Modulus \in Nat
  BY RingAssumption DEF Indices
<1>2. Dist(0, 0) = 0 /\ First = 0
  BY <1>1, DistInRange DEF Init, First, Sides
<1>3. TypeOK
  BY <1>1 DEF Init, TypeOK
<1>4. Seen
  BY <1>1, <1>2 DEF Init, Seen
<1>5. Owned /\ Free
  BY <1>1, <1>2, SlotInRange, DistInRange, RingAssumption DEF Init, Owned, Free
<1>6. AtWork /\ Promised
  BY DEF Init, AtWork, Promised
<1> QED
  BY <1>3, <1>4, <1>5, <1>6 DEF IInv, Sound

LEMMA StepTyped == TypeOK /\ [Next]_vars => TypeOK'
<1> SUFFICES ASSUME TypeOK, [Next]_vars PROVE TypeOK'
  OBVIOUS
<1> USE DEF TypeOK
<1>0. /\ \A i \in Indices : SlotOf(i) \in 0 .. Capacity - 1 /\ Inc(i) \in Indices
      /\ \A s, c : Visible(s, c) \subseteq Indices
      /\ "producer" \in Sides /\ "consumer" \in Sides
  BY SlotInRange, IncInRange DEF Visible, Sides
<1>1. CASE PushLoad
  BY <1>0, <1>1 DEF PushLoad, consumerVars, handles
<1>2. CASE PushWrite
  BY <1>0, <1>2 DEF PushWrite, consumerVars, handles
<1>3. CASE PushPublish
  BY <1>0, <1>3 DEF PushPublish, consumerVars, handles
<1>4. CASE IsFull
  BY <1>0, <1>4 DEF IsFull, consumerVars, handles
<1>5. CASE PopLoad
  BY <1>0, <1>5 DEF PopLoad, producerVars, handles
<1>6. CASE PopRead
  BY <1>0, <1>6 DEF PopRead, producerVars, handles
<1>7. CASE PopRelease
  BY <1>0, <1>7 DEF PopRelease, producerVars, handles
<1>8. CASE IsEmpty
  BY <1>0, <1>8 DEF IsEmpty, producerVars, handles
<1>9. CASE \E side \in Sides : DropHandle(side)
  BY <1>9 DEF DropHandle, producerVars, consumerVars
<1>10. CASE DrainOne
  BY <1>0, <1>10 DEF DrainOne, producerVars, consumerVars
<1>11. CASE UNCHANGED vars
  BY <1>11 DEF vars, producerVars, consumerVars, handles
<1> QED
  BY <1>1, <1>2, <1>3, <1>4, <1>5, <1>6, <1>7, <1>8, <1>9, <1>10, <1>11 DEF Next

(* What the distances between the ring's own indices are, by the invariant. *)
LEMMA Measures ==
  ASSUME IInv
  PROVE  /\ head \in Indices /\ tail \in Indices /\ cursor \in Indices
         /\ seenHead \in Indices /\ seenTail \in Indices /\ First \in Indices
         /\ Capacity \in Nat \ {0} /\ Modulus \in Nat /\ Capacity < Modulus
         /\ \A i, j \in Indices : /\ Dist(i, j) \in Nat
                                  /\ Dist(i, j) < Modulus
                                  /\ Dist(i, j) = 0 <=> i = j
         /\ open # {} => First = head
         /\ Dist(seenHead, tail) = Dist(seenHead, head) + Dist(head, tail)
         /\ head # seenTail => head # tail
<1>1. /\ head \in Indices /\ tail \in Indices /\ cursor \in Indices
      /\ seenHead \in Indices /\ seenTail \in Indices /\ First \in Indices
  BY DEF IInv, TypeOK, First
<1>2. Capacity \in Nat \ {0} /\ Modulus \in Nat /\ Capacity < Modulus
  BY RingAssumption
<1>3. \A i, j \in Indices : /\ Dist(i, j) \in Nat
                            /\ Dist(i, j) < Modulus
                            /\ Dist(i, j) = 0 <=> i = j
  BY DistInRange, <1>2
<1>4. Dist(seenHead, tail) = Dist(seenHead, head) + Dist(head, tail)
  BY <1>1, DistBetween DEF IInv, Sound, Seen
<1>5. head # seenTail => head # tail
  BY <1>1, <1>3 DEF IInv, Sound, Seen
<1> QED
  BY <1>1, <1>2, <1>3, <1>4, <1>5 DEF First

LEMMA PushLoadKeeps == IInv /\ PushLoad => Sound'
<1> SUFFICES ASSUME IInv, PushLoad PROVE Sound'
  OBVIOUS
<1>1. PICK h \in Visible(seenHead, head), v \in Values :
        /\ seenHead' = h
        /\ IF Full(h)
           THEN sent' = "refused" /\ UNCHANGED <<pushing, carried>>
           ELSE /\ pushing' = "write"
                /\ carried' = [carried EXCEPT !["producer"] = v]
                /\ UNCHANGED sent
  BY DEF PushLoad
<1>2. /\ "producer" \in open /\ pushing = "idle"
      /\ UNCHANGED <<head, tail, slots, popping, got, seenTail, open, cursor>>
  BY DEF PushLoad, consumerVars, handles
<1>3. /\ h \in Indices
      /\ Dist(h, head) <= Dist(h, tail)
      /\ Dist(h, tail) <= Dist(seenHead, tail)
  BY HeadSeen DEF IInv, Sound
<1>4. First' = First
  BY <1>2 DEF First
<1>5. Seen'
  BY <1>1, <1>2, <1>3, <1>4, Measures DEF Seen, IInv, Sound
<1>6. Owned' /\ Free'
  BY <1>1, <1>2, <1>4 DEF Owned, Free, IInv, Sound
<1>7. AtWork'
  <2>1. pushing' = "write" => Dist(h, tail) < Capacity
    BY <1>1, <1>2, <1>3, Measures DEF Full, IInv, Sound, Seen
  <2>2. carried'["consumer"] = carried["consumer"]
    BY <1>1 DEF IInv, TypeOK, Sides
  <2>3. pushing' = "write" => carried'["producer"] # None
    BY <1>1, <1>2, RingAssumption DEF IInv, TypeOK, Sides
  <2>4. pushing' \in {"idle", "write"}
    BY <1>1, <1>2
  <2> QED
    BY <1>1, <1>2, <2>1, <2>2, <2>3, <2>4 DEF AtWork, IInv, Sound
<1>8. Promised'
  BY <1>1, <1>2, <1>3, Measures DEF Promised, IInv, Sound
<1> QED
  BY <1>5, <1>6, <1>7, <1>8 DEF Sound

LEMMA PushWriteKeeps == IInv /\ PushWrite => Sound'
<1> SUFFICES ASSUME IInv, PushWrite PROVE Sound'
  OBVIOUS
<1>1. /\ pushing = "write" /\ pushing' = "publish"
      /\ slots' = [slots EXCEPT ![SlotOf(tail)] = carried["producer"]]
      /\ carried' = [carried EXCEPT !["producer"] = None]
      /\ UNCHANGED <<head, tail, seenHead, sent, popping, got, seenTail,
                     open, cursor>>
  BY DEF PushWrite, consumerVars, handles
<1>2. /\ "producer" \in open /\ Dist(seenHead, tail) < Capacity
      /\ carried["producer"] # None
  BY <1>1 DEF AtWork, IInv, Sound
<1>3. First = head /\ First' = head /\ Dist(head, tail) < Capacity
  BY <1>1, <1>2, Measures DEF First
<1>4. \A i \in Indices : slots'[SlotOf(i)] =
        IF SlotOf(i) = SlotOf(tail) THEN carried["producer"] ELSE slots[SlotOf(i)]
  BY <1>1, SlotInRange DEF IInv, TypeOK
<1>5. Seen'
  BY <1>1, <1>3 DEF Seen, IInv, Sound
<1>6. Owned'
  BY <1>1, <1>2, <1>3, <1>4 DEF Owned, IInv, Sound
<1>7. Free'
  <2> SUFFICES ASSUME NEW i \in Indices, i # tail,
                      Dist(head, tail) <= Dist(head, i), Dist(head, i) < Capacity
               PROVE  slots'[SlotOf(i)] = None
    BY <1>1, <1>3 DEF Free
  <2>1. Dist(head, i) = Dist(head, tail) + Dist(tail, i)
    BY Measures, DistBetween
  <2>2. SlotOf(i) # SlotOf(tail)
    BY <2>1, Measures, SlotsDiffer
  <2> QED
    BY <1>1, <1>3, <1>4, <2>2 DEF Free, IInv, Sound
<1>8. AtWork'
  <2>1. slots'[SlotOf(tail)] # None
    BY <1>2, <1>4, Measures
  <2>2. popping = "release" => slots'[SlotOf(head)] = None
    <3> SUFFICES ASSUME popping = "release" PROVE slots'[SlotOf(head)] = None
      OBVIOUS
    <3>1. head # tail
      BY Measures DEF AtWork, IInv, Sound
    <3>2. SlotOf(head) # SlotOf(tail)
      BY <1>3, <3>1, Measures, SlotsDiffer
    <3> QED
      BY <1>4, <3>2, Measures DEF AtWork, IInv, Sound
  <2>3. carried'["consumer"] = carried["consumer"]
    BY <1>1 DEF IInv, TypeOK, Sides
  <2> QED
    BY <1>1, <1>2, <2>1, <2>2, <2>3 DEF AtWork, IInv, Sound
<1>9. Promised'
  BY <1>1 DEF Promised, IInv, Sound
<1> QED
  BY <1>5, <1>6, <1>7, <1>8, <1>9 DEF Sound

LEMMA PushPublishKeeps == IInv /\ PushPublish => Sound'
<1> SUFFICES ASSUME IInv, PushPublish PROVE Sound'
  OBVIOUS
<1>1. /\ pushing = "publish" /\ tail' = Inc(tail)
      /\ pushing' = "idle" /\ sent' = "ok"
      /\ UNCHANGED <<head, slots, carried, seenHead, popping, got, seenTail,
                     open, cursor>>
  BY DEF PushPublish, consumerVars, handles
<1>2. /\ "producer" \in open /\ Dist(seenHead, tail) < Capacity
      /\ slots[SlotOf(tail)] # None
  BY <1>1 DEF AtWork, IInv, Sound
<1>3. First = head /\ First' = head
  BY <1>1, <1>2, Measures DEF First
<1>4. /\ Dist(head, Inc(tail)) = Dist(head, tail) + 1
      /\ Dist(seenHead, Inc(tail)) = Dist(seenHead, tail) + 1
      /\ Inc(tail) \in Indices
  BY <1>2, Measures, DistToNext, IncInRange
<1>5. Seen'
  BY <1>1, <1>2, <1>3, <1>4, Measures DEF Seen, IInv, Sound
<1>6. Owned'
  <2> SUFFICES ASSUME NEW i \in Indices, Dist(head, i) < Dist(head, tail) + 1
               PROVE  (i = head /\ popping = "release") \/ slots[SlotOf(i)] # None
    BY <1>1, <1>3, <1>4 DEF Owned
  <2>1. CASE Dist(head, i) < Dist(head, tail)
    BY <1>3, <2>1 DEF Owned, IInv, Sound
  <2>2. CASE Dist(head, i) = Dist(head, tail)
    BY <1>2, <2>2, Measures, DistSame
  <2> QED
    BY <2>1, <2>2, Measures
<1>7. Free'
  <2> SUFFICES ASSUME NEW i \in Indices, Dist(head, tail) + 1 <= Dist(head, i),
                      Dist(head, i) < Capacity
               PROVE  slots[SlotOf(i)] = None
    BY <1>1, <1>3, <1>4 DEF Free
  <2>1. i # tail /\ Dist(head, tail) <= Dist(head, i)
    BY Measures
  <2> QED
    BY <1>3, <2>1 DEF Free, IInv, Sound
<1>8. AtWork'
  BY <1>1 DEF AtWork, IInv, Sound
<1>9. Promised'
  BY <1>1 DEF Promised, IInv, Sound
<1> QED
  BY <1>5, <1>6, <1>7, <1>8, <1>9 DEF Sound

LEMMA IsFullKeeps == IInv /\ IsFull => Sound'
<1> SUFFICES ASSUME IInv, IsFull PROVE Sound'
  OBVIOUS
<1>1. PICK h \in Visible(seenHead, head) :
        seenHead' = h /\ sent' = IF Full(h) THEN "full" ELSE "notFull"
  BY DEF IsFull
<1>2. /\ pushing = "idle"
      /\ UNCHANGED <<head, tail, slots, pushing, carried, popping, got, seenTail,
                     open, cursor>>
  BY DEF IsFull, consumerVars, handles
<1>3. /\ h \in Indices
      /\ Dist(h, head) <= Dist(h, tail)
      /\ Dist(h, tail) <= Dist(seenHead, tail)
  BY HeadSeen DEF IInv, Sound
<1>4. First' = First
  BY <1>2 DEF First
<1>5. Seen'
  BY <1>1, <1>2, <1>3, <1>4, Measures DEF Seen, IInv, Sound
<1>6. Owned' /\ Free' /\ AtWork'
  BY <1>1, <1>2, <1>4 DEF Owned, Free, AtWork, IInv, Sound
<1>7. Promised'
  <2>1. sent' = "notFull" => Dist(h, tail) < Capacity
    BY <1>1, <1>3, Measures DEF Full, IInv, Sound, Seen
  <2> QED
    BY <1>1, <1>2, <2>1 DEF Promised, IInv, Sound
<1> QED
  BY <1>5, <1>6, <1>7 DEF Sound

LEMMA PopLoadKeeps == IInv /\ (PopLoad \/ IsEmpty) => Sound'
<1> SUFFICES ASSUME IInv, PopLoad \/ IsEmpty PROVE Sound'
  OBVIOUS
<1>1. PICK t \in Visible(seenTail, tail) :
        /\ seenTail' = t
        /\ \/ head = t /\ got' = None /\ popping' = "idle"
           \/ head # t /\ got' = got /\ popping' = "read"
           \/ head = t /\ got' = "empty" /\ popping' = "idle"
           \/ head # t /\ got' = "notEmpty" /\ popping' = "idle"
  BY DEF PopLoad, IsEmpty
<1>2. /\ "consumer" \in open /\ popping = "idle"
      /\ UNCHANGED <<head, tail, slots, carried, pushing, sent, seenHead,
                     open, cursor>>
  BY DEF PopLoad, IsEmpty, producerVars, handles
<1>3. /\ t \in Indices
      /\ Dist(head, t) <= Dist(head, tail)
      /\ head # seenTail => head # t
  BY TailSeen DEF IInv, Sound
<1>4. First' = First
  BY <1>2 DEF First
<1>5. Seen'
  BY <1>1, <1>2, <1>3, <1>4 DEF Seen, IInv, Sound
<1>6. Owned' /\ Free'
  BY <1>1, <1>2, <1>4 DEF Owned, Free, IInv, Sound
<1>7. AtWork'
  BY <1>1, <1>2 DEF AtWork, IInv, Sound
<1>8. Promised'
  BY <1>1, <1>2, <1>3, RingAssumption DEF Promised, IInv, Sound
<1> QED
  BY <1>5, <1>6, <1>7, <1>8 DEF Sound

LEMMA PopReadKeeps == IInv /\ PopRead => Sound'
<1> SUFFICES ASSUME IInv, PopRead PROVE Sound'
  OBVIOUS
<1>1. /\ popping = "read" /\ popping' = "release"
      /\ carried' = [carried EXCEPT !["consumer"] = slots[SlotOf(head)]]
      /\ slots' = [slots EXCEPT ![SlotOf(head)] = None]
      /\ UNCHANGED <<head, tail, got, seenTail, pushing, sent, seenHead,
                     open, cursor>>
  BY DEF PopRead, producerVars, handles
<1>2. "consumer" \in open /\ head # seenTail
  BY <1>1 DEF AtWork, IInv, Sound
<1>3. First = head /\ First' = head /\ head # tail
  BY <1>1, <1>2, Measures DEF First
<1>4. \A i \in Indices :
        slots'[SlotOf(i)] = IF SlotOf(i) = SlotOf(head) THEN None ELSE slots[SlotOf(i)]
  BY <1>1, SlotInRange DEF IInv, TypeOK
<1>5. Seen'
  BY <1>1, <1>3 DEF Seen, IInv, Sound
<1>6. Owned'
  <2> SUFFICES ASSUME NEW i \in Indices, Dist(head, i) < Dist(head, tail), i # head
               PROVE  slots'[SlotOf(i)] # None
    BY <1>1, <1>3 DEF Owned
  <2>1. Dist(head, i) < Capacity
    BY <1>3, Measures DEF Seen, IInv, Sound
  <2>2. SlotOf(i) # SlotOf(head)
    BY <2>1, Measures, SlotsDiffer
  <2> QED
    BY <1>3, <1>4, <2>2 DEF Owned, IInv, Sound
<1>7. Free'
  BY <1>1, <1>3, <1>4 DEF Free, IInv, Sound
<1>8. AtWork'
  <2>1. slots'[SlotOf(head)] = None
    BY <1>4, Measures
  <2>2. slots[SlotOf(head)] # None
    BY <1>1, <1>3, Measures DEF Owned, IInv, Sound
  <2>3. carried'["consumer"] # None /\ carried'["producer"] = carried["producer"]
    BY <1>1, <2>2 DEF IInv, TypeOK, Sides
  <2>4. pushing = "publish" => slots'[SlotOf(tail)] # None
    <3> SUFFICES ASSUME pushing = "publish" PROVE slots'[SlotOf(tail)] # None
      OBVIOUS
    <3>1. Dist(head, tail) < Capacity
      BY Measures DEF AtWork, IInv, Sound
    <3>2. SlotOf(head) # SlotOf(tail)
      BY <1>3, <3>1, Measures, SlotsDiffer
    <3> QED
      BY <1>4, <3>2, Measures DEF AtWork, IInv, Sound
  <2> QED
    BY <1>1, <1>2, <2>1, <2>3, <2>4 DEF AtWork, IInv, Sound
<1>9. Promised'
  BY <1>1 DEF Promised, IInv, Sound
<1> QED
  BY <1>5, <1>6, <1>7, <1>8, <1>9 DEF Sound

(* Where the first index moves on, whether a pop or the drain moves it.    *)
LEMMA FirstMovesOn ==
  ASSUME IInv, First # tail,
         slots[SlotOf(First)] = None \/ slots'[SlotOf(First)] = None,
         slots' = slots \/ slots' = [slots EXCEPT ![SlotOf(First)] = None],
         First' = Inc(First), tail' = tail, pushing' = pushing,
         popping' = "idle", popping = "release" => First = head
  PROVE  /\ Dist(First, tail)' <= Capacity
         /\ Owned' /\ Free'
<1>1. /\ First \in Indices /\ tail \in Indices /\ Inc(First) \in Indices
      /\ Dist(First, tail) \in Nat /\ Dist(Inc(First), tail) \in Nat
  BY Measures, IncInRange
<1>2. Dist(Inc(First), tail) = Dist(First, tail) - 1
  BY <1>1, DistFromNext
<1>3. Dist(First, tail) <= Capacity
  BY DEF IInv, Sound, Seen
<1>4. \A i \in Indices :
        \/ slots'[SlotOf(i)] = slots[SlotOf(i)]
        \/ SlotOf(i) = SlotOf(First) /\ slots'[SlotOf(i)] = None
  <2>1. CASE slots' = slots
    BY <2>1
  <2>2. CASE slots' = [slots EXCEPT ![SlotOf(First)] = None]
    <3> SUFFICES ASSUME NEW i \in Indices
                 PROVE  slots'[SlotOf(i)] = IF SlotOf(i) = SlotOf(First) THEN None
                                           ELSE slots[SlotOf(i)]
      OBVIOUS
    <3>1. SlotOf(i) \in DOMAIN slots
      BY SlotInRange DEF IInv, TypeOK
    <3> QED
      BY <2>2, <3>1
  <2> QED
    BY <2>1, <2>2
<1>5. slots'[SlotOf(First)] = None
  BY <1>1, <1>4
<1>6. ASSUME NEW i \in Indices, Dist(Inc(First), i) < Capacity
      PROVE  i # First /\ Dist(First, i) = Dist(Inc(First), i) + 1
  <2>1. i # First
    BY <1>1, <1>6, DistAllButOne, Measures
  <2>2. Dist(Inc(First), i) = Dist(First, i) - 1
    BY <1>1, <2>1, DistFromNext
  <2> QED
    BY <1>1, <2>1, <2>2, Measures
<1>7. Owned'
  <2> SUFFICES ASSUME NEW i \in Indices, Dist(Inc(First), i) < Dist(Inc(First), tail)
               PROVE  slots'[SlotOf(i)] # None
    BY DEF Owned
  <2>1. Dist(Inc(First), i) < Capacity
    BY <1>1, <1>2, <1>3, Measures
  <2>2. /\ i # First /\ Dist(First, i) < Dist(First, tail)
        /\ Dist(First, i) < Capacity
    BY <1>1, <1>2, <1>3, <1>6, <2>1, Measures
  <2>3. SlotOf(i) # SlotOf(First)
    BY <1>1, <2>2, SlotsDiffer
  <2> QED
    BY <1>4, <2>2, <2>3 DEF Owned, IInv, Sound
<1>8. Free'
  <2> SUFFICES ASSUME NEW i \in Indices, i = tail => pushing # "publish",
                      Dist(Inc(First), tail) <= Dist(Inc(First), i),
                      Dist(Inc(First), i) < Capacity
               PROVE  slots'[SlotOf(i)] = None
    BY DEF Free
  <2>1. Dist(First, i) = Dist(Inc(First), i) + 1
    BY <1>6
  <2>2. CASE Dist(First, i) < Capacity
    BY <1>1, <1>2, <1>4, <2>1, <2>2, Measures DEF Free, IInv, Sound
  <2>3. CASE Dist(First, i) = Capacity
    BY <1>1, <1>5, <2>3, SlotReused
  <2> QED
    BY <1>1, <2>1, <2>2, <2>3, Measures
<1> QED
  BY <1>1, <1>2, <1>3, <1>7, <1>8, Measures

LEMMA PopReleaseKeeps == IInv /\ PopRelease => Sound'
<1> SUFFICES ASSUME IInv, PopRelease PROVE Sound'
  OBVIOUS
<1>1. /\ popping = "release" /\ head' = Inc(head) /\ popping' = "idle"
      /\ got' = carried["consumer"]
      /\ carried' = [carried EXCEPT !["consumer"] = None]
      /\ UNCHANGED <<tail, slots, seenTail, pushing, sent, seenHead,
                     open, cursor>>
  BY DEF PopRelease, producerVars, handles
<1>2. /\ "consumer" \in open /\ head # seenTail
      /\ slots[SlotOf(head)] = None /\ carried["consumer"] # None
  BY <1>1 DEF AtWork, IInv, Sound
<1>3. First = head /\ First' = Inc(head) /\ head # tail
  BY <1>1, <1>2, Measures DEF First
<1>4. Dist(First, tail)' <= Capacity /\ Owned' /\ Free'
  BY <1>1, <1>2, <1>3, FirstMovesOn
<1>5. Seen'
  <2>1. /\ Dist(Inc(head), tail) = Dist(head, tail) - 1
        /\ Dist(Inc(head), seenTail) = Dist(head, seenTail) - 1
    BY <1>2, <1>3, Measures, DistFromNext
  <2>2. Dist(seenHead, head) < Capacity
    BY <1>3, Measures DEF Seen, IInv, Sound
  <2>3. Dist(seenHead, Inc(head)) = Dist(seenHead, head) + 1
    BY <2>2, Measures, DistToNext
  <2>4. Dist(seenHead, head) + 1 <= Dist(seenHead, tail)
    BY <1>3, Measures
  <2>5. Dist(head, seenTail) - 1 <= Dist(head, tail) - 1
    BY Measures DEF Seen, IInv, Sound
  <2> QED
    BY <1>1, <1>4, <2>1, <2>3, <2>4, <2>5 DEF Seen, IInv, Sound
<1>6. AtWork'
  <2>1. carried'["producer"] = carried["producer"]
    BY <1>1 DEF IInv, TypeOK, Sides
  <2> QED
    BY <1>1, <2>1 DEF AtWork, IInv, Sound
<1>7. Promised'
  <2>1. got' # "notEmpty"
    BY <1>1, <1>2, RingAssumption DEF IInv, TypeOK, Sides
  <2> QED
    BY <1>1, <2>1 DEF Promised, IInv, Sound
<1> QED
  BY <1>4, <1>5, <1>6, <1>7 DEF Sound

LEMMA DropHandleKeeps ==
  ASSUME IInv, NEW side \in Sides, DropHandle(side)
  PROVE  Sound'
<1>1. /\ side \in open /\ open' = open \ {side} /\ cursor' = head
      /\ UNCHANGED <<head, tail, slots, carried, pushing, sent, seenHead,
                     popping, got, seenTail>>
  BY DEF DropHandle, producerVars, consumerVars
<1>2. (IF side = "producer" THEN pushing ELSE popping) = "idle"
  BY DEF DropHandle
<1>3. First' = First
  BY <1>1 DEF First
<1>4. Seen' /\ Owned' /\ Free' /\ Promised'
  BY <1>1, <1>3 DEF Seen, Owned, Free, Promised, IInv, Sound
<1>5. AtWork'
  BY <1>1, <1>2 DEF AtWork, IInv, Sound, Sides
<1> QED
  BY <1>4, <1>5 DEF Sound

LEMMA DrainOneKeeps == IInv /\ DrainOne => Sound'
<1> SUFFICES ASSUME IInv, DrainOne PROVE Sound'
  OBVIOUS
<1>1. /\ open = {} /\ cursor # tail
      /\ slots' = [slots EXCEPT ![SlotOf(cursor)] = None]
      /\ cursor' = Inc(cursor)
      /\ UNCHANGED <<head, tail, carried, pushing, sent, seenHead,
                     popping, got, seenTail, open>>
  BY DEF DrainOne, producerVars, consumerVars
<1>2. pushing = "idle" /\ popping = "idle"
  BY <1>1 DEF AtWork, IInv, Sound
<1>3. First = cursor /\ First' = Inc(cursor)
  BY <1>1 DEF First
<1>4. slots'[SlotOf(cursor)] = None
  BY <1>1, SlotInRange, Measures DEF IInv, TypeOK
<1>5. Dist(First, tail)' <= Capacity /\ Owned' /\ Free'
  BY <1>1, <1>2, <1>3, <1>4, FirstMovesOn
<1>6. Seen'
  BY <1>1, <1>5 DEF Seen, IInv, Sound
<1>7. AtWork' /\ Promised'
  BY <1>1, <1>2 DEF AtWork, Promised, IInv, Sound
<1> QED
  BY <1>5, <1>6, <1>7 DEF Sound

LEMMA StutterKeeps == IInv /\ UNCHANGED vars => Sound'
BY DEF vars, producerVars, consumerVars, handles, IInv, Sound, Seen, Owned, Free,
       AtWork, Promised, First

LEMMA StepKeeps == IInv /\ [Next]_vars => IInv'
<1> SUFFICES ASSUME IInv, [Next]_vars PROVE IInv'
  OBVIOUS
<1>1. TypeOK'
  BY StepTyped DEF IInv
<1>2. CASE PushLoad
  BY <1>2, PushLoadKeeps, <1>1 DEF IInv
<1>3. CASE PushWrite
  BY <1>3, PushWriteKeeps, <1>1 DEF IInv
<1>4. CASE PushPublish
  BY <1>4, PushPublishKeeps, <1>1 DEF IInv
<1>5. CASE IsFull
  BY <1>5, IsFullKeeps, <1>1 DEF IInv
<1>6. CASE PopLoad \/ IsEmpty
  BY <1>6, PopLoadKeeps, <1>1 DEF IInv
<1>7. CASE PopRead
  BY <1>7, PopReadKeeps, <1>1 DEF IInv
<1>8. CASE PopRelease
  BY <1>8, PopReleaseKeeps, <1>1 DEF IInv
<1>9. CASE \E side \in Sides : DropHandle(side)
  BY <1>9, DropHandleKeeps, <1>1 DEF IInv
<1>10. CASE DrainOne
  BY <1>10, DrainOneKeeps, <1>1 DEF IInv
<1>11. CASE UNCHANGED vars
  BY <1>11, StutterKeeps, <1>1 DEF IInv
<1> QED
  BY <1>2, <1>3, <1>4, <1>5, <1>6, <1>7, <1>8, <1>9, <1>10, <1>11 DEF Next

(* The invariant holds in every reachable state of the ring.               *)
THEOREM Invariance == Spec => []IInv
<1>1. Init => IInv
  BY Starts
<1>2. IInv /\ [Next]_vars => IInv'
  BY StepKeeps
<1> QED
  BY <1>1, <1>2, PTL DEF Spec

(* The ring's state keeps its types.                                       *)
THEOREM TypeCorrect == Spec => []TypeOK
<1>1. IInv => TypeOK
  BY DEF IInv
<1> QED
  BY <1>1, Invariance, PTL

(* No value is overwritten, read twice or dropped twice (the two unsafe    *)
(* blocks of try_push and try_pop, and Drop for Shared), for every         *)
(* capacity that divides the word.                                         *)
THEOREM OwnedOnce == Spec => []SlotsOwnedOnce
<1>1. IInv => SlotsOwnedOnce
  <2> SUFFICES ASSUME IInv PROVE SlotsOwnedOnce
    OBVIOUS
  <2>1. pushing = "write" => slots[SlotOf(tail)] = None
    <3> SUFFICES ASSUME pushing = "write" PROVE slots[SlotOf(tail)] = None
      OBVIOUS
    <3>1. First = head /\ Dist(head, tail) < Capacity
      BY Measures DEF AtWork, IInv, Sound
    <3> QED
      BY <3>1, Measures DEF Free, IInv, Sound
  <2>2. popping = "read" => slots[SlotOf(head)] # None
    <3> SUFFICES ASSUME popping = "read" PROVE slots[SlotOf(head)] # None
      OBVIOUS
    <3>1. First = head /\ head # tail
      BY Measures DEF AtWork, IInv, Sound
    <3> QED
      BY <3>1, Measures DEF Owned, IInv, Sound
  <2>3. open = {} /\ cursor # tail => slots[SlotOf(cursor)] # None
    <3> SUFFICES ASSUME open = {}, cursor # tail
                 PROVE  slots[SlotOf(cursor)] # None
      OBVIOUS
    <3>1. First = cursor /\ popping = "idle"
      BY DEF First, AtWork, IInv, Sound
    <3> QED
      BY <3>1, Measures DEF Owned, IInv, Sound
  <2> QED
    BY <2>1, <2>2, <2>3 DEF SlotsOwnedOnce
<1> QED
  BY <1>1, Invariance, PTL

(* The producer and the consumer are never at the same slot at once.       *)
THEOREM NoRace == Spec => []NoSlotRace
<1>1. IInv => NoSlotRace
  <2> SUFFICES ASSUME IInv PROVE NoSlotRace
    OBVIOUS
  <2>1. pushing = "write" /\ popping = "read" => SlotOf(tail) # SlotOf(head)
    <3> SUFFICES ASSUME pushing = "write", popping = "read"
                 PROVE  SlotOf(tail) # SlotOf(head)
      OBVIOUS
    <3>1. head # tail /\ Dist(head, tail) < Capacity
      BY Measures DEF AtWork, IInv, Sound
    <3> QED
      BY <3>1, Measures, SlotsDiffer
  <2>2. pushing = "write" => Dist(seenHead, tail) < Capacity
    BY DEF AtWork, IInv, Sound
  <2>3. popping = "read" => Dist(head, seenTail) \in 1 .. Dist(head, tail)
    BY Measures DEF AtWork, IInv, Sound, Seen
  <2> QED
    BY <2>1, <2>2, <2>3 DEF NoSlotRace
<1> QED
  BY <1>1, Invariance, PTL

(* is_full and is_empty bind the next call of their side.                  *)
THEOREM AnswersStand == Spec => AnswersHold
<1> DEFINE Holds == /\ sent = "notFull" => sent' # "refused"
                    /\ got = "notEmpty" => got' # None
<1>1. IInv /\ [Next]_vars => [Holds]_vars
  <2> SUFFICES ASSUME IInv, Next PROVE Holds
    OBVIOUS
  <2>1. sent = "notFull" => sent' # "refused"
    <3> SUFFICES ASSUME sent = "notFull", sent' = "refused" PROVE FALSE
      OBVIOUS
    <3>1. PushLoad
      BY DEF Next, PushWrite, PushPublish, IsFull, PopLoad, PopRead, PopRelease,
             IsEmpty, DropHandle, DrainOne, producerVars, consumerVars, handles
    <3>2. PICK h \in Visible(seenHead, head) : Full(h)
      BY <3>1 DEF PushLoad
    <3>3. /\ h \in Indices /\ Dist(h, tail) <= Dist(seenHead, tail)
          /\ Dist(seenHead, tail) < Capacity
      BY HeadSeen DEF IInv, Sound, Promised
    <3> QED
      BY <3>2, <3>3, Measures DEF Full
  <2>2. got = "notEmpty" => got' # None
    <3> SUFFICES ASSUME got = "notEmpty", got' = None PROVE FALSE
      OBVIOUS
    <3>1. CASE PopLoad
      BY <3>1, TailSeen, RingAssumption DEF PopLoad, IInv, Sound, Promised
    <3>2. CASE PopRelease
      BY <3>2 DEF PopRelease, IInv, Sound, AtWork
    <3>3. PopLoad \/ PopRelease
      BY RingAssumption DEF Next, PushLoad, PushWrite, PushPublish, IsFull, PopRead,
         IsEmpty, DropHandle, DrainOne, producerVars, consumerVars, handles
    <3> QED
      BY <3>1, <3>2, <3>3
  <2> QED
    BY <2>1, <2>2
<1> QED
  BY <1>1, Invariance, PTL DEF Spec, AnswersHold

-----------------------------------------------------------------------------
(* The ring implements the bounded queue.                                  *)

(* The index of the k-th value waiting from i on.                          *)
Nth(i, k) == (i + k - 1) % Modulus

LEMMA NthIs ==
  ASSUME NEW i \in Indices, NEW k \in 1 .. Modulus
  PROVE  Nth(i, k) \in Indices /\ Dist(i, Nth(i, k)) = k - 1
<1>1. /\ i \in Nat /\ i < Modulus /\ Modulus \in Nat \ {0}
      /\ k \in Nat /\ k >= 1 /\ k <= Modulus
  BY RingAssumption DEF Indices
<1>2. Nth(i, k) = IF i + k - 1 < Modulus THEN i + k - 1 ELSE i + k - 1 - Modulus
  <2>1. CASE i + k - 1 < Modulus
    <3>1. i + k - 1 \in 0 .. Modulus - 1
      BY <1>1, <2>1
    <3> QED
      BY <1>1, <2>1, <3>1, ModSmall DEF Nth
  <2>2. CASE ~(i + k - 1 < Modulus)
    <3>1. i + k - 1 \in Modulus .. 2 * Modulus - 1
      BY <1>1, <2>2
    <3>2. (i + k - 1) % Modulus = (i + k - 1) - Modulus
      BY <1>1, <3>1, ModOnce
    <3> QED
      BY <1>1, <2>2, <3>2 DEF Nth
  <2> QED
    BY <2>1, <2>2
<1>3. Nth(i, k) \in Indices
  BY <1>1, <1>2 DEF Indices
<1> QED
  BY <1>1, <1>2, <1>3, DistIs

LEMMA NthNext ==
  ASSUME NEW i \in Indices, NEW k \in 1 .. Modulus - 1
  PROVE  Nth(Inc(i), k) = Nth(i, k + 1)
<1>0. Modulus \in Nat /\ k \in 1 .. Modulus /\ k + 1 \in 1 .. Modulus /\ k \in Nat
  BY RingAssumption
<1>1. Inc(i) \in Indices
  BY IncInRange
<1>2. /\ Nth(Inc(i), k) \in Indices /\ Dist(Inc(i), Nth(Inc(i), k)) = k - 1
      /\ Nth(i, k + 1) \in Indices /\ Dist(i, Nth(i, k + 1)) = k
  BY <1>0, <1>1, NthIs
<1>3. i # Nth(i, k + 1)
  BY <1>0, <1>2, DistInRange
<1>4. Dist(Inc(i), Nth(i, k + 1)) = k - 1
  BY <1>2, <1>3, DistFromNext
<1> QED
  BY <1>1, <1>2, <1>4, DistSame

(* The k-th value waiting.                                                 *)
Item(k) ==
  IF k = 1 /\ popping = "release" THEN carried["consumer"]
  ELSE slots[SlotOf(Nth(First, k))]

LEMMA WaitingIs ==
  ASSUME IInv
  PROVE  /\ Waiting \in Seq(Values)
         /\ Len(Waiting) = Dist(First, tail)
         /\ \A k \in 1 .. Dist(First, tail) :
              /\ Waiting[k] = Item(k)
              /\ Nth(First, k) \in Indices
              /\ Dist(First, Nth(First, k)) = k - 1
         /\ Dist(First, tail) \in Nat
         /\ Dist(First, tail) <= Capacity
<1>1. /\ Dist(First, tail) \in Nat /\ Dist(First, tail) < Modulus
      /\ Dist(First, tail) <= Capacity /\ First \in Indices
  BY Measures DEF IInv, Sound, Seen
<1>2. \A k \in 1 .. Dist(First, tail) :
        Nth(First, k) \in Indices /\ Dist(First, Nth(First, k)) = k - 1
  BY <1>1, NthIs, RingAssumption
<1>3. \A k \in 1 .. Dist(First, tail) : Item(k) \in Values
  <2> SUFFICES ASSUME NEW k \in 1 .. Dist(First, tail) PROVE Item(k) \in Values
    OBVIOUS
  <2>1. CASE popping = "release"
    <3>1. First = head
      BY <2>1, Measures DEF IInv, Sound, AtWork
    <3>2. carried["consumer"] \in Values
      BY <2>1 DEF IInv, Sound, AtWork, TypeOK, Sides
    <3>3. k # 1 => Nth(First, k) # head
      BY <1>1, <1>2, <3>1, Measures
    <3>4. k # 1 => slots[SlotOf(Nth(First, k))] # None
      BY <1>1, <1>2, <3>3 DEF IInv, Sound, Owned
    <3> QED
      BY <1>2, <2>1, <3>2, <3>4, SlotInRange DEF Item, IInv, TypeOK
  <2>2. CASE popping # "release"
    <3>1. slots[SlotOf(Nth(First, k))] # None
      BY <1>1, <1>2, <2>2 DEF IInv, Sound, Owned
    <3> QED
      BY <1>2, <2>2, <3>1, SlotInRange DEF Item, IInv, TypeOK
  <2> QED
    BY <2>1, <2>2
<1>4. Waiting = [k \in 1 .. Dist(First, tail) |-> Item(k)]
  BY DEF Waiting, Item, Nth
<1>5. Waiting \in [1 .. Dist(First, tail) -> Values]
  BY <1>3, <1>4
<1>6. Waiting \in Seq(Values)
  BY <1>1, <1>5, SeqDef
<1>7. Len(Waiting) = Dist(First, tail)
  BY <1>1, <1>5, <1>6, LenProperties
<1> QED
  BY <1>1, <1>2, <1>4, <1>6, <1>7

Order ==
  /\ Waiting \in Seq(Values)
  /\ Len(Waiting) = Dist(First, tail)
  /\ \A k \in 1 .. Dist(First, tail) : Waiting[k] = Item(k)

LEMMA WaitingInOrder == IInv => Order
BY WaitingIs DEF Order

(* Where no item changes, nothing changes for the queue.                   *)
LEMMA WaitingSame ==
  ASSUME IInv, First' = First, tail' = tail,
         \A k \in 1 .. Dist(First, tail) : Item(k)' = Item(k)
  PROVE  Waiting' = Waiting
<1>1. /\ Waiting = [k \in 1 .. Dist(First, tail) |-> Item(k)]
      /\ Waiting' = [k \in 1 .. Dist(First', tail') |-> Item(k)']
  BY DEF Waiting, Item, Nth
<1> QED
  BY <1>1

LEMMA WorkIsHidden ==
  IInv /\ (PushWrite \/ PopRead \/ UNCHANGED vars) =>
    UNCHANGED <<Waiting, sent, got, open>>
<1> SUFFICES ASSUME IInv, PushWrite \/ PopRead \/ UNCHANGED vars
             PROVE  UNCHANGED <<Waiting, sent, got, open>>
  OBVIOUS
<1>0. UNCHANGED <<sent, got, open, cursor, head, tail>>
  BY DEF PushWrite, PopRead, vars, producerVars, consumerVars, handles
<1>1. First' = First
  BY <1>0 DEF First
<1>2. CASE PushWrite
  <2>1. /\ slots' = [slots EXCEPT ![SlotOf(tail)] = carried["producer"]]
        /\ carried' = [carried EXCEPT !["producer"] = None]
        /\ popping' = popping /\ pushing = "write"
    BY <1>2 DEF PushWrite, consumerVars
  <2>2. First = head /\ Dist(First, tail) < Capacity
    BY <2>1, Measures DEF AtWork, IInv, Sound
  <2>3. carried'["consumer"] = carried["consumer"]
    BY <2>1 DEF IInv, TypeOK, Sides
  <2>4. ASSUME NEW k \in 1 .. Dist(First, tail) PROVE Item(k)' = Item(k)
    <3>1. Nth(First, k) \in Indices /\ Dist(First, Nth(First, k)) = k - 1
      BY WaitingIs
    <3>0. Dist(First, Nth(First, k)) <= Dist(First, tail) /\ First \in Indices
          /\ tail \in Indices
      BY <3>1, Measures
    <3>2. Dist(First, tail) = Dist(First, Nth(First, k)) + Dist(Nth(First, k), tail)
      BY <3>0, <3>1, DistBetween
    <3>3. Nth(First, k) # tail /\ Dist(Nth(First, k), tail) < Capacity
      BY <2>2, <3>1, <3>2, Measures
    <3>4. SlotOf(Nth(First, k)) # SlotOf(tail)
      BY <3>1, <3>3, Measures, SlotsDiffer
    <3>5. slots'[SlotOf(Nth(First, k))] = slots[SlotOf(Nth(First, k))]
      BY <2>1, <3>1, <3>4, SlotInRange DEF IInv, TypeOK
    <3> QED
      BY <1>1, <2>1, <2>3, <3>5 DEF Item
  <2> QED
    BY <1>0, <1>1, <2>4, WaitingSame
<1>3. CASE PopRead
  <2>1. /\ carried' = [carried EXCEPT !["consumer"] = slots[SlotOf(head)]]
        /\ slots' = [slots EXCEPT ![SlotOf(head)] = None]
        /\ popping = "read" /\ popping' = "release"
    BY <1>3 DEF PopRead
  <2>2. First = head
    BY <2>1, Measures DEF AtWork, IInv, Sound
  <2>3. carried'["consumer"] = slots[SlotOf(head)]
    BY <2>1 DEF IInv, TypeOK, Sides
  <2>4. ASSUME NEW k \in 1 .. Dist(First, tail) PROVE Item(k)' = Item(k)
    <3>1. Nth(First, k) \in Indices /\ Dist(First, Nth(First, k)) = k - 1
      BY WaitingIs
    <3>2. CASE k = 1
      <4>1. Nth(First, k) = head
        BY <2>2, <3>1, <3>2, Measures
      <4> QED
        BY <2>1, <2>3, <3>2, <4>1 DEF Item
    <3>3. CASE k # 1
      <4>0. /\ Dist(First, tail) \in Nat /\ Dist(First, tail) <= Capacity
            /\ Capacity \in Nat
        BY Measures DEF IInv, Sound, Seen
      <4>1. head # Nth(First, k) /\ Dist(head, Nth(First, k)) < Capacity
        BY <2>2, <3>1, <3>3, <4>0, Measures
      <4>2. SlotOf(Nth(First, k)) # SlotOf(head)
        BY <3>1, <4>1, Measures, SlotsDiffer
      <4>3. slots'[SlotOf(Nth(First, k))] = slots[SlotOf(Nth(First, k))]
        BY <2>1, <3>1, <4>2, SlotInRange DEF IInv, TypeOK
      <4> QED
        BY <1>1, <3>3, <4>3 DEF Item
    <3> QED
      BY <3>2, <3>3
  <2> QED
    BY <1>0, <1>1, <2>4, WaitingSame
<1>4. CASE UNCHANGED vars
  BY <1>1, <1>4, WaitingSame DEF Item, vars, producerVars, consumerVars, handles
<1> QED
  BY <1>0, <1>2, <1>3, <1>4

LEMMA PublishPushes == IInv /\ PushPublish => Queue!Push
<1> SUFFICES ASSUME IInv, PushPublish PROVE Queue!Push
  OBVIOUS
<1>1. /\ pushing = "publish" /\ tail' = Inc(tail) /\ sent' = "ok"
      /\ UNCHANGED <<head, slots, carried, popping, got, open, cursor>>
  BY DEF PushPublish, consumerVars, handles
<1>2. /\ First = head /\ First' = head
      /\ Dist(seenHead, tail) < Capacity /\ slots[SlotOf(tail)] # None
  BY <1>1, Measures DEF AtWork, IInv, Sound, First
<1>3. Dist(head, tail) < Capacity
  BY <1>2, Measures
<1>4. Dist(head, Inc(tail)) = Dist(head, tail) + 1
  BY <1>3, Measures, DistToNext
<1>5. slots[SlotOf(tail)] \in Values
  BY <1>2, SlotInRange, Measures DEF IInv, TypeOK
<1> DEFINE n == Dist(head, tail)
           s == Append(Waiting, slots[SlotOf(tail)])
<1>6. /\ s \in Seq(Values) /\ Len(s) = n + 1
      /\ \A k \in 1 .. n : s[k] = Waiting[k]
      /\ s[n + 1] = slots[SlotOf(tail)]
  BY <1>2, <1>5, WaitingIs, AppendProperties
<1>7. /\ Waiting' \in Seq(Values) /\ Len(Waiting') = n + 1
      /\ \A k \in 1 .. n + 1 : Waiting'[k] = Item(k)'
  <2>1. IInv'
    BY StepKeeps DEF Next
  <2>2. /\ Waiting' \in Seq(Values)
        /\ Len(Waiting') = Dist(First', tail')
        /\ \A k \in 1 .. Dist(First', tail') : Waiting'[k] = Item(k)'
    <3>1. Order'
      BY <2>1, WaitingInOrder, PTL
    <3> QED
      BY <3>1 DEF Order
  <2> QED
    BY <1>1, <1>2, <1>4, <2>2
<1>8. ASSUME NEW k \in 1 .. n + 1 PROVE Waiting'[k] = s[k]
  <2>1. n \in Nat
    BY Measures
  <2>2. CASE k \in 1 .. n
    <3>1. Waiting[k] = Item(k)
      BY <1>2, <2>2, WaitingIs
    <3> QED
      BY <1>1, <1>2, <1>6, <1>7, <2>2, <3>1 DEF Item
  <2>3. CASE k = n + 1
    <3>1. Nth(head, k) = tail
      <4>1. k \in 1 .. Modulus
        BY <1>3, <2>1, <2>3, Measures
      <4>2. Nth(head, k) \in Indices /\ Dist(head, Nth(head, k)) = n
        BY <2>1, <2>3, <4>1, Measures, NthIs
      <4> QED
        BY <4>2, Measures, DistSame
    <3>2. ~(k = 1 /\ popping = "release")
      BY <2>1, <2>3, Measures DEF AtWork, IInv, Sound
    <3> QED
      BY <1>1, <1>2, <1>6, <1>7, <2>3, <3>1, <3>2 DEF Item
  <2>4. k \in 1 .. n \/ k = n + 1
    BY <2>1
  <2> HIDE DEF n, s
  <2> QED
    BY <2>2, <2>3, <2>4
<1>9. Waiting' = s
  BY <1>6, <1>7, <1>8, SeqEqual
<1> QED
  BY <1>1, <1>2, <1>3, <1>5, <1>9, WaitingIs DEF Queue!Push

(* Where First moves on, the queue loses its head.                         *)
LEMMA WaitingMovesOn ==
  ASSUME IInv, IInv', First # tail, First' = Inc(First), tail' = tail,
         popping' = "idle", popping = "release" => First = head,
         \A k \in 2 .. Dist(First, tail) :
           slots'[SlotOf(Nth(First, k))] = slots[SlotOf(Nth(First, k))]
  PROVE  Waiting # <<>> /\ Waiting' = Tail(Waiting)
<1>1. /\ First \in Indices /\ tail \in Indices
      /\ Dist(First, tail) \in Nat \ {0} /\ Dist(First, tail) <= Capacity
      /\ Capacity < Modulus /\ Capacity \in Nat /\ Modulus \in Nat
  BY Measures, WaitingIs
<1>2. Dist(Inc(First), tail) = Dist(First, tail) - 1
  BY <1>1, DistFromNext
<1> DEFINE n == Dist(First, tail) - 1
<1>3. /\ Waiting \in Seq(Values) /\ Len(Waiting) = n + 1 /\ n \in Nat
      /\ \A k \in 1 .. n + 1 : Waiting[k] = Item(k)
  BY <1>1, WaitingIs
<1>4. Waiting # <<>>
  BY <1>3, EmptySeq
<1>5. /\ Tail(Waiting) \in Seq(Values) /\ Len(Tail(Waiting)) = n
      /\ \A k \in 1 .. n : Tail(Waiting)[k] = Waiting[k + 1]
  BY <1>3, <1>4, HeadTailProperties
<1>6. /\ Waiting' \in Seq(Values) /\ Len(Waiting') = n
      /\ \A k \in 1 .. n : Waiting'[k] = Item(k)'
  <2>1. /\ Waiting' \in Seq(Values)
        /\ Len(Waiting') = Dist(First', tail')
        /\ \A k \in 1 .. Dist(First', tail') : Waiting'[k] = Item(k)'
    <3>1. Order'
      BY WaitingInOrder, PTL
    <3> QED
      BY <3>1 DEF Order
  <2> QED
    BY <1>2, <2>1
<1>7. ASSUME NEW k \in 1 .. n PROVE Waiting'[k] = Tail(Waiting)[k]
  <2>1. Item(k)' = slots'[SlotOf(Nth(Inc(First), k))]
    BY DEF Item
  <2>2. k \in 1 .. Modulus - 1 /\ k + 1 \in 2 .. n + 1 /\ k + 1 \in 1 .. n + 1
    BY <1>1, <1>3
  <2>3. Nth(Inc(First), k) = Nth(First, k + 1)
    BY <1>1, <2>2, NthNext
  <2>4. slots'[SlotOf(Nth(First, k + 1))] = slots[SlotOf(Nth(First, k + 1))]
    BY <1>1, <2>2
  <2>5. Item(k + 1) = slots[SlotOf(Nth(First, k + 1))]
    BY <2>2 DEF Item
  <2> QED
    BY <1>3, <1>5, <1>6, <2>1, <2>2, <2>3, <2>4, <2>5
<1> QED
  BY <1>4, <1>5, <1>6, <1>7, SeqEqual

LEMMA StartsEmpty == Init => Queue!Init
<1> SUFFICES ASSUME Init PROVE Queue!Init
  OBVIOUS
<1>1. IInv
  BY Starts
<1>2. Dist(First, tail) = 0
  BY <1>1, Measures DEF Init, First, Sides
<1>3. Waiting = <<>>
  BY <1>1, <1>2, WaitingIs, EmptySeq
<1> QED
  BY <1>3 DEF Init, Sides, Queue!Init

LEMMA ReleasePops == IInv /\ IInv' /\ PopRelease => Queue!Pop
<1> SUFFICES ASSUME IInv, IInv', PopRelease PROVE Queue!Pop
  OBVIOUS
<1>1. /\ popping = "release" /\ head' = Inc(head) /\ popping' = "idle"
      /\ got' = carried["consumer"]
      /\ UNCHANGED <<tail, slots, sent, open, cursor>>
  BY DEF PopRelease, producerVars, handles
<1>2. First = head /\ First' = Inc(First) /\ First # tail
  BY <1>1, Measures DEF First, AtWork, IInv, Sound
<1>3. Waiting # <<>> /\ Waiting' = Tail(Waiting)
  BY <1>1, <1>2, WaitingMovesOn
<1>4. Head(Waiting) = carried["consumer"]
  <2>1. 1 \in 1 .. Dist(First, tail)
    BY <1>2, Measures
  <2>2. Waiting[1] = carried["consumer"]
    BY <1>1, <2>1, WaitingIs DEF Item
  <2> QED
    BY <1>3, <2>2, WaitingIs
<1> QED
  BY <1>1, <1>3, <1>4 DEF Queue!Pop

LEMMA DrainDrops == IInv /\ IInv' /\ DrainOne => Queue!Drain
<1> SUFFICES ASSUME IInv, IInv', DrainOne PROVE Queue!Drain
  OBVIOUS
<1>1. /\ open = {} /\ cursor # tail
      /\ slots' = [slots EXCEPT ![SlotOf(cursor)] = None]
      /\ cursor' = Inc(cursor)
      /\ UNCHANGED <<head, tail, pushing, sent, popping, got, open>>
  BY DEF DrainOne, producerVars, consumerVars
<1>2. First = cursor /\ First' = Inc(First) /\ popping = "idle"
  BY <1>1 DEF First, AtWork, IInv, Sound
<1>3. ASSUME NEW k \in 2 .. Dist(First, tail)
      PROVE  slots'[SlotOf(Nth(First, k))] = slots[SlotOf(Nth(First, k))]
  <2>0. /\ Dist(First, tail) \in Nat /\ Dist(First, tail) <= Capacity
        /\ Capacity \in Nat /\ First \in Indices
    BY Measures DEF IInv, Sound, Seen
  <2>1. /\ k \in 1 .. Dist(First, tail) /\ k # 1
        /\ Nth(First, k) \in Indices /\ Dist(First, Nth(First, k)) = k - 1
    BY <2>0, WaitingIs
  <2>2. First # Nth(First, k) /\ Dist(First, Nth(First, k)) < Capacity
    BY <2>0, <2>1, DistInRange
  <2>3. SlotOf(Nth(First, k)) # SlotOf(First)
    BY <2>0, <2>1, <2>2, SlotsDiffer
  <2> QED
    BY <1>1, <1>2, <2>1, <2>3, SlotInRange DEF IInv, TypeOK
<1>4. Waiting # <<>> /\ Waiting' = Tail(Waiting)
  BY <1>1, <1>2, <1>3, WaitingMovesOn
<1> QED
  BY <1>1, <1>4 DEF Queue!Drain

LEMMA StepsMap ==
  IInv /\ IInv' /\ [Next]_vars => [Queue!Next]_<<Waiting, sent, got, open>>
<1> SUFFICES ASSUME IInv, IInv', [Next]_vars
             PROVE  [Queue!Next]_<<Waiting, sent, got, open>>
  OBVIOUS
<1>1. CASE PushWrite \/ PopRead \/ UNCHANGED vars
  BY <1>1, WorkIsHidden
<1>2. CASE PushPublish
  BY <1>2, PublishPushes DEF Queue!Next
<1>3. CASE PopRelease
  BY <1>3, ReleasePops DEF Queue!Next
<1>4. CASE DrainOne
  BY <1>4, DrainDrops DEF Queue!Next
<1>5. CASE PushLoad \/ IsFull
  <2>1. /\ "producer" \in open
        /\ UNCHANGED <<head, tail, slots, popping, got, open, cursor>>
    BY <1>5 DEF PushLoad, IsFull, consumerVars, handles
  <2>2. carried'["consumer"] = carried["consumer"]
    BY <1>5 DEF PushLoad, IsFull, IInv, TypeOK, Sides
  <2>3. Waiting' = Waiting
    BY <2>1, <2>2, WaitingSame DEF Item, First
  <2>4. CASE sent' \in {"refused", "full"}
    BY <2>1, <2>3, <2>4 DEF Queue!Next, Queue!Refuse
  <2>5. CASE sent' = sent
    BY <2>1, <2>3, <2>5
  <2>6. CASE IsFull /\ sent' = "notFull"
    <3>1. PICK h \in Visible(seenHead, head) : ~Full(h)
      BY <2>6 DEF IsFull
    <3>2. h \in Indices /\ Dist(h, head) <= Dist(h, tail)
          /\ Dist(h, tail) <= Dist(seenHead, tail)
      BY HeadSeen DEF IInv, Sound
    <3>3. Dist(h, tail) = Dist(h, head) + Dist(head, tail)
      BY <3>2, Measures, DistBetween
    <3>4. Dist(h, tail) < Capacity
      BY <3>1, <3>2, Measures DEF Full, IInv, Sound, Seen
    <3>5. First = head /\ Dist(head, tail) < Capacity
      BY <2>1, <3>2, <3>3, <3>4, Measures
    <3> QED
      BY <2>1, <2>3, <2>6, <3>5, WaitingIs DEF Queue!Next, Queue!SeeRoom
  <2> QED
    BY <1>5, <2>4, <2>5, <2>6 DEF PushLoad, IsFull
<1>6. CASE PopLoad \/ IsEmpty
  <2>1. /\ "consumer" \in open /\ popping = "idle"
        /\ UNCHANGED <<head, tail, slots, carried, sent, open, cursor>>
    BY <1>6 DEF PopLoad, IsEmpty, producerVars, handles
  <2>2. popping' # "release"
    BY <1>6 DEF PopLoad, IsEmpty
  <2>3. Waiting' = Waiting
    BY <2>1, <2>2, WaitingSame DEF Item, First
  <2>4. CASE got' \in {None, "empty"}
    BY <2>1, <2>3, <2>4 DEF Queue!Next, Queue!Miss
  <2>5. CASE got' = got
    BY <2>1, <2>3, <2>5
  <2>6. CASE IsEmpty /\ got' = "notEmpty"
    <3>1. PICK t \in Visible(seenTail, tail) : head # t
      BY <2>6 DEF IsEmpty
    <3>2. t \in Indices /\ Dist(head, t) <= Dist(head, tail)
      BY TailSeen DEF IInv, Sound
    <3>3. First = head /\ Dist(First, tail) # 0
      BY <2>1, <3>1, <3>2, Measures
    <3>4. Waiting # <<>>
      BY <3>3, WaitingIs, EmptySeq
    <3> QED
      BY <2>1, <2>3, <2>6, <3>4 DEF Queue!Next, Queue!SeeValue
  <2> QED
    BY <1>6, <2>4, <2>5, <2>6 DEF PopLoad, IsEmpty
<1>7. CASE \E side \in Sides : DropHandle(side)
  <2>1. PICK side \in Sides : DropHandle(side)
    BY <1>7
  <2>2. /\ side \in open /\ open' = open \ {side} /\ cursor' = head
        /\ UNCHANGED <<head, tail, slots, carried, sent, popping, got>>
    BY <2>1 DEF DropHandle, producerVars, consumerVars
  <2>3. Waiting' = Waiting
    BY <2>2, WaitingSame DEF Item, First
  <2> QED
    BY <2>2, <2>3 DEF Queue!Next, Queue!Close
<1> QED
  BY <1>1, <1>2, <1>3, <1>4, <1>5, <1>6, <1>7 DEF Next

(* The ring is a bounded queue: for every capacity that divides the word,  *)
(* values come out once, in the order they went in, and a push is refused  *)
(* or a pop misses only as the queue allows.                               *)
THEOREM RingIsQueue == Spec => ImplementsQueue
<1>1. Init => Queue!Init
  BY StartsEmpty
<1>2. IInv /\ IInv' /\ [Next]_vars => [Queue!Next]_<<Waiting, sent, got, open>>
  BY StepsMap
<1> QED
  BY <1>1, <1>2, Invariance, PTL DEF Spec, ImplementsQueue, Queue!Spec

-----------------------------------------------------------------------------
(* What the end of the ring rests on (Drop for Shared): the drain is the   *)
(* only thing that happens once both handles are gone, each round of it    *)
(* has one value less to go, and where it ends no value is left.           *)

(* Every slot is one of the Capacity slots from any index on.              *)
LEMMA SlotAhead ==
  ASSUME NEW i \in Indices, NEW s \in 0 .. Capacity - 1
  PROVE  \E j \in Indices : Dist(i, j) < Capacity /\ SlotOf(j) = s
<1> DEFINE r == SlotOf(i)
<1>1. /\ Capacity \in Nat \ {0} /\ Modulus \in Nat /\ i \in Nat /\ i < Modulus
      /\ Capacity < Modulus
      /\ s \in Nat /\ s < Capacity
  BY RingAssumption DEF Indices
<1>2. PICK a \in Nat : i = (Capacity * a) + r
  BY SlotIs
<1>3. r \in 0 .. Capacity - 1
  BY SlotInRange
<1>4. PICK q \in Nat : Modulus = Capacity * q
  BY WordIsMultiple
<1> DEFINE row == Capacity * a
<1>5. row \in Nat
  BY <1>1, <1>2
<1>6. PICK d \in Nat : q = a + 1 + d
  <2>1. a < q
    <3> SUFFICES ASSUME a >= q PROVE FALSE
      BY <1>2, <1>4
    <3>1. PICK d \in Nat : a = q + d
      BY <1>2, <1>4
    <3>2. Capacity * a = (Capacity * q) + (Capacity * d) /\ Capacity * d \in Nat
      BY <1>1, <1>4, <3>1
    <3> QED
      BY <1>1, <1>2, <1>3, <1>4, <3>2
  <2> QED
    BY <1>2, <1>4, <2>1
<1> DEFINE rest == Capacity * d
<1>7. /\ i = row + r
      /\ Modulus = row + Capacity + rest
      /\ rest \in Nat
      /\ d # 0 => rest >= Capacity
  <2>1. Capacity * (a + 1 + d) = (Capacity * a) + Capacity + (Capacity * d)
    BY <1>1, <1>2, <1>6
  <2>2. Capacity * d \in Nat
    BY <1>1, <1>6
  <2>3. ASSUME d # 0 PROVE rest >= Capacity
    <3>1. PICK e \in Nat : d = e + 1
      BY <1>6, <2>3
    <3>2. Capacity * (e + 1) = (Capacity * e) + Capacity /\ Capacity * e \in Nat
      BY <1>1, <3>1
    <3> QED
      BY <1>1, <3>1, <3>2
  <2> QED
    BY <1>2, <1>4, <1>6, <2>1, <2>2, <2>3
<1>8. SlotOf(row + s) = s /\ SlotOf(row + Capacity + s) = s
  <2>1. ((Capacity * a) + s) % Capacity = s
    BY <1>1, <1>2, ModUnique
  <2>2. ((Capacity * (a + 1)) + s) % Capacity = s
    BY <1>1, <1>2, ModUnique
  <2>3. Capacity * (a + 1) = (Capacity * a) + Capacity
    BY <1>1, <1>2
  <2> QED
    BY <2>1, <2>2, <2>3 DEF SlotOf
<1> HIDE DEF r, row, rest
<1>9. CASE r <= s
  <2>1. row + s \in Indices
    BY <1>1, <1>5, <1>7 DEF Indices
  <2>2. Dist(i, row + s) = s - r
    BY <1>1, <1>3, <1>5, <1>7, <1>9, <2>1, DistIs
  <2>3. s - r < Capacity
    BY <1>1, <1>3
  <2> QED
    BY <1>8, <2>1, <2>2, <2>3
<1>10. CASE ~(r <= s) /\ d # 0
  <2>1. row + Capacity + s \in Indices
    BY <1>1, <1>5, <1>7, <1>10 DEF Indices
  <2>2. Dist(i, row + Capacity + s) = Capacity + s - r
    BY <1>1, <1>3, <1>5, <1>7, <1>10, <2>1, DistIs
  <2>3. Capacity + s - r < Capacity
    BY <1>1, <1>3, <1>10
  <2> QED
    BY <1>8, <2>1, <2>2, <2>3
<1>11. CASE ~(r <= s) /\ d = 0
  <2>1. Modulus = row + Capacity
    BY <1>1, <1>5, <1>7, <1>11 DEF rest
  <2>2. s \in Indices /\ SlotOf(s) = s
    <3>1. s % Capacity = s
      BY <1>1, ModSmall
    <3> QED
      BY <1>1, <3>1 DEF Indices, SlotOf
  <2>3. Dist(i, s) = Capacity + s - r
    BY <1>1, <1>3, <1>5, <1>7, <1>11, <2>1, <2>2, DistIs
  <2>4. Capacity + s - r < Capacity
    BY <1>1, <1>3, <1>11
  <2> QED
    BY <2>2, <2>3, <2>4
<1> QED
  BY <1>9, <1>10, <1>11

(* Where the drain has ended no value is left in the ring: "drain any      *)
(* items still in the ring so their destructors run".                      *)
DrainedIsEmpty ==
  open = {} /\ cursor = tail => \A s \in 0 .. Capacity - 1 : slots[s] = None

(* The last round of the drain leaves every slot without a value, whatever *)
(* the indices were when the handles went.                                 *)
THEOREM NothingLeft == Spec => []DrainedIsEmpty
<1>1. IInv => DrainedIsEmpty
  <2> SUFFICES ASSUME IInv, open = {}, cursor = tail, NEW s \in 0 .. Capacity - 1
               PROVE  slots[s] = None
    BY DEF DrainedIsEmpty
  <2>1. First = tail /\ pushing = "idle"
    BY DEF First, AtWork, IInv, Sound
  <2>2. PICK i \in Indices : Dist(tail, i) < Capacity /\ SlotOf(i) = s
    BY Measures, SlotAhead
  <2>3. Dist(tail, tail) = 0 /\ Dist(tail, i) \in Nat
    BY <2>2, Measures
  <2> QED
    BY <2>1, <2>2, <2>3 DEF Free, IInv, Sound
<1> QED
  BY <1>1, Invariance, PTL

(* Once both handles are gone every step drops the value the drain is at,  *)
(* and brings it one closer to its end.                                    *)
DrainGoesOn ==
  [][open = {} =>
       /\ slots[SlotOf(cursor)] # None /\ slots'[SlotOf(cursor)] = None
       /\ open' = {} /\ Dist(cursor', tail') = Dist(cursor, tail) - 1]_vars

(* The drain drops a value in every round and takes as many rounds as      *)
(* values were left: it cannot run on around the word.                     *)
THEOREM DrainEnds == Spec => DrainGoesOn
<1>1. ASSUME IInv, [Next]_vars
      PROVE  [open = {} =>
                /\ slots[SlotOf(cursor)] # None /\ slots'[SlotOf(cursor)] = None
                /\ open' = {} /\ Dist(cursor', tail') = Dist(cursor, tail) - 1]_vars
  <2> SUFFICES ASSUME Next, open = {}
               PROVE  /\ slots[SlotOf(cursor)] # None /\ slots'[SlotOf(cursor)] = None
                      /\ open' = {} /\ Dist(cursor', tail') = Dist(cursor, tail) - 1
    BY <1>1 DEF vars
  <2>1. pushing = "idle" /\ popping = "idle"
    BY <1>1 DEF AtWork, IInv, Sound
  <2>2. DrainOne
    BY <2>1 DEF Next, PushLoad, PushWrite, PushPublish, IsFull, PopLoad, PopRead, PopRelease,
       IsEmpty, DropHandle
  <2>3. First = cursor /\ cursor # tail
    BY <2>2 DEF DrainOne, First
  <2>4. Dist(cursor, cursor) = 0 /\ Dist(cursor, tail) > 0
    BY <1>1, <2>3, Measures
  <2>5. slots[SlotOf(cursor)] # None
    BY <1>1, <2>1, <2>3, <2>4, Measures DEF Owned, IInv, Sound
  <2>6. slots'[SlotOf(cursor)] = None
    BY <1>1, <2>2, SlotInRange, Measures DEF DrainOne, IInv, TypeOK
  <2>7. Dist(Inc(cursor), tail) = Dist(cursor, tail) - 1
    BY <1>1, <2>3, Measures, DistFromNext
  <2> QED
    BY <2>2, <2>5, <2>6, <2>7 DEF DrainOne
<1> QED
  BY <1>1, Invariance, PTL DEF Spec, DrainGoesOn
=============================================================================
