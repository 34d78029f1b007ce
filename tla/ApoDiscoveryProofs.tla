-------------------------- MODULE ApoDiscoveryProofs --------------------------
(***************************************************************************)
(* Proofs about ApoDiscovery, for any sizes, lists and texts.              *)
(***************************************************************************)
EXTENDS ApoDiscovery, SequenceTheorems, TLAPS

(* The texts of a structure.                                               *)
Texts == <<EncodeWideZ(apo.name), EncodeWideZ(apo.copyright)>>

(* The call in flight works on the list it began with, which is a list the *)
(* user had since, or the interfaces of the carrier, and on memory of the  *)
(* size for it.                                                            *)
CallHolds ==
  /\ call = "idle" => block = None
  /\ call # "idle" => want = SizeFor(call, Len(list)) /\ want \in Nat
  /\ call = "properties" => list = Interfaces(apo.kind)
  /\ call \in {"effects", "controllable"} => list \in seen

(* What a block holds of a list so far.                                    *)
Holds(b, c, l) ==
  /\ Len(entries[b]) <= Len(l)
  /\ \A i \in 1 .. Len(entries[b]) : entries[b][i] = Entry(c, l[i])

BlockFilled ==
  block # None =>
    /\ use[block] = call /\ bytes[block] = want /\ told[block] = None
    /\ Holds(block, call, list)
    /\ texts[block] = IF call = "properties" THEN Texts ELSE None

(* A block that is not being filled is the engine's, or free.              *)
OthersTold ==
  \A b \in Blocks :
    /\ use[b] = None => told[b] = None /\ entries[b] = <<>>
    /\ use[b] # None /\ b # block => told[b] = Len(entries[b])
    /\ use[b] = "properties" /\ told[b] # None =>
         entries[b] = Interfaces(apo.kind) /\ texts[b] = Texts

Inv == TypeOK /\ CallHolds /\ BlockFilled /\ OthersTold /\ BlocksSound

-----------------------------------------------------------------------------
(* Lemmas about sizes.                                                     *)

LEMMA ProductGrows ==
  ASSUME NEW m \in Nat, NEW n \in Nat, NEW e \in Nat, m <= n
  PROVE  m * e <= n * e /\ m * e \in Nat
BY Z3

(* total_size and the products of the lists: a size that is not None has   *)
(* room for every entry.                                                   *)
LEMMA SizeHasRoom ==
  ASSUME NEW c \in Calls, NEW n \in Nat, c = "properties" => n # 0,
         NEW size, size = SizeFor(c, n), size # None, NEW k \in Nat, k <= n
  PROVE  /\ size \in 0 .. Word - 1
         /\ First(c) + k * EntrySize(c) <= size
         /\ c = "properties" => BaseSize <= size
<1>a. /\ Word \in Nat /\ BaseSize \in Nat /\ EffectSize \in Nat /\ GuidSize \in Nat
      /\ GuidSize <= BaseSize
  BY SizesAssumption
<1>1. CASE c = "properties"
  <2>1. size = BaseSize + (n - 1) * GuidSize /\ size < Word
    BY <1>1 DEF SizeFor, TotalSize, Checked
  <2>2. k * GuidSize <= n * GuidSize /\ k * GuidSize \in Nat
    BY <1>a, ProductGrows
  <2>3. (n - 1) * GuidSize = n * GuidSize - GuidSize /\ (n - 1) * GuidSize \in Nat
    <3>1. n - 1 \in Nat
      BY <1>1
    <3> QED
      BY <1>a, <3>1, ProductGrows, Z3
  <2>4. n * GuidSize \in Nat
    BY <1>a, ProductGrows
  <2> QED
    BY <1>1, <1>a, <2>1, <2>2, <2>3, <2>4 DEF First, EntrySize
<1>2. CASE c # "properties"
  <2>1. EntrySize(c) \in Nat
    BY <1>a DEF EntrySize
  <2>2. size = n * EntrySize(c) /\ size < Word
    BY <1>2 DEF SizeFor, ListSize, Checked
  <2>3. k * EntrySize(c) <= n * EntrySize(c) /\ k * EntrySize(c) \in Nat /\ n * EntrySize(c) \in Nat
    BY <2>1, ProductGrows
  <2> QED
    BY <1>2, <1>a, <2>1, <2>2, <2>3 DEF First
<1> QED
  BY <1>1, <1>2

(* encode_wide_z: the field ends, and reads as what fits of the text, in   *)
(* whole characters unless it is cut in a pair.                            *)
LEMMA EncodedReads ==
  ASSUME NEW s \in Names
  PROVE  /\ ReadsAs(EncodeWideZ(s), s) /\ EncodeWideZ(s) \in Fields
         /\ CutInPair(s) \/ WholeCharacters(EncodeWideZ(s))
<1>a. s \in Seq(TextUnits) /\ Units \in Nat \ {0} /\ Len(s) \in Nat
  BY NamesAssumption, SizesAssumption
<1> DEFINE f == EncodeWideZ(s)
<1>1. \A i \in 1 .. Units : f[i] = IF i <= Len(s) /\ i < Units THEN s[i] ELSE "NUL"
  BY DEF EncodeWideZ
<1>2. f \in Fields
  BY <1>a DEF EncodeWideZ, Fields, TextUnits
<1> HIDE DEF f
<1>3. f[Units] = "NUL"
  BY <1>1, <1>a
<1>4. ASSUME NEW n \in 0 .. Units - 1, TextEnds(f, n)
      PROVE  /\ n <= Len(s) /\ \A i \in 1 .. n : f[i] = s[i]
             /\ n = Len(s) \/ n = Units - 1 \/ s[n + 1] = "NUL"
  <2>1. f[n + 1] = "NUL" /\ \A i \in 1 .. n : f[i] # "NUL"
    BY <1>4 DEF TextEnds
  <2>2. \A i \in 1 .. n : i <= Len(s) /\ f[i] = s[i]
    BY <1>1, <1>a, <2>1
  <2>3. n <= Len(s)
    BY <1>a, <2>2
  <2>4. n < Len(s) /\ n # Units - 1 => s[n + 1] = f[n + 1]
    BY <1>1, <1>a
  <2> QED
    BY <1>a, <2>1, <2>2, <2>3, <2>4
<1>5. ASSUME ~CutInPair(s), NEW n \in 1 .. Units - 1, TextEnds(f, n)
      PROVE  f[n] # "high"
  <2>1. /\ n <= Len(s) /\ f[n] = s[n]
        /\ n = Len(s) \/ n = Units - 1 \/ s[n + 1] = "NUL"
    BY <1>4, <1>5, <1>a
  <2>2. s[n] = "high" => n < Len(s) /\ s[n + 1] = "low"
    BY <2>1, <1>a, NamesAssumption DEF Paired
  <2>3. n = Units - 1 /\ n < Len(s) => s[n] # "high"
    BY <1>5, <1>a DEF CutInPair
  <2> QED
    BY <2>1, <2>2, <2>3
<1>6. CutInPair(s) \/ WholeCharacters(f)
  BY <1>5 DEF WholeCharacters
<1> QED
  BY <1>2, <1>3, <1>4, <1>6, <1>a DEF ReadsAs, f

(* Against the comment on encode_wide_z ("we never write the high half     *)
(* without the matching low half"): of every text that is cut in a pair    *)
(* the field holds the high half, and a zero in the place of the low one.  *)
THEOREM PairIsSplit ==
  ASSUME NEW s \in Names, CutInPair(s)
  PROVE  /\ s[Units - 1] = "high" /\ s[Units] = "low"
         /\ EncodeWideZ(s)[Units - 1] = "high" /\ EncodeWideZ(s)[Units] = "NUL"
<1>1. s \in Seq(TextUnits) /\ Units \in Nat \ {0} /\ Units > 1 /\ Len(s) >= Units
      /\ s[Units - 1] = "high"
  BY NamesAssumption, SizesAssumption DEF CutInPair
<1>2. Units - 1 \in 1 .. Len(s) /\ Units - 1 \in 1 .. Units /\ Units \in 1 .. Units
      /\ (Units - 1) + 1 = Units
  BY <1>1
<1>3. s[Units] = "low"
  BY <1>1, <1>2, NamesAssumption DEF Paired
<1> QED
  BY <1>1, <1>2, <1>3 DEF EncodeWideZ

(* The two lists of interfaces name what the carriers answer to.           *)
LEMMA PlainTrue ==
  /\ SupportedInterfaces \in Seq(AecQueries) /\ Len(SupportedInterfaces) = 6
  /\ {SupportedInterfaces[i] : i \in 1 .. 6} = PlainQueries
<1> DEFINE l == SupportedInterfaces
<1>1. /\ Len(l) = 6
      /\ l[1] = "IAudioProcessingObject" /\ l[2] = "IAudioProcessingObjectConfiguration"
      /\ l[3] = "IAudioProcessingObjectRT" /\ l[4] = "IAudioSystemEffects"
      /\ l[5] = "IAudioSystemEffects2" /\ l[6] = "IAudioSystemEffects3"
  BY DEF SupportedInterfaces
<1>2. SupportedInterfaces \in Seq(AecQueries)
  BY DEF SupportedInterfaces, AecQueries, PlainQueries
<1> HIDE DEF l
<1>3. 1 .. 6 = {1, 2, 3, 4, 5, 6}
  OBVIOUS
<1>4. {l[i] : i \in 1 .. 6} = {l[1], l[2], l[3], l[4], l[5], l[6]}
  BY <1>3
<1>5. {l[i] : i \in 1 .. 6} = PlainQueries
  BY <1>1, <1>4 DEF PlainQueries
<1> QED
  BY <1>1, <1>2, <1>5 DEF l

LEMMA AecTrue ==
  /\ AecSupportedInterfaces \in Seq(AecQueries) /\ Len(AecSupportedInterfaces) = 9
  /\ {AecSupportedInterfaces[i] : i \in 1 .. 9} = AecQueries
<1> DEFINE l == AecSupportedInterfaces
           more == <<"IApoAcousticEchoCancellation", "IApoAuxiliaryInputConfiguration",
                     "IApoAuxiliaryInputRT">>
<1>1. more \in Seq(AecQueries) /\ Len(more) = 3
      /\ more[1] = "IApoAcousticEchoCancellation"
      /\ more[2] = "IApoAuxiliaryInputConfiguration" /\ more[3] = "IApoAuxiliaryInputRT"
  BY DEF AecQueries
<1>2. l = SupportedInterfaces \o more
  BY DEF AecSupportedInterfaces
<1> HIDE DEF l, more
<1>3. /\ l \in Seq(AecQueries) /\ Len(l) = 9
      /\ \A i \in 1 .. 6 : l[i] = SupportedInterfaces[i]
      /\ l[7] = more[1] /\ l[8] = more[2] /\ l[9] = more[3]
  <2> DEFINE s == SupportedInterfaces
  <2>1. s \in Seq(AecQueries) /\ Len(s) = 6 /\ l = s \o more
    BY <1>2, PlainTrue
  <2> HIDE DEF s
  <2>a. /\ l \in Seq(AecQueries) /\ Len(l) = Len(s) + Len(more)
        /\ \A i \in 1 .. Len(s) + Len(more) :
             l[i] = IF i <= Len(s) THEN s[i] ELSE more[i - Len(s)]
    BY <2>1, <1>1, ConcatProperties, Zenon
  <2>2. l \in Seq(AecQueries) /\ Len(l) = 9
    BY <2>1, <2>a, <1>1
  <2>3. \A i \in 1 .. 9 : l[i] = IF i <= 6 THEN s[i] ELSE more[i - 6]
    <3>1. Len(s) = 6 /\ Len(more) = 3 /\ Len(s) + Len(more) = 9
      BY <2>1, <1>1
    <3>2. \A i \in 1 .. 9 : l[i] = IF i <= Len(s) THEN s[i] ELSE more[i - Len(s)]
      BY <2>a, <3>1, Zenon
    <3> QED
      BY <3>1, <3>2, Zenon
  <2>4. l[7] = more[7 - 6] /\ l[8] = more[8 - 6] /\ l[9] = more[9 - 6]
    BY <2>3
  <2> QED
    BY <2>2, <2>3, <2>4 DEF s
<1>4. 1 .. 9 = 1 .. 6 \cup {7, 8, 9}
  OBVIOUS
<1>5. {l[i] : i \in 1 .. 9} =
        {SupportedInterfaces[i] : i \in 1 .. 6} \cup {more[1], more[2], more[3]}
  <2>1. {l[i] : i \in 1 .. 9} = {l[i] : i \in 1 .. 6} \cup {l[7], l[8], l[9]}
    BY <1>4
  <2>2. {l[i] : i \in 1 .. 6} = {SupportedInterfaces[i] : i \in 1 .. 6}
    BY <1>3
  <2> QED
    BY <1>3, <2>1, <2>2
<1>6. {l[i] : i \in 1 .. 9} = AecQueries
  BY <1>1, <1>5, PlainTrue DEF AecQueries
<1> QED
  BY <1>3, <1>6 DEF l

LEMMA InterfacesTrue ==
  ASSUME NEW kind \in Kinds
  PROVE  /\ Interfaces(kind) \in Seq(AecQueries)
         /\ Len(Interfaces(kind)) \in Nat \ {0}
         /\ {Interfaces(kind)[i] : i \in 1 .. Len(Interfaces(kind))} =
              IF kind = "plain" THEN PlainQueries ELSE AecQueries
<1>1. CASE kind = "plain"
  <2>1. Interfaces(kind) = SupportedInterfaces /\ Len(Interfaces(kind)) = 6
    BY <1>1, PlainTrue DEF Interfaces
  <2>2. {Interfaces(kind)[i] : i \in 1 .. Len(Interfaces(kind))} = PlainQueries
    BY <2>1, PlainTrue, Zenon
  <2> QED
    BY <1>1, <2>1, <2>2, PlainTrue
<1>2. CASE kind # "plain"
  <2>1. Interfaces(kind) = AecSupportedInterfaces /\ Len(Interfaces(kind)) = 9
    BY <1>2, AecTrue DEF Interfaces
  <2>2. {Interfaces(kind)[i] : i \in 1 .. Len(Interfaces(kind))} = AecQueries
    BY <2>1, AecTrue, Zenon
  <2> QED
    BY <1>2, <2>1, <2>2, AecTrue
<1> QED
  BY <1>1, <1>2

(* Every element of a list has its entry.                                  *)
LEMMA EntryTyped ==
  ASSUME NEW c \in Calls, NEW e \in ListElements(c)
  PROVE  Entry(c, e) \in EntryElements(c)
<1>1. CASE c = "properties"
  BY <1>1 DEF ListElements, EntryElements, Entry
<1>2. CASE c = "effects"
  BY <1>2 DEF ListElements, EntryElements, Entry, SystemEffects
<1>3. CASE c = "controllable"
  BY <1>3 DEF ListElements, EntryElements, Entry, SystemEffects, AudioSystemEffect
<1> QED
  BY <1>1, <1>2, <1>3 DEF Calls

-----------------------------------------------------------------------------
(* All memory is free at first.                                            *)
LEMMA InitInv == Init => Inv
<1> SUFFICES ASSUME Init PROVE Inv
  OBVIOUS
<1>1. TypeOK
  BY SizesAssumption, NoneAssumption DEF Init, TypeOK
<1> QED
  BY <1>1, NoneAssumption
     DEF Init, Inv, CallHolds, BlockFilled, OthersTold, BlocksSound

(* A call keeps to its list and to its memory.                             *)
LEMMA StepInv == Inv /\ [Next]_vars => Inv'
<1> SUFFICES ASSUME Inv, [Next]_vars PROVE Inv'
  OBVIOUS
<1>a. TypeOK /\ CallHolds /\ BlockFilled /\ OthersTold /\ BlocksSound
  BY DEF Inv
<1>b. /\ apo \in Apos /\ apo.kind \in Kinds /\ apo.name \in Names /\ apo.copyright \in Names
      /\ effects \in Seq(SystemEffects) /\ Len(effects) \in Nat
      /\ None \notin Blocks /\ None \notin Nat /\ None \notin Calls
  BY <1>a, AposAssumption, ListsAssumption, NoneAssumption DEF TypeOK, Calls
<1>c. /\ Len(list) \in Nat /\ list \in Seq(ListElements(call))
      /\ \A b \in Blocks : Len(entries[b]) \in Nat
  BY <1>a DEF TypeOK
<1>d. call = "properties" => Len(list) # 0
  BY <1>a, <1>b, InterfacesTrue DEF CallHolds
<1>1. CASE ChangeEffects
  BY <1>1, <1>a
     DEF ChangeEffects, memory, Inv, TypeOK, CallHolds, BlockFilled, Holds, OthersTold, BlocksSound, Texts
<1>2. ASSUME NEW r \in {"S_OK", "E_POINTER", "E_OUTOFMEMORY"}, Answer(r) PROVE Inv'
  BY <1>2, <1>a
     DEF Answer, memory, Inv, TypeOK, CallHolds, BlockFilled, Holds, OthersTold, BlocksSound, Texts
<1>3. ASSUME NEW c \in Calls, NEW l \in Seq(ListElements(c)), Begin(c, l),
             c = "properties" => l = Interfaces(apo.kind), c # "properties" => l = effects
      PROVE  Inv'
  <2>1. CASE SizeFor(c, Len(l)) = None
    BY <1>2, <1>3, <2>1 DEF Begin
  <2>2. CASE SizeFor(c, Len(l)) # None
    <3>1. /\ call = "idle" /\ call' = c /\ list' = l /\ want' = SizeFor(c, Len(l))
          /\ seen' = IF c = "properties" THEN {} ELSE {effects}
          /\ UNCHANGED <<apo, effects, block, use, bytes, texts, entries, told, hr>>
      BY <1>3, <2>2 DEF Begin, memory
    <3>2. block = None
      BY <3>1, <1>a DEF CallHolds
    <3>3. Len(l) \in Nat /\ (c = "properties" => Len(l) # 0)
      BY <1>3, <1>b, InterfacesTrue
    <3>4. want' \in 0 .. Word - 1
      BY <2>2, <3>1, <3>3, SizeHasRoom
    <3>5. c \in {"effects", "controllable"} <=> c # "properties"
      BY DEF Calls
    <3>6. TypeOK'
      BY <1>3, <1>a, <1>b, <3>1, <3>4, <3>5 DEF TypeOK
    <3>7. CallHolds' /\ BlockFilled'
      BY <1>3, <3>1, <3>2, <3>4, <3>5 DEF CallHolds, BlockFilled, Calls
    <3>8. OthersTold'
      BY <1>a, <3>1, <3>2 DEF OthersTold, Texts
    <3>9. BlocksSound'
      BY <1>a, <1>b, <3>1, <3>2 DEF BlocksSound
    <3> QED
      BY <3>6, <3>7, <3>8, <3>9 DEF Inv
  <2> QED
    BY <2>1, <2>2
<1>4. CASE GetRegistrationProperties
  <2>1. Interfaces(apo.kind) \in Seq(ListElements("properties"))
    BY <1>b, InterfacesTrue DEF ListElements
  <2> QED
    BY <1>3, <1>4, <2>1 DEF GetRegistrationProperties, Calls
<1>5. CASE NullOutPointers \/ GetEmptyList
  BY <1>2, <1>5 DEF NullOutPointers, GetEmptyList
<1>6. CASE GetEffectsList
  BY <1>3, <1>6, <1>b DEF GetEffectsList, ListElements, Calls
<1>7. CASE GetControllableSystemEffectsList
  BY <1>3, <1>7, <1>b DEF GetControllableSystemEffectsList, ListElements, Calls
<1>8. CASE AllocFails
  <2>1. block = None
    BY <1>8 DEF AllocFails, Allocating
  <2> QED
    BY <1>8, <2>1, <1>a, <1>b, SizesAssumption
       DEF AllocFails, Allocating, Return, memory, Inv, TypeOK, CallHolds, BlockFilled,
           OthersTold, BlocksSound, Texts
<1>9. CASE Alloc
  <2> PICK b \in Blocks :
         /\ Allocating /\ use[b] = None
         /\ block' = b
         /\ use' = [use EXCEPT ![b] = call]
         /\ bytes' = [bytes EXCEPT ![b] = want]
         /\ texts' = [texts EXCEPT ![b] = IF call = "properties" THEN Texts ELSE None]
         /\ UNCHANGED <<apo, effects, call, list, want, entries, told, seen, hr>>
    BY <1>9 DEF Alloc, Texts
  <2>1. /\ call # "idle" /\ call \in Calls /\ block = None
        /\ entries[b] = <<>> /\ told[b] = None /\ want = SizeFor(call, Len(list)) /\ want \in Nat
    BY <1>a DEF Allocating, TypeOK, OthersTold, CallHolds
  <2>2. Texts \in Fields \X Fields
    BY <1>b, EncodedReads DEF Texts
  <2>3. First(call) + Len(entries[b]) * EntrySize(call) <= want /\ (call = "properties" => BaseSize <= want)
    BY <2>1, <1>b, <1>c, <1>d, SizeHasRoom
  <2>4. /\ use'[b] = call /\ bytes'[b] = want
        /\ texts'[b] = IF call = "properties" THEN Texts ELSE None
        /\ \A r \in Blocks : r # b => /\ use'[r] = use[r] /\ bytes'[r] = bytes[r]
                                      /\ texts'[r] = texts[r]
    BY <1>a DEF TypeOK
  <2>5. TypeOK'
    BY <1>a, <2>1, <2>2, <2>4 DEF TypeOK
  <2>6. CallHolds' /\ BlockFilled'
    BY <1>a, <2>1, <2>4 DEF CallHolds, BlockFilled, Holds, Texts
  <2>7. OthersTold'
    BY <1>a, <1>b, <2>1, <2>4 DEF OthersTold, Texts
  <2>8. BlocksSound'
    <3>1. ASSUME NEW r \in Blocks, r # b, use'[r] # None
          PROVE  /\ First(use'[r]) + Len(entries'[r]) * EntrySize(use'[r]) <= bytes'[r]
                 /\ texts'[r] # None => BaseSize <= bytes'[r]
                 /\ told'[r] # None
      BY <1>a, <1>b, <2>1, <2>4, <3>1 DEF BlocksSound
    <3>2. /\ First(use'[b]) + Len(entries'[b]) * EntrySize(use'[b]) <= bytes'[b]
          /\ texts'[b] # None => BaseSize <= bytes'[b]
          /\ b = block' /\ call' # "idle"
      BY <2>1, <2>3, <2>4
    <3> QED
      BY <3>1, <3>2 DEF BlocksSound
  <2> QED
    BY <2>5, <2>6, <2>7, <2>8 DEF Inv
<1>10. CASE WriteEntry
  <2> DEFINE done == Len(entries[block])
             e == Entry(call, list[done + 1])
  <2>1. /\ block # None /\ done < Len(list) /\ block \in Blocks /\ done \in Nat
        /\ entries' = [entries EXCEPT ![block] = Append(@, e)]
        /\ UNCHANGED <<apo, effects, call, list, want, block, use, bytes, texts, told, seen, hr>>
    BY <1>10, <1>a, <1>c DEF WriteEntry, TypeOK
  <2>2. /\ use[block] = call /\ bytes[block] = want /\ told[block] = None
        /\ Holds(block, call, list) /\ call # "idle" /\ call \in Calls
        /\ texts[block] = IF call = "properties" THEN Texts ELSE None
        /\ want = SizeFor(call, Len(list)) /\ want \in Nat
    BY <2>1, <1>a DEF BlockFilled, CallHolds, TypeOK
  <2>3. e \in EntryElements(call)
    BY <2>1, <2>2, <1>c, EntryTyped
  <2>4. entries[block] \in Seq(EntryElements(call))
    BY <2>1, <2>2, <1>a DEF TypeOK
  <2> HIDE DEF e
  <2>5. /\ entries'[block] = Append(entries[block], e)
        /\ entries'[block] \in Seq(EntryElements(call)) /\ Len(entries'[block]) = done + 1
        /\ \A i \in 1 .. done : entries'[block][i] = entries[block][i]
        /\ entries'[block][done + 1] = e
        /\ \A r \in Blocks : r # block => entries'[r] = entries[r]
        /\ DOMAIN entries' = Blocks
    BY <2>1, <2>3, <2>4, <1>a DEF TypeOK
  <2>6. First(call) + (done + 1) * EntrySize(call) <= want
    BY <2>1, <2>2, <1>b, <1>c, <1>d, SizeHasRoom
  <2>7. TypeOK'
    <3>1. \A r \in Blocks : entries'[r] \in Seq(EntryElements(use[r]))
      BY <1>a, <2>2, <2>5 DEF TypeOK
    <3> QED
      BY <1>a, <2>1, <2>5, <3>1 DEF TypeOK
  <2>8. CallHolds'
    BY <1>a, <2>1 DEF CallHolds
  <2>9. BlockFilled'
    <3>1. \A i \in 1 .. done + 1 : i \in 1 .. done \/ i = done + 1
      BY <2>1
    <3>2. Holds(block, call, list)'
      BY <2>1, <2>2, <2>5, <3>1, <1>c DEF Holds, e
    <3> QED
      BY <2>1, <2>2, <3>2 DEF BlockFilled, Texts
  <2>10. OthersTold'
    BY <1>a, <1>b, <2>1, <2>2, <2>5 DEF OthersTold, Texts
  <2>11. BlocksSound'
    BY <1>a, <2>1, <2>2, <2>5, <2>6 DEF BlocksSound
  <2> QED
    BY <2>7, <2>8, <2>9, <2>10, <2>11 DEF Inv
<1>11. CASE HandOver
  <2>1. /\ block # None /\ block \in Blocks /\ Len(entries[block]) = Len(list)
        /\ told' = [told EXCEPT ![block] = Len(list)]
        /\ call' = "idle" /\ list' = <<>> /\ want' = 0 /\ block' = None /\ seen' = {}
        /\ hr' = "S_OK" /\ UNCHANGED <<apo, effects, use, bytes, texts, entries>>
    BY <1>11, <1>a DEF HandOver, Return, memory, TypeOK
  <2>2. /\ use[block] = call /\ call # "idle" /\ call \in Calls /\ Holds(block, call, list)
        /\ texts[block] = IF call = "properties" THEN Texts ELSE None
    BY <2>1, <1>a DEF BlockFilled, CallHolds, TypeOK
  <2>3. told'[block] = Len(list) /\ \A r \in Blocks : r # block => told'[r] = told[r]
    BY <2>1, <1>a DEF TypeOK
  <2>4. call = "properties" => entries[block] = Interfaces(apo.kind)
    <3> SUFFICES ASSUME call = "properties" PROVE entries[block] = Interfaces(apo.kind)
      OBVIOUS
    <3>1. entries[block] \in Seq(AecQueries) /\ list \in Seq(AecQueries)
      BY <2>1, <2>2, <1>a DEF TypeOK, EntryElements, ListElements
    <3>2. \A i \in 1 .. Len(list) : entries[block][i] = list[i]
      BY <2>1, <2>2 DEF Holds, Entry
    <3>3. entries[block] = list
      BY <2>1, <3>1, <3>2
    <3> QED
      BY <3>3, <1>a DEF CallHolds
  <2>5. TypeOK'
    BY <1>a, <1>c, <2>1, SizesAssumption DEF TypeOK
  <2>6. CallHolds' /\ BlockFilled'
    BY <2>1 DEF CallHolds, BlockFilled
  <2>7. OthersTold'
    BY <1>a, <1>b, <2>1, <2>2, <2>3, <2>4 DEF OthersTold, Texts
  <2>8. BlocksSound'
    BY <1>a, <1>b, <1>c, <2>1, <2>3 DEF BlocksSound
  <2> QED
    BY <2>5, <2>6, <2>7, <2>8 DEF Inv
<1>12. CASE Free
  <2> PICK b \in Blocks :
         /\ told[b] # None
         /\ use' = [use EXCEPT ![b] = None]
         /\ bytes' = [bytes EXCEPT ![b] = 0]
         /\ texts' = [texts EXCEPT ![b] = None]
         /\ entries' = [entries EXCEPT ![b] = <<>>]
         /\ told' = [told EXCEPT ![b] = None]
         /\ UNCHANGED <<apo, effects, call, list, want, block, seen, hr>>
    BY <1>12 DEF Free
  <2>1. b # block
    BY <1>a, <1>b DEF BlockFilled
  <2>2. /\ use'[b] = None /\ bytes'[b] = 0 /\ texts'[b] = None /\ entries'[b] = <<>>
        /\ told'[b] = None
        /\ \A r \in Blocks : r # b =>
             /\ use'[r] = use[r] /\ bytes'[r] = bytes[r] /\ texts'[r] = texts[r]
             /\ entries'[r] = entries[r] /\ told'[r] = told[r]
    BY <1>a DEF TypeOK
  <2>3. TypeOK'
    <3>1. \A r \in Blocks : entries'[r] \in Seq(EntryElements(use'[r]))
      <4>1. entries'[b] \in Seq(EntryElements(use'[b]))
        BY <2>2, EmptySeq
      <4>2. \A r \in Blocks : r # b => entries'[r] \in Seq(EntryElements(use'[r]))
        BY <1>a, <2>2 DEF TypeOK
      <4> QED
        BY <4>1, <4>2
    <3> QED
      BY <1>a, <3>1, SizesAssumption DEF TypeOK
  <2>4. CallHolds' /\ BlockFilled'
    BY <1>a, <1>b, <2>1, <2>2 DEF CallHolds, BlockFilled, Holds, Texts, TypeOK
  <2>5. OthersTold' /\ BlocksSound'
    BY <1>a, <2>2 DEF OthersTold, BlocksSound, Texts
  <2> QED
    BY <2>3, <2>4, <2>5 DEF Inv
<1>13. CASE UNCHANGED vars
  BY <1>13, <1>a
     DEF vars, memory, Inv, TypeOK, CallHolds, BlockFilled, Holds, OthersTold, BlocksSound, Texts
<1> QED
  BY <1>1, <1>4, <1>5, <1>6, <1>7, <1>8, <1>9, <1>10, <1>11, <1>12, <1>13 DEF Next

-----------------------------------------------------------------------------
(* The invariant holds throughout.                                         *)
THEOREM Invariance == Spec => []Inv
BY InitInv, StepInv, PTL DEF Spec

(* Every variable keeps its type: a block's entries are those of its call. *)
THEOREM TypeCorrect == Spec => []TypeOK
BY Invariance, PTL DEF Inv

(* total_size and the sizes of the two effects lists have room for every   *)
(* entry that is written, and no path of the three calls leaks a block.    *)
THEOREM BlocksAreSound == Spec => []BlocksSound
BY Invariance, PTL DEF Inv

(* GetRegistrationProperties reports the interfaces the carrier answers    *)
(* to, and the longest beginning of each text that fits, in whole          *)
(* characters unless it is cut in a pair.                                  *)
THEOREM PropertiesAreTrue == Spec => []PropertiesTrue
<1>1. Inv => PropertiesTrue
  <2> SUFFICES ASSUME Inv, NEW b \in Blocks, told[b] # None, use[b] = "properties"
               PROVE  /\ {entries[b][i] : i \in 1 .. told[b]} =
                           IF apo.kind = "plain" THEN PlainQueries ELSE AecQueries
                      /\ ReadsAs(texts[b][1], apo.name) /\ ReadsAs(texts[b][2], apo.copyright)
                      /\ CutInPair(apo.name) \/ WholeCharacters(texts[b][1])
                      /\ CutInPair(apo.copyright) \/ WholeCharacters(texts[b][2])
    BY DEF PropertiesTrue
  <2>1. apo.kind \in Kinds /\ apo.name \in Names /\ apo.copyright \in Names
    BY AposAssumption DEF Inv, TypeOK
  <2>2. entries[b] = Interfaces(apo.kind) /\ texts[b] = Texts
    BY DEF Inv, OthersTold
  <2>3. told[b] = Len(entries[b])
    BY NoneAssumption DEF Inv, OthersTold, BlockFilled
  <2>4. texts[b][1] = EncodeWideZ(apo.name) /\ texts[b][2] = EncodeWideZ(apo.copyright)
    BY <2>2 DEF Texts
  <2>5. {entries[b][i] : i \in 1 .. told[b]} =
          IF apo.kind = "plain" THEN PlainQueries ELSE AecQueries
    BY <2>1, <2>2, <2>3, InterfacesTrue
  <2> QED
    BY <2>1, <2>4, <2>5, EncodedReads
<1> QED
  BY <1>1, Invariance, PTL

(* GetEffectsList and GetControllableSystemEffectsList hand over a list    *)
(* the user had at one moment of the call, and all of it.                  *)
THEOREM ListsAreWhole == Spec => ListsWhole
<1> DEFINE Whole(b) ==
      told[b] = None /\ told'[b] # None =>
        /\ told'[b] = Len(entries[b])
        /\ use[b] = "effects" =>
             \E l \in seen : Len(l) = Len(entries[b])
               /\ \A i \in 1 .. Len(l) : entries[b][i] = l[i].id
        /\ use[b] = "controllable" =>
             \E l \in seen : Len(l) = Len(entries[b])
               /\ \A i \in 1 .. Len(l) : Understood(entries[b][i]) = l[i]
<1>1. Inv /\ [Next]_vars => [\A b \in Blocks : Whole(b)]_vars
  <2> SUFFICES ASSUME Inv, Next, NEW b \in Blocks, told[b] = None, told'[b] # None
               PROVE  Whole(b)
    OBVIOUS
  <2>1. HandOver /\ b = block
    BY DEF Inv, TypeOK, Next, ChangeEffects, GetRegistrationProperties, NullOutPointers,
           GetEmptyList, GetEffectsList, GetControllableSystemEffectsList, Begin, Answer,
           AllocFails, Alloc, WriteEntry, HandOver, Free, Return, memory
  <2>2. /\ told'[b] = Len(list) /\ Len(entries[b]) = Len(list)
        /\ use[b] = call /\ Holds(b, call, list)
    BY <2>1, NoneAssumption DEF HandOver, Inv, TypeOK, BlockFilled
  <2>3. CASE call = "effects"
    BY <2>2, <2>3 DEF Inv, CallHolds, Holds, Entry
  <2>4. CASE call = "controllable"
    <3>1. list \in seen /\ list \in Seq(SystemEffects)
      BY <2>4 DEF Inv, CallHolds, TypeOK, ListElements
    <3>2. \A e \in SystemEffects : Understood(AudioSystemEffect(e)) = e
      BY DEF Understood, AudioSystemEffect, SystemEffects
    <3>3. \A i \in 1 .. Len(list) : entries[b][i] = AudioSystemEffect(list[i])
      BY <2>2, <2>4 DEF Holds, Entry
    <3>4. \A i \in 1 .. Len(list) : Understood(entries[b][i]) = list[i]
      BY <3>1, <3>2, <3>3
    <3> QED
      BY <2>2, <2>4, <3>1, <3>4
  <2> QED
    BY <2>2, <2>3, <2>4
<1> QED
  BY <1>1, Invariance, PTL DEF Spec, ListsWhole
=============================================================================
