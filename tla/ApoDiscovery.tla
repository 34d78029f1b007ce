----------------------------- MODULE ApoDiscovery -----------------------------
(***************************************************************************)
(* What the audio engine learns about an APO from its carrier: the         *)
(* registration properties (src/raw/reg_properties.rs and the AEC variant  *)
(* of src/aec/exports.rs) and the two effects lists of                     *)
(* src/raw/dispatch.rs.  Each is built in a block from CoTaskMemAlloc,     *)
(* sized by a checked product, filled entry by entry and handed over to    *)
(* the engine, which frees it.                                             *)
(*                                                                         *)
(* The engine makes one of these calls at a time; the user's list of       *)
(* effects may change while it runs.                                       *)
(***************************************************************************)
EXTENDS Integers, Sequences

CONSTANTS
  Kinds,       \* the carriers there are: "plain", and "aec" with that feature
  EffectIds,   \* ids of effects
  UserLists,   \* the effects lists the user's object may have
  Names,       \* names and copyright strings, sequences of UTF-16 units
  Apos,        \* the users' types: carrier, name, copyright
  Units,       \* the length of szFriendlyName and szCopyrightInfo
  Word,        \* a size is an element of 0..Word-1
  BaseSize,    \* of APO_REG_PROPERTIES, which has room for one IID
  GuidSize,
  EffectSize,  \* of AUDIO_SYSTEMEFFECT
  Blocks,      \* memory of the task allocator
  None

ASSUME SizesAssumption ==
  /\ Word \in Nat /\ BaseSize \in Nat /\ EffectSize \in Nat \ {0}
  /\ GuidSize \in 1 .. BaseSize
  /\ BaseSize < Word
  /\ Units \in Nat \ {0}
ASSUME KindsAssumption == Kinds \subseteq {"plain", "aec"}
ASSUME AposAssumption == Apos \subseteq [kind : Kinds, name : Names, copyright : Names]
ASSUME NoneAssumption == None \notin Blocks \cup Nat \cup {"properties", "effects", "controllable"}

(* A unit other than zero is a character or half of one.  The halves come  *)
(* in pairs: encode_utf16 of a str gives nothing else.                     *)
TextUnits == {"NUL", "char", "high", "low"}
Paired(s) ==
  \A i \in 1 .. Len(s) :
    /\ s[i] = "high" => i < Len(s) /\ s[i + 1] = "low"
    /\ s[i] = "low" => i > 1 /\ s[i - 1] = "high"

SystemEffects == [id : EffectIds, controllable : BOOLEAN, state : {"Off", "On"}]

ASSUME NamesAssumption == \A s \in Names : s \in Seq(TextUnits) /\ Paired(s)
ASSUME ListsAssumption == UserLists \subseteq Seq(SystemEffects)

-----------------------------------------------------------------------------
(* SystemEffect and its builders.                                          *)
NewEffect(id) == [id |-> id, controllable |-> FALSE, state |-> "On"]
WithControllable(e, controllable) == [e EXCEPT !.controllable = controllable]
WithState(e, state) == [e EXCEPT !.state = state]

(* The interfaces of the carriers, in the order of the reported lists.     *)
SupportedInterfaces ==
  <<"IAudioProcessingObject", "IAudioProcessingObjectConfiguration",
    "IAudioProcessingObjectRT", "IAudioSystemEffects", "IAudioSystemEffects2",
    "IAudioSystemEffects3">>

(* Mutant: the list of the plain carrier with one of the three.            *)
AecSupportedInterfacesShort ==
  SupportedInterfaces \o <<"IApoAcousticEchoCancellation">>

AecSupportedInterfaces ==
  SupportedInterfaces \o
  <<"IApoAcousticEchoCancellation", "IApoAuxiliaryInputConfiguration",
    "IApoAuxiliaryInputRT">>

Interfaces(kind) ==
  IF kind = "plain" THEN SupportedInterfaces ELSE AecSupportedInterfaces

(* What QueryInterface of a carrier answers, IUnknown aside: the lists of  *)
(* the implement attributes.                                               *)
PlainQueries ==
  {"IAudioProcessingObject", "IAudioProcessingObjectConfiguration",
   "IAudioProcessingObjectRT", "IAudioSystemEffects", "IAudioSystemEffects2",
   "IAudioSystemEffects3"}
AecQueries ==
  PlainQueries \cup
  {"IApoAcousticEchoCancellation", "IApoAuxiliaryInputConfiguration",
   "IApoAuxiliaryInputRT"}

-----------------------------------------------------------------------------
(* Sizes.  A checked operation that overflows gives None.                  *)
Checked(n) == IF n < Word THEN n ELSE None

(* Mutant: room for one IID is counted twice.                              *)
TotalSizeTwiceOne(n) == Checked(BaseSize + (IF n < 2 THEN 0 ELSE n - 2) * GuidSize)

(* The structure has room for the first IID, whether there is one or not.  *)
TotalSize(n) == Checked(BaseSize + (IF n = 0 THEN 0 ELSE n - 1) * GuidSize)

(* Where the entries of a block begin, and the bytes of each.              *)
Calls == {"properties", "effects", "controllable"}
First(call) == IF call = "properties" THEN BaseSize - GuidSize ELSE 0
EntrySize(call) == IF call = "controllable" THEN EffectSize ELSE GuidSize

(* The size the two lists are allocated with.                              *)
ListSize(call, n) == Checked(n * EntrySize(call))

SizeFor(call, n) == IF call = "properties" THEN TotalSize(n) ELSE ListSize(call, n)

-----------------------------------------------------------------------------
(* Mutant: a text as long as the field leaves no room for the terminator.  *)
EncodeWideFull(s) == [i \in 1 .. Units |-> IF i <= Len(s) THEN s[i] ELSE "NUL"]

(* encode_wide_z: at most Units - 1 units, the rest stay zero.             *)
EncodeWideZ(s) ==
  [i \in 1 .. Units |-> IF i <= Len(s) /\ i < Units THEN s[i] ELSE "NUL"]

(* Mutant: on and off the wrong way round.                                 *)
AudioSystemEffectInverted(e) ==
  [id |-> e.id, canSetState |-> IF e.controllable THEN 1 ELSE 0,
   state |-> IF e.state = "On" THEN 0 ELSE 1]

(* One entry of the controllable list: a BOOL and an enumeration.          *)
AudioSystemEffect(e) ==
  [id |-> e.id, canSetState |-> IF e.controllable THEN 1 ELSE 0,
   state |-> IF e.state = "On" THEN 1 ELSE 0]

(* The entry written for an element of the list a call works on.           *)
Entry(call, e) ==
  CASE call = "properties"   -> e
    [] call = "effects"      -> e.id
    [] call = "controllable" -> AudioSystemEffect(e)

(* What a call reads its entries from, and what it makes of them.          *)
ListElements(call) == IF call = "properties" THEN AecQueries ELSE SystemEffects
EntryElements(call) ==
  CASE call = "properties"   -> AecQueries
    [] call = "effects"      -> EffectIds
    [] call = "controllable" -> [id : EffectIds, canSetState : {0, 1}, state : {0, 1}]
    [] OTHER                 -> {}
Fields == [1 .. Units -> TextUnits]

-----------------------------------------------------------------------------
VARIABLES
  apo,      \* the user's type: its carrier, name and copyright
  effects,  \* the user's current effects list
  call,     \* the call in flight, "idle" between calls
  list,     \* the list it works on
  want,     \* the size it allocates
  block,    \* the block it fills, None until there is one
  use,      \* per block: the call it was allocated by, None when it is free
  bytes,    \* per block: the bytes allocated
  texts,    \* per block: the two texts of the structure, None in a list
  entries,  \* per block: the entries written
  told,     \* the blocks handed over, each with the count the engine was told
  seen,     \* the lists the user had since the call began
  hr        \* the HRESULT of the call that returned last

memory == <<use, bytes, texts, entries>>
vars == <<apo, effects, call, list, want, block, memory, told, seen, hr>>

TypeOK ==
  /\ apo \in Apos
  /\ effects \in UserLists
  /\ call \in Calls \cup {"idle"}
  /\ list \in Seq(ListElements(call))
  /\ want \in 0 .. Word - 1
  /\ block \in Blocks \cup {None}
  /\ use \in [Blocks -> Calls \cup {None}]
  /\ bytes \in [Blocks -> 0 .. Word - 1]
  /\ texts \in [Blocks -> {None} \cup Fields \X Fields]
  /\ DOMAIN entries = Blocks
  /\ \A b \in Blocks : entries[b] \in Seq(EntryElements(use[b]))
  /\ told \in [Blocks -> Nat \cup {None}]
  /\ seen \subseteq UserLists
  /\ hr \in {"S_OK", "E_POINTER", "E_OUTOFMEMORY"}

Init ==
  /\ apo \in Apos
  /\ effects \in UserLists
  /\ call = "idle" /\ list = <<>> /\ want = 0 /\ block = None
  /\ use = [b \in Blocks |-> None]
  /\ bytes = [b \in Blocks |-> 0]
  /\ texts = [b \in Blocks |-> None]
  /\ entries = [b \in Blocks |-> <<>>]
  /\ told = [b \in Blocks |-> None]
  /\ seen = {} /\ hr = "S_OK"

-----------------------------------------------------------------------------
(* The user's object changes its list.                                     *)
ChangeEffects ==
  /\ effects' \in UserLists
  /\ seen' = IF call \in {"idle", "properties"} THEN seen ELSE seen \cup {effects'}
  /\ UNCHANGED <<apo, call, list, want, block, memory, told, hr>>

(* A call that ends at once.                                               *)
Answer(result) ==
  /\ call = "idle"
  /\ hr' = result
  /\ UNCHANGED <<apo, effects, call, list, want, block, memory, told, seen>>

(* A call that has its list and the size for it.                           *)
Begin(c, l) ==
  LET size == SizeFor(c, Len(l))
  IN  IF size = None
      THEN Answer("E_OUTOFMEMORY")
      ELSE /\ call = "idle"
           /\ call' = c /\ list' = l /\ want' = size
           /\ seen' = IF c = "properties" THEN {} ELSE {effects}
           /\ UNCHANGED <<apo, effects, block, memory, told, hr>>

Return(result) ==
  /\ call' = "idle" /\ list' = <<>> /\ want' = 0 /\ block' = None
  /\ seen' = {} /\ hr' = result
  /\ UNCHANGED <<apo, effects>>

(* Mutant: the call goes by way of the plain carrier.                      *)
GetRegistrationPropertiesPlain == Begin("properties", Interfaces("plain"))

(* GetRegistrationProperties, of either carrier.                           *)
GetRegistrationProperties == Begin("properties", Interfaces(apo.kind))

(* GetEffectsList and GetControllableSystemEffectsList check the out       *)
(* pointers, copy the user's list and answer an empty one with no block.   *)
NullOutPointers == Answer("E_POINTER")

GetEmptyList == Len(effects) = 0 /\ Answer("S_OK")

GetEffectsList == Len(effects) # 0 /\ Begin("effects", effects)

GetControllableSystemEffectsList == Len(effects) # 0 /\ Begin("controllable", effects)

(* CoTaskMemAlloc, and for the structure everything but its IID list.      *)
Allocating == call # "idle" /\ block = None

AllocFails == Allocating /\ Return("E_OUTOFMEMORY") /\ UNCHANGED <<memory, told>>

Alloc ==
  \E b \in Blocks :
    /\ Allocating /\ use[b] = None
    /\ block' = b
    /\ use' = [use EXCEPT ![b] = call]
    /\ bytes' = [bytes EXCEPT ![b] = want]
    /\ texts' =
         [texts EXCEPT ![b] =
            IF call = "properties"
            THEN <<EncodeWideZ(apo.name), EncodeWideZ(apo.copyright)>> ELSE None]
    /\ UNCHANGED <<apo, effects, call, list, want, entries, told, seen, hr>>

(* Mutant: the user's list is read again for every entry.                  *)
WriteEntryLive ==
  LET done == Len(entries[block])
      l == IF call = "properties" THEN list ELSE effects
  IN  /\ block # None /\ done < Len(list) /\ done < Len(l)
      /\ entries' = [entries EXCEPT ![block] = Append(@, Entry(call, l[done + 1]))]
      /\ UNCHANGED <<apo, effects, call, list, want, block, use, bytes, texts, told, seen, hr>>

WriteEntry ==
  LET done == Len(entries[block])
  IN  /\ block # None /\ done < Len(list)
      /\ entries' = [entries EXCEPT ![block] = Append(@, Entry(call, list[done + 1]))]
      /\ UNCHANGED <<apo, effects, call, list, want, block, use, bytes, texts, told, seen, hr>>

(* The block and the count go to the engine.                               *)
HandOver ==
  /\ block # None /\ Len(entries[block]) = Len(list)
  /\ told' = [told EXCEPT ![block] = Len(list)]
  /\ Return("S_OK")
  /\ UNCHANGED memory

(* CoTaskMemFree.                                                          *)
Free ==
  \E b \in Blocks :
    /\ told[b] # None
    /\ use' = [use EXCEPT ![b] = None]
    /\ bytes' = [bytes EXCEPT ![b] = 0]
    /\ texts' = [texts EXCEPT ![b] = None]
    /\ entries' = [entries EXCEPT ![b] = <<>>]
    /\ told' = [told EXCEPT ![b] = None]
    /\ UNCHANGED <<apo, effects, call, list, want, block, seen, hr>>

Next ==
  \/ ChangeEffects
  \/ GetRegistrationProperties
  \/ NullOutPointers \/ GetEmptyList
  \/ GetEffectsList \/ GetControllableSystemEffectsList
  \/ AllocFails \/ Alloc \/ WriteEntry \/ HandOver
  \/ Free

Spec == Init /\ [][Next]_vars

-----------------------------------------------------------------------------
(* Properties.                                                             *)

(* What was written of a block lies within what was allocated, however the *)
(* structure's own IID slot counts, and between calls every block belongs  *)
(* to the engine: "all field stores stay within the allocation"            *)
(* (reg_properties.rs), and no error path leaves one behind.               *)
BlocksSound ==
  /\ \A b \in Blocks : use[b] # None =>
       /\ First(use[b]) + Len(entries[b]) * EntrySize(use[b]) <= bytes[b]
       /\ texts[b] # None => BaseSize <= bytes[b]
  /\ \A b \in Blocks : use[b] # None => (told[b] # None \/ (b = block /\ call # "idle"))

(* What the engine makes of an entry of a list.                            *)
Understood(entry) ==
  [id |-> entry.id, controllable |-> entry.canSetState # 0,
   state |-> IF entry.state = 1 THEN "On" ELSE "Off"]

(* A list handed over is whole, and one that the user had at one moment of *)
(* the call: entries of two lists are never mixed, whatever the user does  *)
(* to its effects in the meantime.                                         *)
ListsWhole ==
  [][\A b \in Blocks : told[b] = None /\ told'[b] # None =>
       /\ told'[b] = Len(entries[b])
       /\ use[b] = "effects" =>
            \E l \in seen : Len(l) = Len(entries[b])
              /\ \A i \in 1 .. Len(l) : entries[b][i] = l[i].id
       /\ use[b] = "controllable" =>
            \E l \in seen : Len(l) = Len(entries[b])
              /\ \A i \in 1 .. Len(l) : Understood(entries[b][i]) = l[i]]_vars

(* The text of a field ends at the first zero unit.                        *)
TextEnds(field, n) == field[n + 1] = "NUL" /\ \A i \in 1 .. n : field[i] # "NUL"

(* A field holds the longest beginning of a text that fits.                *)
ReadsAs(field, s) ==
  /\ \E n \in 1 .. Units : field[n] = "NUL"
  /\ \A n \in 0 .. Units - 1 : TextEnds(field, n) =>
       /\ n <= Len(s) /\ \A i \in 1 .. n : field[i] = s[i]
       /\ n = Len(s) \/ n = Units - 1 \/ s[n + 1] = "NUL"

(* The last unit there is room for is the first half of a pair.            *)
CutInPair(s) == Units > 1 /\ Len(s) >= Units /\ s[Units - 1] = "high"

(* The text does not end in half a character.                              *)
WholeCharacters(field) ==
  \A n \in 1 .. Units - 1 : TextEnds(field, n) => field[n] # "high"

(* The registration properties are true of the carrier they are asked of:  *)
(* their interfaces are those it can be queried for, no more and no fewer, *)
(* and their texts end within their fields, are the longest beginning of   *)
(* the user's that fits, and consist of whole characters.                  *)
(*                                                                         *)
(* Not so where the text is cut in a pair: the high half stays, although   *)
(* "we never write the high half without the matching low half" (the       *)
(* comment on encode_wide_z).  And the plain carrier has the six           *)
(* interfaces of SUPPORTED_INTERFACES, not "the same three interfaces" of  *)
(* the head of reg_properties.rs, "three SISO IIDs" in architecture.md.    *)
PropertiesTrue ==
  \A b \in Blocks : told[b] # None /\ use[b] = "properties" =>
    /\ {entries[b][i] : i \in 1 .. told[b]} =
         IF apo.kind = "plain" THEN PlainQueries ELSE AecQueries
    /\ ReadsAs(texts[b][1], apo.name)
    /\ ReadsAs(texts[b][2], apo.copyright)
    /\ CutInPair(apo.name) \/ WholeCharacters(texts[b][1])
    /\ CutInPair(apo.copyright) \/ WholeCharacters(texts[b][2])
=============================================================================
