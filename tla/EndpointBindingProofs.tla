------------------------ MODULE EndpointBindingProofs ------------------------
(***************************************************************************)
(* Proofs about EndpointBinding, for any classes, endpoints and paths.     *)
(***************************************************************************)
EXTENDS EndpointBinding, RegistrationProofs, SequenceTheorems

(* A class of ours is bound only where the ledger says so, or where it     *)
(* said so until an S_OK for a key not opened; and the ledger has entries  *)
(* only while the classes are registered: the installer does not           *)
(* unregister before every clear was answered S_OK.                        *)
LedgerTrue ==
  /\ slot \in Slots \cup {None}
  /\ task # "idle" => call = "idle" /\ slot \in Slots
  /\ task \in {"write key", "write value"} => slot \in ledger /\ apo \in Classes
  /\ task = "write value" => KeyOf(slot) \in keys
  /\ \A s \in Slots : fx[ValueOf(s)] \notin {None, Foreign} => s \in ledger \cup unopened
  /\ \A s \in Slots : fx[ValueOf(s)] # None => KeyOf(s) \in keys

RegisteredWhileBound ==
  /\ ledger \subseteq Slots
  /\ ledger # {} => installed
  /\ installed => call # "unregister" /\ \A c \in Classes : HasServer(c)

(* A slot that is taken for bound holds the CLSID it is bound to; while it *)
(* is being cleared it is not taken for bound.                             *)
BoundTrue ==
  /\ bound \in [Slots -> Classes \cup {None}]
  /\ task \in {"clear key", "clear value"} => bound[slot] = None
  /\ \A s \in Slots :
       bound[s] # None => fx[ValueOf(s)] = SerializeClsidProperty(ClassId[bound[s]])

BindingInv ==
  /\ IInv /\ LedgerTrue /\ RegisteredWhileBound
  /\ fx \in [FxValues -> Payloads \cup {Foreign, None}]

-----------------------------------------------------------------------------
(* The engine looks where the framework writes, and no two slots share a   *)
(* value.                                                                  *)
LEMMA ValuesOfSlots ==
  ASSUME NEW s \in Slots
  PROVE  /\ ValueOf(s) = EngineValue(s)
         /\ ValueOf(s) \in FxValues
         /\ \A r \in Slots : ValueOf(r) = ValueOf(s) => r = s
<1>1. /\ s \in [kind : EndpointKinds, endpoint : Endpoints, category : Categories]
      /\ PidForCategory(s.category) \in 0 .. 2
      /\ \A r \in Slots : PidForCategory(r.category) = PidForCategory(s.category)
           => r.category = s.category
  BY SlotsAssumption DEF PidForCategory, Categories
<1>2. (CHOOSE n \in 0 .. 2 : <<"Sfx", "Mfx", "Efx">>[n + 1] = s.category)
        = PidForCategory(s.category)
  <2> DEFINE names == <<"Sfx", "Mfx", "Efx">>
             Matches(n) == names[n + 1] = s.category
  <2>1. \A n \in 0 .. 2 : Matches(n) <=> n = PidForCategory(s.category)
    <3>1. \A n \in 0 .. 2 : n = 0 \/ n = 1 \/ n = 2
      OBVIOUS
    <3>2. names[1] = "Sfx" /\ names[2] = "Mfx" /\ names[3] = "Efx"
      OBVIOUS
    <3>3. s.category \in {"Sfx", "Mfx", "Efx"}
      BY <1>1 DEF Categories
    <3> HIDE DEF names
    <3> QED
      BY <3>1, <3>2, <3>3 DEF PidForCategory
  <2> HIDE DEF Matches
  <2>2. (CHOOSE n \in 0 .. 2 : Matches(n)) = PidForCategory(s.category)
    BY <2>1, <1>1
  <2> QED
    BY <2>2 DEF Matches
<1>3. ValueOf(s) = EngineValue(s)
  BY <1>2 DEF ValueOf, EngineValue, KeyOf, FxPropertiesKeyPath, FxPropertyValueName
<1>4. ValueOf(s) \in FxValues
  BY <1>1 DEF ValueOf, FxValues, KeyOf
<1>5. ASSUME NEW r \in Slots, ValueOf(r) = ValueOf(s) PROVE r = s
  <2>1. r \in [kind : EndpointKinds, endpoint : Endpoints, category : Categories]
    BY SlotsAssumption
  <2>2. r.kind = s.kind /\ r.endpoint = s.endpoint
        /\ PidForCategory(r.category) = PidForCategory(s.category)
    BY <1>5 DEF ValueOf, KeyOf, FxPropertiesKeyPath, FxPropertyValueName
  <2> QED
    BY <2>1, <2>2, <1>1
<1> QED
  BY <1>3, <1>4, <1>5

(* A step of the registration that does not begin to unregister leaves the *)
(* call as it is, or ends it, or begins to register.                       *)
LEMMA NoUnregistering ==
  ASSUME Next, ~CallUnregister, call # "unregister"
  PROVE  call' # "unregister"
BY DEF Next, Move, Crash, CallRegister, ModuleUnknown, CreateClsid, SetName, CreateInproc, SetPath,
       SetThreading, DeleteTree, Return, Then, Writing, NextClass

(* Without a registration, a class of ours is not written anywhere.        *)
LEMMA BindingInitInv == BindingInit => BindingInv
<1> SUFFICES ASSUME BindingInit PROVE BindingInv
  OBVIOUS
<1>1. IInv
  BY InitInvariant DEF BindingInit
<1>2. \A s \in Slots : fx[ValueOf(s)] = None
  BY ValuesOfSlots DEF BindingInit
<1> QED
  BY <1>1, <1>2 DEF BindingInit, BindingInv, LedgerTrue, RegisteredWhileBound, Init

LEMMA BindingStep == BindingInv /\ [BindingNext]_<<vars, fxVars>> => BindingInv'
<1> SUFFICES ASSUME BindingInv, [BindingNext]_<<vars, fxVars>> PROVE BindingInv'
  OBVIOUS
<1>a. IInv /\ LedgerTrue /\ RegisteredWhileBound
      /\ fx \in [FxValues -> Payloads \cup {Foreign, None}] /\ None \notin Slots
  BY SlotsAssumption DEF BindingInv
<1>b. UNCHANGED vars => IInv'
  BY <1>a, StepInvariant
<1>c. UNCHANGED vars => /\ UNCHANGED <<registry, call, result>>
                     /\ \A c \in Classes : HasServer(c)' <=> HasServer(c)
  BY DEF vars, HasServer
<1>1. CASE RegistrationStep
  <2>1. IInv'
    BY <1>1, <1>a, StepInvariant DEF RegistrationStep
  <2>2. LedgerTrue'
    BY <1>1, <1>a DEF RegistrationStep, LedgerTrue
  <2>3. ASSUME installed' PROVE call' # "unregister" /\ \A c \in Classes : HasServer(c)'
    <3>1. CASE result' = "registered"
      <4>1. call' # "unregister"
        BY <2>1, <3>1 DEF IInv, Progress
      <4>2. /\ \A c \in Classes : Written(c)'
            /\ ranIn' \in Places
        BY <2>1, <3>1 DEF IInv, AllDone
      <4>3. dllPath' # None
        BY <4>2, PathsAssumption DEF dllPath, OwnModulePath
      <4> QED
        BY <4>1, <4>2, <4>3 DEF Written, Activates, HasServer
    <3>2. CASE installed /\ call' # "unregister"
      <4>1. call # "unregister" /\ \A c \in Classes : HasServer(c)
        BY <3>2, <1>a DEF RegisteredWhileBound
      <4> QED
        BY <1>1, <1>a, <3>2, <4>1, StepKeepsServer DEF RegistrationStep
    <3> QED
      BY <1>1, <2>3, <3>1, <3>2 DEF RegistrationStep
  <2>4. ledger' # {} => installed'
    <3>1. ledger # {} => call' # "unregister"
      BY <1>1, <1>a, NoUnregistering DEF RegistrationStep, RegisteredWhileBound
    <3> QED
      BY <1>1, <1>a, <3>1 DEF RegistrationStep, RegisteredWhileBound
  <2> QED
    <3>1. UNCHANGED <<fx, ledger>> /\ ledger \subseteq Slots
      BY <1>1, <1>a DEF RegistrationStep, RegisteredWhileBound
    <3>2. RegisteredWhileBound'
      BY <2>3, <2>4, <3>1 DEF RegisteredWhileBound
    <3> QED
      BY <1>a, <2>1, <2>2, <3>1, <3>2 DEF BindingInv
<1>2. CASE ForeignBinds
  <2> PICK s \in Slots :
         /\ fx' = [fx EXCEPT ![EngineValue(s)] = Foreign]
         /\ keys' = keys \cup {KeyOf(s)}
         /\ UNCHANGED <<vars, task, slot, apo, ledger, installed, unopened>>
    BY <1>2 DEF ForeignBinds
  <2>1. /\ fx' \in [FxValues -> Payloads \cup {Foreign, None}]
        /\ fx'[ValueOf(s)] = Foreign
        /\ \A r \in Slots : r # s => fx'[ValueOf(r)] = fx[ValueOf(r)]
    BY <1>a, ValuesOfSlots
  <2> QED
    BY <1>a, <1>b, <1>c, <2>1 DEF BindingInv, LedgerTrue, RegisteredWhileBound
<1>3. CASE CallWrite
  BY <1>3, <1>a, <1>b, <1>c
     DEF CallWrite, InstallerIdle, BindingInv, LedgerTrue, RegisteredWhileBound
<1>4. CASE WriteKey
  BY <1>4, <1>a, <1>b, <1>c
     DEF WriteKey, BindingReturns, BindingInv, LedgerTrue, RegisteredWhileBound
<1>5. CASE WriteValue
  <2>1. slot \in Slots /\ slot \in ledger /\ KeyOf(slot) \in keys
        /\ SerializeClsidProperty(ClassId[apo]) \in Payloads
    BY <1>5, <1>a DEF WriteValue, LedgerTrue, Payloads
  <2>2. \/ UNCHANGED fx
        \/ fx' = [fx EXCEPT ![ValueOf(slot)] = SerializeClsidProperty(ClassId[apo])]
    BY <1>5 DEF WriteValue
  <2>3. /\ fx' \in [FxValues -> Payloads \cup {Foreign, None}]
        /\ \A s \in Slots : s # slot => fx'[ValueOf(s)] = fx[ValueOf(s)]
    BY <1>a, <2>1, <2>2, ValuesOfSlots
  <2> QED
    BY <1>5, <1>a, <1>b, <1>c, <2>1, <2>3
       DEF WriteValue, BindingReturns, BindingInv, LedgerTrue, RegisteredWhileBound
<1>6. CASE CallClear
  BY <1>6, <1>a, <1>b, <1>c
     DEF CallClear, InstallerIdle, BindingInv, LedgerTrue, RegisteredWhileBound
<1>7. CASE ClearKey
  <2>1. slot \in Slots /\ UNCHANGED <<vars, fx, installed>>
    BY <1>7, <1>a DEF ClearKey, LedgerTrue
  <2>2. CASE /\ keys' = keys \cup {KeyOf(slot)} /\ task' = "clear value"
             /\ UNCHANGED <<slot, apo, ledger, unopened>>
    <3>1. /\ task' = "clear value" /\ UNCHANGED <<slot, apo, ledger, unopened>>
          /\ task = "clear key"
          /\ \A k \in keys : k \in keys'
      BY <1>7, <2>2 DEF ClearKey
    <3> QED
      BY <2>1, <3>1, <1>a, <1>b, <1>c DEF BindingInv, LedgerTrue, RegisteredWhileBound
  <2>3. CASE UNCHANGED keys /\ Cleared /\ unopened' = unopened \cup {slot}
    BY <2>1, <2>3, <1>a, <1>b, <1>c
       DEF Cleared, BindingReturns, BindingInv, LedgerTrue, RegisteredWhileBound
  <2>4. CASE UNCHANGED <<keys, ledger, unopened>> /\ BindingReturns
    BY <2>1, <2>4, <1>a, <1>b, <1>c
       DEF BindingReturns, BindingInv, LedgerTrue, RegisteredWhileBound
  <2> QED
    BY <1>7, <2>2, <2>3, <2>4 DEF ClearKey
<1>8. CASE ClearValue
  <2>1. slot \in Slots /\ UNCHANGED <<vars, keys, installed, unopened>>
    BY <1>8, <1>a DEF ClearValue, LedgerTrue
  <2>2. CASE fx' = [fx EXCEPT ![ValueOf(slot)] = None] /\ Cleared
    <3>1. /\ fx' \in [FxValues -> Payloads \cup {Foreign, None}]
          /\ fx'[ValueOf(slot)] = None
          /\ \A s \in Slots : s # slot => fx'[ValueOf(s)] = fx[ValueOf(s)]
      BY <1>a, <2>1, <2>2, ValuesOfSlots
    <3> QED
      BY <2>1, <2>2, <3>1, <1>a, <1>b, <1>c
         DEF Cleared, BindingReturns, BindingInv, LedgerTrue, RegisteredWhileBound
  <2>3. CASE UNCHANGED <<fx, ledger>> /\ BindingReturns
    BY <2>1, <2>3, <1>a, <1>b, <1>c
       DEF BindingReturns, BindingInv, LedgerTrue, RegisteredWhileBound
  <2> QED
    BY <1>8, <2>2, <2>3 DEF ClearValue
<1>9. CASE BindingCrash
  BY <1>9, <1>a, <1>b, <1>c
     DEF BindingCrash, BindingReturns, BindingInv, LedgerTrue, RegisteredWhileBound
<1>10. CASE UNCHANGED <<vars, fxVars>>
  BY <1>10, <1>a, <1>b, <1>c DEF fxVars, BindingInv, LedgerTrue, RegisteredWhileBound
<1> QED
  BY <1>1, <1>2, <1>3, <1>4, <1>5, <1>6, <1>7, <1>8, <1>9, <1>10 DEF BindingNext

-----------------------------------------------------------------------------
(* The ledger is true of the registry throughout.                          *)
THEOREM BindingInvariance == BindingSpec => []BindingInv
BY BindingInitInv, BindingStep, PTL DEF BindingSpec

(* No endpoint is left bound to a class of the DLL that cannot be          *)
(* activated, unless its path was cut or the slot was cleared without its  *)
(* key being opened: for any number of classes, endpoints and slots, and   *)
(* whatever fails or is killed in write_endpoint_binding,                  *)
(* clear_endpoint_binding, DllRegisterServer and DllUnregisterServer.      *)
THEOREM NothingDangles == BindingSpec => []NoDangling
<1>1. BindingInv => NoDangling
  <2> SUFFICES ASSUME BindingInv, NEW s \in Slots, NEW c \in Classes, EngineActivates(s, c),
                      s \notin unopened
               PROVE  Activatable(c) \/ Activates(c, Cut)
    BY DEF NoDangling
  <2>1. s \in ledger
    BY ValuesOfSlots DEF BindingInv, LedgerTrue, EngineActivates
  <2>2. HasServer(c)
    BY <2>1 DEF BindingInv, RegisteredWhileBound
  <2> QED
    BY <2>2, PathNamesDll DEF BindingInv, IInv, HasServer
<1> QED
  BY <1>1, BindingInvariance, PTL

(* Every variable of the binding calls keeps its type.                     *)
LEMMA BindingTypesStep ==
  BindingInv /\ BindingTypeOK /\ [BindingNext]_<<vars, fxVars>> => BindingTypeOK'
<1> SUFFICES ASSUME BindingInv, BindingTypeOK, [BindingNext]_<<vars, fxVars>>
             PROVE  BindingTypeOK'
  OBVIOUS
<1>1. TypeOK' /\ fx' \in [FxValues -> Payloads \cup {Foreign, None}]
  BY BindingStep DEF BindingInv, IInv
<1>2. \A s \in Slots : KeyOf(s) \in {KeyOf(r) : r \in Slots}
  OBVIOUS
<1> USE DEF BindingTypeOK
<1>3. CASE RegistrationStep
  BY <1>1, <1>3 DEF RegistrationStep
<1>4. CASE ForeignBinds
  BY <1>1, <1>2, <1>4 DEF ForeignBinds
<1>5. CASE CallWrite \/ WriteKey \/ WriteValue
  BY <1>1, <1>2, <1>5
     DEF CallWrite, WriteKey, WriteValue, BindingReturns, BindingInv, LedgerTrue
<1>6. CASE CallClear \/ ClearKey \/ ClearValue
  BY <1>1, <1>2, <1>6
     DEF CallClear, ClearKey, ClearValue, Cleared, BindingReturns, BindingInv, LedgerTrue
<1>7. CASE BindingCrash \/ UNCHANGED <<vars, fxVars>>
  BY <1>1, <1>7 DEF BindingCrash, BindingReturns, fxVars
<1> QED
  BY <1>3, <1>4, <1>5, <1>6, <1>7 DEF BindingNext

(* The types of the whole composition.                                     *)
THEOREM BindingTyped == BindingSpec => []BindingTypeOK
<1>1. BindingInit => BindingTypeOK
  <2> SUFFICES ASSUME BindingInit PROVE BindingTypeOK
    OBVIOUS
  <2>1. TypeOK
    BY InitInvariant DEF BindingInit, IInv
  <2> QED
    BY <2>1 DEF BindingInit, BindingTypeOK
<1> QED
  BY <1>1, BindingTypesStep, BindingInvariance, PTL DEF BindingSpec

-----------------------------------------------------------------------------
(* The bytes of a property.                                                *)

(* Division.                                                               *)
LEMMA QuotientAndRest ==
  ASSUME NEW c \in Nat \ {0}, NEW v \in Nat
  PROVE  /\ v \div c \in Nat
         /\ v % c \in 0 .. c - 1
         /\ v = (v % c) + c * (v \div c)
OBVIOUS

(* A product of less than c times c has a quotient by c below c.           *)
LEMMA QuotientBelow ==
  ASSUME NEW c \in Nat \ {0}, NEW v \in 0 .. c * c - 1
  PROVE  v \div c \in 0 .. c - 1
<1> DEFINE q == v \div c
<1>1. c * c \in Nat /\ v \in Nat /\ v < c * c
  OBVIOUS
<1>2. q \in Nat /\ v % c \in 0 .. c - 1 /\ v = (v % c) + c * q
  BY <1>1, QuotientAndRest
<1> HIDE DEF q
<1>3. ASSUME q >= c PROVE FALSE
  <2>1. c * q = c * c + c * (q - c)
    BY <1>2
  <2>2. c * (q - c) >= 0
    BY <1>2, <1>3
  <2> QED
    BY <1>1, <1>2, <2>1, <2>2
<1> QED
  BY <1>2, <1>3 DEF q

(* What a cell of a serialized property holds.                             *)
Cells == {"VT_CLSID"} \cup (0 .. Byte - 1)

(* One byte string after another.                                          *)
LEMMA Joined ==
  ASSUME NEW s \in Seq(Cells), NEW t \in Seq(Cells)
  PROVE  /\ s \o t \in Seq(Cells)
         /\ Len(s \o t) = Len(s) + Len(t)
         /\ \A i \in 1 .. Len(s) + Len(t) :
              (s \o t)[i] = IF i <= Len(s) THEN s[i] ELSE t[i - Len(s)]
BY ConcatProperties, Zenon

(* The two bytes of a number of two.                                       *)
LEMMA WordBytes ==
  ASSUME NEW v \in 0 .. Word - 1
  PROVE  /\ LeBytes16(v) \in Seq(Cells)
         /\ Len(LeBytes16(v)) = 2
         /\ LeBytes16(v)[1] + Byte * LeBytes16(v)[2] = v
<1>1. Byte \in Nat \ {0} /\ v \in Nat /\ v \in 0 .. Byte * Byte - 1
  BY IdsAssumption DEF Word
<1>2. v % Byte \in 0 .. Byte - 1 /\ v = (v % Byte) + Byte * (v \div Byte)
  BY <1>1, QuotientAndRest
<1>3. v \div Byte \in 0 .. Byte - 1
  BY <1>1, QuotientBelow
<1>4. v % Byte \in Cells /\ v \div Byte \in Cells
  BY <1>2, <1>3 DEF Cells
<1> QED
  BY <1>2, <1>4 DEF LeBytes16

(* The four bytes of a number of four.                                     *)
LEMMA LongBytes ==
  ASSUME NEW v \in 0 .. Word * Word - 1
  PROVE  /\ LeBytes32(v) \in Seq(Cells)
         /\ Len(LeBytes32(v)) = 4
         /\ (LeBytes32(v)[1] + Byte * LeBytes32(v)[2])
              + Word * (LeBytes32(v)[3] + Byte * LeBytes32(v)[4]) = v
<1> DEFINE low == v % Word
           high == v \div Word
<1>1. Word \in Nat \ {0} /\ v \in Nat
  BY IdsAssumption DEF Word
<1>2. low \in 0 .. Word - 1 /\ v = low + Word * high
  BY <1>1, QuotientAndRest
<1>3. high \in 0 .. Word - 1
  BY <1>1, QuotientBelow
<1> HIDE DEF low, high
<1>4. /\ LeBytes16(low) \in Seq(Cells) /\ Len(LeBytes16(low)) = 2
      /\ LeBytes16(high) \in Seq(Cells) /\ Len(LeBytes16(high)) = 2
      /\ LeBytes16(low)[1] + Byte * LeBytes16(low)[2] = low
      /\ LeBytes16(high)[1] + Byte * LeBytes16(high)[2] = high
  BY <1>2, <1>3, WordBytes
<1> DEFINE both == LeBytes16(low) \o LeBytes16(high)
<1>5. /\ both \in Seq(Cells) /\ Len(both) = 4
      /\ both[1] = LeBytes16(low)[1] /\ both[2] = LeBytes16(low)[2]
      /\ both[3] = LeBytes16(high)[1] /\ both[4] = LeBytes16(high)[2]
  <2> DEFINE one == LeBytes16(low)
             two == LeBytes16(high)
  <2>1. /\ both \in Seq(Cells) /\ Len(both) = Len(one) + Len(two)
        /\ \A i \in 1 .. Len(one) + Len(two) :
             both[i] = IF i <= Len(one) THEN one[i] ELSE two[i - Len(one)]
    BY <1>4, Joined, Zenon
  <2> QED
    BY <1>4, <2>1
<1>6. LeBytes32(v) = both
  BY DEF LeBytes32, low, high
<1> HIDE DEF both
<1> QED
  BY <1>2, <1>4, <1>5, <1>6
(* Reading back the 24 bytes of a property gives the CLSID they were       *)
(* written from.                                                           *)
THEOREM ClsidSurvives ==
  ASSUME NEW id \in Clsids
  PROVE  ReadGuid(SerializeClsidProperty(id)) = id
<1> DEFINE tag == <<"VT_CLSID", 0, 0, 0>>
           pad == <<0, 0, 0, 0>>
           one == LeBytes32(id.data1)
           two == LeBytes16(id.data2)
           three == LeBytes16(id.data3)
           h0 == tag \o pad
           h1 == h0 \o one
           h2 == h1 \o two
           h3 == h2 \o three
           all == h3 \o id.data4
<1>1. /\ id.data1 \in 0 .. Word * Word - 1 /\ id.data2 \in 0 .. Word - 1
      /\ id.data3 \in 0 .. Word - 1 /\ id.data4 \in [1 .. 8 -> 0 .. Byte - 1]
      /\ id = [data1 |-> id.data1, data2 |-> id.data2, data3 |-> id.data3, data4 |-> id.data4]
  <2> HIDE DEF Word
  <2> QED
    BY DEF Clsids
<1>2. /\ one \in Seq(Cells) /\ Len(one) = 4
      /\ (one[1] + Byte * one[2]) + Word * (one[3] + Byte * one[4]) = id.data1
  BY <1>1, LongBytes
<1>3. /\ two \in Seq(Cells) /\ Len(two) = 2 /\ two[1] + Byte * two[2] = id.data2
      /\ three \in Seq(Cells) /\ Len(three) = 2 /\ three[1] + Byte * three[2] = id.data3
  BY <1>1, WordBytes
<1>4. id.data4 \in Seq(Cells) /\ Len(id.data4) = 8
  <2>1. id.data4 \in [1 .. 8 -> Cells]
    BY <1>1 DEF Cells
  <2>2. id.data4 \in Seq(Cells)
    BY <2>1, SeqDef
  <2>3. Len(id.data4) = 8
    BY <2>1
  <2> QED
    BY <2>2, <2>3
<1>5. tag \in Seq(Cells) /\ Len(tag) = 4 /\ pad \in Seq(Cells) /\ Len(pad) = 4
  <2>1. 0 \in Cells /\ "VT_CLSID" \in Cells
    BY IdsAssumption DEF Cells
  <2>2. tag \in Seq(Cells)
    BY <2>1
  <2>3. pad \in Seq(Cells)
    BY <2>1
  <2>4. Len(tag) = 4 /\ Len(pad) = 4
    OBVIOUS
  <2> QED
    BY <2>2, <2>3, <2>4
<1>6. SerializeClsidProperty(id) = all
  BY DEF SerializeClsidProperty
<1> HIDE DEF tag, pad, one, two, three
<1>7. h0 \in Seq(Cells) /\ Len(h0) = 8
  <2>1. h0 \in Seq(Cells) /\ Len(h0) = Len(tag) + Len(pad)
    BY <1>5, Joined, Zenon
  <2> QED
    BY <1>5, <2>1
<1> HIDE DEF h0
<1>8. /\ h1 \in Seq(Cells) /\ Len(h1) = 12
      /\ \A i \in 1 .. 12 : h1[i] = IF i <= 8 THEN h0[i] ELSE one[i - 8]
  <2>1. /\ h1 \in Seq(Cells) /\ Len(h1) = Len(h0) + Len(one)
        /\ \A i \in 1 .. Len(h0) + Len(one) :
             h1[i] = IF i <= Len(h0) THEN h0[i] ELSE one[i - Len(h0)]
    BY <1>2, <1>7, Joined, Zenon
  <2> HIDE DEF h1
  <2> QED
    BY <1>2, <1>7, <2>1
<1> HIDE DEF h1
<1>9. /\ h2 \in Seq(Cells) /\ Len(h2) = 14
      /\ \A i \in 1 .. 14 : h2[i] = IF i <= 12 THEN h1[i] ELSE two[i - 12]
  <2>1. /\ h2 \in Seq(Cells) /\ Len(h2) = Len(h1) + Len(two)
        /\ \A i \in 1 .. Len(h1) + Len(two) :
             h2[i] = IF i <= Len(h1) THEN h1[i] ELSE two[i - Len(h1)]
    BY <1>3, <1>8, Joined, Zenon
  <2> HIDE DEF h2
  <2> QED
    BY <1>3, <1>8, <2>1
<1> HIDE DEF h2
<1>10. /\ h3 \in Seq(Cells) /\ Len(h3) = 16
      /\ \A i \in 1 .. 16 : h3[i] = IF i <= 14 THEN h2[i] ELSE three[i - 14]
  <2>1. /\ h3 \in Seq(Cells) /\ Len(h3) = Len(h2) + Len(three)
        /\ \A i \in 1 .. Len(h2) + Len(three) :
             h3[i] = IF i <= Len(h2) THEN h2[i] ELSE three[i - Len(h2)]
    BY <1>3, <1>9, Joined, Zenon
  <2> HIDE DEF h3
  <2> QED
    BY <1>3, <1>9, <2>1
<1> HIDE DEF h3
<1>11. /\ all \in Seq(Cells) /\ Len(all) = 24
      /\ \A i \in 1 .. 24 : all[i] = IF i <= 16 THEN h3[i] ELSE id.data4[i - 16]
  <2>1. /\ all \in Seq(Cells) /\ Len(all) = Len(h3) + Len(id.data4)
        /\ \A i \in 1 .. Len(h3) + Len(id.data4) :
             all[i] = IF i <= Len(h3) THEN h3[i] ELSE id.data4[i - Len(h3)]
    BY <1>4, <1>10, Joined, Zenon
  <2> HIDE DEF all
  <2> QED
    BY <1>4, <1>10, <2>1
<1> HIDE DEF all
<1>12. /\ all[9] = one[1] /\ all[10] = one[2] /\ all[11] = one[3] /\ all[12] = one[4]
       /\ all[13] = two[1] /\ all[14] = two[2] /\ all[15] = three[1] /\ all[16] = three[2]
  BY <1>8, <1>9, <1>10, <1>11
<1>13. /\ ReadWord(all, 9) + Word * ReadWord(all, 11) = id.data1
       /\ ReadWord(all, 13) = id.data2 /\ ReadWord(all, 15) = id.data3
  BY <1>2, <1>3, <1>12 DEF ReadWord
<1>14. [i \in 1 .. 8 |-> all[16 + i]] = id.data4
  <2>1. ASSUME NEW i \in 1 .. 8 PROVE all[16 + i] = id.data4[i]
    <3>1. 16 + i \in 1 .. 24 /\ ~(16 + i <= 16) /\ (16 + i) - 16 = i
      OBVIOUS
    <3> QED
      BY <1>11, <3>1, Zenon
  <2> QED
    BY <1>1, <2>1
<1> QED
  BY <1>1, <1>6, <1>13, <1>14 DEF ReadGuid
-----------------------------------------------------------------------------
(* A step that binds or clears one slot leaves what the others hold.       *)
LEMMA BoundStep ==
  ASSUME BindingInv, BoundTrue, [BindingNext]_<<vars, fxVars>>
  PROVE  BoundTrue'
<1>a. /\ fx \in [FxValues -> Payloads \cup {Foreign, None}] /\ None \notin Slots \cup Classes
      /\ slot \in Slots \cup {None}
      /\ task # "idle" => slot \in Slots
      /\ task \in {"write key", "write value"} => apo \in Classes
  BY SlotsAssumption DEF BindingInv, LedgerTrue
<1>1. CASE RegistrationStep \/ UNCHANGED <<vars, fxVars>>
  BY <1>1 DEF RegistrationStep, fxVars, BoundTrue
<1>2. CASE ForeignBinds
  <2> PICK s \in Slots :
         /\ fx' = [fx EXCEPT ![EngineValue(s)] = Foreign]
         /\ bound' = [bound EXCEPT ![s] = None]
         /\ UNCHANGED <<task, slot>>
    BY <1>2 DEF ForeignBinds
  <2>1. \A r \in Slots : r # s => fx'[ValueOf(r)] = fx[ValueOf(r)]
    BY <1>a, ValuesOfSlots
  <2>2. /\ bound' \in [Slots -> Classes \cup {None}] /\ bound'[s] = None
        /\ \A r \in Slots : r # s => bound'[r] = bound[r]
    BY DEF BoundTrue
  <2>3. task' \in {"clear key", "clear value"} => bound'[slot'] = None
    BY <1>a, <2>2 DEF BoundTrue
  <2> QED
    BY <2>1, <2>2, <2>3 DEF BoundTrue
<1>3. CASE CallWrite \/ WriteKey \/ BindingCrash
  BY <1>3 DEF CallWrite, WriteKey, BindingCrash, BindingReturns, BoundTrue
<1>4. CASE WriteValue
  <2>1. slot \in Slots /\ apo \in Classes /\ task' = "idle"
    BY <1>4, <1>a DEF WriteValue, BindingReturns
  <2>2. CASE UNCHANGED <<fx, bound>>
    BY <2>1, <2>2 DEF BoundTrue
  <2>3. CASE /\ fx' = [fx EXCEPT ![ValueOf(slot)] = SerializeClsidProperty(ClassId[apo])]
             /\ bound' = [bound EXCEPT ![slot] = apo]
    <3>1. /\ fx'[ValueOf(slot)] = SerializeClsidProperty(ClassId[apo])
          /\ \A r \in Slots : r # slot => fx'[ValueOf(r)] = fx[ValueOf(r)]
      BY <1>a, <2>1, <2>3, ValuesOfSlots
    <3>2. /\ bound' \in [Slots -> Classes \cup {None}] /\ bound'[slot] = apo
          /\ \A r \in Slots : r # slot => bound'[r] = bound[r]
      BY <2>1, <2>3 DEF BoundTrue
    <3> QED
      BY <2>1, <3>1, <3>2 DEF BoundTrue
  <2> QED
    BY <1>4, <2>2, <2>3 DEF WriteValue
<1>5. CASE CallClear
  <2>1. /\ slot' \in Slots /\ bound' = [bound EXCEPT ![slot'] = None] /\ UNCHANGED fx
    BY <1>5 DEF CallClear, BindingInv, RegisteredWhileBound
  <2>2. /\ bound' \in [Slots -> Classes \cup {None}] /\ bound'[slot'] = None
        /\ \A r \in Slots : r # slot' => bound'[r] = bound[r]
    BY <2>1 DEF BoundTrue
  <2> QED
    BY <2>1, <2>2 DEF BoundTrue
<1>6. CASE ClearKey
  <2>1. UNCHANGED <<fx, bound>> /\ (task' = "idle" \/ (task' = "clear value" /\ slot' = slot))
    BY <1>6 DEF ClearKey, Cleared, BindingReturns
  <2> QED
    BY <1>6, <2>1 DEF ClearKey, BoundTrue
<1>7. CASE ClearValue
  <2>1. slot \in Slots /\ UNCHANGED bound /\ task' = "idle" /\ bound[slot] = None
    BY <1>7, <1>a DEF ClearValue, Cleared, BindingReturns, BoundTrue
  <2>2. UNCHANGED fx \/ fx' = [fx EXCEPT ![ValueOf(slot)] = None]
    BY <1>7 DEF ClearValue
  <2>3. \A r \in Slots : r # slot => fx'[ValueOf(r)] = fx[ValueOf(r)]
    BY <1>a, <2>1, <2>2, ValuesOfSlots
  <2> QED
    BY <2>1, <2>3 DEF BoundTrue
<1> QED
  BY <1>1, <1>2, <1>3, <1>4, <1>5, <1>6, <1>7 DEF BindingNext

(* What write_endpoint_binding bound with S_OK is what the engine reads:   *)
(* from the slot it was bound to, with the CLSID it was bound to, through  *)
(* all that is bound, cleared, registered or killed elsewhere since.       *)
THEOREM BoundIsRead == BindingSpec => []BindingStands
<1>1. BindingInit => BoundTrue
  BY DEF BindingInit, BoundTrue
<1>2. BindingInv /\ BoundTrue /\ [BindingNext]_<<vars, fxVars>> => BoundTrue'
  BY BoundStep
<1>3. BindingInv /\ BoundTrue => BindingStands
  <2> SUFFICES ASSUME BoundTrue, NEW s \in Slots, bound[s] # None
               PROVE  EngineActivates(s, bound[s])
    BY DEF BindingStands
  <2>1. bound[s] \in Classes /\ ClassId[bound[s]] \in Clsids
    BY IdsAssumption DEF BoundTrue
  <2>2. fx[EngineValue(s)] = SerializeClsidProperty(ClassId[bound[s]])
    BY ValuesOfSlots DEF BoundTrue
  <2>3. fx[EngineValue(s)] \notin {None, Foreign}
    BY <2>1, <2>2, PayloadsAssumption DEF Payloads
  <2> QED
    BY <2>1, <2>2, <2>3, ClsidSurvives DEF EngineActivates
<1> QED
  BY <1>1, <1>2, <1>3, BindingInvariance, PTL DEF BindingSpec

-----------------------------------------------------------------------------
(* Binding does not interfere with registering: seen from the registry's   *)
(* classes, every step is one of Registration or none.                     *)
THEOREM BindingRegisters == BindingSpec => Spec
<1>1. BindingInit => Init
  BY DEF BindingInit
<1>2. [BindingNext]_<<vars, fxVars>> => [Next]_vars
  BY DEF BindingNext, RegistrationStep, ForeignBinds, CallWrite, WriteKey, WriteValue, CallClear,
         ClearKey, ClearValue, BindingCrash
<1> QED
  BY <1>1, <1>2, PTL DEF BindingSpec, Spec

(* So what is true of S_OK of a registration stays true while its classes  *)
(* are bound,                                                              *)
THEOREM BoundAnswersTrue == BindingSpec => []AnswerTrue
BY BindingRegisters, AnswersTrue, PTL

(* the classes it is done with are registered with the path it was given,  *)
THEOREM BoundEarlierDone == BindingSpec => []EarlierClassesDone
BY BindingRegisters, EarlierDone, PTL

(* and a working class stays one, but for a path that is cut.              *)
THEOREM BoundStays == BindingSpec => StaysActivatable
BY BindingRegisters, WorkingStays, PTL
=============================================================================
