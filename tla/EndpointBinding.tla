--------------------------- MODULE EndpointBinding ---------------------------
(***************************************************************************)
(* Binding registered classes to endpoints (src/fx_properties.rs): a value *)
(* of the endpoint's FxProperties key names, per category of effect, the   *)
(* CLSID the audio engine activates.  write_endpoint_binding and           *)
(* clear_endpoint_binding are composed with the registration of the        *)
(* classes; each is two calls into the registry that may fail.             *)
(*                                                                         *)
(* The installer that makes these calls is not part of the crate.  It      *)
(* keeps a ledger of the bindings it asked for, binds only what            *)
(* DllRegisterServer registered with S_OK, and unregisters only when every *)
(* binding of the ledger was cleared with S_OK: what it does with the      *)
(* answers is what makes their truth matter.                               *)
(***************************************************************************)
EXTENDS Registration, Sequences

CONSTANTS
  Endpoints,  \* endpoint GUIDs
  Slots,      \* the slots of endpoints the installer may bind
  Byte,       \* a byte is an element of 0..Byte-1
  ClassId,    \* the CLSID of each class
  Foreign     \* a binding to a class of another vendor

Categories == {"Sfx", "Mfx", "Efx"}
EndpointKinds == {"Capture", "Render"}

(* The fields of a CLSID: a number of four bytes, two of two, and bytes.   *)
Word == Byte * Byte
Clsids ==
  [data1 : 0 .. Word * Word - 1, data2 : 0 .. Word - 1, data3 : 0 .. Word - 1,
   data4 : [1 .. 8 -> 0 .. Byte - 1]]

ASSUME SlotsAssumption ==
  /\ Slots \subseteq [kind : EndpointKinds, endpoint : Endpoints, category : Categories]
  /\ None \notin Slots \cup Classes
ASSUME IdsAssumption ==
  /\ Byte \in Nat \ {0}
  /\ ClassId \in [Classes -> Clsids]
  /\ \A c, d \in Classes : ClassId[c] = ClassId[d] => c = d

-----------------------------------------------------------------------------
(* Where a binding is: the key of the endpoint, and the value's name.      *)
FxPropertiesKeyPath(kind, endpoint) == <<kind, endpoint>>
FxPropertyValueName(fmtid, pid) == <<fmtid, pid>>

(* Mutant: the endpoint effect goes where the mode effect is.              *)
PidForCategoryShared(category) ==
  CASE category = "Sfx" -> 0 [] category = "Mfx" -> 1 [] category = "Efx" -> 1

PidForCategory(category) ==
  CASE category = "Sfx" -> 0 [] category = "Mfx" -> 1 [] category = "Efx" -> 2

KeyOf(s) == FxPropertiesKeyPath(s.kind, s.endpoint)
ValueOf(s) == <<KeyOf(s), FxPropertyValueName("FMTID_FX", PidForCategory(s.category))>>

(* What the audio engine looks a category up by: PKEY_FX_PreMixCLSID,      *)
(* PKEY_FX_PostMixCLSID and PKEY_FX_EndpointCLSID of the endpoint.         *)
EngineValue(s) ==
  <<<<s.kind, s.endpoint>>,
    <<"FMTID_FX", CHOOSE n \in 0 .. 2 : <<"Sfx", "Mfx", "Efx">>[n + 1] = s.category>>>>

(* The values there can be.                                                *)
FxValues ==
  {<<FxPropertiesKeyPath(s.kind, s.endpoint), FxPropertyValueName("FMTID_FX", n)>> :
     s \in Slots, n \in 0 .. 2}

(* to_le_bytes: the bytes of a u16 and of a u32, the lowest first.         *)
LeBytes16(v) == <<v % Byte, v \div Byte>>
LeBytes32(v) == LeBytes16(v % Word) \o LeBytes16(v \div Word)

(* The 24 bytes of a VT_CLSID property; its type is the first word.        *)
SerializeClsidProperty(id) ==
  <<"VT_CLSID", 0, 0, 0>> \o <<0, 0, 0, 0>>
    \o LeBytes32(id.data1) \o LeBytes16(id.data2) \o LeBytes16(id.data3) \o id.data4

(* The engine reads the bytes 8 to 23 as a GUID.                           *)
ReadWord(payload, n) == payload[n] + Byte * payload[n + 1]
ReadGuid(payload) ==
  [data1 |-> ReadWord(payload, 9) + Word * ReadWord(payload, 11),
   data2 |-> ReadWord(payload, 13),
   data3 |-> ReadWord(payload, 15),
   data4 |-> [i \in 1 .. 8 |-> payload[16 + i]]]

Payloads == {SerializeClsidProperty(ClassId[c]) : c \in Classes}

(* A CLSID of another vendor is none of ours.                              *)
ASSUME PayloadsAssumption == Payloads \cap {Foreign, None} = {}

-----------------------------------------------------------------------------
VARIABLES
  keys,       \* the FxProperties keys that exist
  fx,         \* their values, None where there is none
  task,       \* the binding call in flight, "idle" when there is none
  slot, apo,  \* its slot, and the class a write binds
  ledger,     \* the installer's: slots it asked to bind and has not cleared
  installed,  \* the installer's: S_OK from registering, and not unregistered
  bound,      \* the class an S_OK said a slot is bound to, until that changes
  unopened    \* slots whose S_OK for clearing stood for a key not opened

fxVars == <<keys, fx, task, slot, apo, ledger, installed, bound, unopened>>

BindingTypeOK ==
  /\ TypeOK
  /\ keys \subseteq {KeyOf(s) : s \in Slots}
  /\ fx \in [FxValues -> Payloads \cup {Foreign, None}]
  /\ task \in {"idle", "write key", "write value", "clear key", "clear value"}
  /\ slot \in Slots \cup {None} /\ apo \in Classes \cup {None}
  /\ ledger \subseteq Slots /\ unopened \subseteq Slots /\ installed \in BOOLEAN
  /\ bound \in [Slots -> Classes \cup {None}]

BindingInit ==
  /\ Init
  /\ keys \in {{}, {KeyOf(s) : s \in Slots}}
  /\ fx = [v \in FxValues |-> None]
  /\ task = "idle" /\ slot = None /\ apo = None
  /\ ledger = {} /\ unopened = {} /\ installed = FALSE
  /\ bound = [s \in Slots |-> None]

(* Nothing is in flight.                                                   *)
InstallerIdle == call = "idle" /\ task = "idle"

(* A step of the registration, which the installer serialises with the     *)
(* binding calls.                                                          *)
RegistrationStep ==
  /\ task = "idle"
  /\ Next
  /\ CallUnregister => ledger = {}
  /\ installed' = (result' = "registered" \/ (installed /\ call' # "unregister"))
  /\ UNCHANGED <<keys, fx, task, slot, apo, ledger, bound, unopened>>

(* Another vendor binds a class of its own.                                *)
ForeignBinds ==
  \E s \in Slots :
    /\ fx[EngineValue(s)] # Foreign
    /\ keys' = keys \cup {KeyOf(s)}
    /\ fx' = [fx EXCEPT ![EngineValue(s)] = Foreign]
    /\ bound' = [bound EXCEPT ![s] = None]
    /\ UNCHANGED <<vars, task, slot, apo, ledger, installed, unopened>>

BindingReturns == task' = "idle" /\ slot' = None /\ apo' = None

-----------------------------------------------------------------------------
(* write_endpoint_binding.                                                 *)

CallWrite ==
  /\ InstallerIdle /\ installed
  /\ task' = "write key"
  /\ slot' \in Slots /\ apo' \in Classes
  /\ ledger' = ledger \cup {slot'} /\ unopened' = unopened \ {slot'}
  /\ UNCHANGED <<vars, keys, fx, installed, bound>>

(* RegCreateKeyExW opens the key or creates it.                            *)
WriteKey ==
  /\ task = "write key"
  /\ \/ keys' = keys \cup {KeyOf(slot)} /\ task' = "write value" /\ UNCHANGED <<slot, apo>>
     \/ UNCHANGED keys /\ BindingReturns
  /\ UNCHANGED <<vars, fx, ledger, installed, bound, unopened>>

WriteValue ==
  /\ task = "write value"
  /\ \/ /\ fx' = [fx EXCEPT ![ValueOf(slot)] = SerializeClsidProperty(ClassId[apo])]
        /\ bound' = [bound EXCEPT ![slot] = apo]
     \/ UNCHANGED <<fx, bound>>
  /\ BindingReturns
  /\ UNCHANGED <<vars, keys, ledger, installed, unopened>>

-----------------------------------------------------------------------------
(* clear_endpoint_binding.                                                 *)

CallClear ==
  /\ InstallerIdle
  /\ task' = "clear key" /\ slot' \in ledger
  /\ bound' = [bound EXCEPT ![slot'] = None]
  /\ UNCHANGED <<vars, keys, fx, apo, ledger, installed, unopened>>

(* What the installer makes of S_OK.                                       *)
Cleared == BindingReturns /\ ledger' = ledger \ {slot}

(* The key is opened the same way, so clearing creates one where there is  *)
(* none.  E_INVALIDARG is taken for an endpoint without the key, whether   *)
(* there is one or not: S_OK, with nothing opened.                         *)
ClearKey ==
  /\ task = "clear key"
  /\ \/ keys' = keys \cup {KeyOf(slot)} /\ task' = "clear value"
        /\ UNCHANGED <<slot, apo, ledger, unopened>>
     \/ UNCHANGED keys /\ Cleared /\ unopened' = unopened \cup {slot}
     \/ UNCHANGED <<keys, ledger, unopened>> /\ BindingReturns
  /\ UNCHANGED <<vars, fx, installed, bound>>

(* Mutant: whatever RegDeleteValueW answers, the value is taken for gone.  *)
ClearValueAssumed ==
  /\ task = "clear value"
  /\ fx' = [fx EXCEPT ![ValueOf(slot)] = None] \/ UNCHANGED fx
  /\ Cleared
  /\ UNCHANGED <<vars, keys, installed, bound, unopened>>

(* RegDeleteValueW; ERROR_FILE_NOT_FOUND counts as deleted.                *)
ClearValue ==
  /\ task = "clear value"
  /\ \/ fx' = [fx EXCEPT ![ValueOf(slot)] = None] /\ Cleared
     \/ UNCHANGED <<fx, ledger>> /\ BindingReturns
  /\ UNCHANGED <<vars, keys, installed, bound, unopened>>

(* The installer is killed in a binding call; the ledger and the registry  *)
(* stay.                                                                   *)
BindingCrash ==
  /\ task # "idle"
  /\ BindingReturns
  /\ UNCHANGED <<vars, keys, fx, ledger, installed, bound, unopened>>

BindingNext ==
  \/ RegistrationStep \/ ForeignBinds
  \/ CallWrite \/ WriteKey \/ WriteValue
  \/ CallClear \/ ClearKey \/ ClearValue
  \/ BindingCrash

BindingSpec == BindingInit /\ [][BindingNext]_<<vars, fxVars>>

-----------------------------------------------------------------------------
(* Properties.                                                             *)

(* The engine finds this class bound to the slot.                          *)
EngineActivates(s, c) ==
  /\ fx[EngineValue(s)] \notin {None, Foreign}
  /\ ReadGuid(fx[EngineValue(s)]) = ClassId[c]

(* An endpoint bound to a class of the DLL that cannot be activated has no *)
(* audio.  Through failures and kills at any point, an installer that goes *)
(* by the S_OK of the four calls leaves none, but for two of them that are *)
(* not true: that of a registration which wrote a path that was cut, and   *)
(* that of a clear_endpoint_binding which did not open the key             *)
(* (E_INVALIDARG, fx_properties.rs).                                       *)
NoDangling ==
  \A s \in Slots, c \in Classes :
    EngineActivates(s, c) => Activatable(c) \/ Activates(c, Cut) \/ s \in unopened

(* What write_endpoint_binding bound with S_OK is what the engine reads,   *)
(* from that slot and with that CLSID, whatever is bound and cleared       *)
(* elsewhere since.                                                        *)
BindingStands ==
  \A s \in Slots : bound[s] # None => EngineActivates(s, bound[s])
=============================================================================
