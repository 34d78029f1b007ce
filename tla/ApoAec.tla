------------------------------- MODULE ApoAec -------------------------------
(***************************************************************************)
(* An echo-cancelling APO: the APO object of ApoInstance with auxiliary    *)
(* inputs (src/aec/mod.rs and the aec_ bodies of src/raw/dispatch.rs).     *)
(*                                                                         *)
(* The auxiliary calls share the lifecycle cell, the cached formats and    *)
(* the user's object with the others and keep no state of their own: which *)
(* inputs exist is known to the engine and to the user only.               *)
(***************************************************************************)
EXTENDS ApoInstance

CONSTANTS
  AuxIds,     \* ids the engine gives to auxiliary inputs
  AuxOverlap  \* pairs of operations, one auxiliary, the engine may overlap

ASSUME AuxFormatsAssumption ==
  None \notin Formats /\ None \notin [id : AuxIds, formats : FormatPairs]

VARIABLES
  aux,        \* per thread: the step its auxiliary call is at
  carried,    \* per thread: the id and formats its auxiliary call carries
  inputs,     \* the user's inputs: the format each id was added with, or None
  announced   \* the engine's: ids whose add was answered S_OK

auxVars == <<aux, carried, inputs, announced>>
aecVars == <<vars, auxVars>>

AuxSteps ==
  [add_aux_input           |-> {"addUser"},
   remove_aux_input        |-> {"removeUser"},
   is_aux_format_supported |-> {"queryUser"},
   accept_aux_input        |-> {"acceptLoad", "acceptCache", "acceptUser"}]

AuxOps == DOMAIN AuxSteps

(* Mutant: the format query takes the user's object as &mut T.             *)
AuxMutBorrowQuery == {"addUser", "removeUser", "queryUser", "acceptUser"}

(* Steps during which a thread holds &mut T, or &T.                        *)
AuxMutBorrow    == {"addUser", "removeUser", "acceptUser"}
AuxSharedBorrow == {"queryUser"}

AuxTypeOK ==
  /\ TypeOK
  /\ aux \in [Threads -> {"idle"} \cup UNION {AuxSteps[o] : o \in AuxOps}]
  /\ carried \in [Threads -> [id : AuxIds, formats : Formats \cup FormatPairs \cup {None}]
                               \cup {None}]
  /\ inputs \in [AuxIds -> Formats \cup {None}]
  /\ announced \subseteq AuxIds

AuxInit ==
  /\ Init
  /\ aux = [t \in Threads |-> "idle"]
  /\ carried = [t \in Threads |-> None]
  /\ inputs = [i \in AuxIds |-> None]
  /\ announced = {}

-----------------------------------------------------------------------------
(* The engine's contract, as in ApoInstance.                               *)
Allowed(t, o) ==
  \A u \in Threads \ {t}, p \in AuxOps : aux[u] \in AuxSteps[p] => {o, p} \in AuxOverlap

MayStartAux(t, o) ==
  /\ pc[t] = "idle" /\ aux[t] = "idle"
  /\ Allowed(t, o)
  /\ \A u \in Threads \ {t}, p \in Ops : pc[u] \in Steps[p] => {o, p} \in AuxOverlap

(* A call of the plain APO object, which starts only where it may.         *)
PlainCall(t) ==
  /\ aux[t] = "idle"
  /\ Call(t)
  /\ pc[t] = "idle" => \A o \in Ops : pc'[t] \in Steps[o] => Allowed(t, o)
  /\ UNCHANGED auxVars

AuxGoto(t, from, to) == aux[t] = from /\ aux' = [aux EXCEPT ![t] = to]

AuxStart(t, o, to, id, formats) ==
  /\ MayStartAux(t, o)
  /\ AuxGoto(t, "idle", to)
  /\ carried' = [carried EXCEPT ![t] = [id |-> id, formats |-> formats]]
  /\ UNCHANGED <<vars, inputs>>

AuxEnd(t, from) ==
  /\ AuxGoto(t, from, "idle")
  /\ carried' = [carried EXCEPT ![t] = None]

AuxReturn(t, from, result) ==
  /\ AuxEnd(t, from)
  /\ hr' = result
  /\ UNCHANGED <<Shared, pc, local, out>>

-----------------------------------------------------------------------------
(* AddAuxiliaryInput: read the descriptor's format, then ask the user.  The *)
(* engine gives each input an id that is not in use.                       *)
RejectAdd(t) ==
  \E fault \in DOMAIN DescriptorFault :
    /\ MayStartAux(t, "add_aux_input")
    /\ hr' = DescriptorFault[fault]
    /\ UNCHANGED <<Shared, pc, local, out, auxVars>>

CallAdd(t) ==
  \E id \in AuxIds \ announced, f \in Formats :
    /\ AuxStart(t, "add_aux_input", "addUser", id, f)
    /\ UNCHANGED announced

AddOk(t) ==
  /\ AuxReturn(t, "addUser", "S_OK")
  /\ inputs' = [inputs EXCEPT ![carried[t].id] = carried[t].formats]
  /\ announced' = announced \cup {carried[t].id}

(* Mutant: the user's error is not passed on.                              *)
AddErrSwallowed(t) ==
  /\ AuxReturn(t, "addUser", "S_OK")
  /\ announced' = announced \cup {carried[t].id}
  /\ UNCHANGED inputs

AddErr(t) ==
  /\ AuxReturn(t, "addUser", "USER_ERROR")
  /\ UNCHANGED <<inputs, announced>>

(* RemoveAuxiliaryInput: straight to the user.                             *)
CallRemove(t) ==
  \E id \in announced :
    /\ AuxStart(t, "remove_aux_input", "removeUser", id, None)
    /\ announced' = announced \ {id}

(* Mutant: the id is not passed on, and the user drops every input.        *)
RemoveUserDropsAll(t) ==
  /\ AuxReturn(t, "removeUser", "S_OK")
  /\ inputs' = [id \in AuxIds |-> None]
  /\ UNCHANGED announced

RemoveUser(t) ==
  /\ AuxReturn(t, "removeUser", "S_OK")
  /\ inputs' = [inputs EXCEPT ![carried[t].id] = None]
  /\ UNCHANGED announced

(* IsInputFormatSupported of the auxiliary inputs.                         *)
CallQuery(t) ==
  /\ MayStartAux(t, "is_aux_format_supported")
  /\ AuxGoto(t, "idle", "queryUser")
  /\ UNCHANGED <<vars, carried, inputs, announced>>

QueryUser(t) ==
  \E result \in {"S_OK", "APOERR_FORMAT_NOT_SUPPORTED"} :
    /\ AuxReturn(t, "queryUser", result)
    /\ UNCHANGED <<inputs, announced>>

-----------------------------------------------------------------------------
(* AcceptInput: copy the locked formats, check that the user can be given  *)
(* f32 slices and hand the buffer over.  Unlike APOProcess it does not     *)
(* look at the cell again.  It has no result; a null or unsigned property  *)
(* ends it with nothing done.                                              *)
CallAccept(t) ==
  \E id \in announced :
    /\ AuxStart(t, "accept_aux_input", "acceptLoad", id, None)
    /\ UNCHANGED announced

AcceptLoad(t) ==
  /\ IF st = "Locked"
     THEN AuxGoto(t, "acceptLoad", "acceptCache") /\ UNCHANGED carried
     ELSE AuxEnd(t, "acceptLoad")
  /\ UNCHANGED <<vars, inputs, announced>>

AcceptWith(t, acceptable) ==
  \E formats \in CacheReads(t) :
    /\ IF formats # None /\ formats.input \in acceptable
       THEN /\ AuxGoto(t, "acceptCache", "acceptUser")
            /\ carried' = [carried EXCEPT ![t].formats = formats]
       ELSE AuxEnd(t, "acceptCache")
    /\ UNCHANGED <<vars, inputs, announced>>

(* Mutant: the sample format is not checked before slicing.                *)
AcceptCacheAnyFormat(t) == AcceptWith(t, Formats)

AcceptCache(t) == AcceptWith(t, Processable)

AcceptUser(t) ==
  /\ AuxEnd(t, "acceptUser")
  /\ UNCHANGED <<vars, inputs, announced>>

-----------------------------------------------------------------------------
AuxCall(t) ==
  \/ RejectAdd(t) \/ CallAdd(t) \/ AddOk(t) \/ AddErr(t)
  \/ CallRemove(t) \/ RemoveUser(t)
  \/ CallQuery(t) \/ QueryUser(t)
  \/ CallAccept(t) \/ AcceptLoad(t) \/ AcceptCache(t) \/ AcceptUser(t)

AecNext == \E t \in Threads : PlainCall(t) \/ AuxCall(t)

AecSpec == AuxInit /\ [][AecNext]_aecVars

(* What the properties need of the engine: calls that hold the user's      *)
(* object are kept apart, an effect being set while a buffer is accepted   *)
(* excepted, and no lock or unlock runs while a buffer is accepted.        *)
AuxContract(overlap) ==
  LET Apart(o, p) == {o, p} \notin overlap
      MutOps == {"add_aux_input", "remove_aux_input"}
      UserOps == {"lock_for_process", "unlock_for_process", "process", "negotiate"}
  IN  /\ \A o \in MutOps, p \in AuxOps \cup UserOps \cup {"set_system_effect_state"} :
           Apart(o, p)
      /\ \A p \in UserOps \cup {"accept_aux_input", "is_aux_format_supported"} :
           Apart("accept_aux_input", p)
      /\ \A p \in (UserOps \ {"negotiate"}) \cup {"set_system_effect_state"} :
           Apart("is_aux_format_supported", p)

-----------------------------------------------------------------------------
(* Properties.                                                             *)

(* The auxiliary calls and the others never hold the user's object at      *)
(* once, one of them mutably, except SetAudioSystemEffectState and         *)
(* AcceptInput.                                                            *)
AuxExclusive ==
  \A t, u \in Threads : t # u =>
    /\ aux[t] \in AuxMutBorrow =>
         /\ aux[u] \notin AuxMutBorrow \cup AuxSharedBorrow
         /\ pc[u] \in MutBorrow \cup SharedBorrow =>
              aux[t] = "acceptUser" /\ pc[u] \in {"fxList", "fxUser"}
    /\ aux[t] \in AuxSharedBorrow => pc[u] \notin MutBorrow

(* An auxiliary buffer reaches the user only while it is locked, sliced by *)
(* the formats it is locked with, although AcceptInput looks at the cell   *)
(* only once.                                                              *)
AuxGeometry ==
  \A t \in Threads : aux[t] = "acceptUser" =>
    st = "Locked" /\ carried[t].formats = user /\ user.input \in Processable

(* add_aux_input is "called before any accept_aux_input for the given id", *)
(* and after remove_aux_input "no further accept_aux_input calls for id    *)
(* will arrive" (aec/mod.rs): the user gets buffers of inputs it has       *)
(* agreed to and no others.                                                *)
AuxBetweenAddAndRemove ==
  \A t \in Threads : aux[t] = "acceptUser" => inputs[carried[t].id] # None

(* With its auxiliary inputs the object implements AecLifecycle: an add    *)
(* takes effect when the user agrees to it, a buffer is handed over        *)
(* between the check of the cached formats and the user's return.          *)
KnownInputs == {id \in AuxIds : inputs[id] # None}

AcceptingOf(steps, carries) ==
  LET running == {t \in Threads : steps[t] = "acceptUser"}
  IN  IF running = {} THEN None ELSE carries[CHOOSE t \in running : TRUE]

AbstractAccepting == AcceptingOf(aux, carried)

EchoLifecycle == INSTANCE AecLifecycle WITH
  phase <- AbstractPhase, formats <- cache, serving <- AbstractServing,
  known <- KnownInputs, accepting <- AbstractAccepting

ImplementsEchoLifecycle == EchoLifecycle!EchoSpec
=============================================================================
