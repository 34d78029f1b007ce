---------------------------- MODULE ApoInstance ----------------------------
(***************************************************************************)
(* One APO object: the lifecycle cell, the user's ProcessingObject behind  *)
(* an UnsafeCell and the cached pair of negotiated formats, with the COM   *)
(* bodies that drive them (src/instance.rs, src/realtime/state.rs and      *)
(* src/raw/dispatch.rs).                                                   *)
(*                                                                         *)
(* Every thread of the audio engine may make every call; a call is split   *)
(* into the steps between which another thread can run.  The engine        *)
(* promises not to overlap some calls: MayOverlap is the set of pairs of   *)
(* operations it does overlap ({o} stands for two calls of o).  It         *)
(* promises nothing about the order of the calls.                          *)
(***************************************************************************)

CONSTANTS
  Threads,         \* the engine's threads, control and realtime
  Formats,         \* the formats a descriptor can carry
  Processable,     \* those with channels, float samples and 32 bits
  LockRequests,    \* argument tuples of LockForProcess
  Connections,     \* argument tuples of APOProcess
  EffectIds,       \* effect ids the engine may name
  Advertised,      \* ids in the user's system_effects() list
  Controllable,    \* those of them listed with controllable: true
  MayOverlap,      \* pairs of operations the engine may overlap
  None             \* Option::None

FormatPairs == [input : Formats, output : Formats]

(* What is wrong with a connection descriptor, and the error it gets.      *)
DescriptorFault ==
  [null         |-> "E_POINTER",
   badSignature |-> "APOERR_INVALID_INPUT_DATA",
   noFormat     |-> "APOERR_FORMAT_NOT_SUPPORTED"]

(* The checks of LockForProcess on its arguments, in the code's order.     *)
LockRequestVerdict(r) ==
  IF r.nIn # 1 \/ r.nOut # 1 THEN "APOERR_NUM_CONNECTIONS_INVALID"
  ELSE IF ~r.arrays THEN "E_POINTER"
  ELSE IF r.input \in DOMAIN DescriptorFault THEN DescriptorFault[r.input]
  ELSE IF r.output \in DOMAIN DescriptorFault THEN DescriptorFault[r.output]
  ELSE "S_OK"

(* APOProcess goes on only when all of these hold of its arguments.        *)
ConnectionsAccepted(c) ==
  /\ c.nIn = 1 /\ c.nOut = 1
  /\ c.inArray /\ c.outArray
  /\ c.inProp /\ c.outProp
  /\ c.inSignature /\ c.outSignature

(* mark_output_silent can reach the output property only through these.    *)
OutputReachable(c) == c.nOut = 1 /\ c.outArray /\ c.outProp

ASSUME FormatsAssumption ==
  /\ Processable \subseteq Formats
  /\ None \notin FormatPairs
  /\ \A r \in LockRequests : LockRequestVerdict(r) = "S_OK" =>
       r.input \in Formats /\ r.output \in Formats

ASSUME EffectsAssumption == Controllable \subseteq Advertised

VARIABLES
  st,      \* StateCell
  cache,   \* locked_formats: Option<LockedFormats>
  user,    \* what the user's object was last locked with, None when it is not
  pc,      \* per thread: the step its call is at
  local,   \* per thread: what its call carries: the formats to lock with, the
           \* copy of locked_formats(), or the effect to set
  hr,      \* the HRESULT of the call that returned last
  out      \* per thread: the output property of its last APOProcess

vars == <<st, cache, user, pc, local, hr, out>>

States == {"Uninitialized", "Initialized", "Locked"}

(* The steps of each operation; "idle" is between calls.                   *)
Steps ==
  [initialize              |-> {"initCas"},
   lock_for_process        |-> {"lockCas", "lockUser", "lockCache", "lockRollback"},
   unlock_for_process      |-> {"unlockLoad", "unlockUser", "unlockClear", "unlockCas"},
   process                 |-> {"procLoad", "procCache", "procRecheck", "procUser"},
   locked_formats          |-> {"chanLoad", "chanCache"},
   negotiate               |-> {"readUser"},
   set_system_effect_state |-> {"fxList", "fxUser"}]

Ops == DOMAIN Steps
PCs == {"idle"} \cup UNION {Steps[o] : o \in Ops}

(* Steps during which a thread holds &T or &mut T.                         *)
SharedBorrow == {"readUser", "fxList"}
MutBorrow    == {"lockUser", "unlockUser", "procUser", "fxUser"}

(* Steps at which a thread is about to write, or read, the cache.          *)
CacheWrite == {"lockCache", "unlockClear"}
CacheRead  == {"procCache", "chanCache"}

Results ==
  {"S_OK", "E_FAIL", "E_POINTER", "E_INVALIDARG", "USER_ERROR",
   "APOERR_NOT_LOCKED", "APOERR_ALREADY_LOCKED", "APOERR_INVALID_INPUT_DATA",
   "APOERR_NUM_CONNECTIONS_INVALID", "APOERR_FORMAT_NOT_SUPPORTED"}

(* The output property: out of reach, not yet written, or written with a   *)
(* frame count (none, or the input's) and buffer flags.                    *)
Written == [frames : {"zero", "input"}, flags : {"VALID", "SILENT"}]
Silent(frames) == [frames |-> frames, flags |-> "SILENT"]
Unreachable == [frames |-> "none", flags |-> "unreachable"]
Unwritten   == [frames |-> "none", flags |-> "unwritten"]
Outputs == Written \cup {Unreachable, Unwritten}

EffectArgs == [id : EffectIds, state : {"OFF", "ON", "other"}]

TypeOK ==
  /\ st \in States
  /\ cache \in FormatPairs \cup {None}
  /\ user \in FormatPairs \cup {None}
  /\ pc \in [Threads -> PCs]
  /\ local \in [Threads -> FormatPairs \cup EffectArgs \cup {None}]
  /\ hr \in Results
  /\ out \in [Threads -> Outputs]

Init ==
  /\ st = "Uninitialized"
  /\ cache = None
  /\ user = None
  /\ pc = [t \in Threads |-> "idle"]
  /\ local = [t \in Threads |-> None]
  /\ hr = "S_OK"
  /\ out = [t \in Threads |-> Unreachable]

-----------------------------------------------------------------------------
(* Calls and returns.                                                      *)

(* The engine may start operation o on t: no call it keeps o apart from is *)
(* in flight.                                                              *)
MayStart(t, o) ==
  /\ pc[t] = "idle"
  /\ \A u \in Threads \ {t} : \A p \in Ops :
       pc[u] \in Steps[p] => {o, p} \in MayOverlap

(* A step of a call: it moves on, moves on with a local value, returns an  *)
(* HRESULT or, for APOProcess, ends with the output property written.      *)
(* The locals of a call end with it.                                       *)
Goto(t, from, to) == pc[t] = from /\ pc' = [pc EXCEPT ![t] = to]

Step(t, from, to) == Goto(t, from, to) /\ UNCHANGED <<local, hr, out>>

StepWith(t, from, to, value) ==
  /\ Goto(t, from, to)
  /\ local' = [local EXCEPT ![t] = value]
  /\ UNCHANGED <<hr, out>>

Return(t, from, result) ==
  /\ Goto(t, from, "idle")
  /\ local' = [local EXCEPT ![t] = None]
  /\ hr' = result
  /\ UNCHANGED out

Finish(t, from, written) ==
  /\ Goto(t, from, "idle")
  /\ local' = [local EXCEPT ![t] = None]
  /\ out' = [out EXCEPT ![t] = written]
  /\ UNCHANGED hr

Shared == <<st, cache, user>>

-----------------------------------------------------------------------------
(* IAudioProcessingObject::Initialize: one compare_exchange.               *)
CallInitialize(t) ==
  /\ MayStart(t, "initialize")
  /\ Step(t, "idle", "initCas")
  /\ UNCHANGED Shared

InitCas(t) ==
  /\ Return(t, "initCas", IF st = "Uninitialized" THEN "S_OK"
                                                  ELSE "APOERR_ALREADY_LOCKED")
  /\ st' = IF st = "Uninitialized" THEN "Initialized" ELSE st
  /\ UNCHANGED <<cache, user>>

-----------------------------------------------------------------------------
(* LockForProcess: check the arguments, move the cell to Locked, ask the   *)
(* user, then cache the formats or move the cell back.                     *)
RejectLock(t) ==
  \E r \in LockRequests :
    /\ LockRequestVerdict(r) # "S_OK"
    /\ MayStart(t, "lock_for_process")
    /\ Return(t, "idle", LockRequestVerdict(r))
    /\ UNCHANGED Shared

CallLock(t) ==
  \E r \in LockRequests :
    /\ LockRequestVerdict(r) = "S_OK"
    /\ MayStart(t, "lock_for_process")
    /\ StepWith(t, "idle", "lockCas", [input |-> r.input, output |-> r.output])
    /\ UNCHANGED Shared

(* Mutant: a load and a store in place of the compare_exchange, so that a  *)
(* second lock gets through.                                               *)
LockCasLoadStore(t) ==
  /\ st # "Uninitialized"
  /\ Step(t, "lockCas", "lockUser")
  /\ st' = "Locked"
  /\ UNCHANGED <<cache, user>>

LockCas(t) ==
  /\ st = "Initialized"
  /\ Step(t, "lockCas", "lockUser")
  /\ st' = "Locked"
  /\ UNCHANGED <<cache, user>>

LockRefused(t) ==
  /\ st # "Initialized"
  /\ Return(t, "lockCas", CASE st = "Uninitialized" -> "APOERR_NOT_LOCKED"
                            [] st = "Locked" -> "APOERR_ALREADY_LOCKED"
                            [] OTHER -> "E_FAIL")
  /\ UNCHANGED Shared

LockUserOk(t) ==
  /\ Step(t, "lockUser", "lockCache")
  /\ user' = local[t]
  /\ UNCHANGED <<st, cache>>

LockUserErr(t) ==
  /\ Step(t, "lockUser", "lockRollback")
  /\ UNCHANGED Shared

(* Mutant: only the input format is cached.                                *)
LockCacheInputOnly(t) ==
  /\ Return(t, "lockCache", "S_OK")
  /\ cache' = local[t].input
  /\ UNCHANGED <<st, user>>

LockCache(t) ==
  /\ Return(t, "lockCache", "S_OK")
  /\ cache' = local[t]
  /\ UNCHANGED <<st, user>>

(* Mutant: the user's refusal is reported without moving the cell back.    *)
LockRollbackForgotten(t) ==
  /\ Return(t, "lockRollback", "USER_ERROR")
  /\ UNCHANGED Shared

(* The result of the compare_exchange is ignored here.                     *)
LockRollback(t) ==
  /\ Return(t, "lockRollback", "USER_ERROR")
  /\ st' = IF st = "Locked" THEN "Initialized" ELSE st
  /\ UNCHANGED <<cache, user>>

-----------------------------------------------------------------------------
(* UnlockForProcess: check the cell, tell the user, clear the cache, move  *)
(* the cell back.                                                          *)
CallUnlock(t) ==
  /\ MayStart(t, "unlock_for_process")
  /\ Step(t, "idle", "unlockLoad")
  /\ UNCHANGED Shared

UnlockLoad(t) ==
  /\ st = "Locked"
  /\ Step(t, "unlockLoad", "unlockUser")
  /\ UNCHANGED Shared

UnlockRefused(t) ==
  /\ st # "Locked"
  /\ Return(t, "unlockLoad", "APOERR_NOT_LOCKED")
  /\ UNCHANGED Shared

UnlockUser(t) ==
  /\ Step(t, "unlockUser", "unlockClear")
  /\ user' = None
  /\ UNCHANGED <<st, cache>>

(* Mutant: the cached formats survive the unlock.                          *)
UnlockClearForgotten(t) ==
  /\ Step(t, "unlockClear", "unlockCas")
  /\ UNCHANGED Shared

UnlockClear(t) ==
  /\ Step(t, "unlockClear", "unlockCas")
  /\ cache' = None
  /\ UNCHANGED <<st, user>>

(* Mutant: the cell is left in Locked.                                     *)
UnlockCasForgotten(t) ==
  /\ Return(t, "unlockCas", "S_OK")
  /\ UNCHANGED Shared

UnlockCas(t) ==
  /\ Return(t, "unlockCas", IF st = "Locked" THEN "S_OK" ELSE "APOERR_NOT_LOCKED")
  /\ st' = IF st = "Locked" THEN "Initialized" ELSE st
  /\ UNCHANGED <<cache, user>>

-----------------------------------------------------------------------------
(* locked_formats(), which APOProcess and GetInputChannelCount call: load  *)
(* the cell, then read the cache.  A read that races a write may return    *)
(* any mixture of the two.                                                 *)
CacheReads(t) ==
  IF \E u \in Threads \ {t} : pc[u] \in CacheWrite
  THEN FormatPairs \cup {None}
  ELSE {cache}

(* GetInputChannelCount: the input channels, or APOERR_NOT_LOCKED.         *)
CallChannels(t) ==
  /\ MayStart(t, "locked_formats")
  /\ Step(t, "idle", "chanLoad")
  /\ UNCHANGED Shared

ChanLoad(t) ==
  /\ IF st = "Locked" THEN Step(t, "chanLoad", "chanCache")
                      ELSE Return(t, "chanLoad", "APOERR_NOT_LOCKED")
  /\ UNCHANGED Shared

ChanCache(t) ==
  \E formats \in CacheReads(t) :
    /\ Return(t, "chanCache", IF formats = None THEN "APOERR_NOT_LOCKED" ELSE "S_OK")
    /\ UNCHANGED Shared

-----------------------------------------------------------------------------
(* APOProcess: check the arguments, copy the locked formats, check that    *)
(* the user can be given f32 slices, look at the cell again and process.   *)
(* It has no HRESULT: what the engine sees is the output property, which   *)
(* every early return marks silent.                                        *)
RejectProcess(t) ==
  \E c \in Connections :
    /\ ~ConnectionsAccepted(c)
    /\ MayStart(t, "process")
    /\ Finish(t, "idle", IF OutputReachable(c) THEN Silent("zero") ELSE Unreachable)
    /\ UNCHANGED Shared

CallProcess(t) ==
  \E c \in Connections :
    /\ ConnectionsAccepted(c)
    /\ MayStart(t, "process")
    /\ Goto(t, "idle", "procLoad")
    /\ out' = [out EXCEPT ![t] = Unwritten]
    /\ UNCHANGED <<Shared, local, hr>>

(* Mutant: an unlocked cell ends the call without marking the output.      *)
ProcLoadUnmarked(t) ==
  /\ IF st = "Locked" THEN Step(t, "procLoad", "procCache")
                      ELSE Step(t, "procLoad", "idle")
  /\ UNCHANGED Shared

ProcLoad(t) ==
  /\ IF st = "Locked" THEN Step(t, "procLoad", "procCache")
                      ELSE Finish(t, "procLoad", Silent("zero"))
  /\ UNCHANGED Shared

(* Mutant: the sample format is not checked before slicing.                *)
ProcCacheAnyFormat(t) ==
  \E formats \in CacheReads(t) :
    /\ IF formats # None THEN StepWith(t, "procCache", "procRecheck", formats)
                         ELSE Finish(t, "procCache", Silent("zero"))
    /\ UNCHANGED Shared

ProcCache(t) ==
  \E formats \in CacheReads(t) :
    /\ IF formats # None /\ formats.input \in Processable
       THEN StepWith(t, "procCache", "procRecheck", formats)
       ELSE Finish(t, "procCache", Silent("zero"))
    /\ UNCHANGED Shared

ProcRecheck(t) ==
  /\ IF st = "Locked" THEN Step(t, "procRecheck", "procUser")
                      ELSE Finish(t, "procRecheck", Silent("input"))
  /\ UNCHANGED Shared

ProcUser(t) ==
  \E flags \in {"VALID", "SILENT"} :
    /\ Finish(t, "procUser", [frames |-> "input", flags |-> flags])
    /\ UNCHANGED Shared

-----------------------------------------------------------------------------
(* Calls that only read the user's object: IsInputFormatSupported,         *)
(* IsOutputFormatSupported, GetEffectsList,                                *)
(* GetControllableSystemEffectsList.                                       *)
CallRead(t) ==
  /\ MayStart(t, "negotiate")
  /\ Step(t, "idle", "readUser")
  /\ UNCHANGED Shared

ReadUser(t) ==
  \E result \in {"S_OK", "APOERR_FORMAT_NOT_SUPPORTED"} :
    /\ Return(t, "readUser", result)
    /\ UNCHANGED Shared

(* SetAudioSystemEffectState: look the id up in the user's list, check the *)
(* state value, then call the user with &mut T.                            *)
CallSetEffect(t) ==
  \E e \in EffectArgs :
    /\ MayStart(t, "set_system_effect_state")
    /\ StepWith(t, "idle", "fxList", e)
    /\ UNCHANGED Shared

FxList(t) ==
  /\ pc[t] = "fxList"
  /\ IF local[t].id \in Advertised /\ local[t].state # "other"
     THEN Step(t, "fxList", "fxUser")
     ELSE Return(t, "fxList", "E_INVALIDARG")
  /\ UNCHANGED Shared

FxUser(t) ==
  /\ Return(t, "fxUser", "S_OK")
  /\ UNCHANGED Shared

-----------------------------------------------------------------------------
(* A step of a call on t.                                                  *)
Call(t) ==
  \/ CallInitialize(t) \/ InitCas(t)
  \/ RejectLock(t) \/ CallLock(t) \/ LockCas(t) \/ LockRefused(t)
  \/ LockUserOk(t) \/ LockUserErr(t) \/ LockCache(t) \/ LockRollback(t)
  \/ CallUnlock(t) \/ UnlockLoad(t) \/ UnlockRefused(t)
  \/ UnlockUser(t) \/ UnlockClear(t) \/ UnlockCas(t)
  \/ CallChannels(t) \/ ChanLoad(t) \/ ChanCache(t)
  \/ RejectProcess(t) \/ CallProcess(t) \/ ProcLoad(t) \/ ProcCache(t)
  \/ ProcRecheck(t) \/ ProcUser(t)
  \/ CallRead(t) \/ ReadUser(t)
  \/ CallSetEffect(t) \/ FxList(t) \/ FxUser(t)

Next == \E t \in Threads : Call(t)

Spec == Init /\ [][Next]_vars

-----------------------------------------------------------------------------
(* What the safety properties need of the engine, of all that the comments *)
(* of instance.rs grant: calls that meet only in the compare_exchange may  *)
(* race, and an effect may be set while a buffer is processed.             *)
Contract(overlap) ==
  LET Apart(o, p) == {o, p} \notin overlap
  IN  /\ \A o \in Ops \ {"initialize"} : Apart("unlock_for_process", o)
      /\ \A o \in Ops \ {"initialize", "lock_for_process"} : Apart("lock_for_process", o)
      /\ Apart("process", "process")
      /\ Apart("negotiate", "process")
      /\ Apart("negotiate", "set_system_effect_state")
      /\ Apart("set_system_effect_state", "set_system_effect_state")

-----------------------------------------------------------------------------
(* Properties.                                                             *)

At(t, steps) == pc[t] \in steps

(* The steps of LockForProcess after its compare_exchange, and those of    *)
(* UnlockForProcess after its check.                                       *)
Locking   == {"lockUser", "lockCache", "lockRollback"}
Unlocking == {"unlockUser", "unlockClear", "unlockCas"}

(* The user's lock and unlock callbacks alternate: lock_for_process is     *)
(* never called on a locked object and unlock_for_process is "always       *)
(* paired with a prior successful lock_for_process" (apo.rs), however many *)
(* Initialize and LockForProcess calls race for the cell.                  *)
CallbacksPaired ==
  \A t \in Threads :
    /\ At(t, {"lockUser"}) => user = None
    /\ At(t, {"unlockUser"}) => user # None

(* Two threads never both hold the user's object, one of them mutably,     *)
(* except SetAudioSystemEffectState and APOProcess: the compare_exchange   *)
(* before &mut T lets one of several racing LockForProcess calls through.  *)
UserExclusive ==
  \A t, u \in Threads :
    t # u /\ At(t, MutBorrow) /\ At(u, MutBorrow \cup SharedBorrow) =>
      "procUser" \in {pc[t], pc[u]} /\ {pc[t], pc[u]} \cap {"fxList", "fxUser"} # {}

(* A buffer reaches the user only in the format the user was last locked   *)
(* with, and only when that is one a &[f32] can carry: what APOProcess     *)
(* copied and checked still holds when the user runs.                      *)
ProcessGeometry ==
  \A t \in Threads : At(t, {"procUser"}) =>
    /\ st = "Locked"
    /\ local[t] = user /\ cache = user
    /\ user.input \in Processable

(* Between LockForProcess and UnlockForProcess calls the cell, the cache   *)
(* and the user agree: nothing half done is left behind, by a refusal of   *)
(* the user's or a lost race in particular, and the engine can retry.      *)
LifecycleConsistent ==
  (\A t \in Threads : ~At(t, Locking \cup Unlocking)) =>
    /\ cache = user
    /\ st = "Locked" <=> cache # None

(* No thread is about to write the cache while another is about to read or *)
(* write it: the plain UnsafeCell accesses never race.                     *)
NoCacheRace ==
  \A t, u \in Threads :
    t # u /\ At(t, CacheWrite) => ~At(u, CacheWrite \cup CacheRead)

(* A thread that loaded Locked finds the formats of the lock it saw in the *)
(* cache (the comment in locked_formats: "a read here that observes Locked *)
(* is sequenced after the matching cache write").  The acquire load does   *)
(* not bring that about: lock_for_process sets Locked first and writes the *)
(* cache after.  It is the engine, which keeps every reader apart from the *)
(* calls that lock and unlock.                                             *)
LockedReadsCache ==
  \A t \in Threads : At(t, CacheRead) =>
    cache # None /\ \A u \in Threads : ~At(u, {"lockUser", "lockCache"})

(* No APOProcess returns with the output property it could reach left      *)
(* unwritten ("Emits BUFFER_SILENT on every failure path because           *)
(* APOProcess has no HRESULT return").                                     *)
OutputAlwaysMarked ==
  \A t \in Threads : At(t, {"idle"}) => out[t] # Unwritten

(* What LockForProcess answers is what it did: S_OK when these formats are *)
(* cached and the user holds them, ALREADY_LOCKED when another lock held   *)
(* the cell, a user's error when the cell is back in Initialized, and      *)
(* E_FAIL never ("unreachable in practice").                               *)
LockAnswer(t) ==
  At(t, Steps.lock_for_process) /\ pc'[t] = "idle" =>
    CASE hr' = "S_OK" -> st' = "Locked" /\ cache' = local[t] /\ user' = local[t]
      [] hr' = "APOERR_ALREADY_LOCKED" -> st = "Locked" /\ st' = "Locked"
      [] hr' = "APOERR_NOT_LOCKED" -> st = "Uninitialized"
      [] hr' = "USER_ERROR" -> st' = "Initialized" /\ cache' = None /\ user' = None
      [] OTHER -> FALSE

LockVerdict == [][\A t \in Threads : LockAnswer(t)]_vars

(* The calls implement ApoLifecycle: a lock takes effect when its formats  *)
(* are cached, an unlock when they are cleared, and every step in between  *)
(* is invisible.                                                           *)
AbstractPhase == IF st = "Locked" /\ cache = None THEN "Initialized" ELSE st

ServingOf(steps, locals) ==
  LET running == {t \in Threads : steps[t] = "procUser"}
  IN  IF running = {} THEN None ELSE locals[CHOOSE t \in running : TRUE]

AbstractServing == ServingOf(pc, local)

Lifecycle == INSTANCE ApoLifecycle WITH
  phase <- AbstractPhase, formats <- cache, serving <- AbstractServing

ImplementsLifecycle == Lifecycle!Spec

(* "Exactly one of the wrappers' methods touches T at any moment" (the     *)
(* module comment of instance.rs), with no exception for the effects.      *)
OneMethodAtATime ==
  \A t, u \in Threads :
    t # u /\ At(t, MutBorrow) => ~At(u, MutBorrow \cup SharedBorrow)

(* SetAudioSystemEffectState calls the user "only for effects the user     *)
(* advertised with controllable: true" (apo.rs).                           *)
OnlyControllable ==
  \A t \in Threads : At(t, {"fxUser"}) => local[t].id \in Controllable

(* "output is the interleaved float32 buffer to write into" (apo.rs), of   *)
(* which the host "guarantees pBuffer holds at least ... float32 samples"  *)
(* (dispatch.rs): the locked output format is one that &mut [f32] carries. *)
OutputIsFloat ==
  \A t \in Threads : At(t, {"procUser"}) => local[t].output \in Processable
=============================================================================
