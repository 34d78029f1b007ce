---------------------------- MODULE ApoAecProofs ----------------------------
(* The safety of ApoAec for any number of threads, ids and formats, under  *)
(* any engine that keeps the contract.  It rests on the invariant of the   *)
(* plain APO object, which the auxiliary calls leave alone.                *)
EXTENDS ApoAec, ApoInstanceProofs

-----------------------------------------------------------------------------
(* The inductive invariant.                                                *)

AcceptSteps == {"acceptLoad", "acceptCache", "acceptUser"}
AuxMutSteps == {"addUser", "removeUser"}

(* The steps of plain calls that touch nothing but the cell or the cache.  *)
Harmless == {"idle", "initCas", "chanLoad", "chanCache"}

(* The contract, read off the steps in flight.                             *)
AuxSeparated ==
  /\ \A t \in Threads : aux[t] # "idle" => pc[t] = "idle"
  /\ \A t, u \in Threads : t # u =>
       /\ aux[t] \in AuxMutSteps => aux[u] = "idle" /\ pc[u] \in Harmless
       /\ aux[t] \in AcceptSteps => aux[u] = "idle" /\ pc[u] \in Harmless \cup FxSteps
       /\ aux[t] = "queryUser" =>
            aux[u] \in {"idle", "queryUser"} /\ pc[u] \in Harmless \cup {"readUser"}

(* A buffer being accepted is for an input the engine was told exists; an  *)
(* input being removed, or added, is not.                                  *)
IdsInUse ==
  \A t \in Threads :
    /\ aux[t] \in AuxMutSteps \cup AcceptSteps =>
         carried[t] \in [id : AuxIds, formats : Formats \cup FormatPairs \cup {None}]
    /\ aux[t] \in AcceptSteps => carried[t].id \in announced
    /\ aux[t] \in AuxMutSteps => carried[t].id \notin announced
    /\ aux[t] = "addUser" => carried[t].formats \in Formats

AnnouncedAreInputs == \A i \in announced : inputs[i] # None

(* AcceptInput's one look at the cell stays good.                          *)
AcceptStaysLocked ==
  \A t \in Threads :
    /\ aux[t] \in {"acceptCache", "acceptUser"} => st = "Locked"
    /\ aux[t] = "acceptUser" =>
         /\ carried[t].formats = user /\ cache = user
         /\ user # None /\ user.input \in Processable

AuxIInv ==
  /\ IInv /\ AuxTypeOK
  /\ AuxSeparated /\ IdsInUse /\ AnnouncedAreInputs /\ AcceptStaysLocked

-----------------------------------------------------------------------------
LEMMA AuxStepSets ==
  /\ AuxOps = {"add_aux_input", "remove_aux_input", "is_aux_format_supported",
               "accept_aux_input"}
  /\ AuxSteps.add_aux_input = {"addUser"}
  /\ AuxSteps.remove_aux_input = {"removeUser"}
  /\ AuxSteps.is_aux_format_supported = {"queryUser"}
  /\ AuxSteps.accept_aux_input = {"acceptLoad", "acceptCache", "acceptUser"}
BY DEF AuxSteps, AuxOps

LEMMA AllAux ==
  {"idle"} \cup UNION {AuxSteps[o] : o \in AuxOps} =
    {"idle", "addUser", "removeUser", "queryUser",
     "acceptLoad", "acceptCache", "acceptUser"}
<1>1. \A s : s \in UNION {AuxSteps[o] : o \in AuxOps} <=> \E o \in AuxOps : s \in AuxSteps[o]
  OBVIOUS
<1> QED
  BY <1>1, AuxStepSets

(* The calls that may run while a buffer is accepted leave the lock alone  *)
(* and have the user process nothing.                                      *)
LEMMA HarmlessKeepLock ==
  ASSUME TypeOK, NEW t \in Threads, Call(t), st = "Locked", pc[t] \in Harmless \cup FxSteps
  PROVE  UNCHANGED Shared /\ pc'[t] # "procUser"
<1> USE DEF TypeOK, Goto, Step, StepWith, Return, Finish, Shared, Harmless, FxSteps
<1>1. CASE CallInitialize(t) \/ InitCas(t)
  BY <1>1 DEF CallInitialize, InitCas
<1>2. CASE RejectLock(t) \/ CallLock(t) \/ CallUnlock(t)
  BY <1>2 DEF RejectLock, CallLock, CallUnlock
<1>3. ~(LockCas(t) \/ LockRefused(t) \/ LockUserOk(t) \/ LockUserErr(t))
  BY DEF LockCas, LockRefused, LockUserOk, LockUserErr
<1>4. ~(LockCache(t) \/ LockRollback(t) \/ UnlockLoad(t) \/ UnlockRefused(t))
  BY DEF LockCache, LockRollback, UnlockLoad, UnlockRefused
<1>5. ~(UnlockUser(t) \/ UnlockClear(t) \/ UnlockCas(t))
  BY DEF UnlockUser, UnlockClear, UnlockCas
<1>6. CASE CallChannels(t) \/ ChanLoad(t) \/ ChanCache(t)
  BY <1>6 DEF CallChannels, ChanLoad, ChanCache
<1>7. CASE RejectProcess(t) \/ CallProcess(t) \/ ProcLoad(t)
  BY <1>7 DEF RejectProcess, CallProcess, ProcLoad
<1>8. CASE ProcCache(t) \/ ProcRecheck(t) \/ ProcUser(t)
  BY <1>8 DEF ProcCache, ProcRecheck, ProcUser
<1>9. CASE CallRead(t) \/ ReadUser(t) \/ CallSetEffect(t) \/ FxList(t) \/ FxUser(t)
  BY <1>9 DEF CallRead, ReadUser, CallSetEffect, FxList, FxUser
<1> QED
  BY <1>1, <1>2, <1>3, <1>4, <1>5, <1>6, <1>7, <1>8, <1>9 DEF Call

(* Where the other threads are when an auxiliary call may start.           *)
LEMMA StartAux ==
  ASSUME TypeOK, AuxTypeOK, AuxContract(AuxOverlap), NEW t \in Threads, NEW u \in Threads \ {t}
  PROVE  /\ \A o \in {"add_aux_input", "remove_aux_input"} : MayStartAux(t, o) =>
              aux[u] = "idle" /\ pc[u] \in Harmless
         /\ MayStartAux(t, "accept_aux_input") =>
              aux[u] = "idle" /\ pc[u] \in Harmless \cup FxSteps
         /\ MayStartAux(t, "is_aux_format_supported") =>
              aux[u] \in {"idle", "queryUser"} /\ pc[u] \in Harmless \cup {"readUser"}
<1>1. aux[u] \in {"idle", "addUser", "removeUser", "queryUser",
                  "acceptLoad", "acceptCache", "acceptUser"}
  BY AllAux DEF AuxTypeOK
<1>2. pc[u] \in PCs
  BY DEF TypeOK
<1> USE <1>1, <1>2, StepSets, AllPCs, AuxStepSets DEF AuxContract, MayStartAux, Allowed,
        Harmless, FxSteps
<1>3. \A o \in {"add_aux_input", "remove_aux_input"} : MayStartAux(t, o) =>
        aux[u] = "idle" /\ pc[u] \in Harmless
  <2>1. MayStartAux(t, "add_aux_input") => aux[u] = "idle"
    OBVIOUS
  <2>2. MayStartAux(t, "add_aux_input") => pc[u] \in Harmless
    OBVIOUS
  <2>3. MayStartAux(t, "remove_aux_input") => aux[u] = "idle"
    OBVIOUS
  <2>4. MayStartAux(t, "remove_aux_input") => pc[u] \in Harmless
    OBVIOUS
  <2> QED
    BY <2>1, <2>2, <2>3, <2>4
<1>4. MayStartAux(t, "accept_aux_input") =>
        aux[u] = "idle" /\ pc[u] \in Harmless \cup FxSteps
  OBVIOUS
<1>5. MayStartAux(t, "is_aux_format_supported") =>
        aux[u] \in {"idle", "queryUser"} /\ pc[u] \in Harmless \cup {"readUser"}
  OBVIOUS
<1> QED
  BY <1>3, <1>4, <1>5

-----------------------------------------------------------------------------
(* The invariant is inductive.                                             *)

LEMMA AuxInitInv == AuxInit => AuxIInv
<1> SUFFICES ASSUME AuxInit PROVE AuxIInv
  OBVIOUS
<1>1. IInv
  BY InitInvariant DEF AuxInit
<1>2. AuxTypeOK
  BY <1>1 DEF AuxInit, AuxTypeOK, IInv
<1> QED
  BY <1>1, <1>2 DEF AuxInit, AuxIInv, AuxSeparated, IdsInUse, AnnouncedAreInputs,
     AcceptStaysLocked, AuxMutSteps, AcceptSteps

(* The plain operations the engine may start beside an auxiliary call.     *)
LEMMA ContractPlain ==
  ASSUME AuxContract(AuxOverlap), NEW o \in Ops
  PROVE  /\ {o, "add_aux_input"} \in AuxOverlap => o \in {"initialize", "locked_formats"}
         /\ {o, "remove_aux_input"} \in AuxOverlap => o \in {"initialize", "locked_formats"}
         /\ {o, "accept_aux_input"} \in AuxOverlap =>
              o \in {"initialize", "locked_formats", "set_system_effect_state"}
         /\ {o, "is_aux_format_supported"} \in AuxOverlap =>
              o \in {"initialize", "locked_formats", "negotiate"}
<1>1. o \in {"initialize", "lock_for_process", "unlock_for_process", "process",
            "locked_formats", "negotiate", "set_system_effect_state"}
  BY StepSets
<1>2. \A a, b : {a, b} = {b, a}
  OBVIOUS
<1>3. ASSUME NEW a \in {"add_aux_input", "remove_aux_input"}
      PROVE  {a, o} \in AuxOverlap => o \in {"initialize", "locked_formats"}
  BY <1>1 DEF AuxContract
<1>4. {"accept_aux_input", o} \in AuxOverlap =>
        o \in {"initialize", "locked_formats", "set_system_effect_state"}
  BY <1>1 DEF AuxContract
<1>5. {"is_aux_format_supported", o} \in AuxOverlap =>
        o \in {"initialize", "locked_formats", "negotiate"}
  BY <1>1 DEF AuxContract
<1> QED
  BY <1>2, <1>3, <1>4, <1>5

(* A call of the plain object goes on, or starts where it may.             *)
LEMMA PlainSeparated ==
  ASSUME AuxIInv, AuxContract(AuxOverlap), NEW t \in Threads, PlainCall(t)
  PROVE  AuxSeparated'
<1>1. TypeOK /\ aux[t] = "idle" /\ Call(t) /\ aux' = aux
      /\ (pc[t] = "idle" => \A o \in Ops : pc'[t] \in Steps[o] => Allowed(t, o))
  BY DEF PlainCall, auxVars, AuxIInv, IInv
<1>2. /\ \A u \in Threads \ {t} : pc'[u] = pc[u]
      /\ \E o \in Ops : {pc[t], pc'[t]} \subseteq Steps[o] \cup {"idle"}
  BY <1>1, CallMoves
<1>3. ASSUME NEW u \in Threads \ {t}
      PROVE  /\ aux[u] \in AuxMutSteps => pc'[t] \in Harmless
             /\ aux[u] \in AcceptSteps => pc'[t] \in Harmless \cup FxSteps
             /\ aux[u] = "queryUser" => pc'[t] \in Harmless \cup {"readUser"}
  <2>1. /\ aux[u] \in AuxMutSteps => pc[t] \in Harmless
        /\ aux[u] \in AcceptSteps => pc[t] \in Harmless \cup FxSteps
        /\ aux[u] = "queryUser" => pc[t] \in Harmless \cup {"readUser"}
    BY DEF AuxIInv, AuxSeparated
  <2>2. PICK o \in Ops : {pc[t], pc'[t]} \subseteq Steps[o] \cup {"idle"}
    BY <1>2
  <2>3. CASE pc'[t] = "idle"
    BY <2>3 DEF Harmless
  <2>4. CASE pc'[t] # "idle" /\ pc[t] # "idle"
    BY <2>1, <2>2, <2>4, StepSets DEF Harmless, FxSteps
  <2>5. CASE pc'[t] # "idle" /\ pc[t] = "idle"
    <3>1. Allowed(t, o) /\ pc'[t] \in Steps[o]
      BY <1>1, <2>2, <2>5
    <3>2. \A p \in AuxOps : aux[u] \in AuxSteps[p] => {o, p} \in AuxOverlap
      BY <3>1 DEF Allowed
    <3>3. aux[u] \in AuxMutSteps => pc'[t] \in Harmless
      BY <3>1, <3>2, ContractPlain, StepSets, AuxStepSets DEF AuxMutSteps, Harmless
    <3>4. aux[u] \in AcceptSteps => pc'[t] \in Harmless \cup FxSteps
      BY <3>1, <3>2, ContractPlain, StepSets, AuxStepSets DEF AcceptSteps, Harmless, FxSteps
    <3>5. aux[u] = "queryUser" => pc'[t] \in Harmless \cup {"readUser"}
      BY <3>1, <3>2, ContractPlain, StepSets, AuxStepSets DEF Harmless
    <3> QED
      BY <3>3, <3>4, <3>5
  <2> QED
    BY <2>3, <2>4, <2>5
<1>4. \A u \in Threads : aux'[u] # "idle" => pc'[u] = "idle"
  BY <1>1, <1>2 DEF AuxIInv, AuxSeparated
<1>5. ASSUME NEW v \in Threads, NEW u \in Threads, v # u
      PROVE  /\ aux'[v] \in AuxMutSteps => aux'[u] = "idle" /\ pc'[u] \in Harmless
             /\ aux'[v] \in AcceptSteps =>
                  aux'[u] = "idle" /\ pc'[u] \in Harmless \cup FxSteps
             /\ aux'[v] = "queryUser" =>
                  aux'[u] \in {"idle", "queryUser"} /\ pc'[u] \in Harmless \cup {"readUser"}
  <2>1. CASE u = t
    BY <1>1, <1>3, <1>5, <2>1 DEF AuxIInv, AuxSeparated
  <2>2. CASE u # t
    BY <1>1, <1>2, <1>5, <2>2 DEF AuxIInv, AuxSeparated
  <2> QED
    BY <2>1, <2>2
<1> QED
  BY <1>4, <1>5 DEF AuxSeparated

LEMMA PlainStep ==
  ASSUME AuxIInv, Contract(MayOverlap), AuxContract(AuxOverlap),
         NEW t \in Threads, PlainCall(t)
  PROVE  AuxIInv'
<1>1. IInv /\ TypeOK /\ Call(t) /\ UNCHANGED auxVars
  BY DEF AuxIInv, IInv, PlainCall
<1>2. IInv'
  BY <1>1, StepInvariant DEF Call
<1>3. AuxTypeOK'
  BY <1>1, <1>2 DEF AuxIInv, AuxTypeOK, IInv, auxVars
<1>4. IdsInUse' /\ AnnouncedAreInputs'
  BY <1>1 DEF AuxIInv, IdsInUse, AnnouncedAreInputs, auxVars
<1>5. AcceptStaysLocked'
  <2> SUFFICES ASSUME NEW u \in Threads, aux[u] \in {"acceptCache", "acceptUser"}
               PROVE  UNCHANGED Shared
    BY <1>1 DEF AuxIInv, AcceptStaysLocked, auxVars, Shared
  <2>1. u # t
    BY DEF PlainCall
  <2>2. st = "Locked" /\ pc[t] \in Harmless \cup FxSteps
    BY <2>1 DEF AuxIInv, AuxSeparated, AcceptStaysLocked, AcceptSteps
  <2> QED
    BY <1>1, <2>2, HarmlessKeepLock
<1> QED
  BY <1>2, <1>3, <1>4, <1>5, PlainSeparated DEF AuxIInv

(* An auxiliary step leaves the plain object as it is, a result excepted.  *)
LEMMA PlainUntouched ==
  ASSUME IInv, UNCHANGED <<Shared, pc, local, out>>, hr' \in Results
  PROVE  IInv'
BY DEF IInv, TypeOK, Separated, LockingAlone, UnlockingInOrder,
      LifecycleConsistent, LockedStays, EffectsHeld, OutputPending, At, Shared

LEMMA AuxLeavesPlain ==
  ASSUME AuxIInv, NEW t \in Threads, AuxCall(t)
  PROVE  UNCHANGED <<Shared, pc, local, out>> /\ hr' \in Results
<1> USE DEF AuxReturn, AuxStart, vars, Shared, Results
<1>1. hr \in Results
  BY DEF AuxIInv, IInv, TypeOK
<1>2. CASE RejectAdd(t)
  BY <1>1, <1>2 DEF RejectAdd, DescriptorFault
<1>3. CASE CallAdd(t) \/ AddOk(t) \/ AddErr(t)
  BY <1>1, <1>3 DEF CallAdd, AddOk, AddErr
<1>4. CASE CallRemove(t) \/ RemoveUser(t) \/ CallQuery(t) \/ QueryUser(t)
  BY <1>1, <1>4 DEF CallRemove, RemoveUser, CallQuery, QueryUser
<1>5. CASE CallAccept(t) \/ AcceptLoad(t) \/ AcceptUser(t)
  BY <1>1, <1>5 DEF CallAccept, AcceptLoad, AcceptUser
<1>6. CASE AcceptCache(t)
  BY <1>1, <1>6 DEF AcceptCache, AcceptWith
<1> QED
  BY <1>2, <1>3, <1>4, <1>5, <1>6 DEF AuxCall

LEMMA AuxStep ==
  ASSUME AuxIInv, AuxContract(AuxOverlap), NEW t \in Threads, AuxCall(t)
  PROVE  AuxIInv'
<1> USE AuxFormatsAssumption, FormatsAssumption
<1>1. UNCHANGED <<Shared, pc, local, out>> /\ hr' \in Results
  BY AuxLeavesPlain
<1>2. IInv'
  BY <1>1, PlainUntouched DEF AuxIInv
<1>3. TypeOK /\ TypeOK' /\ AuxTypeOK
  BY <1>2 DEF AuxIInv, IInv
<1> USE DEF AuxIInv, AuxSeparated, IdsInUse, AnnouncedAreInputs, AcceptStaysLocked,
        AuxMutSteps, AcceptSteps, Shared
<1>4. CASE RejectAdd(t)
  BY <1>1, <1>2, <1>3, <1>4 DEF RejectAdd, AuxTypeOK, auxVars
<1>5. CASE CallAdd(t)
  <2>1. PICK id \in AuxIds \ announced, f \in Formats :
          AuxStart(t, "add_aux_input", "addUser", id, f) /\ announced' = announced
    BY <1>5 DEF CallAdd
  <2>2. \A u \in Threads \ {t} : aux[u] = "idle" /\ pc[u] \in Harmless
    BY <1>3, <2>1, StartAux DEF AuxStart
  <2>3. /\ pc[t] = "idle" /\ aux[t] = "idle" /\ aux' = [aux EXCEPT ![t] = "addUser"]
        /\ carried' = [carried EXCEPT ![t] = [id |-> id, formats |-> f]]
        /\ inputs' = inputs /\ announced' = announced
    BY <2>1 DEF AuxStart, MayStartAux, AuxGoto
  <2> QED
    BY <1>1, <1>2, <1>3, <2>2, <2>3, AllAux DEF AuxTypeOK
<1>6. CASE AddOk(t)
  BY <1>1, <1>2, <1>3, <1>6, AllAux DEF AddOk, AuxReturn, AuxEnd, AuxGoto, AuxTypeOK
<1>7. CASE AddErr(t)
  BY <1>1, <1>2, <1>3, <1>7, AllAux DEF AddErr, AuxReturn, AuxEnd, AuxGoto, AuxTypeOK
<1>8. CASE CallRemove(t)
  <2>1. PICK id \in announced :
          /\ AuxStart(t, "remove_aux_input", "removeUser", id, None)
          /\ announced' = announced \ {id}
    BY <1>8 DEF CallRemove
  <2>2. \A u \in Threads \ {t} : aux[u] = "idle" /\ pc[u] \in Harmless
    BY <1>3, <2>1, StartAux DEF AuxStart
  <2>3. /\ pc[t] = "idle" /\ aux[t] = "idle" /\ aux' = [aux EXCEPT ![t] = "removeUser"]
        /\ carried' = [carried EXCEPT ![t] = [id |-> id, formats |-> None]]
        /\ inputs' = inputs /\ announced' = announced \ {id} /\ id \in AuxIds
    BY <1>3, <2>1 DEF AuxStart, MayStartAux, AuxGoto, AuxTypeOK
  <2> QED
    BY <1>1, <1>2, <1>3, <2>2, <2>3, AllAux DEF AuxTypeOK
<1>9. CASE RemoveUser(t)
  BY <1>1, <1>2, <1>3, <1>9, AllAux DEF RemoveUser, AuxReturn, AuxEnd, AuxGoto, AuxTypeOK
<1>10. CASE CallQuery(t)
  <2>1. \A u \in Threads \ {t} :
          aux[u] \in {"idle", "queryUser"} /\ pc[u] \in Harmless \cup {"readUser"}
    BY <1>3, <1>10, StartAux DEF CallQuery
  <2>2. /\ pc[t] = "idle" /\ aux[t] = "idle" /\ aux' = [aux EXCEPT ![t] = "queryUser"]
        /\ UNCHANGED <<carried, inputs, announced>>
    BY <1>10 DEF CallQuery, MayStartAux, AuxGoto
  <2> QED
    BY <1>1, <1>2, <1>3, <2>1, <2>2, AllAux DEF AuxTypeOK
<1>11. CASE QueryUser(t)
  BY <1>1, <1>2, <1>3, <1>11, AllAux DEF QueryUser, AuxReturn, AuxEnd, AuxGoto, AuxTypeOK
<1>12. CASE CallAccept(t)
  <2>1. PICK id \in announced :
          AuxStart(t, "accept_aux_input", "acceptLoad", id, None) /\ announced' = announced
    BY <1>12 DEF CallAccept
  <2>2. \A u \in Threads \ {t} : aux[u] = "idle" /\ pc[u] \in Harmless \cup FxSteps
    BY <1>3, <2>1, StartAux DEF AuxStart
  <2>3. /\ pc[t] = "idle" /\ aux[t] = "idle" /\ aux' = [aux EXCEPT ![t] = "acceptLoad"]
        /\ carried' = [carried EXCEPT ![t] = [id |-> id, formats |-> None]]
        /\ inputs' = inputs /\ announced' = announced /\ id \in AuxIds
    BY <1>3, <2>1 DEF AuxStart, MayStartAux, AuxGoto, AuxTypeOK
  <2> QED
    BY <1>1, <1>2, <1>3, <2>2, <2>3, AllAux DEF AuxTypeOK
<1>13. CASE AcceptLoad(t)
  BY <1>1, <1>2, <1>3, <1>13, AllAux DEF AcceptLoad, AuxEnd, AuxGoto, AuxTypeOK
<1>14. CASE AcceptCache(t)
  <2>1. aux[t] = "acceptCache" /\ st = "Locked"
    BY <1>14 DEF AcceptCache, AcceptWith, AuxEnd, AuxGoto
  <2>2. \A u \in Threads : ~At(u, Locking \cup Unlocking)
    BY <2>1 DEF Harmless, FxSteps, At, Locking, Unlocking
  <2>3. CacheReads(t) = {cache} /\ cache = user
    BY <2>1, <2>2 DEF IInv, LifecycleConsistent, CacheReads, CacheWrite, At, Locking, Unlocking
  <2>4. CASE cache # None /\ cache.input \in Processable
    <3>1. /\ aux' = [aux EXCEPT ![t] = "acceptUser"]
          /\ carried' = [carried EXCEPT ![t].formats = cache]
          /\ UNCHANGED <<inputs, announced>>
      BY <1>14, <2>3, <2>4 DEF AcceptCache, AcceptWith, AuxGoto
    <3>2. cache \in FormatPairs
      BY <1>3, <2>4 DEF TypeOK
    <3>3. carried[t] \in [id : AuxIds, formats : Formats \cup FormatPairs \cup {None}]
      BY <2>1
    <3>4. /\ carried'[t] \in [id : AuxIds, formats : Formats \cup FormatPairs \cup {None}]
          /\ carried'[t].id = carried[t].id /\ carried'[t].formats = cache
          /\ \A u \in Threads \ {t} : carried'[u] = carried[u]
      BY <1>3, <3>1, <3>2, <3>3 DEF AuxTypeOK
    <3>5. AuxTypeOK'
      BY <1>3, <2>1, <3>1, <3>4, AllAux DEF AuxTypeOK
    <3> QED
      BY <1>1, <1>2, <1>3, <2>1, <2>3, <2>4, <3>1, <3>4, <3>5 DEF AuxTypeOK
  <2>5. CASE ~(cache # None /\ cache.input \in Processable)
    <3>1. AuxEnd(t, "acceptCache") /\ UNCHANGED <<inputs, announced>>
      BY <1>14, <2>3, <2>5 DEF AcceptCache, AcceptWith
    <3> QED
      BY <1>1, <1>2, <1>3, <3>1, AllAux DEF AuxEnd, AuxGoto, AuxTypeOK
  <2> QED
    BY <2>4, <2>5
<1>15. CASE AcceptUser(t)
  BY <1>1, <1>2, <1>3, <1>15, AllAux DEF AcceptUser, AuxEnd, AuxGoto, AuxTypeOK
<1> QED
  BY <1>4, <1>5, <1>6, <1>7, <1>8, <1>9, <1>10, <1>11, <1>12, <1>13, <1>14, <1>15 DEF AuxCall

(* AuxIInv holds of every behaviour under the engine's contract.           *)
THEOREM AuxInvariance ==
  ASSUME Contract(MayOverlap), AuxContract(AuxOverlap)
  PROVE  AecSpec => []AuxIInv
<1>1. ASSUME AuxIInv, [AecNext]_aecVars
      PROVE  AuxIInv'
  <2>1. CASE UNCHANGED aecVars
    <3>1. UNCHANGED vars /\ UNCHANGED auxVars
      BY <2>1 DEF aecVars
    <3>2. IInv'
      BY <1>1, <3>1, PlainUntouched DEF vars, Shared, AuxIInv, IInv, TypeOK
    <3>3. AuxTypeOK'
      BY <1>1, <3>1, <3>2 DEF auxVars, AuxIInv, AuxTypeOK, IInv
    <3>4. AuxSeparated' /\ IdsInUse' /\ AnnouncedAreInputs' /\ AcceptStaysLocked'
      BY <1>1, <3>1 DEF vars, auxVars, AuxIInv, AuxSeparated, IdsInUse,
         AnnouncedAreInputs, AcceptStaysLocked
    <3> QED
      BY <3>2, <3>3, <3>4 DEF AuxIInv
  <2>2. CASE AecNext
    BY <1>1, <2>2, PlainStep, AuxStep DEF AecNext
  <2> QED
    BY <1>1, <2>1, <2>2
<1> QED
  BY AuxInitInv, <1>1, PTL DEF AecSpec

(* Every variable keeps its type, with auxiliary inputs as without.        *)
THEOREM AuxTypeCorrect ==
  ASSUME Contract(MayOverlap), AuxContract(AuxOverlap)
  PROVE  AecSpec => []AuxTypeOK
<1>1. AuxIInv => AuxTypeOK
  BY DEF AuxIInv
<1> QED
  BY AuxInvariance, <1>1, PTL

LEMMA ExclusiveInAuxIInv == AuxIInv => AuxExclusive
<1>1. ASSUME AuxIInv, NEW t \in Threads, NEW u \in Threads, t # u
      PROVE  /\ aux[t] \in AuxMutBorrow =>
                  /\ aux[u] \notin AuxMutBorrow \cup AuxSharedBorrow
                  /\ pc[u] \in MutBorrow \cup SharedBorrow =>
                       aux[t] = "acceptUser" /\ pc[u] \in {"fxList", "fxUser"}
             /\ aux[t] \in AuxSharedBorrow => pc[u] \notin MutBorrow
  BY <1>1 DEF AuxIInv, AuxSeparated, AuxMutSteps, AcceptSteps, AuxMutBorrow,
     AuxSharedBorrow, MutBorrow, SharedBorrow, Harmless, FxSteps
<1> QED
  BY <1>1 DEF AuxExclusive

(* The auxiliary calls never share the user's object with another call, a  *)
(* mutable borrow among them, but for an effect set while a buffer is      *)
(* accepted (aec/mod.rs).                                                  *)
THEOREM AuxIsExclusive ==
  ASSUME Contract(MayOverlap), AuxContract(AuxOverlap)
  PROVE  AecSpec => []AuxExclusive
BY AuxInvariance, ExclusiveInAuxIInv, PTL

(* AcceptInput hands over a buffer under the formats the user is locked    *)
(* with (aec_accept_input), though it loads the cell once only.            *)
THEOREM AuxGeometryPinned ==
  ASSUME Contract(MayOverlap), AuxContract(AuxOverlap)
  PROVE  AecSpec => []AuxGeometry
<1>1. AuxIInv => AuxGeometry
  BY DEF AuxIInv, AcceptStaysLocked, AuxGeometry
<1> QED
  BY AuxInvariance, <1>1, PTL

(* The user gets buffers of the inputs it agreed to only: add_aux_input    *)
(* comes before, remove_aux_input after.                                   *)
THEOREM AuxInputsKnown ==
  ASSUME Contract(MayOverlap), AuxContract(AuxOverlap)
  PROVE  AecSpec => []AuxBetweenAddAndRemove
<1>1. AuxIInv => AuxBetweenAddAndRemove
  BY DEF AuxIInv, IdsInUse, AnnouncedAreInputs, AuxBetweenAddAndRemove, AcceptSteps
<1> QED
  BY AuxInvariance, <1>1, PTL

-----------------------------------------------------------------------------
(* What holds of the plain object still holds of it with auxiliary inputs. *)

(* A step is one of the plain object, or leaves it as it is but for the    *)
(* result of the last call.                                                *)
LEMMA PlainOrUntouched ==
  ASSUME AuxIInv, [AecNext]_aecVars
  PROVE  [Next]_vars \/ UNCHANGED <<Shared, pc, local, out>>
<1>1. CASE UNCHANGED aecVars
  BY <1>1 DEF aecVars, vars
<1>2. ASSUME NEW t \in Threads, PlainCall(t) PROVE Next
  BY <1>2 DEF PlainCall, Next
<1>3. ASSUME NEW t \in Threads, AuxCall(t) PROVE UNCHANGED <<Shared, pc, local, out>>
  BY <1>3, AuxLeavesPlain
<1> QED
  BY <1>1, <1>2, <1>3 DEF AecNext

(* The auxiliary calls borrow the cell, the cache and the user's object of *)
(* the plain object, and disturb none of its guarantees.                   *)
THEOREM AecKeepsPlain ==
  ASSUME Contract(MayOverlap), AuxContract(AuxOverlap)
  PROVE  AecSpec => [](/\ CallbacksPaired /\ UserExclusive /\ ProcessGeometry
                       /\ LifecycleConsistent /\ NoCacheRace /\ LockedReadsCache
                       /\ OutputAlwaysMarked)
<1>1. AuxIInv => /\ CallbacksPaired /\ UserExclusive /\ ProcessGeometry
                 /\ LifecycleConsistent /\ NoCacheRace /\ LockedReadsCache
                 /\ OutputAlwaysMarked
  <2>1. AuxIInv => IInv /\ LifecycleConsistent
    BY DEF AuxIInv, IInv
  <2> QED
    BY <2>1, CallbacksPairedInIInv, UserExclusiveInIInv, ProcessGeometryInIInv,
       NoCacheRaceInIInv, LockedReadsCacheInIInv, OutputMarkedInIInv
<1> QED
  BY AuxInvariance, <1>1, PTL

(* LockForProcess answers what it did, whatever auxiliary calls answer     *)
(* meanwhile.                                                              *)
THEOREM AecLockAnswers ==
  ASSUME Contract(MayOverlap), AuxContract(AuxOverlap)
  PROVE  AecSpec => LockVerdict
<1>1. ASSUME AuxIInv, [AecNext]_aecVars
      PROVE  [\A t \in Threads : LockAnswer(t)]_vars
  <2>1. CASE [Next]_vars
    BY <1>1, <2>1, StepAnswers DEF AuxIInv
  <2>2. CASE UNCHANGED <<Shared, pc, local, out>>
    BY <2>2, StepSets DEF LockAnswer, At
  <2> QED
    BY <1>1, <2>1, <2>2, PlainOrUntouched
<1> QED
  BY <1>1, AuxInvariance, PTL DEF AecSpec, LockVerdict

(* The object with auxiliary inputs implements the same atomic object: to  *)
(* the plain calls the auxiliary ones are invisible.                       *)
THEOREM AecRefinement ==
  ASSUME Contract(MayOverlap), AuxContract(AuxOverlap)
  PROVE  AecSpec => ImplementsLifecycle
<1>1. AuxInit => Lifecycle!Init
  BY InitImplements DEF AuxInit
<1>2. ASSUME AuxIInv, [AecNext]_aecVars
      PROVE  [Lifecycle!Next]_AbstractVars
  <2>1. CASE [Next]_vars
    BY <1>2, <2>1, StepImplements DEF AuxIInv
  <2>2. CASE UNCHANGED <<Shared, pc, local, out>>
    BY <2>2 DEF Shared, AbstractVars, AbstractPhase, AbstractServing, ServingOf
  <2> QED
    BY <1>2, <2>1, <2>2, PlainOrUntouched
<1> QED
  BY <1>1, <1>2, AuxInvariance, PTL
    DEF AecSpec, ImplementsLifecycle, Lifecycle!Spec, AbstractVars

-----------------------------------------------------------------------------
(* The whole object, plain and auxiliary, one method at a time.            *)

(* No effect is being set while a buffer is accepted.                      *)
AcceptApart ==
  \A t, u \in Threads : t # u /\ aux[t] \in AcceptSteps => pc[u] \notin FxSteps

LEMMA AcceptStaysApart ==
  ASSUME AuxIInv, AcceptApart, [AecNext]_aecVars,
         {"accept_aux_input", "set_system_effect_state"} \notin AuxOverlap
  PROVE  AcceptApart'
<1>1. CASE UNCHANGED aecVars
  BY <1>1 DEF aecVars, vars, auxVars, AcceptApart
<1>2. ASSUME NEW t \in Threads, PlainCall(t) PROVE AcceptApart'
  <2>1. /\ TypeOK /\ Call(t) /\ aux' = aux
        /\ pc[t] = "idle" => \A o \in Ops : pc'[t] \in Steps[o] => Allowed(t, o)
    BY <1>2 DEF PlainCall, auxVars, AuxIInv, IInv
  <2>2. PICK o \in Ops : {pc[t], pc'[t]} \subseteq Steps[o] \cup {"idle"}
    BY <2>1, CallMoves
  <2>3. ASSUME NEW u \in Threads \ {t}, aux[u] \in AcceptSteps PROVE pc'[t] \notin FxSteps
    <3>1. CASE pc[t] = "idle"
      <4>1. pc'[t] \in FxSteps => Allowed(t, "set_system_effect_state")
        BY <2>1, <3>1, StepSets DEF FxSteps
      <4>2. Allowed(t, "set_system_effect_state") =>
              {"set_system_effect_state", "accept_aux_input"} \in AuxOverlap
        BY <2>3, AuxStepSets DEF Allowed, AcceptSteps
      <4>3. {"set_system_effect_state", "accept_aux_input"}
              = {"accept_aux_input", "set_system_effect_state"}
        OBVIOUS
      <4> QED
        BY <4>1, <4>2, <4>3
    <3>2. CASE pc[t] # "idle"
      <4>1. pc[t] \notin FxSteps
        BY <2>3 DEF AcceptApart
      <4> QED
        BY <2>2, <3>2, <4>1, StepSets DEF FxSteps
    <3> QED
      BY <3>1, <3>2
  <2>4. \A u \in Threads \ {t} : pc'[u] = pc[u]
    BY <2>1, CallMoves
  <2> QED
    BY <2>1, <2>3, <2>4 DEF AcceptApart
<1>3. ASSUME NEW t \in Threads, AuxCall(t) PROVE AcceptApart'
  <2>1. pc' = pc
    BY <1>3, AuxLeavesPlain
  <2>2. /\ \A u \in Threads \ {t} : aux'[u] = aux[u]
        /\ aux'[t] \in AcceptSteps =>
             aux[t] \in AcceptSteps \/ MayStartAux(t, "accept_aux_input")
    <3> USE DEF AuxIInv, AuxTypeOK, AuxReturn, AuxStart, AuxEnd, AuxGoto, AcceptSteps
    <3>1. CASE RejectAdd(t) \/ CallAdd(t) \/ AddOk(t) \/ AddErr(t)
      BY <3>1 DEF RejectAdd, CallAdd, AddOk, AddErr, auxVars
    <3>2. CASE CallRemove(t) \/ RemoveUser(t) \/ CallQuery(t) \/ QueryUser(t)
      BY <3>2 DEF CallRemove, RemoveUser, CallQuery, QueryUser
    <3>3. CASE CallAccept(t) \/ AcceptLoad(t) \/ AcceptUser(t)
      BY <3>3 DEF CallAccept, AcceptLoad, AcceptUser
    <3>4. CASE AcceptCache(t)
      BY <3>4 DEF AcceptCache, AcceptWith
    <3> QED
      BY <1>3, <3>1, <3>2, <3>3, <3>4 DEF AuxCall
  <2>3. ASSUME NEW u \in Threads \ {t}, MayStartAux(t, "accept_aux_input")
        PROVE  pc[u] \notin FxSteps
    BY <2>3, StepSets DEF MayStartAux, FxSteps
  <2> QED
    BY <2>1, <2>2, <2>3 DEF AcceptApart
<1> QED
  BY <1>1, <1>2, <1>3 DEF AecNext

(* Any two methods that hold the user's object both hold it shared.        *)
AecOneMethodAtATime ==
  /\ OneMethodAtATime
  /\ \A t, u \in Threads : t # u =>
       /\ aux[t] \in AuxMutBorrow =>
            /\ aux[u] \notin AuxMutBorrow \cup AuxSharedBorrow
            /\ pc[u] \notin MutBorrow \cup SharedBorrow
       /\ aux[t] \in AuxSharedBorrow => pc[u] \notin MutBorrow

(* With an engine that sets effects neither during APOProcess nor during   *)
(* AcceptInput, "exactly one of the wrappers' methods touches T at any     *)
(* moment" (instance.rs) is true of an echo canceller too.                 *)
THEOREM AecOneMethodWhenEffectsApart ==
  ASSUME Contract(MayOverlap), AuxContract(AuxOverlap),
         {"process", "set_system_effect_state"} \notin MayOverlap,
         {"accept_aux_input", "set_system_effect_state"} \notin AuxOverlap
  PROVE  AecSpec => []AecOneMethodAtATime
<1>1. AuxInit => EffectsApart /\ AcceptApart
  BY DEF AuxInit, Init, EffectsApart, AcceptApart, At, FxSteps, AcceptSteps
<1>2. ASSUME AuxIInv, EffectsApart, [AecNext]_aecVars PROVE EffectsApart'
  <2>1. TypeOK
    BY <1>2 DEF AuxIInv, IInv
  <2>2. CASE UNCHANGED <<Shared, pc, local, out>> \/ UNCHANGED vars
    BY <1>2, <2>2 DEF EffectsApart, At, vars
  <2>3. CASE Next
    BY <1>2, <2>1, <2>3, EffectsStayApart DEF Next
  <2> QED
    BY <1>2, <2>2, <2>3, PlainOrUntouched
<1>3. AuxIInv /\ AcceptApart /\ [AecNext]_aecVars => AcceptApart'
  BY AcceptStaysApart
<1>4. ASSUME AuxIInv, EffectsApart, AcceptApart PROVE AecOneMethodAtATime
  <2>1. OneMethodAtATime
    BY <1>4, UserExclusiveInIInv, ExclusiveWithoutEffects DEF AuxIInv
  <2>2. AuxExclusive
    BY <1>4, ExclusiveInAuxIInv
  <2>3. ASSUME NEW t \in Threads, NEW u \in Threads, t # u, aux[t] = "acceptUser"
        PROVE  pc[u] \notin {"fxList", "fxUser"}
    BY <1>4, <2>3 DEF AcceptApart, AcceptSteps, FxSteps
  <2> QED
    BY <2>1, <2>2, <2>3 DEF AuxExclusive, AecOneMethodAtATime
<1> QED
  BY <1>1, <1>2, <1>3, <1>4, AuxInvariance, PTL DEF AecSpec
-----------------------------------------------------------------------------
(* The atomic object with auxiliary inputs.                                *)

(* The user has no input that the engine does not know of, but for one     *)
(* that it is being asked to remove: an add is always of a new input.      *)
KnownAreAnnounced ==
  \A i \in AuxIds \ announced : inputs[i] # None =>
    \E t \in Threads : aux[t] = "removeUser" /\ carried[t].id = i

(* What each auxiliary step does to what the user and the engine know.     *)
LEMMA KnownStep ==
  ASSUME AuxIInv, KnownAreAnnounced, [AecNext]_aecVars
  PROVE  KnownAreAnnounced'
<1>1. CASE UNCHANGED aecVars \/ \E t \in Threads : PlainCall(t)
  BY <1>1 DEF aecVars, auxVars, PlainCall, KnownAreAnnounced
<1>2. ASSUME NEW t \in Threads, AuxCall(t) PROVE KnownAreAnnounced'
  <2> SUFFICES ASSUME NEW i \in AuxIds, i \notin announced', inputs'[i] # None
               PROVE  \E u \in Threads : aux'[u] = "removeUser" /\ carried'[u].id = i
    BY DEF KnownAreAnnounced
  <2> USE DEF AuxIInv, AuxTypeOK, KnownAreAnnounced
  <2>1. CASE RejectAdd(t) \/ AddErr(t) \/ CallAdd(t)
    BY <2>1 DEF RejectAdd, AddErr, CallAdd, AuxStart, AuxReturn, AuxEnd, AuxGoto, auxVars
  <2>2. CASE AddOk(t)
    BY <2>2 DEF AddOk, AuxReturn, AuxEnd, AuxGoto
  <2>3. CASE CallRemove(t)
    BY <2>3 DEF CallRemove, AuxStart, AuxGoto
  <2>4. CASE RemoveUser(t)
    <3>1. /\ aux[t] = "removeUser" /\ announced' = announced
          /\ inputs' = [inputs EXCEPT ![carried[t].id] = None]
          /\ \A u \in Threads \ {t} : aux'[u] = aux[u] /\ carried'[u] = carried[u]
      BY <2>4 DEF RemoveUser, AuxReturn, AuxEnd, AuxGoto
    <3>2. i # carried[t].id /\ inputs[i] # None
      BY <3>1
    <3>3. PICK u \in Threads : aux[u] = "removeUser" /\ carried[u].id = i
      BY <3>1, <3>2
    <3> QED
      BY <3>1, <3>2, <3>3
  <2>5. CASE CallQuery(t) \/ QueryUser(t)
    BY <2>5 DEF CallQuery, QueryUser, AuxReturn, AuxEnd, AuxGoto
  <2>6. CASE CallAccept(t) \/ AcceptLoad(t) \/ AcceptUser(t)
    BY <2>6 DEF CallAccept, AcceptLoad, AcceptUser, AuxStart, AuxEnd, AuxGoto
  <2>7. CASE AcceptCache(t)
    BY <2>7 DEF AcceptCache, AcceptWith, AuxEnd, AuxGoto
  <2> QED
    BY <1>2, <2>1, <2>2, <2>3, <2>4, <2>5, <2>6, <2>7 DEF AuxCall
<1> QED
  BY <1>1, <1>2 DEF AecNext

(* At most one thread hands a buffer over, and the abstract object sees it. *)
LEMMA AcceptingAre ==
  ASSUME AuxIInv
  PROVE  /\ \A t \in Threads : aux[t] = "acceptUser" => AbstractAccepting = carried[t]
         /\ (\A t \in Threads : aux[t] # "acceptUser") => AbstractAccepting = None
<1>1. ASSUME NEW t \in Threads, aux[t] = "acceptUser" PROVE AbstractAccepting = carried[t]
  <2>1. {u \in Threads : aux[u] = "acceptUser"} = {t}
    BY <1>1 DEF AuxIInv, AuxSeparated, AcceptSteps
  <2> QED
    BY <2>1 DEF AbstractAccepting, AcceptingOf
<1>2. ASSUME \A t \in Threads : aux[t] # "acceptUser" PROVE AbstractAccepting = None
  <2>1. {u \in Threads : aux[u] = "acceptUser"} = {}
    BY <1>2
  <2> QED
    BY <2>1 DEF AbstractAccepting, AcceptingOf
<1> QED
  BY <1>1, <1>2

(* While an auxiliary call that the user serves, or one that hands over a  *)
(* buffer, is in flight, no other call has the user process anything.      *)
LEMMA AuxAtRest ==
  ASSUME AuxIInv, NEW t \in Threads, aux[t] \in AuxMutSteps \cup {"acceptCache"}
  PROVE  AbstractServing = None /\ AbstractAccepting = None
<1>1. \A u \in Threads : pc[u] # "procUser" /\ aux[u] # "acceptUser"
  BY DEF AuxIInv, AuxSeparated, AuxMutSteps, AcceptSteps, Harmless, FxSteps
<1>2. {u \in Threads : pc[u] = "procUser"} = {}
  BY <1>1
<1> QED
  BY <1>1, <1>2, AcceptingAre DEF AbstractServing, ServingOf

-----------------------------------------------------------------------------
(* The auxiliary calls, step by step.                                      *)

LEMMA AddImplements ==
  ASSUME AuxIInv, AuxIInv', KnownAreAnnounced, NEW t \in Threads, AddOk(t)
  PROVE  EchoLifecycle!AddInput
<1>1. /\ aux[t] = "addUser" /\ aux' = [aux EXCEPT ![t] = "idle"]
      /\ inputs' = [inputs EXCEPT ![carried[t].id] = carried[t].formats]
      /\ UNCHANGED <<Shared, pc, local>>
  BY DEF AddOk, AuxReturn, AuxEnd, AuxGoto
<1>2. AbstractServing = None /\ AbstractAccepting = None
  BY <1>1, AuxAtRest DEF AuxMutSteps
<1>3. /\ carried[t].id \in AuxIds /\ carried[t].id \notin announced
      /\ carried[t].formats \in Formats
  BY <1>1 DEF AuxIInv, IdsInUse, AuxMutSteps
<1>4. inputs[carried[t].id] = None
  BY <1>1, <1>3 DEF KnownAreAnnounced, AuxIInv, AuxSeparated, AuxMutSteps
<1>5. /\ KnownInputs' = KnownInputs \cup {carried[t].id}
      /\ carried[t].id \in AuxIds \ KnownInputs
  BY <1>1, <1>3, <1>4, AuxFormatsAssumption DEF AuxIInv, AuxTypeOK, KnownInputs
<1>6. AbstractAccepting' = None
  <2>1. \A u \in Threads : aux'[u] # "acceptUser"
    BY <1>1 DEF AuxIInv, AuxTypeOK, AuxSeparated, AuxMutSteps
  <2> QED
    BY <2>1 DEF AbstractAccepting, AcceptingOf
<1>7. UNCHANGED <<AbstractPhase, cache, AbstractServing>>
  BY <1>1 DEF Shared, AbstractPhase, AbstractServing, ServingOf
<1> QED
  BY <1>2, <1>5, <1>6, <1>7
     DEF EchoLifecycle!AddInput, EchoLifecycle!AtRest, EchoLifecycle!lifecycle

LEMMA RemoveImplements ==
  ASSUME AuxIInv, NEW t \in Threads, RemoveUser(t)
  PROVE  EchoLifecycle!RemoveInput \/ (UNCHANGED KnownInputs /\ UNCHANGED AbstractAccepting)
<1>1. /\ aux[t] = "removeUser" /\ aux' = [aux EXCEPT ![t] = "idle"]
      /\ inputs' = [inputs EXCEPT ![carried[t].id] = None]
      /\ UNCHANGED <<Shared, pc, local>>
  BY DEF RemoveUser, AuxReturn, AuxEnd, AuxGoto
<1>2. AbstractServing = None /\ AbstractAccepting = None
  BY <1>1, AuxAtRest DEF AuxMutSteps
<1>3. carried[t].id \in AuxIds
  BY <1>1 DEF AuxIInv, IdsInUse, AuxMutSteps
<1>4. KnownInputs' = KnownInputs \ {carried[t].id}
  BY <1>1, <1>3 DEF AuxIInv, AuxTypeOK, KnownInputs
<1>5. AbstractAccepting' = None
  <2>1. \A u \in Threads : aux'[u] # "acceptUser"
    BY <1>1 DEF AuxIInv, AuxTypeOK, AuxSeparated, AuxMutSteps
  <2> QED
    BY <2>1 DEF AbstractAccepting, AcceptingOf
<1>6. UNCHANGED <<AbstractPhase, cache, AbstractServing>>
  BY <1>1 DEF Shared, AbstractPhase, AbstractServing, ServingOf
<1>7. CASE carried[t].id \in KnownInputs
  BY <1>2, <1>4, <1>5, <1>6, <1>7
     DEF EchoLifecycle!RemoveInput, EchoLifecycle!AtRest, EchoLifecycle!lifecycle
<1>8. CASE carried[t].id \notin KnownInputs
  BY <1>2, <1>4, <1>5, <1>8
<1> QED
  BY <1>7, <1>8

LEMMA BeginImplements ==
  ASSUME AuxIInv, AuxIInv', NEW t \in Threads, AcceptCache(t)
  PROVE  EchoLifecycle!BeginAccept \/ (UNCHANGED KnownInputs /\ UNCHANGED AbstractAccepting)
<1>1. aux[t] = "acceptCache" /\ UNCHANGED <<vars, inputs, announced>>
  BY DEF AcceptCache, AcceptWith, AuxEnd, AuxGoto
<1>2. AbstractServing = None /\ AbstractAccepting = None
  BY <1>1, AuxAtRest
<1>3. KnownInputs' = KnownInputs
  BY <1>1 DEF KnownInputs
<1>4. CASE aux'[t] = "acceptUser"
  <2>1. PICK f : carried' = [carried EXCEPT ![t].formats = f]
    BY <1>4 DEF AcceptCache, AcceptWith, AuxEnd, AuxGoto, AuxIInv, AuxTypeOK
  <2>2. carried[t] \in [id : AuxIds, formats : Formats \cup FormatPairs \cup {None}]
        /\ carried[t].id \in announced
    BY <1>1 DEF AuxIInv, IdsInUse, AcceptSteps
  <2>3. carried'[t] = [id |-> carried[t].id, formats |-> f]
    BY <2>1, <2>2 DEF AuxIInv, AuxTypeOK
  <2>4. /\ st = "Locked" /\ f = cache /\ cache # None /\ cache.input \in Processable
    <3>1. /\ carried'[t].formats = user' /\ cache' = user' /\ user' # None
          /\ user'.input \in Processable /\ st' = "Locked"
      BY <1>4 DEF AuxIInv, AcceptStaysLocked
    <3>2. cache' = cache /\ user' = user /\ st' = st
      BY <1>1 DEF vars, Shared
    <3> QED
      BY <2>3, <3>1, <3>2
  <2>5. AbstractAccepting' = carried'[t]
    <3>1. {u \in Threads : aux'[u] = "acceptUser"} = {t}
      BY <1>4 DEF AuxIInv, AuxSeparated, AcceptSteps
    <3> QED
      BY <3>1 DEF AbstractAccepting, AcceptingOf
  <2>6. carried[t].id \in KnownInputs
    BY <2>2 DEF AuxIInv, AnnouncedAreInputs, KnownInputs
  <2>7. UNCHANGED <<AbstractPhase, cache, AbstractServing>>
    BY <1>1 DEF vars, AbstractPhase, AbstractServing, ServingOf
  <2>8. AbstractPhase = "Locked"
    BY <2>4 DEF AbstractPhase
  <2> QED
    BY <1>2, <1>3, <2>3, <2>4, <2>5, <2>6, <2>7, <2>8
       DEF EchoLifecycle!BeginAccept, EchoLifecycle!AtRest, EchoLifecycle!lifecycle
<1>5. CASE aux'[t] # "acceptUser"
  <2>1. \A u \in Threads : aux'[u] # "acceptUser"
    BY <1>1, <1>5 DEF AcceptCache, AcceptWith, AuxEnd, AuxGoto, AuxIInv, AuxTypeOK,
       AuxSeparated, AcceptSteps
  <2> QED
    BY <1>2, <1>3, <2>1 DEF AbstractAccepting, AcceptingOf
<1> QED
  BY <1>4, <1>5

LEMMA EndImplements ==
  ASSUME AuxIInv, NEW t \in Threads, AcceptUser(t)
  PROVE  EchoLifecycle!EndAccept
<1>1. /\ aux[t] = "acceptUser" /\ aux' = [aux EXCEPT ![t] = "idle"]
      /\ UNCHANGED <<vars, inputs>>
  BY DEF AcceptUser, AuxEnd, AuxGoto
<1>2. AbstractAccepting = carried[t] /\ carried[t] # None
  <2>1. carried[t].formats = user /\ user \in FormatPairs
    BY <1>1 DEF AuxIInv, AcceptStaysLocked, IInv, TypeOK
  <2>2. carried[t] \in [id : AuxIds, formats : Formats \cup FormatPairs \cup {None}]
    BY <1>1 DEF AuxIInv, IdsInUse, AcceptSteps
  <2>3. carried[t] \in [id : AuxIds, formats : FormatPairs]
    BY <2>1, <2>2
  <2> QED
    BY <1>1, <2>3, AcceptingAre, AuxFormatsAssumption
<1>3. AbstractAccepting' = None
  <2>1. \A u \in Threads : aux'[u] # "acceptUser"
    BY <1>1 DEF AuxIInv, AuxTypeOK, AuxSeparated, AcceptSteps
  <2> QED
    BY <2>1 DEF AbstractAccepting, AcceptingOf
<1>4. UNCHANGED <<AbstractPhase, cache, AbstractServing, KnownInputs>>
  BY <1>1 DEF vars, AbstractPhase, AbstractServing, ServingOf, KnownInputs
<1> QED
  BY <1>2, <1>3, <1>4 DEF EchoLifecycle!EndAccept, EchoLifecycle!lifecycle
-----------------------------------------------------------------------------
(* The plain calls, and the whole.                                         *)

(* While a buffer is handed over, what may run beside it leaves the plain  *)
(* object where it is: the lock is not taken away under AcceptInput.       *)
LEMMA PlainImplements ==
  ASSUME AuxIInv, NEW t \in Threads, PlainCall(t)
  PROVE  [EchoLifecycle!EchoNext]_<<EchoLifecycle!lifecycle, KnownInputs, AbstractAccepting>>
<1>1. IInv /\ TypeOK /\ Call(t) /\ UNCHANGED auxVars
  BY DEF AuxIInv, IInv, PlainCall
<1>2. UNCHANGED <<KnownInputs, AbstractAccepting>>
  BY <1>1 DEF auxVars, KnownInputs, AbstractAccepting, AcceptingOf
<1>3. CASE AbstractAccepting = None
  <2>1. [Lifecycle!Next]_AbstractVars
    BY <1>1, StepImplements DEF Next
  <2>2. Lifecycle!Next => EchoLifecycle!Next
    BY DEF Lifecycle!Next, EchoLifecycle!Next,
      Lifecycle!Initialize, EchoLifecycle!Initialize,
      Lifecycle!LockForProcess, EchoLifecycle!LockForProcess,
      Lifecycle!BeginProcess, EchoLifecycle!BeginProcess,
      Lifecycle!EndProcess, EchoLifecycle!EndProcess,
      Lifecycle!UnlockForProcess, EchoLifecycle!UnlockForProcess,
      Lifecycle!FormatPairs, EchoLifecycle!FormatPairs
  <2> QED
    BY <1>2, <1>3, <2>1, <2>2
       DEF AbstractVars, EchoLifecycle!lifecycle, EchoLifecycle!EchoNext, EchoLifecycle!MainCall
<1>4. CASE AbstractAccepting # None
  <2>1. PICK u \in Threads : aux[u] = "acceptUser"
    BY <1>4, AcceptingAre
  <2>2. st = "Locked" /\ pc[t] \in Harmless \cup FxSteps
    BY <2>1 DEF PlainCall, AuxIInv, AcceptStaysLocked, AuxSeparated, AcceptSteps
  <2>3. UNCHANGED Shared
    BY <1>1, <2>2, HarmlessKeepLock
  <2>4. \A v \in Threads : pc[v] # "procUser" /\ pc'[v] # "procUser"
    <3>1. \A v \in Threads : pc[v] # "procUser"
      BY <2>1 DEF AuxIInv, AuxSeparated, AcceptSteps, Harmless, FxSteps
    <3>2. \A v \in Threads \ {t} : pc'[v] = pc[v]
      BY <1>1, CallMoves
    <3>3. pc'[t] # "procUser"
      BY <1>1, <2>2, HarmlessKeepLock
    <3> QED
      BY <3>1, <3>2, <3>3
  <2>5. AbstractServing = None /\ AbstractServing' = None
    BY <2>4 DEF AbstractServing, ServingOf
  <2> QED
    BY <1>2, <2>3, <2>5 DEF Shared, AbstractPhase, EchoLifecycle!lifecycle
<1> QED
  BY <1>3, <1>4

(* Every other auxiliary step is invisible.                                *)
LEMMA AuxImplements ==
  ASSUME AuxIInv, AuxIInv', KnownAreAnnounced, NEW t \in Threads, AuxCall(t)
  PROVE  [EchoLifecycle!EchoNext]_<<EchoLifecycle!lifecycle, KnownInputs, AbstractAccepting>>
<1>0. UNCHANGED <<Shared, pc, local, out>>
  BY AuxLeavesPlain
<1>1. UNCHANGED <<AbstractPhase, cache, AbstractServing>>
  BY <1>0 DEF Shared, AbstractPhase, AbstractServing, ServingOf
<1>2. CASE AddOk(t)
  BY <1>2, AddImplements DEF EchoLifecycle!EchoNext
<1>3. CASE RemoveUser(t)
  BY <1>1, <1>3, RemoveImplements DEF EchoLifecycle!EchoNext, EchoLifecycle!lifecycle
<1>4. CASE AcceptCache(t)
  BY <1>1, <1>4, BeginImplements DEF EchoLifecycle!EchoNext, EchoLifecycle!lifecycle
<1>5. CASE AcceptUser(t)
  BY <1>5, EndImplements DEF EchoLifecycle!EchoNext
<1>6. CASE \/ RejectAdd(t) \/ CallAdd(t) \/ AddErr(t) \/ CallRemove(t)
           \/ CallQuery(t) \/ QueryUser(t) \/ CallAccept(t) \/ AcceptLoad(t)
  <2>1. /\ KnownInputs' = KnownInputs
        /\ aux[t] # "acceptUser" /\ aux'[t] # "acceptUser"
        /\ \A u \in Threads \ {t} : aux'[u] = aux[u] /\ carried'[u] = carried[u]
    <3> USE DEF AuxIInv, AuxTypeOK, KnownInputs, AuxStart, AuxReturn, AuxEnd, AuxGoto, auxVars
    <3>1. CASE RejectAdd(t) \/ CallAdd(t) \/ AddErr(t) \/ CallRemove(t)
      BY <3>1 DEF RejectAdd, MayStartAux, CallAdd, AddErr, CallRemove
    <3>2. CASE CallQuery(t) \/ QueryUser(t)
      BY <3>2 DEF CallQuery, QueryUser
    <3>3. CASE CallAccept(t) \/ AcceptLoad(t)
      BY <3>3 DEF CallAccept, AcceptLoad
    <3> QED
      BY <1>6, <3>1, <3>2, <3>3
  <2>2. AbstractAccepting' = AbstractAccepting
    <3>1. CASE \E u \in Threads : aux[u] = "acceptUser"
      <4>1. PICK u \in Threads : aux[u] = "acceptUser"
        BY <3>1
      <4>2. u # t /\ aux'[u] = "acceptUser" /\ carried'[u] = carried[u]
        BY <2>1, <4>1
      <4>3. {v \in Threads : aux'[v] = "acceptUser"} = {u}
        BY <4>2 DEF AuxIInv, AuxSeparated, AcceptSteps
      <4>4. AbstractAccepting' = carried'[u]
        BY <4>3 DEF AbstractAccepting, AcceptingOf
      <4> QED
        BY <4>1, <4>2, <4>4, AcceptingAre
    <3>2. CASE \A u \in Threads : aux[u] # "acceptUser"
      <4>1. {v \in Threads : aux'[v] = "acceptUser"} = {}
        BY <2>1, <3>2
      <4>2. AbstractAccepting' = None
        BY <4>1 DEF AbstractAccepting, AcceptingOf
      <4> QED
        BY <3>2, <4>2, AcceptingAre
    <3> QED
      BY <3>1, <3>2
  <2> QED
    BY <1>1, <2>1, <2>2 DEF EchoLifecycle!lifecycle
<1> QED
  BY <1>2, <1>3, <1>4, <1>5, <1>6 DEF AuxCall

LEMMA EchoInitImplements == AuxInit => EchoLifecycle!EchoInit /\ KnownAreAnnounced
<1> SUFFICES ASSUME AuxInit PROVE EchoLifecycle!EchoInit /\ KnownAreAnnounced
  OBVIOUS
<1>1. EchoLifecycle!Init
  BY InitImplements DEF AuxInit, Lifecycle!Init, EchoLifecycle!Init
<1>2. AbstractAccepting = None
  BY AuxInitInv, AcceptingAre DEF AuxInit
<1>3. KnownInputs = {}
  BY DEF AuxInit, KnownInputs
<1>4. KnownAreAnnounced
  BY DEF AuxInit, KnownAreAnnounced
<1> QED
  BY <1>1, <1>2, <1>3, <1>4 DEF EchoLifecycle!EchoInit

(* An echo canceller implements AecLifecycle: the user's inputs come and   *)
(* go one at a time and only between buffers, and a buffer is handed over  *)
(* for one of them, under the lock that holds (aec_accept_input).          *)
THEOREM EchoRefinement ==
  ASSUME Contract(MayOverlap), AuxContract(AuxOverlap)
  PROVE  AecSpec => ImplementsEchoLifecycle
<1>1. ASSUME AuxIInv, AuxIInv', KnownAreAnnounced, [AecNext]_aecVars
      PROVE  [EchoLifecycle!EchoNext]_<<EchoLifecycle!lifecycle, KnownInputs, AbstractAccepting>>
  <2>1. CASE UNCHANGED aecVars
    BY <2>1 DEF aecVars, vars, auxVars, EchoLifecycle!lifecycle, KnownInputs, AbstractPhase,
      AbstractServing, ServingOf, AbstractAccepting, AcceptingOf
  <2>2. CASE AecNext
    BY <1>1, <2>2, PlainImplements, AuxImplements DEF AecNext
  <2> QED
    BY <1>1, <2>1, <2>2
<1>2. AuxIInv /\ KnownAreAnnounced /\ [AecNext]_aecVars => KnownAreAnnounced'
  BY KnownStep
<1> QED
  BY <1>1, <1>2, EchoInitImplements, AuxInvariance, PTL
    DEF AecSpec, ImplementsEchoLifecycle, EchoLifecycle!EchoSpec
=============================================================================
