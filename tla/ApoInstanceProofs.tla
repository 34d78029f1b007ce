------------------------- MODULE ApoInstanceProofs -------------------------
(***************************************************************************)
(* The safety of ApoInstance for any number of threads, formats and        *)
(* requests, under any engine that keeps the contract.                     *)
(***************************************************************************)
EXTENDS ApoInstance, TLAPS

-----------------------------------------------------------------------------
(* The inductive invariant.                                                *)

FxSteps == {"fxList", "fxUser"}

(* The contract, read off the steps in flight.                             *)
Separated ==
  \A t, u \in Threads : t # u =>
    /\ At(t, Steps.unlock_for_process) => At(u, {"idle", "initCas"})
    /\ At(t, Steps.lock_for_process) =>
         At(u, {"idle", "initCas"} \cup Steps.lock_for_process)
    /\ At(t, Steps.process) =>
         At(u, {"idle", "initCas", "chanLoad", "chanCache"} \cup FxSteps)
    /\ At(t, FxSteps) => ~At(u, {"readUser"} \cup FxSteps)

(* A lock past its compare_exchange is alone with the cell and the user.   *)
LockingAlone ==
  \A t \in Threads :
    /\ At(t, {"lockCas"} \cup Locking) => local[t] \in FormatPairs
    /\ At(t, Locking) =>
         /\ st = "Locked" /\ cache = None
         /\ user = IF pc[t] = "lockCache" THEN local[t] ELSE None
         /\ \A u \in Threads \ {t} : ~At(u, Locking)

(* An unlock takes down the user, the cache and the cell in that order.    *)
UnlockingInOrder ==
  \A t \in Threads :
    /\ At(t, Unlocking) => st = "Locked"
    /\ At(t, {"unlockUser"}) => cache = user /\ user # None
    /\ At(t, {"unlockClear", "unlockCas"}) => user = None
    /\ At(t, {"unlockCas"}) => cache = None

(* A thread that saw Locked still sees it, and what it copied is current.  *)
LockedStays ==
  \A t \in Threads :
    /\ At(t, {"procCache", "procRecheck", "procUser", "chanCache"}) => st = "Locked"
    /\ At(t, {"procRecheck", "procUser"}) =>
         /\ local[t] = cache /\ cache = user /\ cache # None
         /\ cache.input \in Processable

EffectsHeld == \A t \in Threads : At(t, FxSteps) => local[t] \in EffectArgs

(* Only an APOProcess in flight has an output still to write.              *)
OutputPending ==
  \A t \in Threads : out[t] = Unwritten => At(t, Steps.process)

IInv ==
  /\ TypeOK
  /\ Separated
  /\ LockingAlone
  /\ UnlockingInOrder
  /\ LifecycleConsistent
  /\ LockedStays
  /\ EffectsHeld
  /\ OutputPending

-----------------------------------------------------------------------------
(* The steps and operations, spelled out.                                  *)
LEMMA StepSets ==
  /\ Ops = {"initialize", "lock_for_process", "unlock_for_process", "process",
            "locked_formats", "negotiate", "set_system_effect_state"}
  /\ Steps.initialize = {"initCas"}
  /\ Steps.lock_for_process = {"lockCas", "lockUser", "lockCache", "lockRollback"}
  /\ Steps.unlock_for_process = {"unlockLoad", "unlockUser", "unlockClear", "unlockCas"}
  /\ Steps.process = {"procLoad", "procCache", "procRecheck", "procUser"}
  /\ Steps.locked_formats = {"chanLoad", "chanCache"}
  /\ Steps.negotiate = {"readUser"}
  /\ Steps.set_system_effect_state = {"fxList", "fxUser"}
BY DEF Steps, Ops

LEMMA AllPCs ==
  PCs = {"idle", "initCas", "lockCas", "lockUser", "lockCache", "lockRollback",
         "unlockLoad", "unlockUser", "unlockClear", "unlockCas",
         "procLoad", "procCache", "procRecheck", "procUser",
         "chanLoad", "chanCache", "readUser", "fxList", "fxUser"}
<1>1. \A s : s \in PCs <=> s = "idle" \/ \E o \in Ops : s \in Steps[o]
  BY DEF PCs
<1>2. QED
  BY <1>1, StepSets

(* Where the other threads are when a call may start.                      *)
LEMMA StartUnlock ==
  ASSUME TypeOK, Contract(MayOverlap), NEW t \in Threads, NEW u \in Threads \ {t},
         MayStart(t, "unlock_for_process")
  PROVE  At(u, {"idle", "initCas"})
  BY StepSets, AllPCs DEF TypeOK, Contract, MayStart, At

LEMMA StartLock ==
  ASSUME TypeOK, Contract(MayOverlap), NEW t \in Threads, NEW u \in Threads \ {t},
         MayStart(t, "lock_for_process")
  PROVE  At(u, {"idle", "initCas"} \cup Steps.lock_for_process)
  BY StepSets, AllPCs DEF TypeOK, Contract, MayStart, At

LEMMA StartProcess ==
  ASSUME TypeOK, Contract(MayOverlap), NEW t \in Threads, NEW u \in Threads \ {t},
         MayStart(t, "process")
  PROVE  At(u, {"idle", "initCas", "chanLoad", "chanCache"} \cup FxSteps)
  BY StepSets, AllPCs DEF TypeOK, Contract, MayStart, At, FxSteps

LEMMA StartChannels ==
  ASSUME TypeOK, Contract(MayOverlap), NEW t \in Threads, NEW u \in Threads \ {t},
         MayStart(t, "locked_formats")
  PROVE  ~At(u, Steps.lock_for_process \cup Steps.unlock_for_process)
  BY StepSets, AllPCs DEF TypeOK, Contract, MayStart, At

LEMMA StartRead ==
  ASSUME TypeOK, Contract(MayOverlap), NEW t \in Threads, NEW u \in Threads \ {t},
         MayStart(t, "negotiate")
  PROVE  At(u, {"idle", "initCas", "chanLoad", "chanCache", "readUser"})
  BY StepSets, AllPCs DEF TypeOK, Contract, MayStart, At

LEMMA StartEffect ==
  ASSUME TypeOK, Contract(MayOverlap), NEW t \in Threads, NEW u \in Threads \ {t},
         MayStart(t, "set_system_effect_state")
  PROVE  At(u, {"idle", "initCas", "chanLoad", "chanCache"} \cup Steps.process)
  BY StepSets, AllPCs DEF TypeOK, Contract, MayStart, At

-----------------------------------------------------------------------------
(* The invariant is inductive: it holds at first and every step of every   *)
(* call keeps it.                                                          *)
LEMMA InitInvariant == Init => IInv
BY AllPCs DEF Init, IInv, TypeOK, Separated, LockingAlone, UnlockingInOrder,
  LifecycleConsistent, LockedStays, EffectsHeld, OutputPending, At, Locking,
  Unlocking, FxSteps, States, Results, Outputs, Unreachable, Unwritten, Steps

LEMMA StepInvariant ==
  ASSUME IInv, Contract(MayOverlap), NEW t \in Threads
  PROVE  /\ CallInitialize(t) \/ InitCas(t) => IInv'
         /\ \/ RejectLock(t) \/ CallLock(t) \/ LockCas(t) \/ LockRefused(t)
            \/ LockUserOk(t) \/ LockUserErr(t) \/ LockCache(t) \/ LockRollback(t)
            => IInv'
         /\ \/ CallUnlock(t) \/ UnlockLoad(t) \/ UnlockRefused(t)
            \/ UnlockUser(t) \/ UnlockClear(t) \/ UnlockCas(t)
            => IInv'
         /\ CallChannels(t) \/ ChanLoad(t) \/ ChanCache(t) => IInv'
         /\ \/ RejectProcess(t) \/ CallProcess(t) \/ ProcLoad(t) \/ ProcCache(t)
            \/ ProcRecheck(t) \/ ProcUser(t)
            => IInv'
         /\ CallRead(t) \/ ReadUser(t) => IInv'
         /\ CallSetEffect(t) \/ FxList(t) \/ FxUser(t) => IInv'
<1> USE StepSets, AllPCs
    DEF IInv, TypeOK, Separated, LockingAlone, UnlockingInOrder, LifecycleConsistent,
        LockedStays, EffectsHeld, OutputPending, At, Locking, Unlocking, FxSteps,
        States, Results, Outputs, Written, Unwritten, Unreachable, Silent,
        Shared, Goto, Step, StepWith, Return, Finish
<1>1. CallInitialize(t) \/ InitCas(t) => IInv'
  <2>1. CallInitialize(t) => IInv'
    BY DEF CallInitialize, MayStart
  <2>2. InitCas(t) => IInv'
    BY DEF InitCas
  <2> QED
    BY <2>1, <2>2
<1>2. \/ RejectLock(t) \/ CallLock(t) \/ LockCas(t) \/ LockRefused(t)
      \/ LockUserOk(t) \/ LockUserErr(t) \/ LockCache(t) \/ LockRollback(t)
      => IInv'
  <2>1. RejectLock(t) => IInv'
    BY DEF RejectLock, MayStart, LockRequestVerdict, DescriptorFault
  <2>2. CallLock(t) => IInv'
    BY StartLock, FormatsAssumption DEF CallLock, FormatPairs, MayStart
  <2>3. LockCas(t) => IInv'
    BY DEF LockCas
  <2>4. LockRefused(t) => IInv'
    BY DEF LockRefused
  <2>5. LockUserOk(t) => IInv'
    BY DEF LockUserOk
  <2>6. LockUserErr(t) => IInv'
    BY DEF LockUserErr
  <2>7. LockCache(t) => IInv'
    BY FormatsAssumption DEF LockCache
  <2>8. LockRollback(t) => IInv'
    BY DEF LockRollback
  <2> QED
    BY <2>1, <2>2, <2>3, <2>4, <2>5, <2>6, <2>7, <2>8
<1>3. \/ CallUnlock(t) \/ UnlockLoad(t) \/ UnlockRefused(t) \/ UnlockUser(t)
      \/ UnlockClear(t) \/ UnlockCas(t)
      => IInv'
  <2>1. CallUnlock(t) => IInv'
    BY StartUnlock DEF CallUnlock, MayStart
  <2>2. UnlockLoad(t) => IInv'
    BY DEF UnlockLoad
  <2>3. UnlockRefused(t) => IInv'
    BY DEF UnlockRefused
  <2>4. UnlockUser(t) => IInv'
    BY DEF UnlockUser
  <2>5. UnlockClear(t) => IInv'
    BY DEF UnlockClear
  <2>6. UnlockCas(t) => IInv'
    BY DEF UnlockCas
  <2> QED
    BY <2>1, <2>2, <2>3, <2>4, <2>5, <2>6
<1>4. CallChannels(t) \/ ChanLoad(t) \/ ChanCache(t) => IInv'
  <2>1. CallChannels(t) => IInv'
    BY StartChannels DEF CallChannels, MayStart
  <2>2. ChanLoad(t) => IInv'
    BY DEF ChanLoad
  <2>3. ChanCache(t) => IInv'
    BY DEF ChanCache, CacheReads, CacheWrite
  <2> QED
    BY <2>1, <2>2, <2>3
<1>5. \/ RejectProcess(t) \/ CallProcess(t) \/ ProcLoad(t) \/ ProcCache(t)
      \/ ProcRecheck(t) \/ ProcUser(t)
      => IInv'
  <2>1. RejectProcess(t) => IInv'
    BY DEF RejectProcess, MayStart
  <2>2. CallProcess(t) => IInv'
    BY StartProcess DEF CallProcess, MayStart
  <2>3. ProcLoad(t) => IInv'
    BY DEF ProcLoad
  <2>4. ProcCache(t) => IInv'
    BY DEF ProcCache, CacheReads, CacheWrite
  <2>5. ProcRecheck(t) => IInv'
    BY DEF ProcRecheck
  <2>6. ProcUser(t) => IInv'
    BY DEF ProcUser
  <2> QED
    BY <2>1, <2>2, <2>3, <2>4, <2>5, <2>6
<1>6. CallRead(t) \/ ReadUser(t) => IInv'
  <2>1. CallRead(t) => IInv'
    BY StartRead DEF CallRead, MayStart
  <2>2. ReadUser(t) => IInv'
    BY DEF ReadUser
  <2> QED
    BY <2>1, <2>2
<1>7. CallSetEffect(t) \/ FxList(t) \/ FxUser(t) => IInv'
  <2>1. CallSetEffect(t) => IInv'
    BY StartEffect DEF CallSetEffect, MayStart
  <2>2. FxList(t) => IInv'
    BY DEF FxList
  <2>3. FxUser(t) => IInv'
    BY DEF FxUser
  <2> QED
    BY <2>1, <2>2, <2>3
<1> QED
  BY <1>1, <1>2, <1>3, <1>4, <1>5, <1>6, <1>7

THEOREM Invariance ==
  ASSUME Contract(MayOverlap)
  PROVE  Spec => []IInv
<1>1. ASSUME IInv, [Next]_vars
      PROVE  IInv'
  <2>1. CASE UNCHANGED vars
    BY <1>1, <2>1 DEF vars, IInv, TypeOK, Separated, LockingAlone, UnlockingInOrder,
      LifecycleConsistent, LockedStays, EffectsHeld, OutputPending, At
  <2>2. CASE Next
    BY <1>1, <2>2, StepInvariant DEF Next, Call
  <2> QED
    BY <1>1, <2>1, <2>2
<1> QED
  BY InitInvariant, <1>1, PTL DEF Spec

-----------------------------------------------------------------------------
(* What the invariant gives, whoever keeps it.                             *)

LEMMA CallbacksPairedInIInv == IInv => CallbacksPaired
BY DEF IInv, LockingAlone, UnlockingInOrder, CallbacksPaired, At, Locking

LEMMA UserExclusiveInIInv == IInv => UserExclusive
<1>1. ASSUME IInv, NEW t \in Threads, NEW u \in Threads, t # u,
             At(t, MutBorrow), At(u, MutBorrow \cup SharedBorrow)
      PROVE  "procUser" \in {pc[t], pc[u]} /\ {pc[t], pc[u]} \cap {"fxList", "fxUser"} # {}
  <2>1. pc[t] \notin Locking \/ pc[u] \notin Locking
    BY <1>1 DEF IInv, LockingAlone, At
  <2> QED
    BY <1>1, <2>1, StepSets
    DEF IInv, Separated, At, MutBorrow, SharedBorrow, FxSteps, Locking
<1> QED
  BY <1>1 DEF UserExclusive

LEMMA ProcessGeometryInIInv == IInv => ProcessGeometry
BY DEF IInv, LockedStays, ProcessGeometry, At

LEMMA NoCacheRaceInIInv == IInv => NoCacheRace
<1>1. ASSUME IInv, NEW t \in Threads, NEW u \in Threads, t # u, At(t, CacheWrite)
      PROVE  ~At(u, CacheWrite \cup CacheRead)
  BY <1>1, StepSets
  DEF IInv, Separated, LockingAlone, At, CacheWrite, CacheRead, Locking
<1> QED
  BY <1>1 DEF NoCacheRace

LEMMA LockedReadsCacheInIInv == IInv => LockedReadsCache
<1>1. ASSUME IInv, NEW t \in Threads, At(t, CacheRead)
      PROVE  cache # None /\ \A u \in Threads : ~At(u, {"lockUser", "lockCache"})
  <2>1. \A u \in Threads : ~At(u, Locking \cup Unlocking)
    BY <1>1, StepSets DEF IInv, Separated, At, CacheRead, Locking, Unlocking
  <2>2. st = "Locked"
    BY <1>1 DEF IInv, LockedStays, At, CacheRead
  <2>3. cache # None
    BY <1>1, <2>1, <2>2 DEF IInv, LifecycleConsistent
  <2> QED
    BY <2>1, <2>3 DEF Locking, At
<1> QED
  BY <1>1 DEF LockedReadsCache

LEMMA OutputMarkedInIInv == IInv => OutputAlwaysMarked
BY StepSets DEF IInv, OutputPending, OutputAlwaysMarked, At

-----------------------------------------------------------------------------
(* The theorems about the object.                                          *)

(* Every variable keeps its type.                                          *)
THEOREM TypeCorrect ==
  ASSUME Contract(MayOverlap)
  PROVE  Spec => []TypeOK
<1>1. IInv => TypeOK
  BY DEF IInv
<1> QED
  BY Invariance, <1>1, PTL

(* The user's lock and unlock callbacks alternate, whichever Initialize    *)
(* and LockForProcess calls race.                                          *)
THEOREM CallbacksAlternate ==
  ASSUME Contract(MayOverlap)
  PROVE  Spec => []CallbacksPaired
BY Invariance, CallbacksPairedInIInv, PTL

(* The user's object is never borrowed twice, one borrow mutable, but by   *)
(* SetAudioSystemEffectState during APOProcess.                            *)
THEOREM UserIsExclusive ==
  ASSUME Contract(MayOverlap)
  PROVE  Spec => []UserExclusive
BY Invariance, UserExclusiveInIInv, PTL

(* A buffer is processed in the format the user is locked with, which a    *)
(* slice of f32 can carry.                                                 *)
THEOREM GeometryPinned ==
  ASSUME Contract(MayOverlap)
  PROVE  Spec => []ProcessGeometry
BY Invariance, ProcessGeometryInIInv, PTL

(* Between lifecycle calls the cell, the cache and the user agree.         *)
THEOREM NothingHalfDone ==
  ASSUME Contract(MayOverlap)
  PROVE  Spec => []LifecycleConsistent
<1>1. IInv => LifecycleConsistent
  BY DEF IInv
<1> QED
  BY Invariance, <1>1, PTL

(* The plain accesses of the cache never race.                             *)
THEOREM CacheRaceFree ==
  ASSUME Contract(MayOverlap)
  PROVE  Spec => []NoCacheRace
BY Invariance, NoCacheRaceInIInv, PTL

(* A thread that saw Locked finds that lock's formats in the cache.        *)
THEOREM LockedCached ==
  ASSUME Contract(MayOverlap)
  PROVE  Spec => []LockedReadsCache
BY Invariance, LockedReadsCacheInIInv, PTL

(* No APOProcess returns with its output property unwritten.               *)
THEOREM OutputMarked ==
  ASSUME Contract(MayOverlap)
  PROVE  Spec => []OutputAlwaysMarked
BY Invariance, OutputMarkedInIInv, PTL

(* The steps that return from LockForProcess.                              *)
LEMMA LockReturns ==
  ASSUME TypeOK, Next, NEW t \in Threads,
         At(t, Steps.lock_for_process), pc'[t] = "idle"
  PROVE  LockRefused(t) \/ LockCache(t) \/ LockRollback(t)
<1> USE StepSets DEF TypeOK, At, Goto, Step, StepWith, Return, Finish, MayStart
<1>1. PICK u \in Threads :
        \/ CallInitialize(u) \/ InitCas(u)
        \/ RejectLock(u) \/ CallLock(u) \/ LockCas(u) \/ LockRefused(u)
        \/ LockUserOk(u) \/ LockUserErr(u) \/ LockCache(u) \/ LockRollback(u)
        \/ CallUnlock(u) \/ UnlockLoad(u) \/ UnlockRefused(u)
        \/ UnlockUser(u) \/ UnlockClear(u) \/ UnlockCas(u)
        \/ CallChannels(u) \/ ChanLoad(u) \/ ChanCache(u)
        \/ RejectProcess(u) \/ CallProcess(u) \/ ProcLoad(u) \/ ProcCache(u)
        \/ ProcRecheck(u) \/ ProcUser(u)
        \/ CallRead(u) \/ ReadUser(u)
        \/ CallSetEffect(u) \/ FxList(u) \/ FxUser(u)
  BY DEF Next, Call
<1>2. ~(CallInitialize(u) \/ InitCas(u) \/ RejectLock(u) \/ CallLock(u))
  BY DEF CallInitialize, InitCas, RejectLock, CallLock
<1>3. ~(LockCas(u) \/ LockUserOk(u) \/ LockUserErr(u))
  BY DEF LockCas, LockUserOk, LockUserErr
<1>4. ~(CallUnlock(u) \/ UnlockLoad(u) \/ UnlockRefused(u))
  BY DEF CallUnlock, UnlockLoad, UnlockRefused
<1>5. ~(UnlockUser(u) \/ UnlockClear(u) \/ UnlockCas(u))
  BY DEF UnlockUser, UnlockClear, UnlockCas
<1>6. ~(CallChannels(u) \/ ChanLoad(u) \/ ChanCache(u))
  BY DEF CallChannels, ChanLoad, ChanCache
<1>7. ~(RejectProcess(u) \/ CallProcess(u) \/ ProcLoad(u))
  BY DEF RejectProcess, CallProcess, ProcLoad
<1>8. ~(ProcCache(u) \/ ProcRecheck(u) \/ ProcUser(u))
  BY DEF ProcCache, ProcRecheck, ProcUser
<1>9. ~(CallRead(u) \/ ReadUser(u) \/ CallSetEffect(u) \/ FxList(u) \/ FxUser(u))
  BY DEF CallRead, ReadUser, CallSetEffect, FxList, FxUser
<1>10. LockRefused(u) \/ LockCache(u) \/ LockRollback(u)
  BY <1>1, <1>2, <1>3, <1>4, <1>5, <1>6, <1>7, <1>8, <1>9
<1>11. u = t
  BY <1>10 DEF LockRefused, LockCache, LockRollback
<1> QED
  BY <1>10, <1>11

(* A step of the calls answers a LockForProcess truly.                     *)
LEMMA StepAnswers ==
  ASSUME IInv, [Next]_vars
  PROVE  \A t \in Threads : LockAnswer(t)
<1> SUFFICES ASSUME NEW t \in Threads, At(t, Steps.lock_for_process), pc'[t] = "idle"
             PROVE  LockAnswer(t)
  BY DEF LockAnswer
<1>1. Next
  BY StepSets DEF At, vars
<1>2. LockRefused(t) \/ LockCache(t) \/ LockRollback(t)
  BY <1>1, LockReturns DEF IInv
<1>3. CASE LockRefused(t)
  BY <1>3 DEF IInv, TypeOK, States, LockRefused, Return, Shared, LockAnswer
<1>4. CASE LockCache(t)
  BY <1>4 DEF IInv, LockingAlone, Locking, At, LockCache, Return, Goto, LockAnswer
<1>5. CASE LockRollback(t)
  BY <1>5 DEF IInv, LockingAlone, Locking, At, LockRollback, Return, Goto, LockAnswer
<1> QED
  BY <1>2, <1>3, <1>4, <1>5

(* LockForProcess answers what it did.                                     *)
THEOREM LockAnswers ==
  ASSUME Contract(MayOverlap)
  PROVE  Spec => LockVerdict
<1>1. IInv /\ [Next]_vars => [\A t \in Threads : LockAnswer(t)]_vars
  BY StepAnswers
<1> QED
  BY Invariance, <1>1, PTL DEF LockVerdict, Spec

-----------------------------------------------------------------------------
(* What it takes of the engine and of the user for the documented claims   *)
(* that the code alone does not keep.                                      *)

(* A step changes its own thread only; it starts a call, which the engine  *)
(* may, goes on with one or ends it.                                       *)
LEMMA CallMoves ==
  ASSUME TypeOK, NEW t \in Threads, Call(t)
  PROVE  /\ \A u \in Threads \ {t} : pc'[u] = pc[u]
         /\ \E o \in Ops :
              /\ {pc[t], pc'[t]} \subseteq Steps[o] \cup {"idle"}
              /\ pc[t] = "idle" => MayStart(t, o)
<1> USE StepSets DEF TypeOK, Goto, Step, StepWith, Return, Finish
<1>1. CASE CallInitialize(t) \/ InitCas(t)
  BY <1>1 DEF CallInitialize, InitCas
<1>2. CASE RejectLock(t) \/ CallLock(t) \/ LockCas(t) \/ LockRefused(t)
  BY <1>2 DEF RejectLock, CallLock, LockCas, LockRefused
<1>3. CASE LockUserOk(t) \/ LockUserErr(t) \/ LockCache(t) \/ LockRollback(t)
  BY <1>3 DEF LockUserOk, LockUserErr, LockCache, LockRollback
<1>4. CASE CallUnlock(t) \/ UnlockLoad(t) \/ UnlockRefused(t)
  BY <1>4 DEF CallUnlock, UnlockLoad, UnlockRefused
<1>5. CASE UnlockUser(t) \/ UnlockClear(t) \/ UnlockCas(t)
  BY <1>5 DEF UnlockUser, UnlockClear, UnlockCas
<1>6. CASE CallChannels(t) \/ ChanLoad(t) \/ ChanCache(t)
  BY <1>6 DEF CallChannels, ChanLoad, ChanCache
<1>7. CASE RejectProcess(t) \/ CallProcess(t) \/ ProcLoad(t)
  BY <1>7 DEF RejectProcess, CallProcess, ProcLoad
<1>8. CASE ProcCache(t) \/ ProcRecheck(t) \/ ProcUser(t)
  BY <1>8 DEF ProcCache, ProcRecheck, ProcUser
<1>9. CASE CallRead(t) \/ ReadUser(t) \/ CallSetEffect(t) \/ FxList(t) \/ FxUser(t)
  BY <1>9 DEF CallRead, ReadUser, CallSetEffect, FxList, FxUser
<1> QED
  BY <1>1, <1>2, <1>3, <1>4, <1>5, <1>6, <1>7, <1>8, <1>9 DEF Call

(* No effect is being set during a processing call.                        *)
EffectsApart ==
  \A t, u \in Threads : t # u /\ At(t, FxSteps) => ~At(u, Steps.process)

LEMMA EffectsStayApart ==
  ASSUME TypeOK, EffectsApart, NEW t \in Threads, Call(t),
         {"process", "set_system_effect_state"} \notin MayOverlap
  PROVE  EffectsApart'
<1>1. PICK o \in Ops : /\ {pc[t], pc'[t]} \subseteq Steps[o] \cup {"idle"}
                       /\ pc[t] = "idle" => MayStart(t, o)
  BY CallMoves
<1>2. \A u \in Threads \ {t} : pc'[u] = pc[u]
  BY CallMoves
<1>3. ASSUME NEW u \in Threads \ {t}
      PROVE  /\ At(t, FxSteps)' => ~At(u, Steps.process)
             /\ At(u, FxSteps) => ~At(t, Steps.process)'
  <2>1. {"set_system_effect_state", "process"} \notin MayOverlap
    <3>1. {"set_system_effect_state", "process"} = {"process", "set_system_effect_state"}
      OBVIOUS
    <3> QED
      BY <3>1
  <2>2. CASE pc[t] = "idle"
    <3>1. \A p \in Ops : pc[u] \in Steps[p] => {o, p} \in MayOverlap
      BY <1>1, <2>2 DEF MayStart
    <3>2. At(t, FxSteps)' => o = "set_system_effect_state"
      BY <1>1, StepSets DEF At, FxSteps
    <3>3. At(t, Steps.process)' => o = "process"
      BY <1>1, StepSets DEF At
    <3>4. At(u, Steps.process) => {o, "process"} \in MayOverlap
      BY <3>1, StepSets DEF At
    <3>5. At(u, FxSteps) => {o, "set_system_effect_state"} \in MayOverlap
      BY <3>1, StepSets DEF At, FxSteps
    <3> QED
      BY <2>1, <3>2, <3>3, <3>4, <3>5
  <2>3. CASE pc[t] # "idle"
    <3>1. At(t, FxSteps)' => At(t, FxSteps)
      BY <1>1, <2>3, StepSets DEF At, FxSteps
    <3>2. At(t, Steps.process)' => At(t, Steps.process)
      BY <1>1, <2>3, StepSets DEF At
    <3> QED
      BY <3>1, <3>2 DEF EffectsApart
  <2> QED
    BY <2>2, <2>3
<1> QED
  BY <1>2, <1>3 DEF EffectsApart, At

LEMMA ExclusiveWithoutEffects == UserExclusive /\ EffectsApart => OneMethodAtATime
BY StepSets DEF UserExclusive, EffectsApart, OneMethodAtATime, At, MutBorrow, FxSteps

(* "Exactly one of the wrappers' methods touches T at any moment": true of *)
(* an engine that also keeps SetAudioSystemEffectState and APOProcess      *)
(* apart.                                                                  *)
THEOREM OneMethodWhenEffectsApart ==
  ASSUME Contract(MayOverlap), {"process", "set_system_effect_state"} \notin MayOverlap
  PROVE  Spec => []OneMethodAtATime
<1>1. Init => EffectsApart
  BY DEF Init, EffectsApart, At, FxSteps
<1>2. IInv /\ EffectsApart /\ [Next]_vars => EffectsApart'
  BY EffectsStayApart DEF IInv, Next, vars, EffectsApart, At
<1> QED
  BY <1>1, <1>2, Invariance, UserExclusiveInIInv, ExclusiveWithoutEffects, PTL DEF Spec

(* The user is told to set effects of its own list only, to a known state. *)
SetAdvertised ==
  \A t \in Threads : At(t, {"fxUser"}) =>
    local[t].id \in Advertised /\ local[t].state \in {"OFF", "ON"}

(* SetAudioSystemEffectState looks the id up and checks the state before   *)
(* it calls the user, whatever else is in flight.                          *)
THEOREM OnlyAdvertisedSet ==
  ASSUME Contract(MayOverlap)
  PROVE  Spec => []SetAdvertised
<1>1. Init => SetAdvertised
  BY DEF Init, SetAdvertised, At
<1>2. ASSUME IInv, SetAdvertised, NEW t \in Threads, Call(t) PROVE SetAdvertised'
  <2> USE DEF IInv, TypeOK, SetAdvertised, At, Goto, Step, StepWith, Return, Finish
  <2>1. CASE CallInitialize(t) \/ InitCas(t)
    BY <1>2, <2>1 DEF CallInitialize, InitCas
  <2>2. CASE RejectLock(t) \/ CallLock(t) \/ LockCas(t) \/ LockRefused(t)
    BY <1>2, <2>2 DEF RejectLock, CallLock, LockCas, LockRefused
  <2>3. CASE LockUserOk(t) \/ LockUserErr(t) \/ LockCache(t) \/ LockRollback(t)
    BY <1>2, <2>3 DEF LockUserOk, LockUserErr, LockCache, LockRollback
  <2>4. CASE CallUnlock(t) \/ UnlockLoad(t) \/ UnlockRefused(t)
    BY <1>2, <2>4 DEF CallUnlock, UnlockLoad, UnlockRefused
  <2>5. CASE UnlockUser(t) \/ UnlockClear(t) \/ UnlockCas(t)
    BY <1>2, <2>5 DEF UnlockUser, UnlockClear, UnlockCas
  <2>6. CASE CallChannels(t) \/ ChanLoad(t) \/ ChanCache(t)
    BY <1>2, <2>6 DEF CallChannels, ChanLoad, ChanCache
  <2>7. CASE RejectProcess(t) \/ CallProcess(t) \/ ProcLoad(t)
    BY <1>2, <2>7 DEF RejectProcess, CallProcess, ProcLoad
  <2>8. CASE ProcCache(t) \/ ProcRecheck(t) \/ ProcUser(t)
    BY <1>2, <2>8 DEF ProcCache, ProcRecheck, ProcUser
  <2>9. CASE CallRead(t) \/ ReadUser(t) \/ CallSetEffect(t) \/ FxUser(t)
    BY <1>2, <2>9 DEF CallRead, ReadUser, CallSetEffect, FxUser
  <2>10. CASE FxList(t)
    <3>1. local[t].state \in {"OFF", "ON", "other"}
      BY <1>2, <2>10 DEF EffectsHeld, EffectArgs, FxSteps, FxList
    <3> QED
      BY <1>2, <2>10, <3>1 DEF FxList
  <2> QED
    BY <1>2, <2>1, <2>2, <2>3, <2>4, <2>5, <2>6, <2>7, <2>8, <2>9, <2>10 DEF Call
<1>3. IInv /\ SetAdvertised /\ [Next]_vars => SetAdvertised'
  BY <1>2 DEF Next, vars, SetAdvertised, At
<1> QED
  BY <1>1, <1>3, Invariance, PTL DEF Spec

(* The locked output format, on its way into the cache and to the user.    *)
FloatOutputs ==
  /\ cache # None => cache.output \in Processable
  /\ \A t \in Threads :
       At(t, Steps.lock_for_process) => local[t].output \in Processable

(* The output buffer is one that &mut [f32] carries if the engine asks for *)
(* float output formats only: LockForProcess does not look.                *)
THEOREM OutputFloatWhenAskedFor ==
  ASSUME Contract(MayOverlap),
         \A r \in LockRequests : LockRequestVerdict(r) = "S_OK" => r.output \in Processable
  PROVE  Spec => []OutputIsFloat
<1>1. Init => FloatOutputs
  BY StepSets DEF Init, FloatOutputs, At
<1>2. ASSUME IInv, FloatOutputs, NEW t \in Threads, Call(t) PROVE FloatOutputs'
  <2> USE StepSets, FormatsAssumption
      DEF IInv, TypeOK, FloatOutputs, At, Goto, Step, StepWith, Return, Finish, Shared
  <2>1. CASE CallInitialize(t) \/ InitCas(t)
    BY <1>2, <2>1 DEF CallInitialize, InitCas
  <2>2. CASE RejectLock(t) \/ LockCas(t) \/ LockRefused(t)
    BY <1>2, <2>2 DEF RejectLock, LockCas, LockRefused
  <2>3. CASE CallLock(t)
    BY <1>2, <2>3 DEF CallLock
  <2>4. CASE LockUserOk(t) \/ LockUserErr(t) \/ LockCache(t) \/ LockRollback(t)
    BY <1>2, <2>4 DEF LockUserOk, LockUserErr, LockCache, LockRollback
  <2>5. CASE CallUnlock(t) \/ UnlockLoad(t) \/ UnlockRefused(t)
    BY <1>2, <2>5 DEF CallUnlock, UnlockLoad, UnlockRefused
  <2>6. CASE UnlockUser(t) \/ UnlockClear(t) \/ UnlockCas(t)
    BY <1>2, <2>6 DEF UnlockUser, UnlockClear, UnlockCas
  <2>7. CASE CallChannels(t) \/ ChanLoad(t) \/ ChanCache(t)
    BY <1>2, <2>7 DEF CallChannels, ChanLoad, ChanCache
  <2>8. CASE RejectProcess(t) \/ CallProcess(t) \/ ProcLoad(t)
    BY <1>2, <2>8 DEF RejectProcess, CallProcess, ProcLoad
  <2>9. CASE ProcCache(t) \/ ProcRecheck(t) \/ ProcUser(t)
    BY <1>2, <2>9 DEF ProcCache, ProcRecheck, ProcUser
  <2>10. CASE CallRead(t) \/ ReadUser(t) \/ CallSetEffect(t) \/ FxList(t) \/ FxUser(t)
    BY <1>2, <2>10 DEF CallRead, ReadUser, CallSetEffect, FxList, FxUser
  <2> QED
    BY <1>2, <2>1, <2>2, <2>3, <2>4, <2>5, <2>6, <2>7, <2>8, <2>9, <2>10 DEF Call
<1>3. IInv /\ FloatOutputs /\ [Next]_vars => FloatOutputs'
  BY <1>2 DEF Next, vars, FloatOutputs, At
<1>4. IInv /\ FloatOutputs => OutputIsFloat
  BY DEF IInv, LockedStays, FloatOutputs, OutputIsFloat, At
<1> QED
  BY <1>1, <1>3, <1>4, Invariance, PTL DEF Spec

-----------------------------------------------------------------------------
(* The calls implement the abstract object.                                *)

LEMMA ServingOne ==
  ASSUME NEW steps, NEW locals, NEW t \in Threads, steps[t] = "procUser",
         \A u \in Threads \ {t} : steps[u] # "procUser"
  PROVE  ServingOf(steps, locals) = locals[t]
<1>1. {u \in Threads : steps[u] = "procUser"} = {t}
  OBVIOUS
<1> QED
  BY <1>1 DEF ServingOf

LEMMA ServingNone ==
  ASSUME NEW steps, NEW locals, \A u \in Threads : steps[u] # "procUser"
  PROVE  ServingOf(steps, locals) = None
BY DEF ServingOf

(* A step that neither enters nor leaves the user's process, nor touches   *)
(* what a thread inside it holds, leaves the buffer being served alone.    *)
LEMMA ServingSame ==
  ASSUME IInv, NEW t \in Threads, pc[t] # "procUser", pc'[t] # "procUser",
         \A u \in Threads \ {t} : pc'[u] = pc[u] /\ local'[u] = local[u]
  PROVE  UNCHANGED AbstractServing
<1>1. CASE \A u \in Threads : pc[u] # "procUser"
  <2>1. ServingOf(pc, local) = None
    BY <1>1, ServingNone
  <2>2. ServingOf(pc', local') = None
    BY <1>1, ServingNone
  <2> QED
    BY <2>1, <2>2 DEF AbstractServing
<1>2. ASSUME NEW u \in Threads, pc[u] = "procUser"
      PROVE  UNCHANGED AbstractServing
  <2>1. \A v \in Threads \ {u} : pc[v] # "procUser" /\ pc'[v] # "procUser"
    BY <1>2, StepSets DEF IInv, Separated, At, FxSteps
  <2>2. ServingOf(pc, local) = local[u]
    BY <1>2, <2>1, ServingOne
  <2>3. ServingOf(pc', local') = local'[u]
    BY <1>2, <2>1, ServingOne
  <2> QED
    BY <1>2, <2>2, <2>3 DEF AbstractServing
<1> QED
  BY <1>1, <1>2

AbstractVars == <<AbstractPhase, cache, AbstractServing>>

LEMMA InitializeImplements ==
  ASSUME IInv, NEW t \in Threads, CallInitialize(t) \/ InitCas(t)
  PROVE  Lifecycle!Initialize \/ UNCHANGED AbstractVars
<1>1. UNCHANGED AbstractServing
  BY ServingSame DEF IInv, TypeOK, CallInitialize, InitCas, Step, Return, Goto
<1> QED
  BY <1>1 DEF IInv, TypeOK, CallInitialize, InitCas, Step, Return, Goto, Shared,
    AbstractVars, AbstractPhase, Lifecycle!Initialize

LEMMA LockImplements ==
  ASSUME IInv, NEW t \in Threads,
         \/ RejectLock(t) \/ CallLock(t) \/ LockCas(t) \/ LockRefused(t)
         \/ LockUserOk(t) \/ LockUserErr(t) \/ LockCache(t) \/ LockRollback(t)
  PROVE  Lifecycle!LockForProcess \/ UNCHANGED AbstractVars
<1>1. UNCHANGED AbstractServing
  BY ServingSame DEF IInv, TypeOK, RejectLock, CallLock, LockCas, LockRefused,
    LockUserOk, LockUserErr, LockCache, LockRollback, Step, StepWith, Return, Goto
<1>2. CASE RejectLock(t) \/ CallLock(t) \/ LockRefused(t) \/ LockUserOk(t) \/ LockUserErr(t)
  BY <1>1, <1>2 DEF RejectLock, CallLock, LockRefused, LockUserOk, LockUserErr,
    Shared, AbstractVars, AbstractPhase
<1>3. CASE LockCas(t)
  BY <1>1, <1>3 DEF IInv, LifecycleConsistent, LockingAlone, UnlockingInOrder, At,
    Locking, Unlocking, LockCas, AbstractVars, AbstractPhase
<1>4. CASE LockRollback(t)
  BY <1>1, <1>4 DEF IInv, LockingAlone, At, Locking, LockRollback, Return, Goto,
    AbstractVars, AbstractPhase
<1>5. CASE LockCache(t)
  <2>1. \A u \in Threads : pc[u] # "procUser"
    BY <1>5, StepSets DEF IInv, Separated, At, LockCache, Return, Goto
  <2>2. AbstractServing = None
    BY <2>1, ServingNone DEF AbstractServing
  <2>3. st = "Locked" /\ cache = None /\ cache' \in FormatPairs /\ st' = "Locked"
    BY <1>5 DEF IInv, LockingAlone, At, Locking, LockCache, Return, Goto
  <2> QED
    BY <1>1, <2>2, <2>3, FormatsAssumption
    DEF AbstractPhase, Lifecycle!LockForProcess, Lifecycle!FormatPairs, FormatPairs
<1> QED
  BY <1>2, <1>3, <1>4, <1>5

LEMMA UnlockImplements ==
  ASSUME IInv, NEW t \in Threads,
         \/ CallUnlock(t) \/ UnlockLoad(t) \/ UnlockRefused(t)
         \/ UnlockUser(t) \/ UnlockClear(t) \/ UnlockCas(t)
  PROVE  Lifecycle!UnlockForProcess \/ UNCHANGED AbstractVars
<1>1. UNCHANGED AbstractServing
  BY ServingSame DEF IInv, TypeOK, CallUnlock, UnlockLoad, UnlockRefused,
    UnlockUser, UnlockClear, UnlockCas, Step, Return, Goto
<1>2. CASE CallUnlock(t) \/ UnlockLoad(t) \/ UnlockRefused(t) \/ UnlockUser(t)
  BY <1>1, <1>2 DEF CallUnlock, UnlockLoad, UnlockRefused, UnlockUser, Shared,
    AbstractVars, AbstractPhase
<1>3. CASE UnlockCas(t)
  BY <1>1, <1>3 DEF IInv, UnlockingInOrder, At, Unlocking, UnlockCas, Return, Goto,
    AbstractVars, AbstractPhase
<1>4. CASE UnlockClear(t)
  <2>1. \A u \in Threads : pc[u] # "procUser"
    BY <1>4, StepSets DEF IInv, Separated, At, UnlockClear, Step, Goto
  <2>2. AbstractServing = None
    BY <2>1, ServingNone DEF AbstractServing
  <2>3. st = "Locked" /\ st' = "Locked" /\ cache' = None
    BY <1>4 DEF IInv, UnlockingInOrder, At, Unlocking, UnlockClear, Step, Goto
  <2> QED
    BY <1>1, <2>2, <2>3
    DEF AbstractVars, AbstractPhase, Lifecycle!UnlockForProcess
<1> QED
  BY <1>2, <1>3, <1>4

LEMMA ProcessImplements ==
  ASSUME IInv, NEW t \in Threads,
         \/ RejectProcess(t) \/ CallProcess(t) \/ ProcLoad(t) \/ ProcCache(t)
         \/ ProcRecheck(t) \/ ProcUser(t)
  PROVE  Lifecycle!BeginProcess \/ Lifecycle!EndProcess \/ UNCHANGED AbstractVars
<1>1. UNCHANGED <<AbstractPhase, cache>>
  BY DEF RejectProcess, CallProcess, ProcLoad, ProcCache, ProcRecheck, ProcUser,
    Shared, AbstractPhase
<1>2. CASE RejectProcess(t) \/ CallProcess(t) \/ ProcLoad(t) \/ ProcCache(t)
  <2>1. UNCHANGED AbstractServing
    BY <1>2, ServingSame DEF IInv, TypeOK, RejectProcess, CallProcess, ProcLoad,
      ProcCache, Step, StepWith, Finish, Goto
  <2> QED
    BY <1>1, <2>1 DEF AbstractVars
<1>3. CASE ProcRecheck(t)
  <2>1. /\ st = "Locked" /\ local[t] = cache /\ cache # None
        /\ cache.input \in Processable
    BY <1>3 DEF IInv, LockedStays, At, ProcRecheck, Step, Finish, Goto
  <2>2. /\ pc[t] = "procRecheck" /\ pc' = [pc EXCEPT ![t] = "procUser"]
        /\ local' = local
    BY <1>3, <2>1 DEF ProcRecheck, Step, Goto
  <2>3. \A u \in Threads : pc[u] # "procUser"
    BY <2>2, StepSets DEF IInv, Separated, At, FxSteps
  <2>4. AbstractServing = None
    BY <2>3, ServingNone DEF AbstractServing
  <2>5. pc'[t] = "procUser" /\ \A u \in Threads \ {t} : pc'[u] # "procUser"
    BY <2>2, <2>3 DEF IInv, TypeOK
  <2>6. ServingOf(pc', local') = local'[t]
    BY <2>5, ServingOne
  <2>7. AbstractServing' = cache
    BY <2>1, <2>2, <2>6 DEF AbstractServing
  <2> QED
    BY <1>1, <2>1, <2>4, <2>7 DEF AbstractPhase, Lifecycle!BeginProcess
<1>4. CASE ProcUser(t)
  <2>1. /\ pc[t] = "procUser" /\ pc' = [pc EXCEPT ![t] = "idle"]
        /\ local[t] # None
    BY <1>4 DEF IInv, LockedStays, At, ProcUser, Finish, Goto
  <2>2. \A u \in Threads \ {t} : pc[u] # "procUser"
    BY <2>1, StepSets DEF IInv, Separated, At, FxSteps
  <2>3. AbstractServing = local[t]
    BY <2>1, <2>2, ServingOne DEF AbstractServing
  <2>4. \A u \in Threads : pc'[u] # "procUser"
    BY <2>1, <2>2 DEF IInv, TypeOK
  <2>5. AbstractServing' = None
    BY <2>4, ServingNone DEF AbstractServing
  <2> QED
    BY <1>1, <2>1, <2>3, <2>5 DEF Lifecycle!EndProcess
<1> QED
  BY <1>2, <1>3, <1>4

LEMMA OthersImplement ==
  ASSUME IInv, NEW t \in Threads,
         \/ CallChannels(t) \/ ChanLoad(t) \/ ChanCache(t)
         \/ CallRead(t) \/ ReadUser(t)
         \/ CallSetEffect(t) \/ FxList(t) \/ FxUser(t)
  PROVE  UNCHANGED AbstractVars
<1>1. UNCHANGED AbstractServing
  BY ServingSame DEF IInv, TypeOK, CallChannels, ChanLoad, ChanCache, CallRead,
    ReadUser, CallSetEffect, FxList, FxUser, Step, StepWith, Return, Goto
<1> QED
  BY <1>1 DEF CallChannels, ChanLoad, ChanCache, CallRead, ReadUser, CallSetEffect,
    FxList, FxUser, Shared, AbstractVars, AbstractPhase

LEMMA InitImplements == Init => Lifecycle!Init
BY ServingNone DEF Init, Lifecycle!Init, AbstractPhase, AbstractServing

LEMMA StepImplements ==
  ASSUME IInv, [Next]_vars
  PROVE  [Lifecycle!Next]_AbstractVars
<1>1. CASE UNCHANGED vars
  BY <1>1 DEF vars, AbstractVars, AbstractPhase, AbstractServing, ServingOf
<1>2. CASE Next
  BY <1>2, InitializeImplements, LockImplements, UnlockImplements,
    ProcessImplements, OthersImplement DEF Next, Call, Lifecycle!Next
<1> QED
  BY <1>1, <1>2

(* Every behaviour of the calls is one of the atomic object.               *)
THEOREM Refinement ==
  ASSUME Contract(MayOverlap)
  PROVE  Spec => ImplementsLifecycle
<1>1. IInv /\ [Next]_vars => [Lifecycle!Next]_AbstractVars
  BY StepImplements
<1> QED
  BY InitImplements, <1>1, Invariance, PTL
    DEF Spec, ImplementsLifecycle, Lifecycle!Spec, AbstractVars
=============================================================================
