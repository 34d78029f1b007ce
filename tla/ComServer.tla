----------------------------- MODULE ComServer -----------------------------
(***************************************************************************)
(* The in-process COM server of one APO DLL: class factories, the carriers *)
(* that hand APO instances to the audio engine, the process-wide counter   *)
(* of carriers and the probe that lets the loader unload the DLL           *)
(* (src/raw/class_factory.rs, instance_com.rs, exports.rs,                 *)
(* src/realtime/refcount.rs, and the AEC copies of the first three in      *)
(* src/aec).  register_apo! or register_aec_apo! (src/macros.rs) decides   *)
(* which carrier the DLL's factory makes.                                  *)
(*                                                                         *)
(* The reference counts of the COM objects are those that                  *)
(* windows_core::implement generates.  A client calls only through         *)
(* pointers it holds, and releases them when no call is using them.        *)
(***************************************************************************)
EXTENDS Integers, FiniteSets

CONSTANTS
  Kinds,      \* the DLLs there are: "plain", and "aec" with that feature
  Threads,    \* threads of the client
  Factories,  \* memory for factories: DllGetClassObject makes a new one
  Carriers,   \* memory for carriers: CreateInstance makes a new one
  Word,       \* a count is an element of 0..Word-1
  MaxRefs,    \* references a client takes to one object
  MaxLocks,   \* LockServer(TRUE) calls a client leaves outstanding
  None

ASSUME ServerAssumption ==
  /\ Word \in Nat \ {0} /\ MaxRefs \in Nat \ {0} /\ MaxLocks \in Nat
  /\ IsFiniteSet(Threads)
  /\ IsFiniteSet(Carriers) /\ Cardinality(Carriers) < Word
  /\ MaxLocks < Word
  /\ None \notin Carriers \cup Factories /\ Carriers \cap Factories = {}
  /\ Kinds \subseteq {"plain", "aec"}

VARIABLES
  kind,         \* of the DLL: the macro that made its entry points
  outstanding,  \* OUTSTANDING
  refs,         \* COM reference count of each object; 0: not allocated
  serverLock,   \* per factory: server_lock
  stage,        \* per carrier: how far it is built or torn down
  locks,        \* LockServer(TRUE) calls not yet paired with a FALSE
  pc,           \* per thread: the step its call is at
  using,        \* per thread: the factory its call came through
  subject,      \* per thread: the carrier its call builds or destroys
  riid,         \* per thread: the interface its CreateInstance is asked for
  hr            \* the HRESULT of the call that returned last

vars == <<kind, outstanding, refs, serverLock, stage, locks, pc, using, subject, riid, hr>>

Objects == Factories \cup Carriers

(* A carrier's user object lives from T::new to the drop of the last Arc;  *)
(* the carrier is counted from ApoInstanceCom::new to its Drop.            *)
Stages == {"free", "minted", "counted", "uncounted"}

PCs == {"idle", "mint", "count", "query", "uncount", "destroy", "probe"}

(* Interface ids, by who answers to them: the factory, both carriers, the  *)
(* AEC carrier alone, nobody.                                              *)
Iids == {"factory", "apo", "aec", "other"}

Errors == {"E_POINTER", "E_NOINTERFACE", "CLASS_E_CLASSNOTAVAILABLE",
           "CLASS_E_NOAGGREGATION"}

TypeOK ==
  /\ kind \in Kinds
  /\ outstanding \in 0 .. Word - 1
  /\ refs \in [Objects -> 0 .. MaxRefs]
  /\ serverLock \in [Factories -> 0 .. Word - 1]
  /\ stage \in [Carriers -> Stages]
  /\ locks \in 0 .. MaxLocks
  /\ pc \in [Threads -> PCs]
  /\ using \in [Threads -> Factories \cup {None}]
  /\ subject \in [Threads -> Carriers \cup {None}]
  /\ riid \in [Threads -> Iids \cup {"null", None}]
  /\ hr \in Errors \cup {"S_OK", "S_FALSE"}

Init ==
  /\ kind \in Kinds
  /\ outstanding = 0
  /\ refs = [o \in Objects |-> 0]
  /\ serverLock = [f \in Factories |-> 0]
  /\ stage = [c \in Carriers |-> "free"]
  /\ locks = 0
  /\ pc = [t \in Threads |-> "idle"]
  /\ using = [t \in Threads |-> None]
  /\ subject = [t \in Threads |-> None]
  /\ riid = [t \in Threads |-> None]
  /\ hr = "S_OK"

-----------------------------------------------------------------------------
Goto(t, from, to) == pc[t] = from /\ pc' = [pc EXCEPT ![t] = to]

(* A call that ends where it began.                                        *)
Answer(t, result) == pc[t] = "idle" /\ hr' = result /\ UNCHANGED pc

Return(t, from, result) ==
  /\ Goto(t, from, "idle")
  /\ using' = [using EXCEPT ![t] = None]
  /\ subject' = [subject EXCEPT ![t] = None]
  /\ riid' = [riid EXCEPT ![t] = None]
  /\ hr' = result
  /\ UNCHANGED kind

(* Mutant: a count below zero instead of one that wraps.                   *)
DecrementBelowZero(n) == n - 1

(* fetch_add and fetch_sub of a 32-bit counter.                            *)
Increment(n) == IF n = Word - 1 THEN 0 ELSE n + 1
Decrement(n) == IF n = 0 THEN Word - 1 ELSE n - 1

Unallocated(o) == refs[o] = 0 /\ (o \in Carriers => stage[o] = "free")

(* The memory bound of the model: each call in flight finds a free carrier. *)
RoomForCarrier ==
  Cardinality({t \in Threads : pc[t] = "mint"}) < Cardinality({c \in Carriers : Unallocated(c)})

(* The client may give up a reference to o: a thread that calls through    *)
(* the object holds one of them.                                           *)
Releasable(o) == refs[o] > Cardinality({t \in Threads : using[t] = o})

-----------------------------------------------------------------------------
(* DllGetClassObject.  Its arguments, null or not; the CLSID is the one of *)
(* the DLL's registry or another.                                          *)
ClassRequests ==
  [ppv : BOOLEAN, rclsid : {"null", "own", "other"}, riid : {"null", "factory", "other"}]

(* What is wrong with a request, in the order of the checks; a factory     *)
(* that does not support riid is made and dropped again.                   *)
ClassObjectFault(q) ==
  IF ~q.ppv \/ "null" \in {q.rclsid, q.riid} THEN "E_POINTER"
  ELSE IF q.rclsid = "other" THEN "CLASS_E_CLASSNOTAVAILABLE"
  ELSE IF q.riid = "other" THEN "E_NOINTERFACE"
  ELSE None

(* The same checks, over the registry of AEC vtables.                      *)
AecClassObjectFault(q) == ClassObjectFault(q)

(* The entry point that the DLL's macro emitted.                           *)
DllGetClassObjectFault(q) ==
  IF kind = "plain" THEN ClassObjectFault(q) ELSE AecClassObjectFault(q)

GetClassObject(t) ==
  \E f \in Factories :
    /\ \E q \in ClassRequests : DllGetClassObjectFault(q) = None
    /\ Unallocated(f)
    /\ Answer(t, "S_OK")
    /\ refs' = [refs EXCEPT ![f] = 1]
    /\ serverLock' = [serverLock EXCEPT ![f] = 0]
    /\ UNCHANGED <<kind, outstanding, stage, locks, using, subject, riid>>

GetClassObjectFails(t) ==
  \E q \in ClassRequests :
    /\ DllGetClassObjectFault(q) # None
    /\ Answer(t, DllGetClassObjectFault(q))
    /\ UNCHANGED <<kind, outstanding, refs, serverLock, stage, locks, using, subject, riid>>

(* IUnknown of the objects.  A factory's Drop does nothing.                *)
AddRef(t) ==
  \E o \in Objects :
    /\ refs[o] \in 1 .. MaxRefs - 1
    /\ o \in Carriers => \A u \in Threads : subject[u] # o
    /\ Answer(t, "S_OK")
    /\ refs' = [refs EXCEPT ![o] = @ + 1]
    /\ UNCHANGED <<kind, outstanding, serverLock, stage, locks, using, subject, riid>>

ReleaseFactory(t) ==
  \E f \in Factories :
    /\ Releasable(f)
    /\ Answer(t, "S_OK")
    /\ refs' = [refs EXCEPT ![f] = @ - 1]
    /\ UNCHANGED <<kind, outstanding, serverLock, stage, locks, using, subject, riid>>

ReleaseCarrier(t) ==
  \E c \in Carriers :
    /\ refs[c] > 0 /\ \A u \in Threads : subject[u] # c
    /\ refs' = [refs EXCEPT ![c] = @ - 1]
    /\ IF refs[c] > 1
       THEN Answer(t, "S_OK") /\ UNCHANGED subject
       ELSE /\ Goto(t, "idle", "uncount")
            /\ subject' = [subject EXCEPT ![t] = c]
            /\ hr' = "S_OK"
    /\ UNCHANGED <<kind, outstanding, serverLock, stage, locks, using, riid>>

-----------------------------------------------------------------------------
(* IClassFactory::CreateInstance: make the user's object, wrap it in a     *)
(* carrier, which counts itself, and query it for riid.  The local IUnknown *)
(* is released at the end, which tears the carrier down if the query found *)
(* no interface.                                                           *)
CreateRequests == [ppvobject : BOOLEAN, punkouter : BOOLEAN]

CreateFault(q) ==
  IF ~q.ppvobject THEN "E_POINTER"
  ELSE IF q.punkouter THEN "CLASS_E_NOAGGREGATION"
  ELSE None

(* AecApoClassFactory makes the same checks.                               *)
AecCreateFault(q) == CreateFault(q)

FactoryFault(q) == IF kind = "plain" THEN CreateFault(q) ELSE AecCreateFault(q)

(* riid is not checked here: a null one reaches the carrier's query.       *)
CallCreate(t) ==
  \E f \in Factories, q \in CreateRequests, iid \in Iids \cup {"null"} :
    /\ refs[f] > 0 /\ RoomForCarrier /\ FactoryFault(q) = None
    /\ Goto(t, "idle", "mint")
    /\ using' = [using EXCEPT ![t] = f]
    /\ riid' = [riid EXCEPT ![t] = iid]
    /\ UNCHANGED <<kind, outstanding, refs, serverLock, stage, locks, subject, hr>>

RejectCreate(t) ==
  \E q \in CreateRequests :
    /\ FactoryFault(q) # None /\ \E f \in Factories : refs[f] > 0
    /\ Answer(t, FactoryFault(q))
    /\ UNCHANGED <<kind, outstanding, refs, serverLock, stage, locks, using, subject, riid>>

(* The vtable's create: the user's object in an Arc.                       *)
Mint(t) ==
  \E c \in Carriers :
    /\ Unallocated(c)
    /\ Goto(t, "mint", "count")
    /\ subject' = [subject EXCEPT ![t] = c]
    /\ stage' = [stage EXCEPT ![c] = "minted"]
    /\ UNCHANGED <<kind, outstanding, refs, serverLock, locks, using, riid, hr>>

(* A new carrier, with the counter it leaves.                              *)
NewCarrier(t, count) ==
  /\ Goto(t, "count", "query")
  /\ outstanding' = count
  /\ stage' = [stage EXCEPT ![subject[t]] = "counted"]
  /\ refs' = [refs EXCEPT ![subject[t]] = 1]
  /\ UNCHANGED <<kind, serverLock, locks, using, subject, riid, hr>>

(* Mutant: the carrier does not count itself.                              *)
CountForgotten(t) == kind = "plain" /\ NewCarrier(t, outstanding)

(* ApoInstanceCom::new.                                                    *)
Count(t) == kind = "plain" /\ NewCarrier(t, Increment(outstanding))

(* Mutant: the copy in the AEC carrier forgets it.                         *)
AecCountForgotten(t) == kind = "aec" /\ NewCarrier(t, outstanding)

(* AecApoInstanceCom::new.                                                 *)
AecCount(t) == kind = "aec" /\ NewCarrier(t, Increment(outstanding))

(* QueryInterface of the DLL's carrier.                                    *)
Query(iid) ==
  IF iid = "null" THEN "E_POINTER"
  ELSE IF iid = "apo" \/ (iid = "aec" /\ kind = "aec") THEN "S_OK"
  ELSE "E_NOINTERFACE"

QueryFound(t) ==
  /\ Query(riid[t]) = "S_OK"
  /\ Return(t, "query", "S_OK")
  /\ UNCHANGED <<outstanding, refs, serverLock, stage, locks>>

(* Mutant: the error path leaks the local IUnknown.                        *)
QueryFailedLeaks(t) ==
  /\ Query(riid[t]) # "S_OK"
  /\ Return(t, "query", Query(riid[t]))
  /\ UNCHANGED <<outstanding, refs, serverLock, stage, locks>>

(* Mutant: the error path frees a carrier it has left a reference to.      *)
QueryFailedDangles(t) ==
  /\ Query(riid[t]) # "S_OK"
  /\ Goto(t, "query", "uncount")
  /\ UNCHANGED <<kind, outstanding, refs, serverLock, stage, locks, using, subject, riid, hr>>

QueryFailed(t) ==
  /\ Query(riid[t]) # "S_OK"
  /\ Goto(t, "query", "uncount")
  /\ refs' = [refs EXCEPT ![subject[t]] = 0]
  /\ UNCHANGED <<kind, outstanding, serverLock, stage, locks, using, subject, riid, hr>>

(* The Drop of a carrier, with the counter it leaves; then the drop of its *)
(* Arc, which runs the user's destructor.                                  *)
DropCarrier(t, count) ==
  /\ Goto(t, "uncount", "destroy")
  /\ outstanding' = count
  /\ stage' = [stage EXCEPT ![subject[t]] = "uncounted"]
  /\ UNCHANGED <<kind, refs, serverLock, locks, using, subject, riid, hr>>

(* Drop for ApoInstanceCom.                                                *)
Uncount(t) == kind = "plain" /\ DropCarrier(t, Decrement(outstanding))

(* Mutant: Drop does not take the carrier out of the count.                *)
AecUncountForgotten(t) == kind = "aec" /\ DropCarrier(t, outstanding)

(* Drop for AecApoInstanceCom.                                             *)
AecUncount(t) == kind = "aec" /\ DropCarrier(t, Decrement(outstanding))

Destroy(t) ==
  /\ Return(t, "destroy", IF using[t] = None THEN "S_OK" ELSE Query(riid[t]))
  /\ stage' = [stage EXCEPT ![subject[t]] = "free"]
  /\ UNCHANGED <<outstanding, refs, serverLock, locks>>

-----------------------------------------------------------------------------
(* IClassFactory::LockServer.  The client pairs every TRUE with a FALSE,   *)
(* through any factory of the server it holds.                             *)
LockServer(t) ==
  \E f \in Factories :
    /\ refs[f] > 0 /\ locks < MaxLocks
    /\ Answer(t, "S_OK")
    /\ serverLock' = [serverLock EXCEPT ![f] = Increment(@)]
    /\ locks' = locks + 1
    /\ UNCHANGED <<kind, outstanding, refs, stage, using, subject, riid>>

UnlockServer(t) ==
  \E f \in Factories :
    /\ refs[f] > 0 /\ locks > 0
    /\ Answer(t, "S_OK")
    /\ serverLock' = [serverLock EXCEPT ![f] = Decrement(@)]
    /\ locks' = locks - 1
    /\ UNCHANGED <<kind, outstanding, refs, stage, using, subject, riid>>

(* DllCanUnloadNow: one load of the counter.                               *)
CallCanUnload(t) ==
  /\ Goto(t, "idle", "probe")
  /\ UNCHANGED <<kind, outstanding, refs, serverLock, stage, locks, using, subject, riid, hr>>

Probe(t) ==
  /\ Return(t, "probe", IF outstanding = 0 THEN "S_OK" ELSE "S_FALSE")
  /\ UNCHANGED <<outstanding, refs, serverLock, stage, locks>>

-----------------------------------------------------------------------------
(* The steps of a call once made, other than the call itself.              *)
Continue(t) ==
  \/ Mint(t) \/ Count(t) \/ AecCount(t) \/ QueryFound(t) \/ QueryFailed(t)
  \/ Uncount(t) \/ AecUncount(t) \/ Destroy(t) \/ Probe(t)

Next ==
  \E t \in Threads :
    \/ GetClassObject(t) \/ GetClassObjectFails(t)
    \/ AddRef(t) \/ ReleaseFactory(t) \/ ReleaseCarrier(t)
    \/ CallCreate(t) \/ RejectCreate(t)
    \/ LockServer(t) \/ UnlockServer(t)
    \/ CallCanUnload(t)
    \/ Continue(t)

(* A call in flight is running code: its thread goes on.                   *)
Spec == Init /\ [][Next]_vars /\ \A t \in Threads : WF_vars(Continue(t))

-----------------------------------------------------------------------------
(* Properties.                                                             *)

(* Carriers that a client holds a pointer to.                              *)
Held == {c \in Carriers : refs[c] > 0 /\ \A t \in Threads : subject[t] # c}

Probing(t) == pc[t] = "probe" /\ pc'[t] = "idle"

(* OUTSTANDING is the number of carriers between ApoInstanceCom::new and   *)
(* its Drop, whichever calls are half way, failed queries included.        *)
CountExact ==
  outstanding = Cardinality({c \in Carriers : stage[c] = "counted"})

(* Nothing is freed under a client: a carrier it holds is counted, and one *)
(* a call is tearing down has no reference left and no other call on it.   *)
HeldIsAlive ==
  /\ \A c \in Held : stage[c] = "counted"
  /\ \A t, u \in Threads : t # u /\ subject[t] # None => subject[t] # subject[u]
  /\ \A t \in Threads : pc[t] \in {"uncount", "destroy"} => refs[subject[t]] = 0

(* DllCanUnloadNow answers S_OK only when no client holds an instance:     *)
(* "S_OK (0) when no ApoInstanceCom is outstanding" (exports.rs).          *)
UnloadAnswerTrue ==
  [][\A t \in Threads : Probing(t) /\ hr' = "S_OK" => Held = {}]_vars

(* CreateInstance answers S_OK with one reference to a new, counted        *)
(* carrier, and any error with nothing of it left; only an AEC DLL hands   *)
(* out the AEC interfaces, and it does.                                    *)
CreateAnswer ==
  [][\A t \in Threads, c \in Carriers :
       using[t] # None /\ using'[t] = None /\ subject[t] = c =>
         /\ IF hr' = "S_OK" THEN c \in Held' /\ refs'[c] = 1 ELSE Unallocated(c)'
         /\ riid[t] = "aec" => (hr' = "S_OK" <=> kind = "aec")]_vars

(* When the client has given up its pointers and makes no more instances,  *)
(* the counter comes back to zero: no path leaks a count and pins the DLL. *)
UnloadableInTheEnd ==
  <>[](Held = {} /\ \A t \in Threads : pc[t] # "mint") => <>[](outstanding = 0)

(* The engine "uses LockServer to keep the DLL loaded even when no APO     *)
(* instances are outstanding" (class_factory.rs).                          *)
LockKeepsLoaded ==
  [][\A t \in Threads : Probing(t) /\ locks > 0 => hr' = "S_FALSE"]_vars

(* DllCanUnloadNow "reports S_FALSE while this object is live"             *)
(* (instance_com.rs): the user's object included, which the carrier owns.  *)
LiveObjectPinsDll ==
  [][\A t \in Threads : Probing(t) /\ hr' = "S_OK" =>
       \A c \in Carriers : stage[c] # "uncounted"]_vars
=============================================================================
