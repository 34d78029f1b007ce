--------------------------- MODULE ComServerProofs ---------------------------
(* Proofs about ComServer, for any number of threads, factories and        *)
(* carriers, and either kind of DLL.                                       *)
EXTENDS ComServer, FiniteSetTheorems, TLAPS

-----------------------------------------------------------------------------
(* The inductive invariant.                                                *)

Building == {"count", "query", "uncount", "destroy"}

StageAt(p) == IF p = "count" THEN "minted"
              ELSE IF p = "destroy" THEN "uncounted" ELSE "counted"

(* A call works on a carrier of its own exactly while it builds or tears   *)
(* one down, and that carrier is as far as the call is.                    *)
CallsAndCarriers ==
  \A t \in Threads :
    /\ pc[t] \notin Building => subject[t] = None
    /\ pc[t] \in Building =>
         /\ subject[t] \in Carriers
         /\ stage[subject[t]] = StageAt(pc[t])
         /\ refs[subject[t]] = IF pc[t] = "query" THEN 1 ELSE 0

SubjectsDistinct ==
  \A t, u \in Threads : t # u /\ subject[t] # None => subject[t] # subject[u]

(* A carrier no call works on is counted while somebody refers to it.      *)
Resting(c) == \/ stage[c] = "free" /\ refs[c] = 0
              \/ stage[c] = "counted" /\ refs[c] > 0

CarriersAtRest ==
  \A c \in Carriers : (\A t \in Threads : subject[t] # c) => Resting(c)

(* A CreateInstance that tears its carrier down does so because the query  *)
(* failed.                                                                 *)
TornDownOnFailure ==
  \A t \in Threads :
    pc[t] \in {"uncount", "destroy"} /\ using[t] # None => Query(riid[t]) # "S_OK"

IdleUsesNothing == \A t \in Threads : pc[t] = "idle" => using[t] = None

Shape ==
  /\ CallsAndCarriers /\ SubjectsDistinct /\ CarriersAtRest
  /\ TornDownOnFailure /\ IdleUsesNothing

IInv == TypeOK /\ Shape /\ CountExact

-----------------------------------------------------------------------------
(* Actions by what they leave alone.                                       *)

(* The calls that leave the carriers, and every call in flight, as they    *)
(* are.                                                                    *)
Aside ==
  /\ UNCHANGED <<kind, outstanding, stage, pc, using, subject, riid>>
  /\ \A c \in Carriers : refs'[c] = refs[c]

AsideActions(t) ==
  \/ GetClassObject(t) \/ GetClassObjectFails(t) \/ ReleaseFactory(t)
  \/ RejectCreate(t) \/ LockServer(t) \/ UnlockServer(t)

LEMMA AreAside ==
  ASSUME TypeOK, NEW t \in Threads, AsideActions(t)
  PROVE  Aside
<1> USE ServerAssumption DEF Objects
<1>1. CASE GetClassObject(t)
  BY <1>1 DEF TypeOK, GetClassObject, Answer, Aside
<1>2. CASE GetClassObjectFails(t)
  BY <1>2 DEF GetClassObjectFails, Answer, Aside
<1>3. CASE ReleaseFactory(t)
  BY <1>3 DEF TypeOK, ReleaseFactory, Answer, Aside
<1>4. CASE RejectCreate(t)
  BY <1>4 DEF RejectCreate, Answer, Aside
<1>5. CASE LockServer(t)
  BY <1>5 DEF LockServer, Answer, Aside
<1>6. CASE UnlockServer(t)
  BY <1>6 DEF UnlockServer, Answer, Aside
<1> QED
  BY <1>1, <1>2, <1>3, <1>4, <1>5, <1>6 DEF AsideActions

(* The actions of a thread, with the two kinds of carrier taken together.  *)
BuildActions(t) ==
  \/ AddRef(t) \/ ReleaseCarrier(t) \/ CallCreate(t) \/ Mint(t)
  \/ NewCarrier(t, Increment(outstanding))
  \/ QueryFound(t) \/ QueryFailed(t)
  \/ DropCarrier(t, Decrement(outstanding))
  \/ Destroy(t) \/ CallCanUnload(t) \/ Probe(t)

LEMMA NextCases ==
  ASSUME Next
  PROVE  \E t \in Threads : AsideActions(t) \/ BuildActions(t)
BY DEF Next, Continue, Count, AecCount, Uncount, AecUncount, AsideActions, BuildActions

-----------------------------------------------------------------------------
(* Types.                                                                  *)

LEMMA CountersTyped ==
  \A n \in 0 .. Word - 1 : Increment(n) \in 0 .. Word - 1 /\ Decrement(n) \in 0 .. Word - 1
BY ServerAssumption DEF Increment, Decrement

LEMMA FaultsTyped ==
  /\ \A q \in ClassRequests : DllGetClassObjectFault(q) \in Errors \cup {None}
  /\ \A q \in CreateRequests : FactoryFault(q) \in Errors \cup {None}
  /\ \A i : Query(i) \in Errors \cup {"S_OK"}
BY DEF DllGetClassObjectFault, ClassObjectFault, AecClassObjectFault, FactoryFault,
       CreateFault, AecCreateFault, Query, Errors

LEMMA ReturnTyped ==
  ASSUME TypeOK, NEW t \in Threads, NEW p, NEW r \in Errors \cup {"S_OK", "S_FALSE"},
         Return(t, p, r)
  PROVE  /\ pc' \in [Threads -> PCs]
         /\ using' \in [Threads -> Factories \cup {None}]
         /\ subject' \in [Threads -> Carriers \cup {None}]
         /\ riid' \in [Threads -> Iids \cup {"null", None}]
         /\ hr' \in Errors \cup {"S_OK", "S_FALSE"}
         /\ kind' = kind
BY DEF TypeOK, Return, Goto, PCs

LEMMA TypeStep ==
  ASSUME TypeOK, CallsAndCarriers, NEW t \in Threads, AsideActions(t) \/ BuildActions(t)
  PROVE  TypeOK'
<1> USE ServerAssumption DEF Objects, PCs
<1>1. CASE GetClassObject(t)
  BY <1>1 DEF TypeOK, GetClassObject, Answer
<1>2. CASE GetClassObjectFails(t)
  BY <1>2, FaultsTyped DEF TypeOK, GetClassObjectFails, Answer
<1>3. CASE ReleaseFactory(t)
  <2>1. PICK f \in Factories :
          Releasable(f) /\ Answer(t, "S_OK") /\ refs' = [refs EXCEPT ![f] = @ - 1]
          /\ UNCHANGED <<kind, outstanding, serverLock, stage, locks, using, subject, riid>>
    BY <1>3 DEF ReleaseFactory
  <2>2. refs[f] - 1 \in 0 .. MaxRefs
    <3> DEFINE users == {u \in Threads : using[u] = f}
    <3>1. refs[f] \in 0 .. MaxRefs /\ refs[f] > Cardinality(users)
      BY <2>1 DEF TypeOK, Releasable
    <3>2. Cardinality(users) \in Nat
      BY FS_Subset, FS_CardinalityType
    <3> QED
      BY <3>1, <3>2
  <2> QED
    BY <2>1, <2>2 DEF TypeOK, Answer
<1>4. CASE RejectCreate(t)
  BY <1>4, FaultsTyped DEF TypeOK, RejectCreate, Answer
<1>5. CASE LockServer(t)
  BY <1>5, CountersTyped DEF TypeOK, LockServer, Answer
<1>6. CASE UnlockServer(t)
  BY <1>6, CountersTyped DEF TypeOK, UnlockServer, Answer
<1>7. CASE AddRef(t)
  BY <1>7 DEF TypeOK, AddRef, Answer
<1>8. CASE ReleaseCarrier(t)
  BY <1>8 DEF TypeOK, ReleaseCarrier, Answer, Goto
<1>9. CASE CallCreate(t)
  BY <1>9 DEF TypeOK, CallCreate, Goto
<1>10. CASE Mint(t)
  BY <1>10 DEF TypeOK, Mint, Goto, Stages
<1>11. CASE NewCarrier(t, Increment(outstanding))
  <2>1. pc[t] = "count" /\ subject[t] \in Carriers
    BY <1>11 DEF NewCarrier, Goto, CallsAndCarriers, Building
  <2> QED
    BY <1>11, <2>1, CountersTyped DEF TypeOK, NewCarrier, Goto, Stages
<1>12. CASE QueryFound(t)
  BY <1>12, ReturnTyped DEF TypeOK, QueryFound
<1>13. CASE QueryFailed(t)
  <2>1. pc[t] = "query" /\ subject[t] \in Carriers
    BY <1>13 DEF QueryFailed, Goto, CallsAndCarriers, Building
  <2> QED
    BY <1>13, <2>1 DEF TypeOK, QueryFailed, Goto
<1>14. CASE DropCarrier(t, Decrement(outstanding))
  BY <1>14, CountersTyped DEF TypeOK, DropCarrier, Goto, Stages
<1>15. CASE Destroy(t)
  <2>1. Return(t, "destroy", IF using[t] = None THEN "S_OK" ELSE Query(riid[t]))
        /\ stage' = [stage EXCEPT ![subject[t]] = "free"]
        /\ UNCHANGED <<outstanding, refs, serverLock, locks>>
    BY <1>15 DEF Destroy
  <2>2. (IF using[t] = None THEN "S_OK" ELSE Query(riid[t]))
          \in Errors \cup {"S_OK", "S_FALSE"}
    BY FaultsTyped
  <2>3. stage' \in [Carriers -> Stages]
    BY <2>1 DEF TypeOK, Stages
  <2> QED
    BY <2>1, <2>2, <2>3, ReturnTyped DEF TypeOK
<1>16. CASE CallCanUnload(t)
  BY <1>16 DEF TypeOK, CallCanUnload, Goto
<1>17. CASE Probe(t)
  BY <1>17, ReturnTyped DEF TypeOK, Probe
<1> QED
  BY <1>1, <1>2, <1>3, <1>4, <1>5, <1>6, <1>7, <1>8, <1>9, <1>10, <1>11, <1>12,
     <1>13, <1>14, <1>15, <1>16, <1>17 DEF AsideActions, BuildActions

-----------------------------------------------------------------------------
(* The shape of calls and carriers.                                        *)

LEMMA ShapeInit == Init => Shape
<1> SUFFICES ASSUME Init PROVE Shape
  OBVIOUS
<1>1. \A t \in Threads : pc[t] = "idle" /\ subject[t] = None /\ using[t] = None
  BY DEF Init
<1>2. \A c \in Carriers : stage[c] = "free" /\ refs[c] = 0
  BY DEF Init, Objects
<1> QED
  BY <1>1, <1>2 DEF Shape, CallsAndCarriers, SubjectsDistinct, CarriersAtRest, Resting,
     TornDownOnFailure, IdleUsesNothing, Building

LEMMA ShapeAside ==
  ASSUME Shape, Aside
  PROVE  Shape'
<1> USE DEF Shape, Aside
<1>1. CallsAndCarriers'
  BY DEF CallsAndCarriers
<1>2. SubjectsDistinct'
  BY DEF SubjectsDistinct
<1>3. CarriersAtRest'
  BY DEF CarriersAtRest, Resting
<1>4. TornDownOnFailure'
  BY DEF TornDownOnFailure, Query
<1>5. IdleUsesNothing'
  BY DEF IdleUsesNothing
<1> QED
  BY <1>1, <1>2, <1>3, <1>4, <1>5

(* A call begins, or ends, without a carrier of its own.                   *)
LEMMA ShapeEmptyHanded ==
  ASSUME TypeOK, Shape, NEW t \in Threads,
         CallCreate(t) \/ CallCanUnload(t) \/ Probe(t)
  PROVE  Shape'
<1>1. /\ UNCHANGED <<kind, refs, stage>>
      /\ subject'[t] = None /\ pc'[t] \notin Building
      /\ \A u \in Threads \ {t} :
           /\ pc'[u] = pc[u] /\ subject'[u] = subject[u]
           /\ using'[u] = using[u] /\ riid'[u] = riid[u]
      /\ subject[t] = None /\ (pc'[t] = "idle" => using'[t] = None)
  <2>1. CASE CallCreate(t)
    BY <2>1 DEF CallCreate, Goto, TypeOK, Shape, CallsAndCarriers, Building
  <2>2. CASE CallCanUnload(t)
    BY <2>2 DEF CallCanUnload, Goto, TypeOK, Shape, CallsAndCarriers, Building
  <2>3. CASE Probe(t)
    BY <2>3 DEF Probe, Return, Goto, TypeOK, Shape, CallsAndCarriers, Building
  <2> QED
    BY <2>1, <2>2, <2>3
<1>2. CallsAndCarriers'
  BY <1>1 DEF Shape, CallsAndCarriers
<1>3. SubjectsDistinct'
  BY <1>1 DEF Shape, SubjectsDistinct
<1>4. CarriersAtRest'
  BY <1>1 DEF Shape, CarriersAtRest, Resting
<1>5. TornDownOnFailure'
  BY <1>1 DEF Shape, TornDownOnFailure, Query, Building
<1>6. IdleUsesNothing'
  BY <1>1 DEF Shape, IdleUsesNothing
<1> QED
  BY <1>2, <1>3, <1>4, <1>5, <1>6 DEF Shape

(* What a step does that moves one call on, over a carrier c of its own:   *)
(* the carrier goes to the stage and the references that fit.              *)
Moves(t, c) ==
  /\ kind' = kind
  /\ \A u \in Threads \ {t} :
       /\ pc'[u] = pc[u] /\ subject'[u] = subject[u]
       /\ using'[u] = using[u] /\ riid'[u] = riid[u]
  /\ \A d \in Carriers \ {c} : stage'[d] = stage[d] /\ refs'[d] = refs[d]
  /\ \A u \in Threads \ {t} : subject[u] # c
  /\ subject[t] \in {c, None} /\ subject'[t] \in {c, None}
  /\ IF pc'[t] \in Building
     THEN /\ subject'[t] = c /\ stage'[c] = StageAt(pc'[t])
          /\ refs'[c] = IF pc'[t] = "query" THEN 1 ELSE 0
     ELSE /\ subject'[t] = None /\ Resting(c)'
  /\ pc'[t] \in {"uncount", "destroy"} /\ using'[t] # None => Query(riid'[t]) # "S_OK"
  /\ pc'[t] = "idle" => using'[t] = None

LEMMA ShapeMoves ==
  ASSUME TypeOK, Shape, NEW t \in Threads, NEW c \in Carriers, Moves(t, c)
  PROVE  Shape'
<1>0. c # None
  BY ServerAssumption
<1>1. CallsAndCarriers'
  <2> SUFFICES ASSUME NEW u \in Threads
               PROVE  /\ pc'[u] \notin Building => subject'[u] = None
                      /\ pc'[u] \in Building =>
                           /\ subject'[u] \in Carriers
                           /\ stage'[subject'[u]] = StageAt(pc'[u])
                           /\ refs'[subject'[u]] = IF pc'[u] = "query" THEN 1 ELSE 0
    BY DEF CallsAndCarriers
  <2>1. CASE u = t
    BY <2>1 DEF Moves
  <2>2. CASE u # t
    BY <2>2 DEF Moves, Shape, CallsAndCarriers
  <2> QED
    BY <2>1, <2>2
<1>2. SubjectsDistinct'
  BY DEF Moves, Shape, SubjectsDistinct
<1>3. CarriersAtRest'
  <2> SUFFICES ASSUME NEW d \in Carriers, \A u \in Threads : subject'[u] # d
               PROVE  Resting(d)'
    BY DEF CarriersAtRest
  <2>1. CASE d = c
    BY <2>1 DEF Moves
  <2>2. CASE d # c
    <3>1. \A u \in Threads : subject[u] # d
      BY <2>2, ServerAssumption DEF Moves
    <3> QED
      BY <2>2, <3>1 DEF Moves, Shape, CarriersAtRest, Resting
  <2> QED
    BY <2>1, <2>2
<1>4. TornDownOnFailure'
  BY DEF Moves, Shape, TornDownOnFailure, Query
<1>5. IdleUsesNothing'
  BY DEF Moves, Shape, IdleUsesNothing
<1> QED
  BY <1>1, <1>2, <1>3, <1>4, <1>5 DEF Shape

(* A thread that builds or tears down has its carrier for itself.          *)
LEMMA OwnCarrier ==
  ASSUME Shape, NEW t \in Threads, pc[t] \in Building
  PROVE  /\ subject[t] \in Carriers /\ subject[t] # None
         /\ \A u \in Threads \ {t} : subject[u] # subject[t]
         /\ stage[subject[t]] = StageAt(pc[t])
         /\ refs[subject[t]] = IF pc[t] = "query" THEN 1 ELSE 0
BY ServerAssumption DEF Shape, CallsAndCarriers, SubjectsDistinct

(* Memory that is not allocated is nobody's.                               *)
LEMMA UnallocatedUnused ==
  ASSUME Shape, NEW c \in Carriers, Unallocated(c), NEW t \in Threads
  PROVE  subject[t] # c
BY ServerAssumption DEF Shape, CallsAndCarriers, Unallocated, StageAt, Building

LEMMA BuildsMove ==
  ASSUME TypeOK, Shape, NEW t \in Threads,
         Mint(t) \/ NewCarrier(t, Increment(outstanding)) \/ QueryFound(t)
           \/ QueryFailed(t) \/ DropCarrier(t, Decrement(outstanding)) \/ Destroy(t)
  PROVE  \E c \in Carriers : Moves(t, c)
<1> USE DEF Objects, Building
<1>1. CASE Mint(t)
  <2>1. PICK c \in Carriers :
          /\ Unallocated(c) /\ Goto(t, "mint", "count")
          /\ subject' = [subject EXCEPT ![t] = c]
          /\ stage' = [stage EXCEPT ![c] = "minted"]
          /\ UNCHANGED <<kind, outstanding, refs, serverLock, locks, using, riid, hr>>
    BY <1>1 DEF Mint
  <2>2. subject[t] = None /\ \A u \in Threads : subject[u] # c
    BY <2>1, UnallocatedUnused DEF Shape, CallsAndCarriers, Goto
  <2>3. Moves(t, c)
    BY <2>1, <2>2 DEF TypeOK, Moves, Goto, StageAt, Unallocated
  <2> QED
    BY <2>3
<1>2. CASE NewCarrier(t, Increment(outstanding))
  <2>1. pc[t] = "count"
    BY <1>2 DEF NewCarrier, Goto
  <2>2. Moves(t, subject[t])
    BY <1>2, <2>1, OwnCarrier DEF TypeOK, NewCarrier, Moves, Goto, StageAt
  <2> QED
    BY <2>1, <2>2, OwnCarrier
<1>3. CASE QueryFound(t)
  <2>1. pc[t] = "query"
    BY <1>3 DEF QueryFound, Return, Goto
  <2>2. PICK c \in Carriers : c = subject[t]
    BY <2>1, OwnCarrier
  <2>3. stage'[c] = "counted" /\ refs'[c] = 1
    BY <1>3, <2>1, <2>2, OwnCarrier DEF QueryFound, StageAt
  <2>4. Moves(t, c)
    BY <1>3, <2>1, <2>2, <2>3, OwnCarrier
       DEF TypeOK, QueryFound, Return, Moves, Goto, Resting
  <2> QED
    BY <2>4
<1>4. CASE QueryFailed(t)
  <2>1. pc[t] = "query"
    BY <1>4 DEF QueryFailed, Goto
  <2>2. Query(riid'[t]) = Query(riid[t])
    BY <1>4 DEF QueryFailed, Query
  <2>3. Moves(t, subject[t])
    BY <1>4, <2>1, <2>2, OwnCarrier DEF TypeOK, QueryFailed, Moves, Goto, StageAt
  <2> QED
    BY <2>1, <2>3, OwnCarrier
<1>5. CASE DropCarrier(t, Decrement(outstanding))
  <2>1. pc[t] = "uncount"
    BY <1>5 DEF DropCarrier, Goto
  <2>2. Query(riid'[t]) = Query(riid[t])
    BY <1>5 DEF DropCarrier, Query
  <2>3. using'[t] # None => Query(riid[t]) # "S_OK"
    BY <1>5, <2>1 DEF DropCarrier, Shape, TornDownOnFailure
  <2>4. Moves(t, subject[t])
    BY <1>5, <2>1, <2>2, <2>3, OwnCarrier DEF TypeOK, DropCarrier, Moves, Goto, StageAt
  <2> QED
    BY <2>1, <2>4, OwnCarrier
<1>6. CASE Destroy(t)
  <2>1. pc[t] = "destroy"
    BY <1>6 DEF Destroy, Return, Goto
  <2>2. PICK c \in Carriers : c = subject[t]
    BY <2>1, OwnCarrier
  <2>3. stage'[c] = "free" /\ refs'[c] = 0
    BY <1>6, <2>1, <2>2, OwnCarrier DEF TypeOK, Destroy
  <2>4. Moves(t, c)
    BY <1>6, <2>1, <2>2, <2>3, OwnCarrier
       DEF TypeOK, Destroy, Return, Moves, Goto, Resting
  <2> QED
    BY <2>4
<1> QED
  BY <1>1, <1>2, <1>3, <1>4, <1>5, <1>6

(* A client's reference comes and goes; with the last one the carrier's    *)
(* teardown begins.                                                        *)
LEMMA ReferencesMove ==
  ASSUME TypeOK, Shape, NEW t \in Threads, AddRef(t) \/ ReleaseCarrier(t)
  PROVE  Aside \/ \E c \in Carriers : Moves(t, c)
<1> USE ServerAssumption DEF Objects, Building
<1>1. CASE AddRef(t)
  <2>1. PICK o \in Objects :
          /\ refs[o] \in 1 .. MaxRefs - 1
          /\ o \in Carriers => \A u \in Threads : subject[u] # o
          /\ Answer(t, "S_OK")
          /\ refs' = [refs EXCEPT ![o] = @ + 1]
          /\ UNCHANGED <<kind, outstanding, serverLock, stage, locks, using, subject, riid>>
    BY <1>1 DEF AddRef
  <2>2. CASE o \notin Carriers
    BY <2>1, <2>2 DEF TypeOK, Aside, Answer
  <2>3. CASE o \in Carriers
    <3>1. Resting(o)
      BY <2>1, <2>3 DEF Shape, CarriersAtRest
    <3>2. pc[t] = "idle" /\ subject[t] = None /\ using[t] = None
      BY <2>1 DEF Answer, Shape, CallsAndCarriers, IdleUsesNothing
    <3>3. Resting(o)'
      BY <2>1, <2>3, <3>1 DEF TypeOK, Resting
    <3>4. Moves(t, o)
      BY <2>1, <2>3, <3>2, <3>3 DEF TypeOK, Moves, Answer
    <3> QED
      BY <2>3, <3>4
  <2> QED
    BY <2>2, <2>3
<1>2. CASE ReleaseCarrier(t)
  <2>1. PICK c \in Carriers :
          /\ refs[c] > 0 /\ \A u \in Threads : subject[u] # c
          /\ refs' = [refs EXCEPT ![c] = @ - 1]
          /\ IF refs[c] > 1
             THEN Answer(t, "S_OK") /\ UNCHANGED subject
             ELSE /\ Goto(t, "idle", "uncount")
                  /\ subject' = [subject EXCEPT ![t] = c]
                  /\ hr' = "S_OK"
          /\ UNCHANGED <<kind, outstanding, serverLock, stage, locks, using, riid>>
    BY <1>2 DEF ReleaseCarrier
  <2>2. pc[t] = "idle" /\ subject[t] = None /\ using[t] = None
    BY <2>1 DEF Answer, Goto, Shape, CallsAndCarriers, IdleUsesNothing
  <2>3. refs[c] \in Nat /\ refs'[c] = refs[c] - 1 /\ stage[c] = "counted"
    BY <2>1 DEF TypeOK, Shape, CarriersAtRest, Resting
  <2>4. \A d \in Carriers \ {c} : stage'[d] = stage[d] /\ refs'[d] = refs[d]
    BY <2>1 DEF TypeOK
  <2>5. CASE refs[c] > 1
    BY <2>1, <2>2, <2>3, <2>4, <2>5 DEF Moves, Answer, Resting
  <2>6. CASE ~(refs[c] > 1)
    BY <2>1, <2>2, <2>3, <2>4, <2>6 DEF TypeOK, Moves, Goto, StageAt
  <2> QED
    BY <2>5, <2>6
<1> QED
  BY <1>1, <1>2

LEMMA ShapeStep ==
  ASSUME TypeOK, Shape, NEW t \in Threads, AsideActions(t) \/ BuildActions(t)
  PROVE  Shape'
BY AreAside, ShapeAside, ReferencesMove, BuildsMove, ShapeMoves, ShapeEmptyHanded
   DEF BuildActions

-----------------------------------------------------------------------------
(* The counter.                                                            *)

Counted == {c \in Carriers : stage[c] = "counted"}

LEMMA CountedFinite ==
  /\ IsFiniteSet(Counted) /\ Cardinality(Counted) \in Nat
  /\ Cardinality(Counted) <= Cardinality(Carriers)
  /\ \A c \in Carriers : Cardinality(Counted \cup {c}) <= Cardinality(Carriers)
<1>1. Counted \subseteq Carriers
  BY DEF Counted
<1> QED
  BY <1>1, ServerAssumption, FS_Subset, FS_CardinalityType

(* A carrier joins the set of the counted ones as the counter goes up, and *)
(* leaves it as the counter goes down; no wrap comes between.              *)
LEMMA CountStep ==
  ASSUME TypeOK, Shape, CountExact,
         NEW t \in Threads, AsideActions(t) \/ BuildActions(t)
  PROVE  CountExact'
<1> USE DEF CountExact
<1>0. outstanding = Cardinality(Counted)
  BY DEF Counted
<1>1. CASE NewCarrier(t, Increment(outstanding))
  <2>1. pc[t] = "count" /\ outstanding' = Increment(outstanding)
        /\ stage' = [stage EXCEPT ![subject[t]] = "counted"]
    BY <1>1 DEF NewCarrier, Goto
  <2>2. PICK c \in Carriers : c = subject[t] /\ stage[c] = "minted"
    BY <2>1, OwnCarrier DEF Building, StageAt
  <2>3. Counted' = Counted \cup {c} /\ c \notin Counted
    BY <2>1, <2>2 DEF TypeOK, Counted
  <2>4. Cardinality(Counted \cup {c}) = Cardinality(Counted) + 1
    BY <2>3, CountedFinite, FS_AddElement
  <2>5. outstanding + 1 < Word
    BY <1>0, <2>4, CountedFinite, ServerAssumption, FS_CardinalityType
  <2>6. outstanding' = outstanding + 1
    BY <2>1, <2>5, ServerAssumption DEF TypeOK, Increment
  <2> QED
    BY <1>0, <2>3, <2>4, <2>6 DEF Counted
<1>2. CASE DropCarrier(t, Decrement(outstanding))
  <2>1. pc[t] = "uncount" /\ outstanding' = Decrement(outstanding)
        /\ stage' = [stage EXCEPT ![subject[t]] = "uncounted"]
    BY <1>2 DEF DropCarrier, Goto
  <2>2. PICK c \in Carriers : c = subject[t] /\ stage[c] = "counted"
    BY <2>1, OwnCarrier DEF Building, StageAt
  <2>3. Counted' = Counted \ {c} /\ c \in Counted
    BY <2>1, <2>2 DEF TypeOK, Counted
  <2>4. Cardinality(Counted \ {c}) = Cardinality(Counted) - 1
    BY <2>3, CountedFinite, FS_RemoveElement
  <2>5. outstanding # 0
    BY <1>0, <2>3, CountedFinite, FS_EmptySet
  <2>6. outstanding' = outstanding - 1
    BY <2>1, <2>5 DEF Decrement
  <2> QED
    BY <1>0, <2>3, <2>4, <2>6 DEF Counted
<1>3. CASE outstanding' = outstanding /\ Counted' = Counted
  BY <1>0, <1>3 DEF Counted
<1>4. CASE AsideActions(t)
  BY <1>3, <1>4, AreAside DEF Aside, Counted
<1>5. CASE Mint(t)
  <2>1. PICK c \in Carriers :
          Unallocated(c) /\ stage' = [stage EXCEPT ![c] = "minted"] /\ outstanding' = outstanding
    BY <1>5 DEF Mint
  <2>2. Counted' = Counted
    BY <2>1 DEF TypeOK, Counted, Unallocated
  <2> QED
    BY <1>3, <2>1, <2>2
<1>6. CASE Destroy(t)
  <2>1. pc[t] = "destroy" /\ outstanding' = outstanding
        /\ stage' = [stage EXCEPT ![subject[t]] = "free"]
    BY <1>6 DEF Destroy, Return, Goto
  <2>2. PICK c \in Carriers : c = subject[t] /\ stage[c] = "uncounted"
    BY <2>1, OwnCarrier DEF Building, StageAt
  <2>3. Counted' = Counted
    BY <2>1, <2>2 DEF TypeOK, Counted
  <2> QED
    BY <1>3, <2>1, <2>3
<1>7. CASE AddRef(t) \/ ReleaseCarrier(t) \/ CallCreate(t) \/ QueryFound(t)
             \/ QueryFailed(t) \/ CallCanUnload(t) \/ Probe(t)
  <2>1. stage' = stage /\ outstanding' = outstanding
    BY <1>7 DEF AddRef, ReleaseCarrier, CallCreate, QueryFound, QueryFailed,
                CallCanUnload, Probe
  <2> QED
    BY <1>3, <2>1 DEF Counted
<1> QED
  BY <1>1, <1>2, <1>4, <1>5, <1>6, <1>7 DEF BuildActions

-----------------------------------------------------------------------------
LEMMA InitInv == Init => IInv
<1> SUFFICES ASSUME Init PROVE IInv
  OBVIOUS
<1>1. TypeOK
  BY ServerAssumption DEF Init, TypeOK, Stages, PCs
<1>2. Counted = {}
  BY DEF Init, Counted
<1>3. CountExact
  BY <1>2, FS_EmptySet DEF Init, CountExact, Counted
<1> QED
  BY <1>1, <1>3, ShapeInit DEF IInv

LEMMA StepInv == IInv /\ [Next]_vars => IInv'
<1> SUFFICES ASSUME IInv, [Next]_vars PROVE IInv'
  OBVIOUS
<1>1. CASE Next
  <2>1. PICK t \in Threads : AsideActions(t) \/ BuildActions(t)
    BY <1>1, NextCases
  <2> QED
    BY <2>1, TypeStep, ShapeStep, CountStep DEF IInv, Shape
<1>2. CASE UNCHANGED vars
  <2>1. TypeOK'
    BY <1>2 DEF vars, IInv, TypeOK
  <2>2. Shape'
    BY <1>2, ShapeAside DEF vars, IInv, Aside
  <2>3. CountExact'
    BY <1>2 DEF vars, IInv, CountExact
  <2> QED
    BY <2>1, <2>2, <2>3 DEF IInv
<1> QED
  BY <1>1, <1>2

(* IInv holds of every history of a DLL, its client and their threads.     *)
THEOREM Invariance == Spec => []IInv
<1> QED
  BY InitInv, StepInv, PTL DEF Spec

-----------------------------------------------------------------------------
(* Every variable keeps its type; the counters, that their decrements      *)
(* never go below zero (Refcount::release).                                *)
THEOREM TypeCorrect == Spec => []TypeOK
<1>1. IInv => TypeOK
  BY DEF IInv
<1> QED
  BY <1>1, Invariance, PTL

(* OUTSTANDING counts exactly the carriers between their new and their     *)
(* Drop, in both copies of the carrier.                                    *)
THEOREM CountsExactly == Spec => []CountExact
<1>1. IInv => CountExact
  BY DEF IInv
<1> QED
  BY <1>1, Invariance, PTL

(* A carrier a client holds is counted and no call tears it down.          *)
LEMMA HeldCounted == IInv => HeldIsAlive
<1> SUFFICES ASSUME IInv PROVE HeldIsAlive
  OBVIOUS
<1>1. \A c \in Held : stage[c] = "counted"
  BY DEF IInv, Shape, CarriersAtRest, Resting, Held
<1>2. \A t, u \in Threads : t # u /\ subject[t] # None => subject[t] # subject[u]
  BY DEF IInv, Shape, SubjectsDistinct
<1>3. \A t \in Threads : pc[t] \in {"uncount", "destroy"} => refs[subject[t]] = 0
  BY OwnCarrier DEF IInv, Building
<1> QED
  BY <1>1, <1>2, <1>3 DEF HeldIsAlive

(* No carrier is freed under a client that holds it.                       *)
THEOREM HeldStaysAlive == Spec => []HeldIsAlive
<1> QED
  BY HeldCounted, Invariance, PTL

(* A step that ends a probe is the probe's own.                            *)
LEMMA ProbingProbes ==
  ASSUME IInv, Next, NEW t \in Threads, Probing(t)
  PROVE  Probe(t)
<1>1. pc[t] = "probe" /\ pc'[t] = "idle"
  BY DEF Probing
<1>2. PICK u \in Threads : AsideActions(u) \/ BuildActions(u)
  BY NextCases
<1>3. pc \in [Threads -> PCs]
  BY DEF IInv, TypeOK
<1>4. ~AsideActions(u)
  BY <1>1, <1>2, AreAside DEF IInv, Aside
<1>5. ~(AddRef(u) \/ ReleaseCarrier(u) \/ CallCreate(u) \/ Mint(u) \/ CallCanUnload(u))
  BY <1>1, <1>3 DEF AddRef, ReleaseCarrier, CallCreate, Mint, CallCanUnload, Answer, Goto
<1>6. ~(NewCarrier(u, Increment(outstanding)) \/ QueryFound(u) \/ QueryFailed(u)
          \/ DropCarrier(u, Decrement(outstanding)) \/ Destroy(u))
  BY <1>1, <1>3 DEF NewCarrier, QueryFound, QueryFailed, DropCarrier, Destroy, Return, Goto
<1>7. Probe(u) => u = t
  BY <1>1, <1>3 DEF Probe, Return, Goto
<1> QED
  BY <1>2, <1>4, <1>5, <1>6, <1>7 DEF BuildActions

(* The counter is zero exactly when no carrier is counted.                 *)
LEMMA ZeroIsNone ==
  ASSUME IInv
  PROVE  outstanding = 0 <=> Counted = {}
BY CountedFinite, FS_EmptySet DEF IInv, CountExact, Counted

(* A probe that answers S_OK has read a zero.                              *)
LEMMA AnsweredOnZero ==
  ASSUME IInv, Next, NEW t \in Threads, Probing(t), hr' = "S_OK"
  PROVE  Counted = {}
<1>1. Probe(t)
  BY ProbingProbes
<1>2. outstanding = 0
  BY <1>1 DEF Probe, Return
<1> QED
  BY <1>2, ZeroIsNone

(* S_OK of DllCanUnloadNow is true: its one load of the counter finds zero *)
(* only when no client holds an instance.                                  *)
THEOREM UnloadAnswersTrue == Spec => UnloadAnswerTrue
<1>1. ASSUME IInv, [Next]_vars
      PROVE  [\A t \in Threads : Probing(t) /\ hr' = "S_OK" => Held = {}]_vars
  <2> SUFFICES ASSUME NEW t \in Threads, Probing(t), hr' = "S_OK", Next
               PROVE  Held = {}
    BY <1>1 DEF vars
  <2>1. Counted = {}
    BY <1>1, AnsweredOnZero
  <2>2. \A c \in Held : stage[c] = "counted"
    BY <1>1, HeldCounted DEF HeldIsAlive
  <2> QED
    BY <2>1, <2>2 DEF Counted, Held
<1> QED
  BY <1>1, Invariance, PTL DEF Spec, UnloadAnswerTrue

-----------------------------------------------------------------------------
(* What is left of "S_FALSE while this object is live" (instance_com.rs).  *)

(* When DllCanUnloadNow answers S_OK, every object of a user that still    *)
(* lives is in the hands of another call: one that has made it and not yet *)
(* counted it, or one that is destroying it.                               *)
OnlyCallsKeepObjects ==
  [][\A t \in Threads : Probing(t) /\ hr' = "S_OK" =>
       \A c \in Carriers : stage[c] # "free" =>
         \E u \in Threads \ {t} : subject[u] = c /\ pc[u] \in {"count", "destroy"}]_vars

(* A carrier that is not counted, and not in a call's hands, is free.      *)
LEMMA UncountedInFlight ==
  ASSUME IInv, NEW c \in Carriers, stage[c] \notin {"free", "counted"}
  PROVE  \E u \in Threads : subject[u] = c /\ pc[u] \in {"count", "destroy"}
<1>1. PICK u \in Threads : subject[u] = c
  BY DEF IInv, Shape, CarriersAtRest, Resting
<1>2. pc[u] \in Building /\ stage[c] = StageAt(pc[u])
  BY <1>1, ServerAssumption DEF IInv, Shape, CallsAndCarriers
<1> QED
  BY <1>1, <1>2 DEF Building, StageAt

(* The teardown that a probe does not see, and the creation it is too      *)
(* early for, are the only ways S_OK leaves an object behind.              *)
THEOREM UnloadLeavesCallsOnly == Spec => OnlyCallsKeepObjects
<1>1. ASSUME IInv, [Next]_vars
      PROVE  [\A t \in Threads : Probing(t) /\ hr' = "S_OK" =>
                \A c \in Carriers : stage[c] # "free" =>
                  \E u \in Threads \ {t} :
                    subject[u] = c /\ pc[u] \in {"count", "destroy"}]_vars
  <2> SUFFICES ASSUME NEW t \in Threads, Probing(t), hr' = "S_OK", Next,
                      NEW c \in Carriers, stage[c] # "free"
               PROVE  \E u \in Threads \ {t} :
                        subject[u] = c /\ pc[u] \in {"count", "destroy"}
    BY <1>1 DEF vars
  <2>1. stage[c] # "counted"
    BY <1>1, AnsweredOnZero DEF Counted
  <2>2. PICK u \in Threads : subject[u] = c /\ pc[u] \in {"count", "destroy"}
    BY <1>1, <2>1, UncountedInFlight
  <2>3. u # t
    BY <2>2 DEF Probing
  <2> QED
    BY <2>2, <2>3
<1> QED
  BY <1>1, Invariance, PTL DEF Spec, OnlyCallsKeepObjects

-----------------------------------------------------------------------------
(* No count is leaked.                                                     *)

(* No client holds an instance and no call is making or destroying one.    *)
Quiet == Held = {} /\ \A t \in Threads : pc[t] \notin Building

(* A quiet DLL can be unloaded: the counter is zero and every carrier has  *)
(* been freed, whatever calls have failed before.                          *)
QuietIsUnloadable ==
  Quiet => outstanding = 0 /\ \A c \in Carriers : stage[c] = "free"

(* The counter returns to zero with the last instance, and no error path   *)
(* of CreateInstance leaves a carrier behind.                              *)
THEOREM NothingPinsTheDll == Spec => []QuietIsUnloadable
<1>1. IInv => QuietIsUnloadable
  <2> SUFFICES ASSUME IInv, Quiet
               PROVE  outstanding = 0 /\ \A c \in Carriers : stage[c] = "free"
    BY DEF QuietIsUnloadable
  <2>1. \A t \in Threads : subject[t] = None
    BY DEF Quiet, IInv, Shape, CallsAndCarriers
  <2>2. \A c \in Carriers : \A t \in Threads : subject[t] # c
    BY <2>1, ServerAssumption
  <2>3. \A c \in Carriers : stage[c] = "free"
    BY <2>2 DEF Quiet, Held, IInv, Shape, CarriersAtRest, Resting
  <2>4. Counted = {}
    BY <2>3 DEF Counted
  <2> QED
    BY <2>3, <2>4, ZeroIsNone
<1> QED
  BY <1>1, Invariance, PTL

(* How many steps a call still takes at most.                              *)
StepsLeft ==
  [mint |-> 5, count |-> 4, query |-> 3, uncount |-> 2, destroy |-> 1, probe |-> 1, idle |-> 0]

(* No step of any thread sends a call back: there is no loop and no retry  *)
(* in the factory, the carrier or the probe.                               *)
CallsGoOn ==
  [][\A t \in Threads : pc[t] # "idle" =>
       pc'[t] = pc[t] \/ StepsLeft[pc'[t]] < StepsLeft[pc[t]]]_vars

(* Every call has a bounded number of steps, whatever the others do.  With *)
(* NothingPinsTheDll this is what UnloadableInTheEnd rests on, besides     *)
(* that a call in flight is always able to go on.                          *)
THEOREM CallsAreBounded == Spec => CallsGoOn
<1>1. ASSUME IInv, [Next]_vars
      PROVE  [\A t \in Threads : pc[t] # "idle" =>
                pc'[t] = pc[t] \/ StepsLeft[pc'[t]] < StepsLeft[pc[t]]]_vars
  <2> SUFFICES ASSUME NEW t \in Threads, pc[t] # "idle", Next, pc'[t] # pc[t]
               PROVE  StepsLeft[pc'[t]] < StepsLeft[pc[t]]
    BY <1>1 DEF vars
  <2>1. PICK u \in Threads : AsideActions(u) \/ BuildActions(u)
    BY NextCases
  <2>2. TypeOK
    BY <1>1 DEF IInv
  <2>3. ~AsideActions(u)
    BY <2>2, AreAside DEF Aside
  <2>4. ~(AddRef(u) \/ ReleaseCarrier(u) \/ CallCreate(u) \/ CallCanUnload(u))
    BY <2>2 DEF TypeOK, AddRef, ReleaseCarrier, CallCreate, CallCanUnload, Answer, Goto
  <2>5. CASE Mint(u) \/ NewCarrier(u, Increment(outstanding))
    BY <2>2, <2>5 DEF TypeOK, Mint, NewCarrier, Goto, StepsLeft
  <2>6. CASE QueryFound(u) \/ QueryFailed(u)
    BY <2>2, <2>6 DEF TypeOK, QueryFound, QueryFailed, Return, Goto, StepsLeft
  <2>7. CASE DropCarrier(u, Decrement(outstanding)) \/ Destroy(u) \/ Probe(u)
    BY <2>2, <2>7 DEF TypeOK, DropCarrier, Destroy, Probe, Return, Goto, StepsLeft
  <2> QED
    BY <2>1, <2>3, <2>4, <2>5, <2>6, <2>7 DEF BuildActions
<1> QED
  BY <1>1, Invariance, PTL DEF Spec, CallsGoOn

-----------------------------------------------------------------------------
(* CreateInstance hands out one reference to a new counted carrier, or an  *)
(* error and nothing; and the AEC interfaces from an AEC DLL alone.        *)
THEOREM CreateAnswers == Spec => CreateAnswer
<1>1. ASSUME IInv, [Next]_vars
      PROVE  [\A t \in Threads, c \in Carriers :
                using[t] # None /\ using'[t] = None /\ subject[t] = c =>
                  /\ IF hr' = "S_OK" THEN c \in Held' /\ refs'[c] = 1 ELSE Unallocated(c)'
                  /\ riid[t] = "aec" => (hr' = "S_OK" <=> kind = "aec")]_vars
  <2> SUFFICES ASSUME NEW t \in Threads, NEW c \in Carriers,
                      using[t] # None, using'[t] = None, subject[t] = c, Next
               PROVE  /\ IF hr' = "S_OK" THEN c \in Held' /\ refs'[c] = 1
                                        ELSE Unallocated(c)'
                      /\ riid[t] = "aec" => (hr' = "S_OK" <=> kind = "aec")
    BY <1>1 DEF vars
  <2>1. PICK u \in Threads : AsideActions(u) \/ BuildActions(u)
    BY NextCases
  <2>2. TypeOK /\ Shape
    BY <1>1 DEF IInv
  <2>3. pc[t] \in Building
    BY <2>2, ServerAssumption DEF Shape, CallsAndCarriers
  <2>4. QueryFound(t) \/ Destroy(t)
    <3>1. ~AsideActions(u)
      BY <2>2, AreAside DEF Aside
    <3>2. ~(AddRef(u) \/ ReleaseCarrier(u) \/ Mint(u) \/ CallCanUnload(u)
              \/ NewCarrier(u, Increment(outstanding)) \/ QueryFailed(u)
              \/ DropCarrier(u, Decrement(outstanding)))
      BY DEF AddRef, ReleaseCarrier, Mint, CallCanUnload, NewCarrier, QueryFailed, DropCarrier
    <3>3. ~CallCreate(u)
      BY <2>2, ServerAssumption DEF TypeOK, CallCreate
    <3>4. QueryFound(u) \/ Destroy(u) \/ Probe(u) => u = t
      BY <2>2 DEF TypeOK, QueryFound, Destroy, Probe, Return
    <3>5. ~Probe(t)
      BY <2>3 DEF Probe, Return, Goto, Building
    <3> QED
      BY <2>1, <3>1, <3>2, <3>3, <3>4, <3>5 DEF BuildActions
  <2>5. CASE QueryFound(t)
    <3>1. pc[t] = "query" /\ hr' = "S_OK" /\ Query(riid[t]) = "S_OK"
          /\ UNCHANGED <<refs, stage>>
          /\ subject' = [subject EXCEPT ![t] = None]
      BY <2>5 DEF QueryFound, Return, Goto
    <3>2. refs'[c] = 1 /\ \A v \in Threads : subject'[v] # c
      BY <2>2, <3>1, OwnCarrier, ServerAssumption DEF TypeOK, Building
    <3>3. c \in Held'
      BY <3>2 DEF Held
    <3>4. riid[t] = "aec" => kind = "aec"
      BY <3>1 DEF Query
    <3> QED
      BY <3>1, <3>2, <3>3, <3>4
  <2>6. CASE Destroy(t)
    <3>1. pc[t] = "destroy" /\ hr' = Query(riid[t]) /\ refs' = refs
          /\ stage' = [stage EXCEPT ![c] = "free"]
      BY <2>6 DEF Destroy, Return, Goto
    <3>2. hr' # "S_OK" /\ refs[c] = 0
      BY <2>2, <3>1, OwnCarrier DEF Shape, TornDownOnFailure, Building
    <3>3. Unallocated(c)'
      BY <2>2, <3>1, <3>2 DEF TypeOK, Unallocated
    <3>4. riid[t] = "aec" => kind # "aec"
      BY <3>1, <3>2 DEF Query
    <3> QED
      BY <3>2, <3>3, <3>4
  <2> QED
    BY <2>4, <2>5, <2>6
<1> QED
  BY <1>1, Invariance, PTL DEF Spec, CreateAnswer
=============================================================================
