------------------------- MODULE RegistrationProofs -------------------------
(***************************************************************************)
(* Proofs about Registration, for any number of classes and any paths.     *)
(***************************************************************************)
EXTENDS Registration, TLAPS

(* Where a registration stands: what the class at hand has been given so   *)
(* far, and that pathFailed tells whether the path is among it, unnamed    *)
(* whether the name is.                                                    *)
Progress ==
  /\ call # "idle" => result = "none"
  /\ call = "register" =>
       /\ step # "delete" /\ ranIn \in Places
       /\ step # "clsid" => Here.clsid
       /\ step \notin {"clsid", "name"} => Here.name \/ at \in unnamed
       /\ step \in {"path", "threading"} => Here.inproc
       /\ step = "threading" /\ ~pathFailed => Here.path = dllPath

(* What S_OK stands for: write_registry, or clear_registry, went through   *)
(* for every class.                                                        *)
AllDone ==
  /\ result = "registered" => ranIn \in Places /\ \A c \in Classes : Written(c)
  /\ result = "unregistered" => \A c \in Classes : registry[c] = Absent

IInv == TypeOK /\ Progress /\ EarlierClassesDone /\ AllDone

-----------------------------------------------------------------------------
(* Lemmas about the subtrees: an absent one, and each write into one that  *)
(* has the key the value goes below, are well formed.                      *)
LEMMA AbsentSubtree ==
  Absent \in Subtrees /\ ~Absent.clsid /\ ~Absent.inproc /\ ~Absent.name
    /\ ~Absent.threading /\ Absent.path = None
BY DEF Absent, Subtrees

LEMMA WrittenSubtree ==
  ASSUME NEW e \in Subtrees
  PROVE  /\ [e EXCEPT !.clsid = TRUE] \in Subtrees
         /\ [e EXCEPT !.clsid = TRUE].clsid
         /\ [e EXCEPT !.clsid = TRUE].path = e.path
         /\ [e EXCEPT !.clsid = TRUE].threading = e.threading
         /\ [e EXCEPT !.clsid = TRUE].name = e.name
         /\ e.clsid => /\ [e EXCEPT !.name = TRUE] \in Subtrees
                       /\ [e EXCEPT !.name = TRUE].clsid
                       /\ [e EXCEPT !.name = TRUE].name
                       /\ [e EXCEPT !.inproc = TRUE] \in Subtrees
                       /\ [e EXCEPT !.inproc = TRUE].clsid
                       /\ [e EXCEPT !.inproc = TRUE].inproc
                       /\ [e EXCEPT !.name = TRUE].path = e.path
                       /\ [e EXCEPT !.name = TRUE].threading = e.threading
                       /\ [e EXCEPT !.inproc = TRUE].path = e.path
                       /\ [e EXCEPT !.inproc = TRUE].name = e.name
                       /\ [e EXCEPT !.inproc = TRUE].threading = e.threading
BY DEF Subtrees

LEMMA ServerSubtree ==
  ASSUME NEW e \in Subtrees, e.inproc, NEW p \in Places \cup {Cut, None}
  PROVE  /\ [e EXCEPT !.path = p] \in Subtrees
         /\ [e EXCEPT !.path = p].clsid /\ [e EXCEPT !.path = p].inproc
         /\ [e EXCEPT !.path = p].path = p
         /\ [e EXCEPT !.path = p].name = e.name
         /\ [e EXCEPT !.path = p].threading = e.threading
         /\ [e EXCEPT !.threading = TRUE] \in Subtrees
         /\ [e EXCEPT !.threading = TRUE].threading
         /\ [e EXCEPT !.threading = TRUE].path = e.path
         /\ [e EXCEPT !.threading = TRUE].name = e.name
BY DEF Subtrees

(* What RegDeleteTreeW leaves is well formed.                              *)
LEMMA LeftSubtree ==
  ASSUME NEW e \in Subtrees, e # Absent, NEW left \in Leavings(e)
  PROVE  left \in Subtrees
<1>1. e.clsid
  BY DEF Subtrees, Absent
<1>2. /\ [Absent EXCEPT !.clsid = TRUE] \in Subtrees
      /\ [Absent EXCEPT !.clsid = TRUE].clsid
  BY AbsentSubtree, WrittenSubtree
<1>3. [Absent EXCEPT !.clsid = TRUE, !.name = e.name] \in Subtrees
  BY <1>1 DEF Subtrees, Absent
<1> QED
  BY <1>2, <1>3 DEF Leavings

(* A write leaves the other classes as they are.                           *)
LEMMA PutHere ==
  ASSUME TypeOK, NEW e \in Subtrees, Put(e)
  PROVE  /\ registry' \in [Classes -> Subtrees]
         /\ registry'[at] = e
         /\ \A c \in Classes \ {at} : registry'[c] = registry[c]
BY DEF TypeOK, Put

-----------------------------------------------------------------------------
(* The path written is one of a DLL, or what is left of a long one.        *)
LEMMA PathWritten ==
  /\ TypeOK => dllPath \in Places \cup {Cut, None}
  /\ ranIn \in Places => dllPath # None /\ (ranIn \notin LongPlaces => dllPath = ranIn)
  /\ ranIn' = ranIn => dllPath' = dllPath
BY PathsAssumption DEF TypeOK, dllPath, OwnModulePath

(* A class with a path and ThreadingModel activates the DLL at that path,  *)
(* or has a path that was cut.                                             *)
LEMMA PathNamesDll ==
  ASSUME TypeOK, NEW c \in Classes, registry[c].path # None, registry[c].threading
  PROVE  Activatable(c) \/ Activates(c, Cut)
BY DEF TypeOK, Subtrees, Activatable, Activates

(* So S_OK is as true as AnswerTrue says.                                  *)
LEMMA DoneIsTrue == AllDone => AnswerTrue
BY PathWritten DEF AllDone, AnswerTrue, Written

(* The invariant holds of an empty registry.                               *)
LEMMA InitInvariant == Init => IInv
<1> SUFFICES ASSUME Init PROVE IInv
  OBVIOUS
<1>1. registry \in [Classes -> Subtrees]
  BY AbsentSubtree DEF Init
<1>2. at \in Classes
  BY ClassesAssumption DEF Init, Classes
<1> QED
  BY <1>1, <1>2 DEF Init, IInv, TypeOK, Steps, Progress, EarlierClassesDone, AllDone

(* A step keeps the invariant: it changes the class at hand at most, and   *)
(* goes on to the next class when this one is done.                        *)
LEMMA StepInvariant == IInv /\ [Next]_vars => IInv'
<1> SUFFICES ASSUME IInv, [Next]_vars PROVE IInv'
  OBVIOUS
<1>a. /\ TypeOK /\ at \in Classes /\ Here \in Subtrees
      /\ place \in Places /\ dllPath \in Places \cup {Cut, None}
  BY PathWritten DEF IInv, TypeOK, Here
<1>b. /\ 1 \in Classes /\ Classes \subseteq Nat /\ \A c \in Classes : ~(c < 1)
      /\ at < NumClasses => at + 1 \in Classes
      /\ at = NumClasses => \A c \in Classes : c < at \/ c = at
      /\ \A c \in Classes : c < at + 1 => c < at \/ c = at
      /\ \A c \in Classes : c < at => c # at
  BY <1>a, ClassesAssumption DEF Classes
<1>c. ranIn' = ranIn => dllPath' = dllPath
  BY PathWritten
<1> USE DEF IInv, TypeOK, Progress, EarlierClassesDone, AllDone, Written, Activates, Here, Steps
<1>1. CASE Move
  BY <1>1, <1>b, <1>c DEF Move
<1>2. CASE Crash
  BY <1>2, <1>b, <1>c DEF Crash, Return, Same
<1>3. CASE CallRegister
  BY <1>3, <1>b, <1>c DEF CallRegister
<1>4. CASE ModuleUnknown
  BY <1>4, <1>b, <1>c DEF ModuleUnknown
<1>5. CASE CreateClsid
  <2>1. CASE Put([Here EXCEPT !.clsid = TRUE]) /\ Then("name")
    BY <1>5, <2>1, <1>a, <1>b, <1>c, PutHere, WrittenSubtree DEF CreateClsid, Writing, Then, Same
  <2>2. CASE UNCHANGED registry /\ Return("register failed")
    BY <1>5, <2>2, <1>b, <1>c DEF CreateClsid, Writing, Same, Return
  <2> QED
    BY <1>5, <2>1, <2>2 DEF CreateClsid
<1>6. CASE SetName
  <2>a. /\ call = "register" /\ step = "name" /\ step' = "inproc"
        /\ UNCHANGED <<call, at, result, place, ranIn, pathFailed, dllPath>>
    BY <1>6, <1>c DEF SetName, Writing, Then, Same
  <2>1. CASE Put([Here EXCEPT !.name = TRUE]) /\ UNCHANGED unnamed
    <3> DEFINE e == [Here EXCEPT !.name = TRUE]
    <3>1. e \in Subtrees /\ e.clsid /\ e.name
      BY <2>a, <1>a, WrittenSubtree
    <3>2. /\ registry' \in [Classes -> Subtrees] /\ registry'[at] = e
          /\ \A c \in Classes \ {at} : registry'[c] = registry[c]
      BY <2>1, <3>1, <1>a, PutHere
    <3> HIDE DEF e
    <3> QED
      BY <2>1, <2>a, <3>1, <3>2, <1>b
  <2>2. CASE UNCHANGED registry /\ unnamed' = unnamed \cup {at}
    BY <2>2, <2>a, <1>b
  <2> QED
    BY <1>6, <2>1, <2>2 DEF SetName
<1>7. CASE CreateInproc
  <2>1. CASE Put([Here EXCEPT !.inproc = TRUE]) /\ Then("path")
    <3> DEFINE e == [Here EXCEPT !.inproc = TRUE]
    <3>a. /\ call = "register" /\ step = "inproc" /\ step' = "path"
          /\ UNCHANGED <<call, at, result, place, ranIn, unnamed, pathFailed, dllPath>>
      BY <1>7, <2>1, <1>c DEF CreateInproc, Writing, Then, Same
    <3>1. e \in Subtrees /\ e.clsid /\ e.inproc /\ e.name = Here.name
      BY <3>a, <1>a, WrittenSubtree
    <3>2. /\ registry' \in [Classes -> Subtrees] /\ registry'[at] = e
          /\ \A c \in Classes \ {at} : registry'[c] = registry[c]
      BY <2>1, <3>1, <1>a, PutHere
    <3> HIDE DEF e
    <3> QED
      BY <3>a, <3>1, <3>2, <1>b
  <2>2. CASE UNCHANGED registry /\ Return("register failed")
    BY <1>7, <2>2, <1>b, <1>c DEF CreateInproc, Writing, Same, Return
  <2> QED
    BY <1>7, <2>1, <2>2 DEF CreateInproc
<1>8. CASE SetPath
  <2>a. /\ call = "register" /\ step = "path" /\ step' = "threading"
        /\ UNCHANGED <<call, at, result, place, ranIn, unnamed, dllPath>>
    BY <1>8, <1>c DEF SetPath, Writing, Then, Same
  <2>1. CASE Put([Here EXCEPT !.path = dllPath]) /\ pathFailed' = FALSE
    <3> DEFINE e == [Here EXCEPT !.path = dllPath]
    <3>1. e \in Subtrees /\ e.clsid /\ e.inproc /\ e.path = dllPath /\ e.name = Here.name
      BY <1>8, <1>a, ServerSubtree DEF SetPath, Writing
    <3>2. /\ registry' \in [Classes -> Subtrees] /\ registry'[at] = e
          /\ \A c \in Classes \ {at} : registry'[c] = registry[c]
      BY <2>1, <3>1, <1>a, PutHere
    <3> HIDE DEF e
    <3> QED
      BY <2>1, <2>a, <3>1, <3>2, <1>b
  <2>2. CASE UNCHANGED registry /\ pathFailed' = TRUE
    BY <2>2, <2>a, <1>b
  <2> QED
    BY <1>8, <2>1, <2>2 DEF SetPath
<1>9. CASE SetThreading
  <2>1. CASE /\ Put([Here EXCEPT !.threading = TRUE]) /\ ~pathFailed
             /\ NextClass("clsid", "registered")
    <3> DEFINE e == [Here EXCEPT !.threading = TRUE]
    <3>1. e \in Subtrees /\ e.path = dllPath /\ e.threading /\ e.name = Here.name
      BY <1>9, <2>1, <1>a, ServerSubtree DEF SetThreading, Writing
    <3>2. /\ registry' \in [Classes -> Subtrees] /\ registry'[at] = e
          /\ \A c \in Classes \ {at} : registry'[c] = registry[c]
      BY <2>1, <3>1, <1>a, PutHere
    <3> HIDE DEF e
    <3>3. call = "register" /\ UNCHANGED <<place, ranIn, unnamed, dllPath>> /\ pathFailed' = FALSE
      BY <1>9, <1>c DEF SetThreading, Writing, Same
    <3>4. \A c \in Classes : c < at \/ c = at =>
            /\ registry'[c].path = dllPath /\ registry'[c].threading
            /\ registry'[c].name \/ c \in unnamed
      BY <1>9, <3>1, <3>2, <3>3, <1>b DEF SetThreading, Writing
    <3>5. CASE at < NumClasses /\ at' = at + 1 /\ step' = "clsid" /\ UNCHANGED <<call, result>>
      BY <3>2, <3>3, <3>4, <3>5, <1>b, <1>c
    <3>6. CASE at = NumClasses /\ Return("registered")
      BY <3>2, <3>3, <3>4, <3>6, <1>b, <1>c DEF Return
    <3> QED
      BY <2>1, <3>5, <3>6 DEF NextClass
  <2>2. CASE Put([Here EXCEPT !.threading = TRUE]) /\ pathFailed /\ Return("register failed")
    BY <1>9, <2>2, <1>a, <1>b, <1>c, PutHere, ServerSubtree DEF SetThreading, Writing, Same, Return
  <2>3. CASE UNCHANGED registry /\ Return("register failed")
    BY <1>9, <2>3, <1>b, <1>c DEF SetThreading, Writing, Same, Return
  <2> QED
    BY <1>9, <2>1, <2>2, <2>3 DEF SetThreading
<1>10. CASE CallUnregister
  BY <1>10, <1>b, <1>c DEF CallUnregister
<1>11. CASE DeleteTree
  <2>1. CASE Put(Absent) /\ NextClass("delete", "unregistered")
    <3>1. \A c \in Classes : c < at \/ c = at => registry'[c] = Absent
      BY <1>11, <2>1, <1>a, <1>b, <1>c, PutHere, AbsentSubtree DEF DeleteTree
    <3> QED
      BY <1>11, <2>1, <3>1, <1>a, <1>b, <1>c, PutHere, AbsentSubtree
         DEF DeleteTree, Same, NextClass, Return
  <2>2. CASE /\ Here # Absent
             /\ \E left \in Leavings(Here) : Put(left)
             /\ Return("unregister failed")
    BY <1>11, <2>2, <1>a, <1>b, <1>c, PutHere, LeftSubtree DEF DeleteTree, Same, Return
  <2> QED
    BY <1>11, <2>1, <2>2 DEF DeleteTree
<1>12. CASE UNCHANGED vars
  <2>1. UNCHANGED <<registry, place, ranIn, call, at, step, unnamed, pathFailed, result, dllPath>>
    BY <1>12, <1>c DEF vars
  <2>2. TypeOK'
    BY <2>1
  <2>3. Progress'
    BY <2>1
  <2>4. EarlierClassesDone'
    BY <2>1
  <2>5. AllDone'
    BY <2>1
  <2> QED
    BY <2>2, <2>3, <2>4, <2>5
<1> QED
  BY <1>1, <1>2, <1>3, <1>4, <1>5, <1>6, <1>7, <1>8, <1>9, <1>10, <1>11, <1>12 DEF Next

-----------------------------------------------------------------------------
(* IInv holds throughout: every subtree is well formed, every call is where *)
(* it says it is.                                                          *)
THEOREM Invariance == Spec => []IInv
BY InitInvariant, StepInvariant, PTL DEF Spec

(* S_OK of DllUnregisterServer, and that of DllRegisterServer from a place *)
(* whose path fits the buffer, are true after any history of failed and    *)
(* killed calls and for any number of classes.                             *)
THEOREM AnswersTrue == Spec => []AnswerTrue
BY Invariance, DoneIsTrue, PTL DEF IInv

(* The classes that a call of DllRegisterServer or DllUnregisterServer is  *)
(* past are done, also when it fails.                                      *)
THEOREM EarlierDone == Spec => []EarlierClassesDone
BY Invariance, PTL DEF IInv

(* The class has all the values an activator reads, whatever path is there. *)
HasServer(c) == registry[c].path # None /\ registry[c].threading

(* A step keeps the values of a class, unless it unregisters: it writes the *)
(* path of its registration over the one that was there, or none.          *)
LEMMA StepKeepsServer ==
  ASSUME IInv, [Next]_vars, NEW c \in Classes, HasServer(c), call # "unregister"
  PROVE  /\ HasServer(c)'
         /\ \/ registry'[c].path = registry[c].path
            \/ call = "register" /\ registry'[c].path = dllPath
<1> DEFINE Kept == /\ HasServer(c)'
                   /\ \/ registry'[c].path = registry[c].path
                      \/ call = "register" /\ registry'[c].path = dllPath
<1>a. TypeOK /\ at \in Classes /\ Here \in Subtrees
  BY DEF IInv, TypeOK, Here
<1>b. call = "register" => dllPath # None
  BY PathWritten DEF IInv, Progress
<1>1. CASE UNCHANGED registry
  BY <1>1 DEF HasServer
<1>2. ASSUME NEW e \in Subtrees, Put(e), e.path \in {Here.path, dllPath}, call = "register",
             Here.threading => e.threading
      PROVE  Kept
  BY <1>2, <1>a, <1>b, PutHere DEF HasServer, Here
<1> HIDE DEF Kept
<1>3. CASE CreateClsid
  BY <1>1, <1>2, <1>3, <1>a, WrittenSubtree DEF CreateClsid, Writing, Kept
<1>4. CASE SetName \/ CreateInproc
  <2>1. call = "register" /\ Here.clsid
    BY <1>4 DEF SetName, CreateInproc, Writing, IInv, Progress
  <2>2. CASE Put([Here EXCEPT !.name = TRUE])
    <3> DEFINE e == [Here EXCEPT !.name = TRUE]
    <3>1. e \in Subtrees /\ e.path \in {Here.path, dllPath} /\ (Here.threading => e.threading)
      BY <2>1, <1>a, WrittenSubtree
    <3> HIDE DEF e
    <3>2. Put(e)
      BY <2>2 DEF e
    <3> QED
      BY <1>2, <2>1, <3>1, <3>2 DEF Kept
  <2>3. CASE Put([Here EXCEPT !.inproc = TRUE])
    <3> DEFINE e == [Here EXCEPT !.inproc = TRUE]
    <3>1. e \in Subtrees /\ e.path \in {Here.path, dllPath} /\ (Here.threading => e.threading)
      BY <2>1, <1>a, WrittenSubtree
    <3> HIDE DEF e
    <3>2. Put(e)
      BY <2>3 DEF e
    <3> QED
      BY <1>2, <2>1, <3>1, <3>2 DEF Kept
  <2> QED
    BY <1>1, <1>4, <2>2, <2>3 DEF SetName, CreateInproc, Kept
<1>5. CASE SetPath \/ SetThreading
  <2>1. call = "register" /\ Here.inproc /\ dllPath \in Places \cup {Cut, None}
    BY <1>5, <1>a, PathWritten DEF SetPath, SetThreading, Writing, IInv, Progress
  <2>2. CASE Put([Here EXCEPT !.path = dllPath])
    <3> DEFINE e == [Here EXCEPT !.path = dllPath]
    <3>1. e \in Subtrees /\ e.path \in {Here.path, dllPath} /\ (Here.threading => e.threading)
      BY <2>1, <1>a, ServerSubtree
    <3> HIDE DEF e
    <3>2. Put(e)
      BY <2>2 DEF e
    <3> QED
      BY <1>2, <2>1, <3>1, <3>2 DEF Kept
  <2>3. CASE Put([Here EXCEPT !.threading = TRUE])
    <3> DEFINE e == [Here EXCEPT !.threading = TRUE]
    <3>1. e \in Subtrees /\ e.path \in {Here.path, dllPath} /\ (Here.threading => e.threading)
      BY <2>1, <1>a, ServerSubtree
    <3> HIDE DEF e
    <3>2. Put(e)
      BY <2>3 DEF e
    <3> QED
      BY <1>2, <2>1, <3>1, <3>2 DEF Kept
  <2> QED
    BY <1>1, <1>5, <2>2, <2>3 DEF SetPath, SetThreading, Kept
<1>6. Kept
  BY <1>1, <1>3, <1>4, <1>5
     DEF Next, vars, Move, Crash, CallRegister, ModuleUnknown, CallUnregister, DeleteTree, Kept
<1> QED
  BY <1>6 DEF Kept

(* So a working class stays one, unless a step unregisters or writes a     *)
(* path that was cut.                                                      *)
LEMMA StepKeepsWorking ==
  IInv /\ [Next]_vars =>
    [\A c \in Classes : Activatable(c) /\ ~Activatable(c)' =>
       call = "unregister" \/ (call = "register" /\ ranIn \in LongPlaces)]_vars
<1> SUFFICES ASSUME IInv, [Next]_vars, NEW c \in Classes, Activatable(c), ~Activatable(c)',
                    call # "unregister"
             PROVE  call = "register" /\ ranIn \in LongPlaces
  BY DEF vars
<1>1. HasServer(c) /\ registry[c].path \in Places
  BY PathsAssumption DEF Activatable, Activates, HasServer
<1>2. registry'[c].threading /\ registry'[c].path \notin Places
  BY <1>1, StepKeepsServer DEF HasServer, Activatable, Activates
<1>3. call = "register" /\ dllPath \notin Places
  BY <1>1, <1>2, StepKeepsServer
<1> QED
  BY <1>3, PathWritten DEF IInv, Progress

(* Every variable keeps its type; in particular a value is only ever below *)
(* a key that is there.                                                    *)
THEOREM RegistryTyped == Spec => []TypeOK
BY Invariance, PTL DEF IInv

(* DllRegisterServer never takes a working class away, from a place whose  *)
(* path fits own_module_path's buffer.                                     *)
THEOREM WorkingStays == Spec => StaysActivatable
BY Invariance, StepKeepsWorking, PTL DEF Spec, StaysActivatable
=============================================================================
