---------------------------- MODULE Registration ----------------------------
(***************************************************************************)
(* Self-registration of the DLL under HKEY_CURRENT_USER                    *)
(* (dll_register_server_dispatch and dll_unregister_server_dispatch of     *)
(* src/raw/exports.rs, src/raw/register.rs).  One action per call into the *)
(* registry: each may fail, regsvr32 may be killed between any two, and    *)
(* the COM activator may read what is there at any time.                   *)
(***************************************************************************)
EXTENDS Integers

CONSTANTS
  NumClasses,   \* the length of the slice of vtables
  Places,       \* the paths the DLL can be installed at
  LongPlaces,   \* those of 1024 characters or more
  Cut,          \* what is left of a long path: it names no DLL
  None

ASSUME ClassesAssumption == NumClasses \in Nat \ {0}
ASSUME PathsAssumption ==
  /\ LongPlaces \subseteq Places
  /\ None \notin Places \cup {Cut}
  /\ Cut \notin Places

Classes == 1 .. NumClasses

(* A class's subtree: its CLSID key with the friendly name, the            *)
(* InprocServer32 key below it with the DLL's path and ThreadingModel.     *)
Absent ==
  [clsid |-> FALSE, name |-> FALSE, inproc |-> FALSE, path |-> None, threading |-> FALSE]

(* The subtrees there can be: every value is below its key.                *)
Subtrees ==
  {e \in [clsid : BOOLEAN, name : BOOLEAN, inproc : BOOLEAN,
          path : Places \cup {Cut, None}, threading : BOOLEAN] :
     /\ e.inproc \/ e.name => e.clsid
     /\ e.path # None \/ e.threading => e.inproc}

VARIABLES
  registry,    \* the subtree of each class; what a crash leaves
  place,       \* where the DLL that is loaded is
  ranIn,       \* where the DLL was that the last registration ran in, None
               \* before one and after unregistering
  call,        \* the call in flight, "idle" between calls
  at, step,    \* the class it is at, and its next call into the registry
  unnamed,     \* classes it could not write the name of; {} once killed
  pathFailed,  \* the result of set_default_wide, returned only later
  result       \* of the last call: which it was, and how it ended

vars == <<registry, place, ranIn, call, at, step, unnamed, pathFailed, result>>

Steps == {"clsid", "name", "inproc", "path", "threading", "delete"}

TypeOK ==
  /\ registry \in [Classes -> Subtrees]
  /\ place \in Places
  /\ ranIn \in Places \cup {None}
  /\ call \in {"idle", "register", "unregister"}
  /\ at \in Classes /\ step \in Steps
  /\ unnamed \subseteq Classes /\ pathFailed \in BOOLEAN
  /\ result \in {"none", "registered", "unregistered", "register failed",
                 "unregister failed", "killed"}

Init ==
  /\ registry = [c \in Classes |-> Absent]
  /\ place \in Places /\ ranIn = None
  /\ call = "idle" /\ at = 1 /\ step = "clsid"
  /\ unnamed = {} /\ pathFailed = FALSE
  /\ result = "none"

(* Another copy of the DLL is installed at another place and loaded from   *)
(* there; the copies there were stay.                                      *)
Move ==
  /\ call = "idle"
  /\ place' \in Places \ {place}
  /\ UNCHANGED <<registry, ranIn, call, at, step, unnamed, pathFailed, result>>

(* GetModuleFileNameW cuts a path that does not fit the buffer of 1024     *)
(* characters, and own_module_path returns what fits.                      *)
OwnModulePath(p) == IF p \in LongPlaces THEN Cut ELSE p

(* The path the last registration wrote, or was to write.                  *)
dllPath == IF ranIn = None THEN None ELSE OwnModulePath(ranIn)

Return(r) == call' = "idle" /\ result' = r /\ UNCHANGED <<at, step>>

-----------------------------------------------------------------------------
(* DllRegisterServer.                                                      *)

CallRegister ==
  /\ call = "idle"
  /\ call' = "register" /\ at' = 1 /\ step' = "clsid"
  /\ ranIn' = place
  /\ result' = "none" /\ unnamed' = {}
  /\ UNCHANGED <<registry, place, pathFailed>>

(* own_module_path fails: nothing is written.                              *)
ModuleUnknown ==
  /\ call = "idle"
  /\ result' = "register failed" /\ at' = 1 /\ unnamed' = {}
  /\ UNCHANGED <<registry, place, ranIn, call, step, pathFailed>>

(* A write into the subtree of the class at hand, and what follows it.     *)
Writing(s) == call = "register" /\ step = s
Here == registry[at]
Put(entry) == registry' = [registry EXCEPT ![at] = entry]
Then(s) == step' = s /\ UNCHANGED <<call, at, result>>
Same == UNCHANGED <<place, ranIn>>

(* Mutant: the class starts from a clean key.                              *)
CreateClsidAnew ==
  /\ Writing("clsid")
  /\ \/ Put([Absent EXCEPT !.clsid = TRUE]) /\ Then("name")
     \/ UNCHANGED registry /\ Return("register failed")
  /\ UNCHANGED <<unnamed, pathFailed>> /\ Same

CreateClsid ==
  /\ Writing("clsid")
  /\ \/ Put([Here EXCEPT !.clsid = TRUE]) /\ Then("name")
     \/ UNCHANGED registry /\ Return("register failed")
  /\ UNCHANGED <<unnamed, pathFailed>> /\ Same

(* set_default_value: a failure goes unnoticed.                            *)
SetName ==
  /\ Writing("name")
  /\ \/ Put([Here EXCEPT !.name = TRUE]) /\ UNCHANGED unnamed
     \/ UNCHANGED registry /\ unnamed' = unnamed \cup {at}
  /\ Then("inproc")
  /\ UNCHANGED pathFailed /\ Same

CreateInproc ==
  /\ Writing("inproc")
  /\ \/ Put([Here EXCEPT !.inproc = TRUE]) /\ Then("path")
     \/ UNCHANGED registry /\ Return("register failed")
  /\ UNCHANGED <<unnamed, pathFailed>> /\ Same

SetPath ==
  /\ Writing("path")
  /\ \/ Put([Here EXCEPT !.path = dllPath]) /\ pathFailed' = FALSE
     \/ UNCHANGED registry /\ pathFailed' = TRUE
  /\ Then("threading") /\ UNCHANGED unnamed /\ Same

(* Mutant: the slice is walked one class too far.                          *)
NextClassOneMore(first, done) ==
  \/ at <= NumClasses /\ at' = at + 1 /\ step' = first /\ UNCHANGED <<call, result>>
  \/ at > NumClasses /\ Return(done)

(* The next class, or S_OK after the last.                                 *)
NextClass(first, done) ==
  \/ at < NumClasses /\ at' = at + 1 /\ step' = first /\ UNCHANGED <<call, result>>
  \/ at = NumClasses /\ Return(done)

(* Mutant: only the second of the two results is looked at.                *)
SetThreadingOnlyResult ==
  /\ Writing("threading")
  /\ \/ Put([Here EXCEPT !.threading = TRUE]) /\ NextClass("clsid", "registered")
     \/ UNCHANGED registry /\ Return("register failed")
  /\ UNCHANGED unnamed /\ pathFailed' = FALSE /\ Same

(* The threading model is written whether or not the path was; then the    *)
(* first failure of the two is returned.                                   *)
SetThreading ==
  /\ Writing("threading")
  /\ \/ /\ Put([Here EXCEPT !.threading = TRUE]) /\ ~pathFailed
        /\ NextClass("clsid", "registered")
     \/ /\ Put([Here EXCEPT !.threading = TRUE]) /\ pathFailed
        /\ Return("register failed")
     \/ /\ UNCHANGED registry
        /\ Return("register failed")
  /\ UNCHANGED unnamed /\ pathFailed' = FALSE /\ Same

-----------------------------------------------------------------------------
(* DllUnregisterServer.                                                    *)

CallUnregister ==
  /\ call = "idle"
  /\ call' = "unregister" /\ at' = 1 /\ step' = "delete"
  /\ ranIn' = None
  /\ result' = "none" /\ unnamed' = {}
  /\ UNCHANGED <<registry, place, pathFailed>>

(* What RegDeleteTreeW may leave when it fails: it deletes the subkeys     *)
(* before the values and the key.                                          *)
Leavings(entry) ==
  {entry, [Absent EXCEPT !.clsid = TRUE, !.name = entry.name],
   [Absent EXCEPT !.clsid = TRUE]}

(* Mutant: a subtree that cannot be deleted is passed over.                *)
DeleteTreeGoesOn ==
  /\ call = "unregister"
  /\ \E left \in Leavings(Here) \cup {Absent} : Put(left)
  /\ NextClass("delete", "unregistered")
  /\ UNCHANGED <<unnamed, pathFailed>> /\ Same

(* clear_registry: a key that is not there counts as deleted.              *)
DeleteTree ==
  /\ call = "unregister"
  /\ \/ /\ Put(Absent)
        /\ NextClass("delete", "unregistered")
     \/ /\ Here # Absent
        /\ \E left \in Leavings(Here) : Put(left)
        /\ Return("unregister failed")
  /\ UNCHANGED <<unnamed, pathFailed>> /\ Same

(* The process is killed; what it wrote stays.                             *)
Crash ==
  /\ call # "idle"
  /\ Return("killed") /\ unnamed' = {} /\ pathFailed' = FALSE
  /\ UNCHANGED registry /\ Same

Next ==
  \/ Move \/ Crash
  \/ CallRegister \/ ModuleUnknown
  \/ CreateClsid \/ SetName \/ CreateInproc \/ SetPath \/ SetThreading
  \/ CallUnregister \/ DeleteTree

Spec == Init /\ [][Next]_vars

-----------------------------------------------------------------------------
(* Properties.                                                             *)

(* What the activator needs to load the class from p into any apartment.   *)
Activates(c, p) == registry[c].path = p /\ registry[c].threading

(* Some copy of the DLL is loaded for the class.  A path that was cut      *)
(* names none.                                                             *)
Activatable(c) == \E p \in Places : Activates(c, p)

(* What write_registry has done for a class when it returns Ok: the path   *)
(* it was given is there, and the name but for a failure it did not see.   *)
Written(c) == Activates(c, dllPath) /\ (registry[c].name \/ c \in unnamed)

(* S_OK is true: after DllRegisterServer every class activates the DLL the *)
(* call ran in, whatever an earlier, failed or killed call had left; after *)
(* DllUnregisterServer nothing is left of any class.                       *)
(*                                                                         *)
(* Two things are not true of S_OK, and not claimed here: when the path of *)
(* the DLL has 1024 characters or more no class is activated, though       *)
(* own_module_path is documented to give "the absolute path" (exports.rs), *)
(* and a class whose name could not be written has none, though "on any    *)
(* registry-write failure the routine returns the first failing HRESULT".  *)
AnswerTrue ==
  /\ result = "registered" =>
       \A c \in Classes :
         /\ ranIn \notin LongPlaces => Activates(c, ranIn)
         /\ c \notin unnamed => registry[c].name
  /\ result = "unregistered" => \A c \in Classes : registry[c] = Absent

(* "returns the first failing HRESULT without rolling back" (exports.rs):  *)
(* during a call, and after a failed one, the classes it is past are done, *)
(* so that the call can be repeated from there.                            *)
EarlierClassesDone ==
  /\ call = "register" \/ result = "register failed" =>
       \A c \in Classes : c < at => Written(c)
  /\ call = "unregister" \/ result = "unregister failed" =>
       \A c \in Classes : c < at => registry[c] = Absent

(* A working class is taken away by unregistering, and by registering a    *)
(* copy whose path is cut, which puts it in the place of one that could be *)
(* loaded; by nothing else: not by registering again from a place with a   *)
(* shorter path, whatever fails.                                           *)
StaysActivatable ==
  [][\A c \in Classes : Activatable(c) /\ ~Activatable(c)' =>
       call = "unregister" \/ (call = "register" /\ ranIn \in LongPlaces)]_vars
=============================================================================
