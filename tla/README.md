# TLA+ models of tympan-apo

tympan-apo is a Rust framework for Windows Audio Processing Objects (APOs): a
user writes a `ProcessingObject`, the framework builds from it an in-process COM
server (a DLL) that the Windows audio engine loads, and drives the user's object
through the engine's lifecycle. This directory holds TLA+ models of the parts of
it in which the order of events matters, TLC configurations that check them on
small instances, and proofs that TLAPS checks for every instance.

Paths are relative to the repository; `src/` is the crate's source directory.

## 1. The system

### Components

| Component | Source | State it keeps | Operations |
|---|---|---|---|
| Lifecycle cell | `src/realtime/state.rs` | one `AtomicU8`: Uninitialized, Initialized, Locked | `initialize`, `lock`, `unlock` (compare_exchange), `current` |
| APO instance | `src/instance.rs` | the cell, the user's object in an `UnsafeCell`, `locked_formats: UnsafeCell<Option<..>>` | initialize, lock_for_process, unlock_for_process, process, locked_formats, format queries, set_system_effect_state |
| COM dispatch | `src/raw/dispatch.rs` | none: it validates raw arguments and calls the instance | Initialize, LockForProcess, UnlockForProcess, APOProcess, GetInputChannelCount, effects lists, SetAudioSystemEffectState, AEC bodies |
| SPSC ring | `src/realtime/ring.rs` | `head`, `tail` (atomic `usize`), `capacity` slots, two handles sharing an `Arc` | try_push, is_full, try_pop, is_empty, the drops |
| Reference counter | `src/realtime/refcount.rs` | one `AtomicU32` | add_ref, release |
| Class factory | `src/raw/class_factory.rs` | `server_lock: Refcount`, per factory object | CreateInstance, LockServer |
| Instance carrier | `src/raw/instance_com.rs` | an `Arc<dyn AnyApoInstance>`; counted in `OUTSTANDING` | new, Drop, the COM methods, which forward to the dispatch |
| Exports | `src/raw/exports.rs`, `src/macros.rs` | `OUTSTANDING: AtomicU32`, process-wide | DllGetClassObject, DllCanUnloadNow, DllRegisterServer, DllUnregisterServer |
| AEC | `src/aec/*.rs` | a second carrier and factory; the auxiliary inputs are the user's | AddAuxiliaryInput, RemoveAuxiliaryInput, IsInputFormatSupported, AcceptInput |
| Formats | `src/format.rs`, `src/apo.rs`, `src/raw/media_type.rs` | none | constructors and builders, wire conversions, negotiation |
| Registration | `src/raw/register.rs`, `src/raw/exports.rs` | registry keys | register, unregister |
| Discovery | `src/raw/reg_properties.rs`, the effects lists of `src/raw/dispatch.rs`, `src/aec/exports.rs` | blocks of the task allocator, handed to the engine | GetRegistrationProperties, GetEffectsList, GetControllableSystemEffectsList |
| FxProperties | `src/fx_properties.rs` | registry values of an endpoint | write_endpoint_binding, clear_endpoint_binding |
| INF | `src/inf.rs` | none | generating a text |
| Values and macros | `src/clsid.rs`, `src/error.rs`, `src/buffer.rs`, `src/macros.rs`, `src/raw/abi.rs`, `src/realtime/context.rs` | none | newtypes and code generation |

### How they interact

    audio engine --DllGetClassObject--> factory --CreateInstance--> carrier
         |                                 |                           | Arc
         |                            server_lock                      v
         |--LockForProcess, APOProcess, ...--> dispatch --> ApoInstance --> user
         |                                                  cell | cached formats
         |--DllCanUnloadNow--> OUTSTANDING <-- carrier new / Drop
         |--GetRegistrationProperties, effects lists--> a block the engine frees

    regsvr32 --DllRegisterServer--> HKCU\..\CLSID <--activates-- audio engine
    installer --write_endpoint_binding--> FxProperties --names a CLSID--^

The engine calls from several threads: a control thread (Initialize,
LockForProcess, UnlockForProcess, format queries, effects) and a realtime thread
(APOProcess). The framework takes no lock. It relies on the cell's
compare_exchange and on what the engine promises not to overlap
(`src/instance.rs` lines 10-28 and 134-148). The ring is offered to the user's
object for handing values between the realtime thread and a worker.

### What is hard, and what makes each part correct

- **Instance.** One call is several accesses to three pieces of state: LockForProcess
  moves the cell first, asks the user second and writes the cache third (or
  moves the cell back); APOProcess loads the cell, copies the cache, checks the copy and
  loads the cell again before it takes `&mut` of the user's object. Correct
  means: the user's callbacks pair up, the object is not borrowed twice, the
  plain cache accesses do not race, a buffer is processed under the formats the
  user agreed to, a refused lock leaves nothing behind, and the engine cannot
  tell the calls from atomic ones.
- **Ring.** Each side acts on an old value of the other's index, indices wrap, no
  slot is sacrificed to tell full from empty, and whoever drops the last handle
  drops what is left. Correct means: it is a bounded FIFO queue, a slot has one
  owner, no value is lost, read twice or dropped twice.
- **Server.** Carriers are made and released on any thread while the loader asks
  whether the DLL may go. Correct means: the counter is the number of carriers, every
  error path of CreateInstance undoes what it did, S_OK is answered only when no
  client holds an instance, and the counter does come back to zero.
- **AEC.** The auxiliary calls share the cell, the cached formats and the user's
  object with all the others; AcceptInput looks at the cell once, where APOProcess
  looks twice; nobody tracks the ids. Correct means: the user's object stays
  exclusive, and a buffer reaches the user only while it is locked, sliced by the
  locked formats, for an input it agreed to.
- **Formats.** A media type is read into a `Format`, and what is handed back is always
  written anew. Sizes are products in 16 and 32 bits. Correct means: nothing that gives
  samples their meaning is lost on the way, and negotiation ends.
- **Registration.** A dozen registry calls, each of which may fail, no rollback, the
  caller may be killed, the path may not fit its buffer. Correct means: S_OK is true
  whatever was there before, a failed call can be repeated, and registering never breaks a
  working class; the exceptions the code has are named in the properties.
- **Bindings.** An endpoint's FxProperties name the class the engine activates for it; binding
  and clearing are two registry calls each, and some errors count as success. Correct means:
  an installer that goes by the answers never leaves an endpoint bound to a class
  that is gone, and what was bound is what the engine reads, byte for byte.
- **Discovery.** Three calls size a block, fill it and give it away, while the user's effects may
  change under them. Correct means: no write past the block, one owner at
  any time, no entries of two lists in one, texts that end, and interface lists that are true.

`PROJECT.json` lists the hazards one by one, each at its line, with the
properties that cover it.

## 2. Modules

| Module | Stands for | Kind |
|---|---|---|
| `ApoLifecycle` | an APO with every call atomic | abstract specification |
| `ApoInstance` | `instance.rs`, `state.rs` and their dispatch bodies, every call in steps | implements `ApoLifecycle` |
| `ApoInstanceProofs` | the inductive invariant, the safety theorems, the refinement | proofs |
| `MCApoInstance` | formats, requests, engines for TLC | instance |
| `BoundedQueue` | a bounded FIFO queue with late refusals | abstract specification |
| `SpscRing` | `ring.rs`, both sides in steps | implements `BoundedQueue` |
| `SpscRingProofs` | the arithmetic of indices, the invariant, the refinement | proofs |
| `MCSpscRing` | values and word size for TLC | instance |
| `ComServer` | factories, carriers, `OUTSTANDING`, DllCanUnloadNow, of a plain or an AEC DLL | model, configured directly |
| `ComServerProofs` | its invariant and theorems | proofs |
| `AecLifecycle` | an APO with auxiliary inputs, every call atomic | abstract specification, extends `ApoLifecycle` |
| `ApoAec` | the auxiliary inputs of `aec/`, interleaved with every call of `ApoInstance` | extends `ApoInstance`, implements `AecLifecycle` |
| `ApoAecProofs` | its invariant, on top of `ApoInstanceProofs`, and both refinements | proofs |
| `MCApoAec` | ids and the engine's overlaps for TLC | instance |
| `FormatNegotiation` | `format.rs`, `media_type.rs`, the default negotiation | model |
| `FormatNegotiationProofs` | lemmas on reading and writing, the theorems | proofs |
| `MCFormatNegotiation` | media types, a user's formats and word sizes for TLC | instance |
| `Registration` | DllRegisterServer, DllUnregisterServer, `register.rs` | model |
| `RegistrationProofs` | its invariant and theorems | proofs |
| `EndpointBinding` | `fx_properties.rs` and an installer | extends `Registration` |
| `EndpointBindingProofs` | its invariant, on top of `RegistrationProofs`, and that it implements `Registration` | proofs |
| `MCEndpointBinding` | slots and CLSIDs for TLC | instance |
| `ApoDiscovery` | `reg_properties.rs`, the effects lists of `dispatch.rs`, `SystemEffect` | model |
| `ApoDiscoveryProofs` | lemmas on sizes, the invariant and theorems | proofs |
| `MCApoDiscovery` | texts, lists and sizes for TLC | instance |

Definitions named "Mutant" in the comments are deliberate mistakes (a forgotten
rollback, a compare_exchange split in two, an off-by-one). Each property is
checked against one of them: put in the place of the real definition, TLC must
find the property violated. `PROJECT.json` pairs them.

### ApoInstance

| Variable | Code |
|---|---|
| `st` | `StateCell` |
| `cache` | `ApoInstance::locked_formats` |
| `user` | what the user's `lock_for_process` last accepted, until its `unlock_for_process` (a history of the callbacks) |
| `pc`, `local` | where each engine thread's call stands, and its local copy of the formats (or the effect asked for) |
| `hr`, `out` | what the engine sees: the last HRESULT, and per thread the output property of its last APOProcess |

The grain is one action per access to shared state or call into the user: between
two actions any other thread may run. The argument checks
(`LockRequestVerdict`, `ConnectionsAccepted`) touch nothing shared and are part
of the first action. The user's answers are free: lock may be refused, any buffer flag
returned.

| Actions | Code |
|---|---|
| `CallInitialize`, `InitCas` | `ApoInstance::initialize` |
| `RejectLock`, `CallLock`, `LockCas`/`LockRefused`, `LockUserOk`/`LockUserErr`, `LockCache`, `LockRollback` | `dispatch::lock_for_process`, `ApoInstance::lock_for_process` |
| `CallUnlock`, `UnlockLoad`/`UnlockRefused`, `UnlockUser`, `UnlockClear`, `UnlockCas` | `ApoInstance::unlock_for_process` |
| `RejectProcess`, `CallProcess`, `ProcLoad`, `ProcCache`, `ProcRecheck`, `ProcUser` | `dispatch::apo_process`, `locked_formats`, `ApoInstance::process` |
| `CallChannels`, `ChanLoad`, `ChanCache` | `dispatch::get_input_channel_count` |
| `CallRead`, `ReadUser` | the calls that take `&T`: format queries and effects lists |
| `CallSetEffect`, `FxList`, `FxUser` | `dispatch::set_audio_system_effect_state` |

A plain read of the cache that races a write is undefined behaviour: `CacheReads`
lets it return any pair of formats or none. `frames * channels` in `apo_process` is a
`checked_mul`; a `u32` times a `u16` never overflows the 64-bit `usize` of the
targets (`docs/testing.md:28` and `:156`), so its error branch is not modelled.

**The engine.** `MayOverlap` is the set of pairs of operations the engine may run at
the same time. What the code needs of it is `Contract`; two engines are used:

- `DocumentedOverlap`: what the comments of `instance.rs` describe. Non-realtime
  calls are serialised, one APOProcess runs at a time, only
  SetAudioSystemEffectState overlaps it, and UnlockForProcess "does not overlap
  `APOProcess`".
- `CasRaces`: more than that. Initialize may race Initialize, LockForProcess and the
  readers, LockForProcess may race LockForProcess, GetInputChannelCount may race
  APOProcess. These are the races the compare_exchange is there for;
  without them its atomicity would not matter. `CasRacesKeepContract` has TLC
  check that this engine keeps the contract.

The order of the calls is never restricted: unlock before lock, process when
uninitialized and so on are all explored.

### ApoLifecycle

Five atomic actions over a phase, a pair of formats and the buffer being
processed. `ApoInstance` maps to it with a lock taking effect when its formats are
cached and an unlock when they are cleared: from the compare_exchange to the
cache write the cell says Locked and the abstract object is still Initialized.

### SpscRing and BoundedQueue

`head` and `tail` count modulo `Modulus`, as a `usize` does, and are reduced modulo
`Capacity` to a slot. An Acquire load of the other side's index may return any
value between the one this side saw last (`seenHead`, `seenTail`) and the current
one: coherence forbids going back, nothing obliges it to be recent. `slots` holds `None`
where the ring owns no value, so a read of an uninitialised slot or an
overwritten value shows. try_push is `PushLoad`, `PushWrite`, `PushPublish`; try_pop is `PopLoad`,
`PopRead`, `PopRelease`; `DropHandle` and `DrainOne` are the drops of the handles and of
`Shared`. The abstract queue takes a push when it is published, a pop when its
slot is released, and allows an answer "full" or "empty" to be late.

### ComServer

`outstanding` is `OUTSTANDING`, `stage` says how far a carrier is built or torn down
(user object made, counted, taken out of the count, destroyed), `refs` is the
reference count `windows_core::implement` generates, `serverLock` each factory's
counter and `locks` the client's own tally of LockServer(TRUE). CreateInstance is
`CallCreate`, `Mint`, `Count`, then `QueryFound`, or `QueryFailed` and the teardown `Uncount`,
`Destroy`; a last Release starts the same teardown. LockServer is one
`fetch_add`/`fetch_sub`. The clients keep COM's rules: they call through pointers
they hold, and give up a pointer only when no call uses it.

`kind` says which macro made the DLL. A DLL is plain or AEC, never both (`src/macros.rs`), and the
AEC side is a second copy of the factory and the carrier, so `Count` and `Uncount` have an AEC
twin each (`AecCount`, `AecUncount`), and `Query` answers the AEC interfaces for that carrier only.
`ClassRequests` and `CreateRequests` are the arguments, null or not;
`ClassObjectFault` and `CreateFault` the checks in the code's order. A null `riid` of
CreateInstance is not among them: it gets as far as the carrier's query.

### ApoAec

It adds to the variables of `ApoInstance`:

| Variable | Code |
|---|---|
| `aux`, `carried` | where each thread's auxiliary call stands, the id and the copy of the formats it carries |
| `inputs` | the inputs the user has: what its `add_aux_input` accepted and its `remove_aux_input` dropped |
| `announced` | the ids the engine holds to be in use, from the HRESULTs it got |

`PlainCall` is any call of the plain object; `CallAdd`, `AddOk`/`AddErr`, `CallRemove`, `RemoveUser`,
`CallQuery`, `QueryUser`, `CallAccept`, `AcceptLoad`, `AcceptCache`, `AcceptUser` are the auxiliary ones, split
at the same places. A thread makes one call at a time, plain or auxiliary. The
engine calls RemoveAuxiliaryInput and AcceptInput for ids it has announced
(`src/aec/mod.rs`, the contract of `add_aux_input` and `remove_aux_input`), and
`AuxContract` says what the properties need of its overlaps. The samples are sliced by the
primary input's format, a limitation `docs/architecture.md:327-330` lists.

### AecLifecycle

`ApoLifecycle` with the inputs the user has agreed to (`known`) and the auxiliary buffer in its hands
(`accepting`). Inputs come and go one at a time and only while the user holds no buffer
(`AtRest`); a buffer is handed over for a known input, while locked, under the formats of that
lock, and as long as the user has it no other call changes anything. `ApoAec` maps to it with an
add taking effect when the user agrees, and a buffer in the user's hands from the check of the
cached formats to the user's return.

### FormatNegotiation

`FromRaw`, the typed constructors and the builders make a `Format`; `FromWaveformatex`,
`FromWaveformatextensible`, `ToWaveformatex` and `ToWaveformatextensible` are the four conversions
that `Read` and `Write` choose between. Records keep every
field; GUIDs, tags and channel masks are reduced to the values the code tells
apart. `Half` and `Word` are the ranges of u16 and u32; products wrap as a release
build's do (a debug build panics). The engine asks about a media type of its own, or what cannot
be read as one (`Ask`, `Unreadable`), or about
the one it was handed last (`AskAgain`); the user's object keeps the default
negotiation or overrides it with a free decision, suggesting any of `Choices`, formats made with the
builders in any order; `Lock` is the reading of the agreed
type by LockForProcess.

### Registration

`registry` holds a record per class: the CLSID key with its name, the InprocServer32 key
with path and threading model. One action per registry call, in the order of
`write_registry_with`: `CreateClsid`, `SetName` (its failure goes unnoticed), `CreateInproc`,
`SetPath`, `SetThreading` (made even when the path failed, which `pathFailed` remembers). A failed
`RegDeleteTreeW` may leave what it had not deleted yet. `Crash` kills the caller between any two calls, `Move`
installs and loads another copy of the DLL at another place. `ranIn` is the place the last registration ran in,
`dllPath` the path it writes: `OwnModulePath` cuts one that does not fit the 1024 characters of
`own_module_path` to `Cut`, which names no DLL. So a class is `Activatable` when its path is one of `Places`, and not
when it is `Cut`. `unnamed` remembers the classes whose name the call at hand could not write, since its
result does not say. `aec_dll_register_server_dispatch` and
`aec_dll_unregister_server_dispatch` are the same statements over the AEC registry.

### EndpointBinding

`keys` and `fx` are the FxProperties keys and values of the endpoints, `task`, `slot` and `apo` the binding
call in flight. `CallWrite`, `WriteKey`, `WriteValue` are write_endpoint_binding; `CallClear`, `ClearKey`, `ClearValue`
clear_endpoint_binding, which also creates the key it opens, and takes two errors for success:
ERROR_FILE_NOT_FOUND, where the value is not there, and every E_INVALIDARG of opening the key, whether the
key is there or not. The slots cleared in the second way are remembered as `unopened` until they are bound again. A
registry path is the tuple of what it is made of, a CLSID its fields, and
`SerializeClsidProperty` the 24 bytes, written out in little-endian order.

The installer is not part of the crate. The model gives it the least it must do:
a ledger of the slots it asked to bind, entered before the call and left when clearing answered S_OK;
it binds only what DllRegisterServer registered with S_OK, and unregisters only with an empty ledger. Its calls
follow one another; `ForeignBinds` is another vendor's installer, at any time. What the engine does is
`EngineValue` (the property keys it looks a category up by) and `ReadGuid`.

### ApoDiscovery

One call of the engine at a time works on `list`, the copy it took at its beginning: the user's
effects (`effects`, which `ChangeEffects` replaces at any time), or the interface list of the
carrier. `want` is the checked size, `block` the memory it was given; per block, `bytes`, `texts` and `entries` are what
was allocated and written, `use` the call it is for and `told` the count the engine was given with it, until
`Free`. `Begin` is the snapshot and the size, `Alloc` the allocation (and the fixed part of the structure),
`WriteEntry` one turn of the loop, `HandOver` the two out parameters; `NullOutPointers`, `GetEmptyList` and `AllocFails` are
the other ways out. `seen` remembers which lists the user had during the call.

## 3. Runs

| Run | Config | Distinct states | Shows |
|---|---|---|---|
| `instance` | `MCApoInstance.cfg` | 183,817 | the safety of the instance and its refinement, three threads, engine `CasRaces` |
| `instance_aliasing` | `MCApoInstance_Aliasing.cfg` | violation | finding 1 |
| `instance_effects` | `MCApoInstance_Effects.cfg` | violation | finding 2 |
| `instance_output` | `MCApoInstance_Output.cfg` | violation | finding 3 |
| `aec` | `MCApoAec.cfg` | 140,138 | the auxiliary inputs beside all other calls, two threads |
| `format` | `MCFormatNegotiation.cfg` | 95,640 | conversions, builders and negotiation |
| `binding` | `MCEndpointBinding.cfg` | 1,785,862 | registering, binding, clearing and unregistering with failures and kills |
| `ring` | `MCSpscRing.cfg` | 267,811 | the ring implements the queue, across wraps, with late loads and drops |
| `server` | `ComServer.cfg` | 164,144 | the unload counter is exact, answers are true, nothing leaks |
| `server_lock` | `ComServer_Unload.cfg` | violation | finding 4 |
| `server_teardown` | `ComServer_Teardown.cfg` | violation | finding 5 |
| `discovery` | `MCApoDiscovery.cfg` | 179,424 | blocks, lists and texts the engine is given |

Run one with `tlc -config MCApoInstance.cfg MCApoInstance`.

What the passing runs check:

- `instance`. `CallbacksPaired` (the user's lock and unlock alternate), `UserExclusive` (no
  second borrow beside a mutable one, SetAudioSystemEffectState with APOProcess
  excepted: finding 1), `ProcessGeometry` (the copy of the formats made early in
  APOProcess is still the user's when the buffer is processed),
  `LifecycleConsistent` (outside a lock or unlock call, cell, cache and user agree, a
  refused lock included), `NoCacheRace` (among the threads that lock; the contract keeps readers
  away from them), `LockedReadsCache` (whoever loads Locked finds
  that lock's formats, which rests on the contract too: section 5), `OutputAlwaysMarked` (every APOProcess writes the output
  property it can reach), `LockVerdict` (each HRESULT of LockForProcess is true of
  the state it returns in, and E_FAIL never occurs), `ImplementsLifecycle`.
- `ring`. `SlotsOwnedOnce`, `NoSlotRace`, `AnswersHold` (after `is_full` said false the next
  push is not refused, as the doc comments promise; likewise `is_empty`), `LeftoversDropped`
  (liveness), `ImplementsQueue`.
- `server`. `CountExact`, `HeldIsAlive`, `UnloadAnswerTrue`, `CreateAnswer` (S_OK comes with one
  reference to a counted carrier, an error with nothing, and the AEC interfaces come from an AEC
  DLL only), `UnloadableInTheEnd` (liveness).
- `aec`. `AuxExclusive` (the user's object is not shared between an auxiliary and any other
  call, SetAudioSystemEffectState beside AcceptInput excepted), `AuxGeometry` (one look
  at the cell is enough: the buffer arrives while locked, under the current formats),
  `AuxBetweenAddAndRemove` (no buffer for an input the user refused or gave up),
  `ImplementsEchoLifecycle` (the refinement). `AuxTypeOK` is proved only.
- `format`. `LockedAsDecided` (the layout decided on is the layout locked with),
  `OwnTypeEchoed` (the framework's own type is accepted unchanged, which is how callers
  tell acceptance), `SuggestionAccepted` (the default negotiation is over after one
  suggestion), `DefaultIsProcessable` (what it hands out is what APOProcess lets through).
- `binding`. `AnswerTrue` (S_OK means every class activates the DLL the call ran in, unless its
  path was cut, and has its name, unless writing it failed; or that nothing is left),
  `EarlierClassesDone` (the classes before the failing one are done),
  `StaysActivatable` (only unregistering, and a registration whose path was cut, take a working class away),
  `NoDangling` (an endpoint bound to a class that cannot be activated was bound to one with a cut path,
  or cleared without its key being opened), `BindingStands` (what was bound with S_OK is what the engine
  reads, whatever happens to other slots). Each exception is a line of section 5, and no wider: a
  registration from a place whose path fits is held to all of it, also after one whose path was cut.
- `discovery`. `BlocksSound` (nothing is written past a block, and between calls every block is the
  engine's), `PropertiesTrue` (the reported interfaces are those the carrier answers to, the texts
  read as the longest beginning that fits, in whole characters unless they are cut in a surrogate pair), `ListsWhole` (a list handed over is one the user had at
  one moment of the call).

### Bounds

- `instance`: three threads, two formats (one that can be processed and one that
  cannot), every class of bad argument once, three effects (controllable,
  advertised only, unknown). The contract never lets more than two threads hold
  state together, apart from threads waiting in a compare_exchange; the third is
  a witness to the race of two others. The proofs lift this bound.
- `ring`: `Capacity` 4, `Modulus` 8, two values. Indices wrap every eight pushes, so every
  alignment of the two indices with the word occurs, full and empty at each; two
  values tell an order from its reverse. The number of calls is not bounded. `Modulus` 8
  with `Capacity` 4 keeps what makes real rings safe: the capacity divides the word's
  range, or the word is never exhausted. `RingAssumption` states it. A capacity that
  does not divide the range would lose values where the index wraps, after 2^64
  pushes on the crate's 64-bit targets: out of reach, and no finding.
- `server`: both kinds of DLL, two threads, two carriers, one factory,
  `MaxRefs` 2 references per object, `MaxLocks` 1, `Word` 4. Two
  carriers let one be torn down while another is made; two references let a Release be
  the last or not. `RoomForCarrier` makes a CreateInstance wait for free memory
  instead of failing.
- `aec`: two threads, two ids, the formats of `instance`, one request of each outcome, one effect:
  the argument checks are explored in `instance`. Two threads make every pair of overlapping calls.
- `format`: `Half` 64, `Word` 2048, channel counts 0, 2 (with a default mask), 6 and 20 (whose
  frames of 32 bits wrap), two rates, depths 16, 32 and 64, every tag and sub-format, with
  and without extension; the user's formats are every typed constructor under the builders
  in several orders. Conversations are unbounded.
- `binding`: two classes, so that one is before and one after a failure; two places, one of them with
  too long a path; two slots of one endpoint, which share a key and not a value; `Byte` 2, so that
  every byte of a CLSID is one bit and each position matters. Any number of calls, failures and kills.
- `discovery`: both carriers, texts that are empty, just fit, are one unit too long (with a surrogate
  pair before the cut, and with one in it) or hold a zero; lists of none, one, two and four effects; two
  blocks. `Word` 24 makes the four-element list overflow the size, which takes 2^60 effects on the crate's
  64-bit targets: the branch is explored, not reachable in practice.

Deadlock is checked, except in the ring: it stops when both handles are dropped and
the rest is drained.

### Fairness

Safety needs none, and `ApoInstance` assumes none: nothing obliges the engine to
call, nor the user's code to return.

- `SpscRing` assumes `WF(DrainOne)`: `Drop for Shared` is a loop of the thread that dropped the
  last handle; once entered it runs to its end. No fairness is assumed of
  pushes, pops or drops.
- `ComServer` assumes `WF(Continue(t))`: a call in flight is running code without
  loops or locks. Making a call is never fair. `UnloadableInTheEnd` is conditional: it speaks of behaviours
  in which the clients do give up their instances and stop making new ones.

## 4. Proofs

Every safety property and action property of the passing runs is proved for every value of
the constants, and so are the three refinements. Only the two liveness properties are left to TLC.
Eight modules hold the proofs; they share no axioms beyond the named assumptions on the
constants, which TLC evaluates in every run.

### The instance

`ApoInstanceProofs` proves, for any number of threads, formats, requests and
effects, and any engine with `Contract(MayOverlap)`:

| Theorem | Property |
|---|---|
| `Invariance` | `[]IInv` |
| `TypeCorrect` | `[]TypeOK` |
| `CallbacksAlternate` | `[]CallbacksPaired` |
| `UserIsExclusive` | `[]UserExclusive` |
| `GeometryPinned` | `[]ProcessGeometry` |
| `NothingHalfDone` | `[]LifecycleConsistent` |
| `CacheRaceFree` | `[]NoCacheRace` |
| `LockedCached` | `[]LockedReadsCache` |
| `OutputMarked` | `[]OutputAlwaysMarked` |
| `LockAnswers` | `LockVerdict` |
| `Refinement` | `ImplementsLifecycle` |
| `OneMethodWhenEffectsApart` | `[]OneMethodAtATime` |
| `OutputFloatWhenAskedFor` | `[]OutputIsFloat` |

The assumptions are `FormatsAssumption` and `EffectsAssumption` on the constants (what the
argument checks and the user's list guarantee) and the contract.

The last two are about properties the violation runs refute. Each names the one
hypothesis under which the property does hold, and so the whole cause of the finding:

- `OneMethodWhenEffectsApart`: an engine that does not run SetAudioSystemEffectState beside APOProcess
  (`{"process", "set_system_effect_state"} \notin MayOverlap`). The rest of the contract is as it was.
- `OutputFloatWhenAskedFor`: an engine whose well-formed lock requests all have an output format that
  APOProcess can write. The user's acceptance is not enough, since the framework never looks.

Of `OnlyControllable` the code keeps one half, for any user: `OnlyAdvertisedSet` says that it is told only of effects
in its list.

None of the properties is inductive alone. That a buffer is processed under the
user's formats holds because nobody can move the cell between the copy and the
second load, which holds because no lock can pass its compare_exchange on a
Locked cell and no unlock may be in flight. `IInv` makes this explicit:

- `Separated` restates the contract as who can be where. The contract constrains
  the start of a call; the invariant is what that gives at every later step.
- `LockingAlone`: a thread past the compare_exchange of LockForProcess finds the cell Locked,
  the cache empty, and no second thread there. This is what the compare_exchange gives
  and a load and a store would not.
- `UnlockingInOrder`: user, cache and cell are taken down one after the other.
- `LockedStays`: who saw Locked still does, and the copy it made is current.
- `LifecycleConsistent`, `EffectsHeld`, `OutputPending` and the types.

`StepInvariant` goes through the actions, call by call. The refinement has one lemma per
call: each step is the abstract action or leaves `AbstractVars` alone.

### The auxiliary inputs

`ApoAecProofs` proves `AuxTypeOK`, `AuxExclusive`, `AuxGeometry` and `AuxBetweenAddAndRemove` for any number of threads,
ids and formats, under `Contract(MayOverlap)` and `AuxContract(AuxOverlap)`, and `AuxFormatsAssumption` (`None` is
neither a format nor a buffer). It keeps `IInv`: an auxiliary call leaves
the plain object's variables alone but for `hr`. What it adds (`AuxIInv`):

- `AuxSeparated`: who can be where when an auxiliary call is in flight, step by step.
- `IdsInUse`, `AnnouncedAreInputs`: an id being fed is announced, and what is announced the user has.
- `AcceptStaysLocked`: from AcceptInput's one load of the cell on, the cell stays Locked and the copy
  stays current. This is why one look is enough.

Since an auxiliary call leaves the plain object as it is (`PlainOrUntouched`), what was proved of that
object carries over: `AecKeepsPlain` (the seven safety invariants), `AecLockAnswers` (`LockVerdict`), `AecRefinement`
(`ImplementsLifecycle`). `AecOneMethodWhenEffectsApart` is `OneMethodWhenEffectsApart` for the whole object; it takes an
engine that keeps SetAudioSystemEffectState away from AcceptInput as well.

`EchoRefinement` proves `ImplementsEchoLifecycle`. It needs one more invariant, `KnownAreAnnounced`: the user has no
input the engine does not know of, but for one being removed. Without it an add could be
of an input the user already has. `AddImplements`, `RemoveImplements`, `BeginImplements` and `EndImplements` map the
four steps that show; `PlainImplements` says that while a buffer is in the user's hands what may run
beside AcceptInput moves neither the lock nor the buffer APOProcess works on.

### The ring

`SpscRingProofs` proves `TypeOK`, `SlotsOwnedOnce`, `NoSlotRace`, `AnswersHold` and the refinement `ImplementsQueue` for
every capacity, every word it divides and every set of values (`RingAssumption`). `IInv` is `TypeOK` with

- `Seen`: how far each side's old value of the other's index can be behind;
- `Owned` and `Free`: a slot between head and tail holds a value, any other nothing;
- `AtWork`: what the step a side is at says about the slot it works on;
- `Promised`: what `is_full` and `is_empty` answered still holds.

Two distances less than the capacity apart never meet in a slot (`SlotsDiffer`), and a slot comes round
again after exactly `Capacity` positions, also across the wrap (`SlotReused`): this is where
`Modulus % Capacity = 0` is needed. The mapping to the queue reads the slots from head to tail;
`NthIs` and `NthNext` relate its elements before and after a step, `StepsMap` collects the actions.

`LeftoversDropped` itself is a liveness property. Its safety half is proved: `DrainEnds` (once both handles
are gone every step drops one value and leaves one less to go) and `NothingLeft` (where the
drain ends no slot owns a value; by `SlotAhead` every slot is within a capacity of any index).

### The server

`ComServerProofs` proves `TypeOK`, `CountExact`, `HeldIsAlive`, `UnloadAnswerTrue` and `CreateAnswer` for any number of
threads, factories and carriers and either kind of DLL, under `ServerAssumption` (finite sets, fewer carriers
than the counter can count). `Shape` ties each carrier to the call that builds it or tears it
down: `CallsAndCarriers` (a carrier under construction is as far as its call is), `SubjectsDistinct`,
`CarriersAtRest` (a carrier no call works on is counted exactly while somebody refers to
it), `TornDownOnFailure`. `CountExact` then moves by one with each step that changes a stage.

Three more theorems say how far the answers can be trusted:

- `UnloadLeavesCallsOnly`: when DllCanUnloadNow answers S_OK, every user object that still lives belongs to a
  call on another thread that has not counted it yet or is already destroying it. This is
  the whole extent of finding 5: without a call in flight S_OK means that nothing lives.
- `NothingPinsTheDll`: when no client holds an instance and no call builds or destroys one, the
  counter is zero and every carrier is freed.
- `CallsAreBounded`: no step of any thread sends a call back. The two together are the safety half of
  `UnloadableInTheEnd`.

### The negotiation

`FormatNegotiationProofs` proves `TypeOK`, `LockedAsDecided`, `OwnTypeEchoed`, `SuggestionAccepted` and `DefaultIsProcessable` for any
media types, any formats of the user and any widths. They rest on `ReadBack`: what is read
from a type the framework wrote means what was written, provided an extensible format has a
tag that a sub-format can carry (`Portable`, from `ChoicesAssumption` and from reading).

### Registration and bindings

`RegistrationProofs` proves `AnswerTrue`, `EarlierClassesDone` and `StaysActivatable` for any number of classes and any paths.
Its invariant adds `Progress` to the properties: what the class at hand has been given so
far at each step, and that `pathFailed` tells whether the path is among it, `unnamed` whether the name is. That is
what makes the late return of the first failure enough. `AllDone` says what S_OK stands for, that every class has
what `write_registry` was given; `DoneIsTrue` goes from there to `AnswerTrue`, since a path that was not cut
is that of the DLL. `StepKeepsServer` says that a step which does not unregister leaves a class its
values, the path old or that of its own registration; `WorkingStays` follows, since only a cut path names no DLL.
It assumes at least one class, and that `None` and what is left of a cut path are no places.

`EndpointBindingProofs` proves `NoDangling`, `BindingStands` and `BindingTypeOK`, that the composition implements
`Registration` (`BindingRegisters`), and through it that the answers stay true among the bindings. The invariant says that a
class of ours is bound only where the ledger says so, or in an `unopened` slot (`LedgerTrue`), and that there is a
ledger entry only while every class has a path and a threading model (`RegisteredWhileBound`); a path is that of a copy
of the DLL or a cut one (`PathNamesDll`), hence the two exceptions of `NoDangling`. No two slots share a value
(`ValuesOfSlots`).

`BoundIsRead` (`BindingStands`) joins two arguments. `BoundTrue` adds to the invariant that a slot bound with S_OK
holds the very bytes written for it, whatever is written to or cleared from the others. `ClsidSurvives` says that those
bytes read back as the CLSID, field by field: a word is the sum of its bytes
(`QuotientAndRest`, `Joined`), so `WordBytes` and `LongBytes` undo `LeBytes16` and `LeBytes32` for any size of a byte.

### Discovery

`ApoDiscoveryProofs` proves `BlocksSound`, `PropertiesTrue` and `ListsWhole` for any sizes, lists and texts. The invariant
follows the block being filled: it holds the beginning of the list the call began with (`BlockFilled`), and
the size allocated has room for all of it (`SizeHasRoom`). That a text which is not cut in a pair ends with a whole
character rests on `NamesAssumption`: the halves of a `str` come in pairs. `PairIsSplit` proves the other side: of
every text that is cut in a pair the field keeps the high half alone.

### Only model-checked

- Liveness (`LeftoversDropped`, `UnloadableInTheEnd`): weak fairness speaks of ENABLED, which is beyond the
  prover. What the argument needs besides is proved (see the ring and the server).
- The violation runs.

No module uses a RECURSIVE operator or induction over data.

## 5. Findings

1. **SetAudioSystemEffectState aliases APOProcess** (`instance_aliasing`). It takes `&mut T` whatever the
   cell says (`src/instance.rs:440`) and its own comment says the engine does not
   serialise it against APOProcess; the module comment says exactly one method
   touches `T` at a time.
2. **Effects that are not controllable can be set** (`instance_effects`). `src/raw/dispatch.rs:366` looks for the id
   only; `src/apo.rs:257-258` promises `controllable: true`.
3. **The output format is not checked** (`instance_output`). `src/raw/dispatch.rs:217` builds the output `&mut [f32]` from the
   input format; a user that accepts an integer output format gets it as floats.
4. **LockServer does not keep the DLL loaded** (`server_lock`). Nothing reads `server_lock_count`;
   `src/raw/class_factory.rs:30-31` says DllCanUnloadNow consults it.
5. **The count falls before the user's destructor runs** (`server_teardown`). `Drop for ApoInstanceCom` decrements first, its fields
   are dropped after.

Also noticed, without a run of their own:

- `LockServer(FALSE)` through another factory underflows: each DllGetClassObject makes a factory with a counter of its own
  (`src/raw/exports.rs:99`), so a client that pairs its calls across factories meets the debug assertion
  of `Refcount::release` (`src/realtime/refcount.rs:62`); a release build wraps, which nobody reads. In the model
  `UnlockServer` wraps as the release build does, so that no type invariant sees it.
- `clear_endpoint_binding` creates the key when there is none, and deletes whatever binding the slot has, also one another
  vendor put there since; its comment says "a previously-written" binding (`src/fx_properties.rs:215`).
- It also answers S_OK to every E_INVALIDARG of opening the key (`src/fx_properties.rs:226`; it is what
  ERROR_INVALID_PARAMETER becomes), where its comment names
  ERROR_FILE_NOT_FOUND only. Nothing was opened and nothing cleared: an installer that goes by the answer
  unregisters a class that is still bound. `NoDangling` names these slots (`unopened`) as its exception.
- `encode_wide_z` cuts at a unit: a surrogate pair at the end may lose its low half, although the
  comment says pairs "are dropped together" (`src/raw/reg_properties.rs:151-156`). `PairIsSplit` proves that it always
  does; `PropertiesTrue` asks for whole characters of every other text.
- `src/raw/reg_properties.rs:13-16` and `docs/architecture.md:331` speak of three interfaces; six are reported, and
  six can be queried.
- `locked_formats` takes its acquire load for what orders "the matching cache write" before a read
  (`src/instance.rs:310-313`). lock_for_process moves the cell first and writes the cache after, so the load does not: a
  reader between the two would see Locked and no formats. There is none because the engine does not call
  APOProcess or GetInputChannelCount during LockForProcess, which `Contract` demands; only under it do
  `LockedReadsCache` and `NoCacheRace` hold of readers.
- `src/format.rs:440` says other tags "fall back to PCM"; `sub_format_guid` writes them as
  IEEE_FLOAT. Only a `from_raw` format made extensible gets there.
- `src/raw/media_type.rs:186` says an accepted format is "echoed back"; an extensible one
  with zero valid bits or an unknown sub-format is changed by the echo, since it is
  rewritten from what was read. `OwnTypeEchoed` therefore speaks of the framework's own types.
- A failure to write the friendly name is dropped (`src/raw/register.rs:60`), although
  `src/raw/exports.rs:164` says the first failing write is returned. `AnswerTrue` claims the name of every
  class but those (`unnamed`).
- A module path of 1024 characters or more is cut and registered with S_OK (`src/raw/exports.rs:240`), although
  `src/raw/register.rs:8` promises the "absolute DLL path". No class is activated then, and a copy of the DLL that
  was registered with a path that fits is no longer: `AnswerTrue`, `StaysActivatable` and `NoDangling` name the cut path
  as their exception.
- `block_align` and `avg_bytes_per_sec` are products that wrap in a release build (`src/format.rs:79`). The model wraps
  too and no property is about it: nothing in the crate sizes a buffer by them.

## 6. Plan

The order was by importance: the instance with its refinement and proofs, the ring, the
server, the auxiliary inputs, the negotiation, registration, then discovery and the
bindings, and the proofs of each. All of it is modelled, checked and, but for section 4's
exceptions, proved. What could come next:

1. **An abstract specification of the server**, in which instances are made and released atomically, and the
   proof that `ComServer` implements it.
2. **Two installers at once** over one registry. Nothing in the crate serialises them, and `AnswerTrue` would have to
   say for how long an answer is meant.
3. **The composition of `ComServer` with `ApoInstance`**: a carrier torn down between calls. COM's rules keep the last
   Release from overlapping any call on the instance, so that the two share nothing but the user's destructor.

## 7. Not modelled

- `src/inf.rs`: one function that lays out a text, without state.
- `src/error.rs`, `src/buffer.rs`, `src/raw/abi.rs`, `src/realtime/context.rs` and the parsing and printing in `src/clsid.rs`: value
  types. Error codes and buffer flags appear as values, a CLSID as its fields.
- Reset, GetLatency and the frame counts of `src/raw/instance_com.rs`: they keep no state.
- `StateCell::release` and the `Refcount` inside `ApoInstance` (`add_ref`, `release`): no COM path calls
  them, the carriers are counted by `windows_core` and `OUTSTANDING`.
- Memory orderings beyond what section 2 says: the cell's accesses are modelled as
  interleaved atomic steps, which its AcqRel and Acquire orderings justify for the one location;
  the cache is published by the serialisation of the engine's calls.
- The constant fields of APO_REG_PROPERTIES (versions, connection limits).
- The user's own state: its callbacks are free choices.
