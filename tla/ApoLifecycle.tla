---------------------------- MODULE ApoLifecycle ----------------------------
(***************************************************************************)
(* What an APO object promises the audio engine, with every call atomic:   *)
(* the diagram of src/realtime/state.rs, a pair of formats pinned while    *)
(* the object is locked ("buffer geometry is pinned during processing"),   *)
(* and one buffer at a time, processed under that pair.                    *)
(***************************************************************************)
CONSTANTS Formats, Processable, None

FormatPairs == [input : Formats, output : Formats]

VARIABLES
  phase,    \* where the object stands in the diagram
  formats,  \* the formats it is locked with
  serving   \* the formats of the buffer being processed

Init == phase = "Uninitialized" /\ formats = None /\ serving = None

Initialize ==
  /\ phase = "Uninitialized"
  /\ phase' = "Initialized"
  /\ UNCHANGED <<formats, serving>>

LockForProcess ==
  /\ phase = "Initialized" /\ serving = None
  /\ phase' = "Locked"
  /\ formats' \in FormatPairs
  /\ UNCHANGED serving

BeginProcess ==
  /\ phase = "Locked" /\ serving = None
  /\ formats.input \in Processable
  /\ serving' = formats
  /\ UNCHANGED <<phase, formats>>

EndProcess ==
  /\ serving # None
  /\ serving' = None
  /\ UNCHANGED <<phase, formats>>

UnlockForProcess ==
  /\ phase = "Locked" /\ serving = None
  /\ phase' = "Initialized"
  /\ formats' = None
  /\ UNCHANGED serving

Next ==
  \/ Initialize \/ LockForProcess \/ BeginProcess \/ EndProcess \/ UnlockForProcess

Spec == Init /\ [][Next]_<<phase, formats, serving>>
=============================================================================
