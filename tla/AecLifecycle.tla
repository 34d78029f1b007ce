---------------------------- MODULE AecLifecycle ----------------------------
(***************************************************************************)
(* What an echo-cancelling APO promises: the lifecycle of ApoLifecycle,    *)
(* and auxiliary inputs that the user agrees to one by one.  Only buffers  *)
(* of those are handed over, one at a time, while the object is locked and *)
(* under the formats it is locked with; nothing else changes meanwhile.    *)
(***************************************************************************)
EXTENDS ApoLifecycle

CONSTANT AuxIds

VARIABLES
  known,     \* the inputs the user has agreed to
  accepting  \* the auxiliary buffer being handed over, with its formats

lifecycle == <<phase, formats, serving>>

(* No buffer is in the user's hands.                                       *)
AtRest == serving = None /\ accepting = None

EchoInit == Init /\ known = {} /\ accepting = None

MainCall ==
  /\ accepting = None
  /\ Next
  /\ UNCHANGED <<known, accepting>>

AddInput ==
  \E id \in AuxIds \ known :
    /\ AtRest
    /\ known' = known \cup {id}
    /\ UNCHANGED <<lifecycle, accepting>>

RemoveInput ==
  \E id \in known :
    /\ AtRest
    /\ known' = known \ {id}
    /\ UNCHANGED <<lifecycle, accepting>>

BeginAccept ==
  \E id \in known :
    /\ AtRest /\ phase = "Locked" /\ formats.input \in Processable
    /\ accepting' = [id |-> id, formats |-> formats]
    /\ UNCHANGED <<lifecycle, known>>

EndAccept ==
  /\ accepting # None
  /\ accepting' = None
  /\ UNCHANGED <<lifecycle, known>>

EchoNext == MainCall \/ AddInput \/ RemoveInput \/ BeginAccept \/ EndAccept

EchoSpec == EchoInit /\ [][EchoNext]_<<lifecycle, known, accepting>>
=============================================================================
