------------------------------ MODULE MCApoAec ------------------------------
(* A small instance of ApoAec for TLC.                                     *)
EXTENDS MCApoInstance, ApoAec

CONSTANTS i1, i2

AecIds == {i1, i2}

(* The engine of MCApoInstance, and for the auxiliary calls: "serialises   *)
(* non-realtime calls against each other and against the realtime path"    *)
(* (aec/mod.rs), but for the effects, calls that only touch the cell and   *)
(* the cache, and pairs of queries.                                        *)
AecOverlap ==
  {{o, p} : o \in {"initialize", "locked_formats"}, p \in AuxOps}
    \cup {{"set_system_effect_state", "accept_aux_input"},
          {"negotiate", "is_aux_format_supported"}, {"is_aux_format_supported"}}

(* One request of each outcome: the others are explored without inputs.    *)
AecLockRequests ==
  {Request(1, 1, TRUE, f32, f32), Request(1, 1, TRUE, pcm, f32)}

AecConnections == {Good}
AecEffectIds == {eq}

ASSUME AecOverlapKeepsContract == AuxContract(AecOverlap)

AecSymmetry == Permutations(Threads) \cup Permutations(AecIds)
=============================================================================
