--------------------------- MODULE MCApoInstance ---------------------------
(* Small instances of ApoInstance for TLC.                                 *)
EXTENDS ApoInstance, TLC

CONSTANTS f32, pcm, eq, mute, nr

MCFormats == {f32, pcm}
MCProcessable == {f32}
MCEffectIds == {eq, mute, nr}
MCAdvertised == {eq, mute}
MCControllable == {eq}

Request(nIn, nOut, arrays, input, output) ==
  [nIn |-> nIn, nOut |-> nOut, arrays |-> arrays, input |-> input, output |-> output]

(* Every verdict, and every pair of formats but the symmetric ones.        *)
MCLockRequests ==
  {Request(1, 1, TRUE, f32, f32), Request(1, 1, TRUE, f32, pcm),
   Request(1, 1, TRUE, pcm, f32),
   Request(2, 1, TRUE, f32, f32), Request(1, 0, FALSE, f32, f32),
   Request(1, 1, FALSE, f32, f32), Request(1, 1, TRUE, "null", "badSignature"),
   Request(1, 1, TRUE, f32, "badSignature"), Request(1, 1, TRUE, pcm, "noFormat")}

Good == [nIn |-> 1, nOut |-> 1, inArray |-> TRUE, outArray |-> TRUE,
         inProp |-> TRUE, outProp |-> TRUE, inSignature |-> TRUE, outSignature |-> TRUE]

(* Each argument of APOProcess wrong in turn, and every one right.         *)
MCConnections ==
  {Good} \cup {[Good EXCEPT !.nIn = n] : n \in {0, 2}}
         \cup {[Good EXCEPT !.nOut = n] : n \in {0, 2}}
         \cup {[Good EXCEPT ![b] = FALSE] :
                 b \in {"inArray", "outArray", "inProp", "outProp",
                        "inSignature", "outSignature"}}

(* The engine the comments describe: "serialises all non-realtime calls on *)
(* one thread", runs one APOProcess at a time, and overlaps only           *)
(* SetAudioSystemEffectState with it.                                      *)
DocumentedOverlap == {{"process", "set_system_effect_state"}}

(* Calls that meet only in the cell's compare_exchange may race as well.   *)
CasRaces ==
  DocumentedOverlap
    \cup {{"initialize", o} : o \in {"initialize", "lock_for_process", "process",
                                     "locked_formats", "negotiate"}}
    \cup {{"lock_for_process"}, {"locked_formats", "process"}, {"locked_formats"}}

ASSUME CasRacesKeepContract == Contract(CasRaces)

Symmetry == Permutations(Threads)
=============================================================================
