-------------------------- MODULE FormatNegotiation --------------------------
(***************************************************************************)
(* How the audio engine and an APO agree on a stream format                *)
(* (src/format.rs, src/raw/media_type.rs and the default negotiation of    *)
(* src/apo.rs).  The engine asks about a media type; the framework reads a *)
(* Format out of it, the user decides, and a media type is written back,   *)
(* which the engine may ask about again or lock the object with.           *)
(***************************************************************************)
EXTENDS Integers

CONSTANTS
  Half, Word,   \* the ranges of u16 and u32
  Proposals,    \* the media types an engine asks about of its own
  Choices,      \* the Formats an overriding user suggests
  None,
  NoReference, NoFormat  \* a null reference, and an object whose
                         \* GetAudioFormat answers null

ASSUME WordAssumption == Half \in Nat \ {0} /\ Word \in Nat \ {0}

(* Format tags and sub-formats.  "other" is any tag, and any GUID, that    *)
(* the framework does not know.                                            *)
Tags == {"PCM", "FLOAT", "EXTENSIBLE", "other"}
SubFormats == {"PCM", "FLOAT", "other", "absent"}

(* Channel masks: zero, the one with_extensible fills in, or another.      *)
Masks == {"none", "default", "custom"}

(* Format::from_raw, with the wrapping products of a release build.        *)
FromRaw(tag, channels, rate, bits) ==
  LET block == (channels * (bits \div 8)) % Half
  IN  [tag |-> tag, channels |-> channels, rate |-> rate, bits |-> bits,
       block |-> block, avg |-> (rate * block) % Word,
       valid |-> 0, mask |-> "none", extensible |-> FALSE]

(* The typed constructors.  They build the base variant.                   *)
PcmInt16(rate, channels) == FromRaw("PCM", channels, rate, 16)
PcmInt24(rate, channels) == FromRaw("PCM", channels, rate, 24)
PcmInt32(rate, channels) == FromRaw("PCM", channels, rate, 32)
PcmFloat32(rate, channels) == FromRaw("FLOAT", channels, rate, 32)
PcmFloat64(rate, channels) == FromRaw("FLOAT", channels, rate, 64)

(* The layouts that have a default channel mask.                           *)
DefaultChannelMask(channels) ==
  IF channels \in {1, 2, 6, 8} THEN "default" ELSE "none"

(* The builders, which a user applies in any order.                        *)
WithExtensible(f) ==
  [f EXCEPT !.extensible = TRUE,
            !.mask = IF @ = "none" THEN DefaultChannelMask(f.channels) ELSE @,
            !.valid = IF @ = 0 THEN f.bits ELSE @]

WithChannelMask(f, mask) == [f EXCEPT !.mask = mask]

WithValidBitsPerSample(f, bits) == [f EXCEPT !.valid = bits]

-----------------------------------------------------------------------------
(* Reading and writing media types.  A wire record is a WAVEFORMATEX, with *)
(* the fields of the extension that is there when cbSize is 22.            *)

FromWaveformatex(w) ==
  [tag |-> w.tag, channels |-> w.channels, rate |-> w.rate, bits |-> w.bits,
   block |-> w.block, avg |-> w.avg,
   valid |-> 0, mask |-> "none", extensible |-> FALSE]

(* A sub-format that is not floating point counts as integer PCM.          *)
FromWaveformatextensible(w) ==
  [tag |-> IF w.sub = "FLOAT" THEN "FLOAT" ELSE "PCM",
   channels |-> w.channels, rate |-> w.rate, bits |-> w.bits,
   block |-> w.block, avg |-> w.avg,
   valid |-> w.valid, mask |-> w.mask, extensible |-> TRUE]

(* Mutant: an extension of exactly 22 bytes is not noticed.                *)
HasExtensionLate(w) == w.cbSize > 22 /\ w.tag = "EXTENSIBLE"

HasExtension(w) == w.cbSize >= 22 /\ w.tag = "EXTENSIBLE"

(* from_waveformatex_ptr.                                                  *)
Read(w) ==
  IF HasExtension(w) THEN FromWaveformatextensible(w) ELSE FromWaveformatex(w)

(* sub_format_guid: what is not integer PCM is written as floating point.  *)
SubFormat(f) == IF f.tag = "PCM" THEN "PCM" ELSE "FLOAT"

(* In the zeroed structure FormatMediaType::new puts it in.                *)
ToWaveformatex(f) ==
  [tag |-> IF f.extensible THEN "EXTENSIBLE" ELSE f.tag,
   channels |-> f.channels, rate |-> f.rate, bits |-> f.bits,
   block |-> f.block, avg |-> f.avg, cbSize |-> IF f.extensible THEN 22 ELSE 0,
   valid |-> 0, mask |-> "none", sub |-> "absent"]

(* How many bits of a sample count: zero stands for all of them.           *)
ValidBits(f) == IF f.valid = 0 THEN f.bits ELSE f.valid

ToWaveformatextensible(f) ==
  [tag |-> "EXTENSIBLE",
   channels |-> f.channels, rate |-> f.rate, bits |-> f.bits,
   block |-> f.block, avg |-> f.avg, cbSize |-> 22,
   valid |-> ValidBits(f), mask |-> f.mask, sub |-> SubFormat(f)]

(* Mutant: the zeroed structure is filled in by its prefix alone.          *)
WritePrefix(f) == ToWaveformatex(f)

(* FormatMediaType::new.                                                   *)
Write(f) == IF f.extensible THEN ToWaveformatextensible(f) ELSE ToWaveformatex(f)

-----------------------------------------------------------------------------
(* Mutant: any floating point will do.                                     *)
IsFloatAnyDepth(f) == f.tag = "FLOAT"

(* The default of is_input_format_supported and is_output_format_supported *)
(* accepts 32-bit floating point and suggests it otherwise.                *)
IsFloat32(f) == f.tag = "FLOAT" /\ f.bits = 32

(* Mutant: the suggestion is 16-bit integer PCM.                           *)
SuggestionInt16(f) == PcmInt16(f.rate, f.channels)

(* Mutant: the sizes are computed in a wider word and kept there.          *)
SuggestionWide(f) ==
  LET block == f.channels * 4
  IN  [PcmFloat32(f.rate, f.channels) EXCEPT !.block = block, !.avg = f.rate * block]

Suggestion(f) == PcmFloat32(f.rate, f.channels)

DefaultDecision(f) ==
  IF IsFloat32(f) THEN [kind |-> "Accept", format |-> f]
                  ELSE [kind |-> "Suggest", format |-> Suggestion(f)]

VARIABLES
  policy,    \* whether the user's object overrides the negotiation
  proposal,  \* the media type asked about: one, or what cannot be read
  again,     \* whether that is the framework's own last answer
  decision,  \* what the user decided on it
  answer,    \* the media type handed back, None when there is none
  locked     \* the Format the object was locked with

vars == <<policy, proposal, again, decision, answer, locked>>

(* What may stand where a media type should.                               *)
Unreadable == {NoReference, NoFormat}

Faults == {"E_POINTER", "FORMAT_NOT_SUPPORTED"}

Asked == [kind |-> "asked", format |-> None]
Refused(fault) == [kind |-> fault, format |-> None]

(* Every Format and media type that can come up.                           *)
Formats ==
  [tag : Tags, channels : 0 .. Half - 1, rate : Nat, bits : Nat,
   block : 0 .. Half - 1, avg : 0 .. Word - 1,
   valid : Nat, mask : Masks, extensible : BOOLEAN]

MediaTypes ==
  [tag : Tags, channels : 0 .. Half - 1, rate : Nat, bits : Nat,
   block : 0 .. Half - 1, avg : 0 .. Word - 1,
   cbSize : Nat, valid : Nat, mask : Masks, sub : SubFormats]

(* The media types of an engine, and the Formats of a user, have these     *)
(* fields; an extensible Format is of one of the two tags that have a      *)
(* sub-format, as every Format of the typed constructors is.               *)
ASSUME ProposalsAssumption == Proposals \subseteq MediaTypes

ASSUME ChoicesAssumption ==
  /\ Choices \subseteq Formats
  /\ \A f \in Choices : f.extensible => f.tag \in {"PCM", "FLOAT"}

ASSUME NoneAssumption ==
  /\ None \notin Formats \cup MediaTypes \cup Unreadable
  /\ Unreadable \cap MediaTypes = {}

TypeOK ==
  /\ policy \in {"default", "override"}
  /\ proposal \in MediaTypes \cup Unreadable \cup {None}
  /\ again \in BOOLEAN
  /\ decision \in [kind : {"Accept", "Suggest"}, format : Formats]
                 \cup {Refused(e) : e \in Faults} \cup {Asked}
  /\ answer \in MediaTypes \cup {None}
  /\ locked \in Formats \cup {None}

Init ==
  /\ policy \in {"default", "override"}
  /\ proposal = None /\ again = FALSE
  /\ decision = Refused("E_POINTER") /\ answer = None
  /\ locked = None

(* The engine asks an unlocked object about a media type of its own, or    *)
(* about the one it was handed last.                                       *)
AskAbout(wire) ==
  /\ decision # Asked
  /\ proposal' = wire
  /\ decision' = Asked
  /\ answer' = None /\ locked' = None
  /\ UNCHANGED policy

Ask == \E w \in Proposals \cup Unreadable : AskAbout(w) /\ again' = FALSE

AskAgain == answer # None /\ AskAbout(answer) /\ again' = TRUE

(* negotiate_format: an accepted format is not handed back as it came but  *)
(* written anew from what was read.                                        *)
Reply(decided) ==
  /\ decision = Asked /\ proposal \notin Unreadable
  /\ decision' = decided
  /\ answer' = Write(decided.format)
  /\ UNCHANGED <<policy, proposal, again, locked>>

Refuse(fault) ==
  /\ decision = Asked
  /\ decision' = Refused(fault)
  /\ UNCHANGED <<policy, proposal, again, answer, locked>>

DecideByDefault == policy = "default" /\ Reply(DefaultDecision(Read(proposal)))

AcceptByUser ==
  policy = "override" /\ Reply([kind |-> "Accept", format |-> Read(proposal)])

SuggestByUser ==
  \E f \in Choices : policy = "override" /\ Reply([kind |-> "Suggest", format |-> f])

RejectByUser ==
  policy = "override" /\ proposal \notin Unreadable /\ Refuse("FORMAT_NOT_SUPPORTED")

(* format_from_media_type fails, and the user is not asked.                *)
RejectUnreadable ==
  \/ proposal = NoReference /\ Refuse("E_POINTER")
  \/ proposal = NoFormat /\ Refuse("FORMAT_NOT_SUPPORTED")

(* LockForProcess with the media type that was handed back.                *)
Lock ==
  /\ answer # None /\ locked = None
  /\ locked' = Read(answer)
  /\ UNCHANGED <<policy, proposal, again, decision, answer>>

Next ==
  \/ Ask \/ AskAgain
  \/ DecideByDefault \/ AcceptByUser \/ SuggestByUser \/ RejectByUser
  \/ RejectUnreadable
  \/ Lock

Spec == Init /\ [][Next]_vars

-----------------------------------------------------------------------------
(* Properties.                                                             *)

(* What a Format says of a buffer of samples.  The channel mask and the    *)
(* valid bits are part of it only when it is extensible.                   *)
Meaning(f) ==
  <<f.tag, f.channels, f.rate, f.bits, f.block, f.avg, f.extensible,
    IF f.extensible THEN <<f.mask, ValidBits(f)>> ELSE <<>> >>

(* The object is locked with what the user decided on: neither of the two  *)
(* structures, nor the order the user applied the builders in, changes     *)
(* what the samples mean on the way through a media type.                  *)
LockedAsDecided == locked # None => Meaning(locked) = Meaning(decision.format)

(* "Callers that receive an identical format treat it as acceptance"       *)
(* (media_type.rs): a type the framework wrote itself is echoed to the     *)
(* last field when it is accepted.                                         *)
OwnTypeEchoed == again /\ decision.kind = "Accept" => answer = proposal

(* The default negotiation is over after one suggestion: asked about what  *)
(* it suggested, or accepted, it accepts.                                  *)
SuggestionAccepted ==
  policy = "default" /\ again /\ decision # Asked => decision.kind = "Accept"

(* "Accept any IEEE-float32 stream and suggest a float32 alternative for   *)
(* anything else" (apo.rs): an object locked with what the default         *)
(* negotiation handed out is one whose buffers APOProcess passes on.       *)
DefaultIsProcessable ==
  policy = "default" /\ locked # None =>
    locked.tag = "FLOAT" /\ locked.bits = 32
=============================================================================
