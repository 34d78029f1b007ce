----------------------- MODULE FormatNegotiationProofs -----------------------
(* Proofs about FormatNegotiation, for every set of media types an engine  *)
(* may ask about, every set of Formats a user may suggest and every width  *)
(* of the sizes.                                                           *)
EXTENDS FormatNegotiation, TLAPS

(* A Format whose tag a sub-format can carry.                              *)
Portable(f) == f.extensible => f.tag \in {"PCM", "FLOAT"}

-----------------------------------------------------------------------------
(* What reading and writing do.                                            *)

(* from_raw brings both sizes back into their widths.                      *)
LEMMA FromRawTyped ==
  ASSUME NEW tag \in Tags, NEW c \in 0 .. Half - 1, NEW r \in Nat, NEW b \in Nat
  PROVE  FromRaw(tag, c, r, b) \in Formats
<1> DEFINE block == (c * (b \div 8)) % Half
<1>1. b \div 8 \in Nat /\ c \in Nat
  BY WordAssumption
<1>2. c * (b \div 8) \in Nat
  BY <1>1
<1>3. block \in 0 .. Half - 1
  BY <1>2, WordAssumption
<1>4. r * block \in Nat
  BY <1>3, WordAssumption
<1>5. (r * block) % Word \in 0 .. Word - 1
  BY <1>4, WordAssumption
<1> HIDE DEF block
<1>6. FromRaw(tag, c, r, b) =
        [tag |-> tag, channels |-> c, rate |-> r, bits |-> b,
         block |-> block, avg |-> (r * block) % Word,
         valid |-> 0, mask |-> "none", extensible |-> FALSE]
  BY DEF FromRaw, block
<1> QED
  BY <1>3, <1>5, <1>6 DEF Formats, Masks

(* Reading yields a Format whose tag a sub-format can carry.               *)
LEMMA ReadTyped ==
  ASSUME NEW w \in MediaTypes
  PROVE  Read(w) \in Formats /\ Portable(Read(w))
BY DEF MediaTypes, Formats, Read, HasExtension, FromWaveformatex,
       FromWaveformatextensible, Portable, Tags, Masks

LEMMA WriteTyped ==
  ASSUME NEW f \in Formats
  PROVE  Write(f) \in MediaTypes
BY DEF MediaTypes, Formats, Write, ToWaveformatex, ToWaveformatextensible,
       ValidBits, SubFormat, Tags, Masks, SubFormats

(* What is read back from a media type the framework wrote means what was  *)
(* written, and both extensible Formats and plain ones stay what they are. *)
LEMMA ReadBack ==
  ASSUME NEW f \in Formats, Portable(f)
  PROVE  /\ Meaning(Read(Write(f))) = Meaning(f)
         /\ Read(Write(f)).tag = f.tag
         /\ Read(Write(f)).bits = f.bits
<1>1. CASE f.extensible
  <2> DEFINE w == ToWaveformatextensible(f)
  <2>1. Write(f) = w /\ HasExtension(w)
    BY <1>1 DEF Write, HasExtension, ToWaveformatextensible, ToWaveformatex
  <2>2. Read(Write(f)) = FromWaveformatextensible(w)
    BY <2>1 DEF Read
  <2>3. /\ w.sub = IF f.tag = "PCM" THEN "PCM" ELSE "FLOAT"
        /\ w.channels = f.channels /\ w.rate = f.rate /\ w.bits = f.bits
        /\ w.block = f.block /\ w.avg = f.avg
        /\ w.valid = ValidBits(f) /\ w.mask = f.mask
    BY DEF ToWaveformatextensible, ToWaveformatex, SubFormat
  <2> HIDE DEF w
  <2> DEFINE g == FromWaveformatextensible(w)
  <2>4. /\ g.tag = f.tag /\ g.channels = f.channels /\ g.rate = f.rate
        /\ g.bits = f.bits /\ g.block = f.block /\ g.avg = f.avg
        /\ g.extensible = TRUE /\ g.mask = f.mask /\ g.valid = ValidBits(f)
    BY <1>1, <2>3 DEF FromWaveformatextensible, FromWaveformatex, Portable
  <2>5. ValidBits(g) = ValidBits(f)
    BY <2>4 DEF ValidBits
  <2>6. Meaning(g) = Meaning(f)
    BY <1>1, <2>4, <2>5 DEF Meaning, Formats
  <2> QED
    BY <2>2, <2>4, <2>6
<1>2. CASE ~f.extensible
  <2> DEFINE w == ToWaveformatex(f)
  <2>1. Write(f) = w /\ ~HasExtension(w)
    BY <1>2 DEF Write, HasExtension, ToWaveformatex
  <2>2. Read(Write(f)) = FromWaveformatex(w)
    BY <2>1 DEF Read
  <2> DEFINE g == FromWaveformatex(w)
  <2>3. /\ g.tag = f.tag /\ g.channels = f.channels /\ g.rate = f.rate
        /\ g.bits = f.bits /\ g.block = f.block /\ g.avg = f.avg
        /\ g.extensible = FALSE
    BY <1>2 DEF FromWaveformatex, ToWaveformatex
  <2>4. f.extensible = FALSE
    BY <1>2 DEF Formats
  <2> HIDE DEF w, g
  <2>5. Meaning(g) = <<g.tag, g.channels, g.rate, g.bits, g.block, g.avg,
                       FALSE, <<>> >>
    BY <2>3 DEF Meaning
  <2>6. Meaning(f) = <<f.tag, f.channels, f.rate, f.bits, f.block, f.avg,
                       FALSE, <<>> >>
    BY <2>4 DEF Meaning
  <2>7. Meaning(g) = Meaning(f)
    BY <2>3, <2>5, <2>6
  <2> QED
    BY <2>2, <2>3, <2>7 DEF g
<1> QED
  BY <1>1, <1>2

(* A media type the framework wrote is written the same again.             *)
LEMMA WriteBack ==
  ASSUME NEW f \in Formats
  PROVE  Write(Read(Write(f))) = Write(f)
<1>1. CASE f.extensible
  <2> DEFINE w == ToWaveformatextensible(f)
             g == FromWaveformatextensible(w)
  <2>1. Write(f) = w /\ HasExtension(w)
    BY <1>1 DEF Write, HasExtension, ToWaveformatextensible, ToWaveformatex
  <2>2. Read(Write(f)) = g
    BY <2>1 DEF Read
  <2>3. w = [tag |-> "EXTENSIBLE", channels |-> f.channels, rate |-> f.rate,
             bits |-> f.bits, block |-> f.block, avg |-> f.avg, cbSize |-> 22,
             valid |-> ValidBits(f), mask |-> f.mask, sub |-> SubFormat(f)]
    BY <1>1 DEF ToWaveformatextensible, ToWaveformatex
  <2>4. /\ g.tag = SubFormat(f) /\ g.channels = f.channels /\ g.rate = f.rate
        /\ g.bits = f.bits /\ g.block = f.block /\ g.avg = f.avg
        /\ g.extensible = TRUE /\ g.mask = f.mask /\ g.valid = ValidBits(f)
    BY <2>3 DEF FromWaveformatextensible, FromWaveformatex, SubFormat
  <2> HIDE DEF w, g
  <2>5. ValidBits(g) = ValidBits(f) /\ SubFormat(g) = SubFormat(f)
    BY <2>4 DEF ValidBits, SubFormat
  <2>6. Write(g) = [tag |-> "EXTENSIBLE", channels |-> g.channels, rate |-> g.rate,
             bits |-> g.bits, block |-> g.block, avg |-> g.avg, cbSize |-> 22,
             valid |-> ValidBits(g), mask |-> g.mask, sub |-> SubFormat(g)]
    BY <2>4 DEF Write, ToWaveformatextensible, ToWaveformatex
  <2> QED
    BY <2>1, <2>2, <2>3, <2>4, <2>5, <2>6
<1>2. CASE ~f.extensible
  <2> DEFINE w == ToWaveformatex(f)
  <2>1. Write(f) = w /\ ~HasExtension(w)
    BY <1>2 DEF Write, HasExtension, ToWaveformatex
  <2>2. Read(Write(f)) = FromWaveformatex(w)
    BY <2>1 DEF Read
  <2>3. Write(FromWaveformatex(w)) = w
    BY <1>2 DEF Write, ToWaveformatex, FromWaveformatex
  <2> QED
    BY <2>1, <2>2, <2>3
<1> QED
  BY <1>1, <1>2

-----------------------------------------------------------------------------
(* The inductive invariant: an answer is the decision written down, a lock *)
(* is the answer read back, and a type asked about again is one that was   *)
(* written, under the default policy from 32-bit floating point.           *)

AnswerIsDecision ==
  /\ answer # None =>
       /\ decision.kind \in {"Accept", "Suggest"}
       /\ answer = Write(decision.format)
  /\ decision.kind \in {"Accept", "Suggest"} =>
       /\ Portable(decision.format)
       /\ policy = "default" => IsFloat32(decision.format)

LockIsAnswer == locked # None => answer # None /\ locked = Read(answer)

AgainIsOwn ==
  again =>
    /\ \E f \in Formats :
         /\ Portable(f) /\ (policy = "default" => IsFloat32(f))
         /\ proposal = Write(f)
    /\ decision.kind = "Accept" => answer = proposal
    /\ policy = "default" /\ decision # Asked => decision.kind = "Accept"

DecisionWaits == decision = Asked => answer = None /\ locked = None /\ proposal # None

IInv == TypeOK /\ AnswerIsDecision /\ LockIsAnswer /\ AgainIsOwn /\ DecisionWaits

-----------------------------------------------------------------------------
(* How the parts of a decision look.                                       *)
LEMMA Decisions ==
  /\ Asked.kind = "asked"
  /\ \A e \in Faults : Refused(e).kind = e /\ Refused(e) # Asked
  /\ \A k \in {"Accept", "Suggest"} : \A f : [kind |-> k, format |-> f] # Asked
BY DEF Asked, Refused, Faults

LEMMA DecisionShape ==
  ASSUME TypeOK, decision.kind \in {"Accept", "Suggest"}
  PROVE  decision.format \in Formats /\ decision # Asked
BY DEF TypeOK, Asked, Refused, Faults

(* The default negotiation accepts exactly 32-bit floating point, and what *)
(* it suggests is that.                                                    *)
LEMMA DefaultDecides ==
  ASSUME NEW f \in Formats, Portable(f)
  PROVE  /\ DefaultDecision(f) \in [kind : {"Accept", "Suggest"}, format : Formats]
         /\ Portable(DefaultDecision(f).format)
         /\ IsFloat32(DefaultDecision(f).format)
         /\ IsFloat32(f) => DefaultDecision(f) = [kind |-> "Accept", format |-> f]
         /\ DefaultDecision(f).kind = "Accept" => DefaultDecision(f).format = f
<1>1. CASE IsFloat32(f)
  BY <1>1 DEF DefaultDecision
<1>2. CASE ~IsFloat32(f)
  <2>1. Suggestion(f) \in Formats
    BY FromRawTyped DEF Suggestion, PcmFloat32, Formats, Tags
  <2>2. Portable(Suggestion(f)) /\ IsFloat32(Suggestion(f))
    BY DEF Suggestion, PcmFloat32, FromRaw, Portable, IsFloat32
  <2> QED
    BY <1>2, <2>1, <2>2 DEF DefaultDecision
<1> QED
  BY <1>1, <1>2

-----------------------------------------------------------------------------
(* Every handler keeps the invariant.                                      *)

LEMMA InitInv == Init => IInv
<1> SUFFICES ASSUME Init PROVE IInv
  OBVIOUS
<1>1. decision.kind = "E_POINTER" /\ decision # Asked
  BY DEF Init, Refused, Asked
<1>2. TypeOK
  BY DEF Init, TypeOK, Faults
<1> QED
  BY <1>1, <1>2 DEF Init, IInv, AnswerIsDecision, LockIsAnswer, AgainIsOwn, DecisionWaits

(* What a reply, by whatever decision, must satisfy.                       *)
LEMMA ReplyKeeps ==
  ASSUME IInv, NEW d \in [kind : {"Accept", "Suggest"}, format : Formats],
         Reply(d), Portable(d.format),
         policy = "default" => d = DefaultDecision(Read(proposal)),
         d.kind = "Accept" => d.format = Read(proposal)
  PROVE  IInv'
<1> USE DEF IInv
<1>1. proposal \in MediaTypes
  BY DEF Reply, TypeOK, DecisionWaits
<1>2. Read(proposal) \in Formats /\ Portable(Read(proposal))
  BY <1>1, ReadTyped
<1>3. decision' = d /\ answer' = Write(d.format) /\ locked = None /\ locked' = None
      /\ UNCHANGED <<policy, proposal, again>>
  BY DEF Reply, DecisionWaits
<1>4. Write(d.format) \in MediaTypes /\ Write(d.format) # None
  BY WriteTyped, NoneAssumption
<1>5. TypeOK'
  BY <1>3, <1>4 DEF TypeOK
<1>6. policy = "default" => IsFloat32(d.format)
  BY <1>2, DefaultDecides
<1>7. AnswerIsDecision'
  BY <1>3, <1>4, <1>6 DEF AnswerIsDecision, IsFloat32, Portable
<1>8. d # Asked
  BY DEF Asked
<1>9. LockIsAnswer' /\ DecisionWaits'
  BY <1>3, <1>8 DEF LockIsAnswer, DecisionWaits
<1>10. AgainIsOwn'
  <2> SUFFICES ASSUME again PROVE AgainIsOwn'
    BY <1>3 DEF AgainIsOwn
  <2>1. PICK f \in Formats : /\ Portable(f) /\ (policy = "default" => IsFloat32(f))
                             /\ proposal = Write(f)
    BY DEF AgainIsOwn
  <2>2. d.kind = "Accept" => Write(d.format) = proposal
    BY <2>1, WriteBack
  <2>3. policy = "default" => IsFloat32(Read(proposal))
    BY <2>1, ReadBack DEF IsFloat32
  <2>4. policy = "default" => d.kind = "Accept"
    BY <2>3, <1>2, DefaultDecides
  <2> QED
    BY <1>3, <2>1, <2>2, <2>4 DEF AgainIsOwn
<1> QED
  BY <1>5, <1>7, <1>9, <1>10

LEMMA AskKeeps ==
  ASSUME IInv, NEW w \in MediaTypes \cup Unreadable, AskAbout(w), again' \in BOOLEAN,
         again' => \E f \in Formats :
                     /\ Portable(f) /\ (policy = "default" => IsFloat32(f))
                     /\ w = Write(f)
  PROVE  IInv'
<1>1. /\ proposal' = w /\ decision' = Asked /\ answer' = None /\ locked' = None
      /\ policy' = policy
  BY DEF AskAbout
<1>2. w # None
  BY NoneAssumption
<1>3. TypeOK'
  BY <1>1 DEF IInv, TypeOK
<1>4. AnswerIsDecision' /\ LockIsAnswer' /\ DecisionWaits'
  BY <1>1, <1>2, Decisions DEF AnswerIsDecision, LockIsAnswer, DecisionWaits
<1>5. AgainIsOwn'
  BY <1>1, Decisions DEF AgainIsOwn
<1> QED
  BY <1>3, <1>4, <1>5 DEF IInv

LEMMA RefuseKeeps ==
  ASSUME IInv, NEW e \in Faults, Refuse(e), ~(again /\ policy = "default")
  PROVE  IInv'
<1>1. decision' = Refused(e) /\ decision = Asked
      /\ UNCHANGED <<policy, proposal, again, answer, locked>>
  BY DEF Refuse
<1>2. Refused(e).kind \notin {"Accept", "Suggest"} /\ Refused(e) # Asked
  BY Decisions DEF Faults
<1>3. TypeOK'
  BY <1>1 DEF IInv, TypeOK
<1>4. AnswerIsDecision' /\ LockIsAnswer' /\ DecisionWaits'
  BY <1>1, <1>2 DEF IInv, AnswerIsDecision, LockIsAnswer, DecisionWaits
<1>5. AgainIsOwn'
  BY <1>1, <1>2 DEF IInv, AgainIsOwn
<1> QED
  BY <1>3, <1>4, <1>5 DEF IInv

LEMMA StepInv == IInv /\ [Next]_vars => IInv'
<1> SUFFICES ASSUME IInv, [Next]_vars PROVE IInv'
  OBVIOUS
<1>1. CASE Ask
  <2>1. PICK w \in Proposals \cup Unreadable : AskAbout(w) /\ again' = FALSE
    BY <1>1 DEF Ask
  <2> QED
    BY <2>1, AskKeeps, ProposalsAssumption
<1>2. CASE AskAgain
  <2>1. answer \in MediaTypes /\ AskAbout(answer) /\ again' = TRUE
    BY <1>2 DEF AskAgain, IInv, TypeOK
  <2>2. /\ decision.kind \in {"Accept", "Suggest"}
        /\ answer = Write(decision.format) /\ Portable(decision.format)
        /\ policy = "default" => IsFloat32(decision.format)
    BY <1>2 DEF AskAgain, IInv, AnswerIsDecision
  <2>3. decision.format \in Formats
    BY <2>2, DecisionShape DEF IInv
  <2> QED
    BY <2>1, <2>2, <2>3, AskKeeps
<1>3. CASE DecideByDefault
  <2>1. Read(proposal) \in Formats /\ Portable(Read(proposal))
    BY <1>3, ReadTyped DEF DecideByDefault, Reply, IInv, TypeOK, DecisionWaits
  <2> QED
    BY <1>3, <2>1, DefaultDecides, ReplyKeeps DEF DecideByDefault
<1>4. CASE AcceptByUser
  <2>1. Read(proposal) \in Formats /\ Portable(Read(proposal))
    BY <1>4, ReadTyped DEF AcceptByUser, Reply, IInv, TypeOK, DecisionWaits
  <2> DEFINE d == [kind |-> "Accept", format |-> Read(proposal)]
  <2>2. d \in [kind : {"Accept", "Suggest"}, format : Formats] /\ d.format = Read(proposal)
    BY <2>1
  <2>3. Reply(d) /\ policy = "override"
    BY <1>4 DEF AcceptByUser
  <2> HIDE DEF d
  <2> QED
    BY <2>1, <2>2, <2>3, ReplyKeeps
<1>5. CASE SuggestByUser
  <2>1. PICK f \in Choices :
          policy = "override" /\ Reply([kind |-> "Suggest", format |-> f])
    BY <1>5 DEF SuggestByUser
  <2>2. f \in Formats /\ Portable(f)
    BY ChoicesAssumption DEF Portable
  <2> DEFINE d == [kind |-> "Suggest", format |-> f]
  <2>3. d \in [kind : {"Accept", "Suggest"}, format : Formats]
        /\ d.format = f /\ d.kind = "Suggest"
    BY <2>2
  <2>4. Reply(d) /\ policy = "override"
    BY <2>1
  <2> HIDE DEF d
  <2> QED
    BY <2>2, <2>3, <2>4, ReplyKeeps
<1>6. CASE RejectByUser
  <2>1. Refuse("FORMAT_NOT_SUPPORTED") /\ policy = "override"
    BY <1>6 DEF RejectByUser
  <2> QED
    BY <2>1, RefuseKeeps DEF Faults
<1>7. CASE RejectUnreadable
  <2>1. PICK e \in Faults : Refuse(e)
    BY <1>7 DEF RejectUnreadable, Faults
  <2>2. proposal \in Unreadable
    BY <1>7 DEF RejectUnreadable, Unreadable
  <2>3. ~again
    BY <2>2, WriteTyped, NoneAssumption DEF IInv, AgainIsOwn
  <2> QED
    BY <2>1, <2>3, RefuseKeeps
<1>8. CASE Lock
  <2>1. /\ answer # None /\ locked' = Read(answer)
        /\ UNCHANGED <<policy, proposal, again, decision, answer>>
    BY <1>8 DEF Lock
  <2>2. Read(answer) \in Formats
    BY <2>1, ReadTyped DEF IInv, TypeOK
  <2>3. TypeOK'
    BY <2>1, <2>2 DEF IInv, TypeOK
  <2>4. AnswerIsDecision' /\ LockIsAnswer' /\ AgainIsOwn'
    BY <2>1 DEF IInv, AnswerIsDecision, LockIsAnswer, AgainIsOwn
  <2>5. DecisionWaits'
    BY <2>1 DEF IInv, DecisionWaits
  <2> QED
    BY <2>3, <2>4, <2>5 DEF IInv
<1>9. CASE UNCHANGED vars
  BY <1>9 DEF vars, IInv, TypeOK, AnswerIsDecision, LockIsAnswer, AgainIsOwn, DecisionWaits
<1> QED
  BY <1>1, <1>2, <1>3, <1>4, <1>5, <1>6, <1>7, <1>8, <1>9 DEF Next

(* IInv holds of every negotiation, whatever the engine asks about and the *)
(* user suggests.                                                          *)
THEOREM Invariance == Spec => []IInv
<1> QED
  BY InitInv, StepInv, PTL DEF Spec

-----------------------------------------------------------------------------
(* Every variable keeps its type: the sizes stay inside their widths       *)
(* (from_raw), and reading never leaves the tags the framework knows.      *)
THEOREM TypeCorrect == Spec => []TypeOK
<1>1. IInv => TypeOK
  BY DEF IInv
<1> QED
  BY <1>1, Invariance, PTL

(* The object is locked with what was decided: format_from_descriptor      *)
(* reads the media type of media_type_from_format back to the Format that  *)
(* was written.                                                            *)
THEOREM LocksAsDecided == Spec => []LockedAsDecided
<1>1. IInv => LockedAsDecided
  BY ReadBack, DecisionShape DEF IInv, LockedAsDecided, LockIsAnswer, AnswerIsDecision
<1> QED
  BY <1>1, Invariance, PTL

(* A type the framework wrote is echoed to the last field on acceptance    *)
(* (negotiate_format).                                                     *)
THEOREM OwnTypesEchoed == Spec => []OwnTypeEchoed
<1>1. IInv => OwnTypeEchoed
  BY DEF IInv, OwnTypeEchoed, AgainIsOwn
<1> QED
  BY <1>1, Invariance, PTL

(* The default negotiation accepts what it handed out before               *)
(* (default_float32_negotiation), so it ends after one suggestion.         *)
THEOREM SuggestionsAccepted == Spec => []SuggestionAccepted
<1>1. IInv => SuggestionAccepted
  BY DEF IInv, SuggestionAccepted, AgainIsOwn
<1> QED
  BY <1>1, Invariance, PTL

(* What the default negotiation hands out locks the object with 32-bit     *)
(* floating point.                                                         *)
THEOREM DefaultsAreProcessable == Spec => []DefaultIsProcessable
<1>1. IInv => DefaultIsProcessable
  BY ReadBack, DecisionShape DEF IInv, DefaultIsProcessable, LockIsAnswer,
     AnswerIsDecision, IsFloat32
<1> QED
  BY <1>1, Invariance, PTL
=============================================================================
