------------------------ MODULE MCFormatNegotiation ------------------------
(* A small instance of FormatNegotiation for TLC: u16 has six bits and u32 *)
(* eleven, so that some formats' sizes wrap.                               *)
EXTENDS FormatNegotiation

MCHalf == 64
MCWord == 2048

Rates == {44, 48}
ChannelCounts == {0, 2, 6, 20}

(* What an engine may put in a media type, with its sizes consistent:      *)
(* plain structures of each tag (one that claims an extension it does not  *)
(* have included), and extensible ones.                                    *)
Structure(tag, channels, rate, bits, cbSize, valid, mask, sub) ==
  [tag |-> tag, channels |-> channels, rate |-> rate, bits |-> bits,
   block |-> (channels * (bits \div 8)) % Half,
   avg |-> (rate * ((channels * (bits \div 8)) % Half)) % Word,
   cbSize |-> cbSize, valid |-> valid, mask |-> mask, sub |-> sub]

MCProposals ==
  {Structure(tag, c, r, b, 0, 0, "none", "absent") :
     tag \in Tags, c \in ChannelCounts, r \in Rates, b \in {16, 32, 64}}
  \cup
  {Structure("PCM", c, 48, 16, 22, 0, "none", "absent") : c \in ChannelCounts}
  \cup
  {Structure("EXTENSIBLE", c, 48, b, 22, v, m, sub) :
     c \in ChannelCounts, b \in {16, 32}, v \in {0, 16, 24},
     m \in {"none", "custom"}, sub \in {"PCM", "FLOAT", "other"}}

(* What the typed constructors build, alone and with the builders applied  *)
(* in different orders.                                                    *)
MCChoices ==
  LET plain == UNION {{PcmInt16(48, c), PcmInt24(48, c), PcmInt32(48, c),
                       PcmFloat32(48, c), PcmFloat64(48, c)} : c \in {2, 20}}
      masked == {WithChannelMask(f, m) : f \in plain, m \in {"none", "custom"}}
      valid == {WithValidBitsPerSample(f, b) : f \in masked, b \in {0, 24}}
      promoted == {WithExtensible(f) : f \in valid}
  IN  valid \cup promoted
        \cup {WithChannelMask(f, "none") : f \in promoted}
        \cup {WithValidBitsPerSample(f, 0) : f \in promoted}
=============================================================================
