--------------------------- MODULE MessageDecoders ---------------------------
(***************************************************************************)
(* gPTP with its message bodies and TLV lists, and RTPS with its           *)
(* submessages, inline QoS and the parameter lists of discovery.           *)
(***************************************************************************)
EXTENDS DecodeContext

Least(a, b) == IF a < b THEN a ELSE b

\* gPTP message types by the bytes parse_body wants behind the 34 of the
\* common header, and by the TLV it looks for behind them.
GptpBody ==
    [Sync |-> 10, Follow_Up |-> 10, Pdelay_Req |-> 20, Pdelay_Resp |-> 20,
     Pdelay_Resp_Follow_Up |-> 20, Announce |-> 30, Signaling |-> 10, Management |-> 0]

GptpTypes == DOMAIN GptpBody

\* A message that is not of 802.1AS is refused by a strict decoder.
GptpDecode ==
    /\ at = "gptp"
    /\ \/ Remaining < 34 /\ Fail("gptp", "BufferTooSmall", 0)
       \/ Remaining >= 34 /\ Fail("gptp", "InvalidVersion", 34)
       \/ /\ Remaining >= 34
          /\ \E length \in Lengths, type \in GptpTypes :
               LET whole == HasBytes(34 + GptpBody[type])
                   r == Result("Success", "gptp", length, {type})
               IN \/ /\ length < 34 \/ length > Remaining
                     /\ Fail("gptp", "InvalidLength", 34)
                  \/ /\ 34 <= length /\ length <= Remaining
                     /\ IF whole /\ type \in {"Follow_Up", "Announce"}
                        THEN Enter("gptp.tlvs", 34 + GptpBody[type], Remaining, r,
                                   34 + GptpBody[type])
                        ELSE Succeed("gptp", length, {type},
                                     IF whole THEN 34 + GptpBody[type] ELSE 34)

\* FollowUpTlv::parse accepts a value of 26 bytes and reads 28 of it.
ReadsPastFollowUp(length) ==
    "Follow_Up" \in result.tags /\ length \in 26..27

\* Tlv::parse: four bytes of type and length, and the value, must be there.
TlvFits(length) == 4 + length <= bound - cursor

\* parse_tlv_array; the list runs to the end of the capture
\* and not to the end of the message.
GptpTlv ==
    /\ at = "gptp.tlvs"
    /\ \/ bound - cursor < 4 /\ Leave("returned", 0)
       \/ /\ bound - cursor >= 4
          /\ \E length \in Lengths :
               \/ ~TlvFits(length) /\ Leave("returned", 4)
               \/ /\ TlvFits(length)
                  /\ cursor' = cursor + 4 + length
                  /\ count' = count + 1
                  /\ touched' = Upto(cursor + 4 + length)
                  /\ \/ overread' = overread
                     \/ /\ ReadsPastFollowUp(length)
                        /\ overread' = overread \union {"follow_up_tlv"}
                  /\ UNCHANGED <<at, size, start, bound, result>>

\* looks_like_rtps and the fixed header.
RtpsDecode ==
    /\ at = "rtps"
    /\ \/ ~HasBytes(20) /\ Fail("rtps", "BufferTooSmall", 0)
       \/ HasBytes(20) /\ Fail("rtps", "InvalidHeader", 4)
       \/ HasBytes(20) /\ Fail("rtps", "InvalidVersion", 6)
       \/ HasBytes(20) /\ Enter("rtps.submessages", 20, Remaining,
                                Result("Success", "rtps", Remaining, {}), 20)

\* Submessage kinds by the body parse_submessage_body wants of them.  The
\* kinds it does not parse, and the lists whose elements are each checked,
\* want nothing.
RtpsBody ==
    [DATA |-> 20, HEARTBEAT |-> 28, ACKNACK |-> 24, GAP |-> 24, INFO_SRC |-> 20,
     INFO_DST |-> 12, INFO_TS |-> 0, INFO_REPLY |-> 0, PAD |-> 0]

\* The inline QoS of a DATA body ends where its parameters say, which may be
\* behind the body: a parameter's length is added without a check.
InlineQosEnd(length) == 20 + 4 + ((length + 3) \div 4) * 4

\* One submessage.  A length of 0 reaches to the end of the message.
RtpsSubmessage ==
    /\ at = "rtps.submessages"
    /\ \/ cursor + 4 > bound /\ Leave("returned", 0)
       \/ /\ cursor + 4 <= bound
          /\ \E length \in Lengths, kind \in DOMAIN RtpsBody :
               LET body == IF length = 0 THEN bound - cursor - 4 ELSE length
                   parsed == body >= RtpsBody[kind]
                   inline == kind = "DATA" /\ body >= 24
               IN IF cursor + 4 + body > bound
                  THEN Leave("returned", 4)
                  ELSE /\ at' = IF length = 0 THEN "returned" ELSE at
                       /\ cursor' = cursor + 4 + body
                       /\ count' = count + 1
                       /\ touched' = Upto(cursor + 4 + (IF parsed THEN body ELSE 0))
                       /\ \/ overread' = overread
                          \/ /\ inline /\ \E qos \in Lengths : InlineQosEnd(qos) > body
                             /\ overread' = overread \union {"inline_qos"}
                       /\ UNCHANGED <<size, start, bound, result>>

\* A discovery parser skips the encapsulation header when there is one, and
\* goes through the parameters; what it takes from a value it takes only from
\* one long enough.
DiscoveryList ==
    \E skip \in {0, 4} :
        /\ skip = 0 \/ HasBytes(4)
        /\ Enter("discovery.parameters", skip, Remaining,
                 Result("Success", "discovery", 0, {}), Least(4, Remaining))

ParseParticipantData == at = "participant" /\ DiscoveryList

ParsePublicationData == at = "publication" /\ DiscoveryList

ParseSubscriptionData == at = "subscription" /\ DiscoveryList

\* One parameter of a list: the sentinel, padding, or a value that must fit.
DiscoveryParameter ==
    /\ at = "discovery.parameters"
    /\ \/ cursor + 4 > bound /\ Leave("returned", 0)
       \/ cursor + 4 <= bound /\ Leave("returned", 4)
       \/ cursor + 4 <= bound /\ Advance(4, 4)
       \/ /\ cursor + 4 <= bound
          /\ \E length \in Lengths :
               IF cursor + 4 + length > bound
               THEN Leave("returned", 4)
               ELSE Advance(4 + ((length + 3) \div 4) * 4, 4 + length)

MessageStep ==
    \/ GptpDecode \/ GptpTlv
    \/ RtpsDecode \/ RtpsSubmessage
    \/ ParseParticipantData \/ ParsePublicationData \/ ParseSubscriptionData \/ DiscoveryParameter
==============================================================================
