--------------------------- MODULE DecodingProofs ---------------------------
(***************************************************************************)
(* Proofs about decoding.                                                  *)
(*                                                                         *)
(* The decoders and the dispatcher that chains them, for packets of every  *)
(* captured length, every value of every length field and every limit of   *)
(* the decoders: no decoder looks behind the captured bytes, and the       *)
(* layers of a result tile the packet.                                     *)
(*                                                                         *)
(* What the decoders remember between packets, for any sets of keys,       *)
(* messages and connections and any sizes and limits: a payload put        *)
(* together is one datagram's, the bytes of a SOME/IP-TP message stand at  *)
(* their places, and no connection carries data before its handshake.      *)
(***************************************************************************)
EXTENDS ProtocolDispatcher, PacketStreams, TLAPS

\* Where a decoder is in the middle of its work, with the header it is going
\* to return in result.
Loops == {"ipv4.options", "ipv4.length", "tcp.options", "sd.entries", "sd.options", "gptp.tlvs",
          "rtps.submessages", "discovery.parameters"}

\* The span of a running decoder starts inside the capture, its loop ends
\* there, and so does the header it returns.  Only service discovery may
\* return a header longer than the capture, for header_size is not wrapped
\* as entries_end is; it is the last layer, so no decoder starts behind it.
InSpan ==
    /\ touched <= size
    /\ at # "idle" => start <= size
    /\ at \in Loops => start + bound <= size
    /\ at \in Loops \cup {"returned"} /\ result.code = "Success" /\ result.call # "sd" =>
         start + result.size <= size
    /\ at = "sd.entries" => result.size = bound + 4 \/ result.size >= Modulus
    /\ at = "sd.options" => result.size = bound \/ result.size >= Modulus
    /\ at = "returned" /\ result.code = "Success" /\ result.call = "sd" =>
         start + result.size <= size \/ result.size >= Modulus

\* Whose answer a loop is working on.
Answering ==
    at \in Loops =>
        /\ result.code = "Success"
        /\ result.call # "doip"
        /\ result.call = "sd" <=> at \in {"sd.entries", "sd.options"}

\* The service-discovery decoder runs, or has just answered.
SdPhase == at \in {"sd", "sd.entries", "sd.options"} \/ (at = "returned" /\ result.call = "sd")

End == IF layers = <<>> THEN 0 ELSE layers[Len(layers)].to

Chained == \A i \in 1..Len(layers) : layers[i].from = IF i = 1 THEN 0 ELSE layers[i - 1].to

\* The span starts behind the last layer, and the payload with it, except
\* while service discovery is tried behind a SOME/IP header.
Placed ==
    /\ start = End
    /\ \/ payload = start
       \/ /\ SdPhase \/ at = "idle"
          /\ layers # <<>>
          /\ layers[Len(layers)].name = "someip.sd"
          /\ payload = layers[Len(layers)].from

\* The layers end inside the capture, but for the last where the dispatcher has
\* stopped behind a service-discovery header.
Fitted ==
    \A i \in 1..Len(layers) :
        \/ layers[i].to <= size
        \/ /\ at = "idle" /\ i = Len(layers) /\ layers[i].name = "sd"
           /\ layers[i].to - layers[i].from >= Modulus

IsList == \E S : layers \in Seq(S)

Stack == IsList /\ Chained /\ Placed /\ Fitted

IInv == TypeOK /\ content = Arbitrary /\ InSpan /\ Answering /\ AcceptedPayloadParses /\ Stack

\* What a decoder leaves alone.
Undisturbed == UNCHANGED <<content, layers, payload, error>>

\* The payload of the header decoded last, with its tags, can be parsed when
\* n bytes follow.
Parses(tags, n) ==
    /\ \A type \in tags \cap DOMAIN MessageParserNeeds : n >= MessageParserNeeds[type]
    /\ \A type \in tags \cap DOMAIN StatusParserNeeds : n >= StatusParserNeeds[type]
-----------------------------------------------------------------------------
(* The steps a decoder is made of.                                         *)

LEMMA ContextFacts ==
    ASSUME IInv
    PROVE  /\ size \in Nat /\ start \in Nat /\ cursor \in Nat /\ bound \in Nat /\ count \in Nat
           /\ touched \in Nat /\ touched <= size
           /\ overread \subseteq {"someip_tp", "inline_qos", "follow_up_tlv"}
           /\ result.code \in Codes /\ result.size \in Nat
           /\ payload \in Nat /\ error \in Codes
    BY DEF IInv, TypeOK, ContextTypeOK, InSpan

\* A field of a packet nobody knows anything of may have any value.
LEMMA AnyChoice ==
    ASSUME IInv, NEW field, field # "method", NEW all
    PROVE  FieldChoices(field, all) = all
    <1>1. DOMAIN content = {"method"}
        BY DEF IInv, Arbitrary
    <1> QED BY <1>1 DEF FieldChoices

\* A decoder returns.
LEMMA Returns ==
    ASSUME IInv, at # "idle", Undisturbed,
           NEW code \in Codes, NEW call, NEW n \in Nat, NEW tags,
           at' = "returned", result' = Result(code, call, n, tags),
           UNCHANGED <<size, start, cursor, bound, count>>,
           touched' \in Nat, touched' <= size,
           overread' \subseteq {"someip_tp", "inline_qos", "follow_up_tlv"},
           code = "Success" => start + n <= size \/ (call = "sd" /\ n >= Modulus),
           code = "Success" /\ call = "doip" => Parses(tags, size - start - n),
           SdPhase => call = "sd"
    PROVE  IInv'
    <1>1. result'.code = code /\ result'.call = call /\ result'.size = n /\ result'.tags = tags
        BY DEF Result
    <1>2. UNCHANGED <<content, layers, payload, error>>
        BY DEF Undisturbed
    <1>3. TypeOK' /\ content' = Arbitrary
        BY <1>1, <1>2, ContextFacts DEF IInv, TypeOK, ContextTypeOK
    <1>4. InSpan' /\ Answering'
        BY <1>1, ContextFacts DEF IInv, InSpan, Answering, Loops
    <1>5. AcceptedPayloadParses'
        BY <1>1 DEF AcceptedPayloadParses, Parses, Remaining
    <1>6. IsList' /\ Chained' /\ Fitted'
        BY <1>2 DEF IInv, Stack, IsList, Chained, Fitted
    <1>7. Placed'
        BY <1>1, <1>2 DEF IInv, Stack, Placed, SdPhase, End
    <1> QED BY <1>3, <1>4, <1>5, <1>6, <1>7 DEF IInv, Stack

LEMMA FailStep ==
    ASSUME IInv, at # "idle", Undisturbed,
           NEW code \in Codes \ {"Success"}, NEW call, NEW n \in Nat,
           Fail(call, code, n), start + n <= size, SdPhase => call = "sd"
    PROVE  IInv'
    <1>1. touched' \in Nat /\ touched' <= size
        BY ContextFacts DEF Fail, Upto
    <1>2. /\ at' = "returned" /\ result' = Result(code, call, 0, {})
          /\ UNCHANGED <<size, start, cursor, bound, count>> /\ overread' = overread
        BY DEF Fail
    <1> QED BY <1>1, <1>2, ContextFacts, Returns

LEMMA SucceedStep ==
    ASSUME IInv, at # "idle", Undisturbed,
           NEW call, NEW n \in Nat, NEW tags, NEW read \in Nat,
           Succeed(call, n, tags, read), start + read <= size, start + n <= size,
           call = "doip" => Parses(tags, size - start - n),
           ~ SdPhase
    PROVE  IInv'
    <1>1. touched' \in Nat /\ touched' <= size
        BY ContextFacts DEF Succeed, Upto
    <1>2. /\ at' = "returned" /\ result' = Result("Success", call, n, tags)
          /\ UNCHANGED <<size, start, cursor, bound, count>> /\ overread' = overread
        BY DEF Succeed
    <1>3. "Success" \in Codes
        BY DEF Codes
    <1> QED BY <1>1, <1>2, <1>3, ContextFacts, Returns

\* A decoder enters a loop, with what it will return.
LEMMA EnterStep ==
    ASSUME IInv, at # "idle", Undisturbed,
           NEW point \in Loops, NEW from \in Nat, NEW to \in Nat, NEW read \in Nat,
           NEW call, call # "doip", NEW n \in Nat, NEW tags,
           Enter(point, from, to, Result("Success", call, n, tags), read),
           start + to <= size, start + read <= size, call # "sd" => start + n <= size,
           point = "sd.entries" => n = to + 4 \/ n >= Modulus,
           point = "sd.options" => n = to \/ n >= Modulus,
           call = "sd" <=> point \in {"sd.entries", "sd.options"},
           SdPhase => call = "sd"
    PROVE  IInv'
    <1>1. touched' \in Nat /\ touched' <= size
        BY ContextFacts DEF Enter, Upto
    <1>2. /\ at' = point /\ cursor' = from /\ bound' = to /\ count' = 0
          /\ result' = Result("Success", call, n, tags)
          /\ UNCHANGED <<size, start, overread>>
        BY DEF Enter
    <1>3. result'.code = "Success" /\ result'.call = call /\ result'.size = n /\ result'.tags = tags
        BY <1>2 DEF Result
    <1>4. UNCHANGED <<content, layers, payload, error>>
        BY DEF Undisturbed
    <1>5. TypeOK' /\ content' = Arbitrary
        BY <1>1, <1>2, <1>3, <1>4, ContextFacts DEF IInv, TypeOK, ContextTypeOK, Loops, Codes
    <1>6. InSpan' /\ Answering'
        BY <1>1, <1>2, <1>3, ContextFacts DEF IInv, InSpan, Answering, Loops
    <1>7. AcceptedPayloadParses'
        BY <1>2, <1>3 DEF AcceptedPayloadParses
    <1>8. IsList' /\ Chained' /\ Fitted'
        BY <1>2, <1>4 DEF IInv, Stack, IsList, Chained, Fitted
    <1>9. Placed'
        BY <1>2, <1>3, <1>4 DEF IInv, Stack, Placed, SdPhase, End
    <1> QED BY <1>5, <1>6, <1>7, <1>8, <1>9 DEF IInv, Stack

\* A loop turns, or ends: it keeps its bound and its answer.
LEMMA LoopStep ==
    ASSUME IInv, at \in Loops, Undisturbed,
           at' = at \/ at' = "returned" \/ (at = "ipv4.options" /\ at' = "ipv4.length"),
           at = "sd.entries" => at' = at,
           cursor' \in Nat, count' \in Nat, touched' \in Nat, touched' <= size,
           overread' \subseteq {"someip_tp", "inline_qos", "follow_up_tlv"},
           UNCHANGED <<size, start, bound, result>>
    PROVE  IInv'
    <1>1. UNCHANGED <<content, layers, payload, error>>
        BY DEF Undisturbed
    <1>2. TypeOK' /\ content' = Arbitrary
        BY <1>1, ContextFacts DEF IInv, TypeOK, ContextTypeOK, Loops
    <1>3. InSpan' /\ Answering'
        BY ContextFacts DEF IInv, InSpan, Answering, Loops
    <1>4. AcceptedPayloadParses'
        BY DEF AcceptedPayloadParses, IInv, Answering, Loops
    <1>5. IsList' /\ Chained' /\ Fitted'
        BY <1>1 DEF IInv, Stack, IsList, Chained, Fitted, Loops
    <1>6. Placed'
        BY <1>1 DEF IInv, Stack, Placed, SdPhase, End, Answering, Loops
    <1> QED BY <1>2, <1>3, <1>4, <1>5, <1>6 DEF IInv, Stack

LEMMA AdvanceStep ==
    ASSUME IInv, at \in Loops, Undisturbed, NEW n \in Nat, NEW read \in Nat,
           Advance(n, read), start + cursor + read <= size
    PROVE  IInv'
    <1>1. touched' \in Nat /\ touched' <= size
        BY ContextFacts DEF Advance, Upto
    <1>2. cursor' \in Nat /\ count' \in Nat
        BY ContextFacts DEF Advance
    <1>3. UNCHANGED <<at, size, start, bound, overread, result>>
        BY DEF Advance
    <1> QED BY <1>1, <1>2, <1>3, ContextFacts, LoopStep

LEMMA LeaveStep ==
    ASSUME IInv, at \in Loops, at # "sd.entries", Undisturbed, NEW next, NEW read \in Nat,
           Leave(next, read), read = 0 \/ start + cursor + read <= size,
           next = "returned" \/ (at = "ipv4.options" /\ next = "ipv4.length")
    PROVE  IInv'
    <1>1. touched' \in Nat /\ touched' <= size
        BY ContextFacts DEF Leave, Upto
    <1>2. at' = next /\ UNCHANGED <<size, start, cursor, bound, count, overread, result>>
        BY DEF Leave
    <1> QED BY <1>1, <1>2, ContextFacts, LoopStep
-----------------------------------------------------------------------------
(* The decoders, one by one.                                               *)

\* At the start of a decoder the span lies in the capture and, but for
\* service discovery, the payload starts where it does.
LEMMA SpanFacts ==
    ASSUME IInv, at # "idle"
    PROVE  start <= size /\ Remaining \in Nat /\ Remaining = size - start
    BY ContextFacts DEF IInv, InSpan, Remaining

LEMMA LoopFacts ==
    ASSUME IInv, at \in Loops
    PROVE  /\ at # "idle" /\ start <= size /\ start + bound <= size
           /\ result.code = "Success" /\ result.call # "doip"
           /\ result.call # "sd" => start + result.size <= size
           /\ SdPhase <=> result.call = "sd"
    BY DEF IInv, InSpan, Answering, Loops, SdPhase

LEMMA EthernetStep ==
    ASSUME IInv, Undisturbed, EthernetDecode
    PROVE  IInv'
    <1> USE DEF HasBytes
    <1>1. at = "ethernet" /\ at # "idle" /\ ~ SdPhase
        BY DEF EthernetDecode, SdPhase
    <1>2. CASE ~ HasBytes(14)
        BY <1>1, <1>2, SpanFacts, ContextFacts, FailStep DEF EthernetDecode, Codes
    <1>3. CASE HasBytes(14)
        <2>1. PICK vlans \in 0..2, type \in EtherTypes :
                IF HasBytes(14 + 4 * vlans)
                THEN Succeed("ethernet", 14 + 4 * vlans, {type}, 14 + 4 * vlans)
                ELSE Fail("ethernet", "BufferTooSmall", 14 + 2 * ((Remaining - 14) \div 2))
            BY <1>3, AnyChoice DEF EthernetDecode
        <2>2. CASE HasBytes(14 + 4 * vlans)
            BY <1>1, <2>1, <2>2, ContextFacts, SucceedStep
        <2>3. CASE ~ HasBytes(14 + 4 * vlans)
            <3>1. /\ 14 + 2 * ((Remaining - 14) \div 2) \in Nat
                  /\ start + (14 + 2 * ((Remaining - 14) \div 2)) <= size
                BY <1>1, <1>3, SpanFacts, ContextFacts
            <3> QED BY <1>1, <2>1, <2>3, <3>1, ContextFacts, FailStep DEF Codes
        <2> QED BY <2>2, <2>3
    <1> QED BY <1>2, <1>3

\* One turn of an option list stays within the header that is captured.
LEMMA OptionStep ==
    ASSUME IInv, Undisturbed, NEW next, ParseOption(next),
           \/ at = "ipv4.options" /\ next = "ipv4.length"
           \/ at = "tcp.options" /\ next = "returned"
    PROVE  IInv'
    <1>1. at \in Loops
        BY DEF Loops
    <1>2. start + bound <= size
        BY <1>1, LoopFacts
    <1>3. CASE cursor >= bound /\ Leave(next, 0)
        BY <1>1, <1>3, LeaveStep
    <1>4. CASE cursor < bound /\ Leave(next, 1)
        BY <1>1, <1>2, <1>4, ContextFacts, LeaveStep
    <1>5. CASE cursor < bound /\ Advance(1, 1)
        BY <1>1, <1>2, <1>5, ContextFacts, AdvanceStep
    <1>6. ASSUME cursor + 1 < bound, NEW length \in OptionLengths,
                 IF length < 2 \/ cursor + length > bound THEN Leave(next, 2) ELSE Advance(length, length)
          PROVE  IInv'
        <2>1. length \in Nat
            BY OptionLengthsAssumption
        <2>2. CASE Leave(next, 2)
            BY <1>1, <1>2, <1>6, <2>2, ContextFacts, LeaveStep
        <2>3. CASE cursor + length <= bound /\ Advance(length, length)
            BY <1>1, <1>2, <2>1, <2>3, ContextFacts, AdvanceStep
        <2> QED BY <1>6, <2>1, <2>2, <2>3, ContextFacts
    <1> QED BY <1>3, <1>4, <1>5, <1>6 DEF ParseOption

LEMMA IPv4Step ==
    ASSUME IInv, Undisturbed, IPv4Decode
    PROVE  IInv'
    <1> USE DEF HasBytes
    <1>1. at = "ipv4" /\ at # "idle" /\ ~ SdPhase
        BY DEF IPv4Decode, SdPhase
    <1>2. CASE ~ HasBytes(20)
        BY <1>1, <1>2, SpanFacts, ContextFacts, FailStep DEF IPv4Decode, Codes
    <1>3. CASE HasBytes(20)
        <2>1. /\ FieldChoices("version", {4, 6}) = {4, 6} /\ FieldChoices("ihl", HeaderWords) = HeaderWords
              /\ FieldChoices("protocol", Protocols) = Protocols
            BY AnyChoice
        <2>2. PICK version \in {4, 6}, ihl \in HeaderWords, protocol \in Protocols :
                CASE version # 4 -> Fail("ipv4", "InvalidVersion", 1)
                  [] version = 4 /\ ihl < 5 -> Fail("ipv4", "InvalidHeader", 1)
                  [] version = 4 /\ ihl >= 5 /\ ~HasBytes(4 * ihl) -> Fail("ipv4", "BufferTooSmall", 1)
                  [] OTHER -> Enter("ipv4.options", 20, 4 * ihl,
                                    Result("Success", "ipv4", 4 * ihl, {protocol}), 4 * ihl)
            BY <1>3, <2>1 DEF IPv4Decode
        <2>3. ihl \in Nat /\ 4 * ihl \in Nat
            BY HeaderWordsAssumption
        <2>4. ASSUME NEW code \in Codes \ {"Success"}, Fail("ipv4", code, 1)
              PROVE  IInv'
            BY <1>1, <1>3, <2>4, ContextFacts, FailStep
        <2>5. CASE /\ HasBytes(4 * ihl)
                   /\ Enter("ipv4.options", 20, 4 * ihl,
                            Result("Success", "ipv4", 4 * ihl, {protocol}), 4 * ihl)
            BY <1>1, <2>3, <2>5, EnterStep DEF Loops
        <2> QED BY <2>2, <2>3, <2>4, <2>5 DEF Codes
    <1> QED BY <1>2, <1>3

LEMMA IPv4LengthStep ==
    ASSUME IInv, Undisturbed, IPv4TotalLength
    PROVE  IInv'
    <1>1. at = "ipv4.length" /\ at \in Loops
        BY DEF IPv4TotalLength, Loops
    <1>2. CASE Fail("ipv4", "InvalidLength", 0)
        BY <1>1, <1>2, LoopFacts, ContextFacts, FailStep DEF Codes, SdPhase
    <1>3. CASE Leave("returned", 0)
        BY <1>1, <1>3, LeaveStep
    <1> QED BY <1>2, <1>3 DEF IPv4TotalLength

LEMMA UdpStep ==
    ASSUME IInv, Undisturbed, UdpDecode
    PROVE  IInv'
    <1> USE DEF HasBytes
    <1>1. at = "udp" /\ at # "idle" /\ ~ SdPhase
        BY DEF UdpDecode, SdPhase
    <1>2. CASE ~ HasBytes(8)
        BY <1>1, <1>2, SpanFacts, ContextFacts, FailStep DEF UdpDecode, Codes
    <1>3. CASE HasBytes(8)
        <2>1. PICK length \in {7, 8}, ports \in PortSets :
                IF length < 8 THEN Fail("udp", "InvalidLength", 8) ELSE Succeed("udp", 8, ports, 8)
            BY <1>3, AnyChoice DEF UdpDecode
        <2>2. CASE Fail("udp", "InvalidLength", 8)
            BY <1>1, <1>3, <2>2, ContextFacts, FailStep DEF Codes
        <2>3. CASE Succeed("udp", 8, ports, 8)
            BY <1>1, <1>3, <2>3, ContextFacts, SucceedStep
        <2> QED BY <2>1, <2>2, <2>3
    <1> QED BY <1>2, <1>3

LEMMA TcpStep ==
    ASSUME IInv, Undisturbed, TcpDecode
    PROVE  IInv'
    <1> USE DEF HasBytes
    <1>1. at = "tcp" /\ at # "idle" /\ ~ SdPhase
        BY DEF TcpDecode, SdPhase
    <1>2. CASE ~ HasBytes(20)
        BY <1>1, <1>2, SpanFacts, ContextFacts, FailStep DEF TcpDecode, Codes
    <1>3. CASE HasBytes(20)
        <2>1. PICK words \in HeaderWords, ports \in PortSets :
                CASE words < 5 -> Fail("tcp", "InvalidHeader", 14)
                  [] words >= 5 /\ ~HasBytes(4 * words) -> Fail("tcp", "BufferTooSmall", 14)
                  [] OTHER -> Enter("tcp.options", 20, 4 * words,
                                    Result("Success", "tcp", 4 * words, ports), 20)
            BY <1>3, AnyChoice DEF TcpDecode
        <2>2. words \in Nat /\ 4 * words \in Nat
            BY HeaderWordsAssumption
        <2>3. ASSUME NEW code \in Codes \ {"Success"}, Fail("tcp", code, 14)
              PROVE  IInv'
            BY <1>1, <1>3, <2>3, ContextFacts, FailStep
        <2>4. CASE /\ HasBytes(4 * words)
                   /\ Enter("tcp.options", 20, 4 * words, Result("Success", "tcp", 4 * words, ports), 20)
            BY <1>1, <1>3, <2>2, <2>4, EnterStep DEF Loops
        <2> QED BY <2>1, <2>2, <2>3, <2>4 DEF Codes
    <1> QED BY <1>2, <1>3

LEMMA TransportPreserves ==
    ASSUME IInv, Undisturbed, TransportStep
    PROVE  IInv'
    BY EthernetStep, IPv4Step, OptionStep, IPv4LengthStep, UdpStep, TcpStep
       DEF TransportStep, Ipv4Options, TcpOptions
-----------------------------------------------------------------------------

\* A SOME/IP header, and a TP segment that is copied into its reassembly.
LEMMA SomeIpStep ==
    ASSUME IInv, Undisturbed, NEW call \in {"someip.sd", "someip.guess"}, SomeIpDecode(call)
    PROVE  IInv'
    <1> USE DEF HasBytes
    <1>1. at = call /\ at # "idle" /\ ~ SdPhase /\ call # "doip" /\ call # "sd"
        BY DEF SomeIpDecode, SdPhase
    <1>2. start <= size
        BY <1>1, SpanFacts
    <1>3. ASSUME NEW code \in Codes \ {"Success"}, NEW n \in Nat, start + n <= size, Fail(call, code, n)
          PROVE  IInv'
        BY <1>1, <1>3, FailStep
    <1>4. CASE ~ HasBytes(16)
        BY <1>2, <1>3, <1>4, ContextFacts DEF SomeIpDecode, Codes
    <1>5. CASE HasBytes(16)
        <2>1. CASE Fail(call, "InvalidVersion", 13)
            BY <1>3, <1>5, <2>1, ContextFacts DEF Codes
        <2>2. CASE Fail(call, "InvalidLength", 16)
            BY <1>3, <1>5, <2>2, ContextFacts DEF Codes
        <2>3. ASSUME NEW tags, Succeed(call, 16, tags, 16)
              PROVE  IInv'
            BY <1>1, <1>5, <2>3, ContextFacts, SucceedStep
        <2>4. ASSUME NEW tags, NEW length \in Lengths, length >= 12, NEW offset \in Lengths,
                     SomeIpSegment(call, length, offset, tags)
              PROVE  IInv'
            <3>1. CASE Fail(call, "BufferTooSmall", 16)
                BY <1>3, <1>5, <3>1, ContextFacts DEF Codes
            <3>2. CASE HasBytes(20) /\ Fail(call, "InvalidLength", 20)
                BY <1>3, <3>2, ContextFacts DEF Codes
            <3>3. CASE /\ HasBytes(20) /\ at' = "returned" /\ result' = Result("Success", call, 16, tags)
                       /\ touched' = CopyUpto(20 + length - 12)
                       /\ overread' = EndsAfter(20 + length - 12, "someip_tp")
                       /\ UNCHANGED <<size, start, cursor, bound, count>>
                <4>1. length \in Nat
                    BY LengthsAssumption
                <4>2. touched' \in Nat /\ touched' <= size
                    BY <2>4, <3>3, <4>1, ContextFacts DEF CopyUpto, Upto
                <4>3. overread' \subseteq {"someip_tp", "inline_qos", "follow_up_tlv"}
                    BY <3>3, ContextFacts DEF EndsAfter
                <4>4. "Success" \in Codes /\ start + 16 <= size
                    BY <3>3, ContextFacts DEF Codes
                <4> QED BY <1>1, <3>3, <4>2, <4>3, <4>4, Returns
            <3> QED BY <2>4, <3>1, <3>2, <3>3 DEF SomeIpSegment
        <2>5. FieldChoices("someipLength", Lengths) = Lengths
            BY AnyChoice
        <2> QED BY <1>5, <2>1, <2>2, <2>3, <2>4, <2>5 DEF SomeIpDecode
    <1> QED BY <1>4, <1>5

LEMMA SdStep ==
    ASSUME IInv, Undisturbed, SdDecode
    PROVE  IInv'
    <1> USE DEF HasBytes
    <1>1. at = "sd" /\ at # "idle"
        BY DEF SdDecode
    <1>2. CASE ~ HasBytes(12)
        BY <1>1, <1>2, SpanFacts, ContextFacts, FailStep DEF SdDecode, Codes
    <1>3. CASE HasBytes(12)
        <2>1. PICK length \in Lengths :
                IF HasBytes(EntriesEnd(length))
                THEN Enter("sd.entries", 8, EntriesEnd(length), Result("Success", "sd", 12 + length, {}), 8)
                ELSE Fail("sd", "TruncatedPayload", 8)
            BY <1>3 DEF SdDecode
        <2>2. EntriesEnd(length) \in Nat /\ 12 + length \in Nat
            BY LengthsAssumption, ModulusAssumption DEF EntriesEnd
        <2>5. 12 + length = EntriesEnd(length) + 4 \/ 12 + length >= Modulus
            <3>1. length \in Nat /\ Modulus \in Nat /\ Modulus > 0
                BY LengthsAssumption, ModulusAssumption
            <3>2. 8 + length < Modulus => (8 + length) % Modulus = 8 + length
                BY <3>1
            <3> QED BY <3>1, <3>2 DEF EntriesEnd
        <2>3. CASE HasBytes(EntriesEnd(length))
            BY <1>1, <1>3, <2>1, <2>2, <2>3, <2>5, ContextFacts, EnterStep DEF Loops
        <2>4. CASE ~ HasBytes(EntriesEnd(length))
            BY <1>1, <1>3, <2>1, <2>4, ContextFacts, FailStep DEF Codes
        <2> QED BY <2>3, <2>4
    <1> QED BY <1>2, <1>3

LEMMA SdEntryStep ==
    ASSUME IInv, Undisturbed, SdEntry
    PROVE  IInv'
    <1> USE DEF HasBytes
    <1>1. at = "sd.entries" /\ at \in Loops /\ at # "idle"
        BY DEF SdEntry, Loops
    <1>2. start + bound <= size
        BY <1>1, LoopFacts
    <1>3. CASE cursor + 16 <= bound /\ Advance(16, 16)
        BY <1>1, <1>2, <1>3, ContextFacts, AdvanceStep
    <1>4. CASE Fail("sd", "TruncatedPayload", bound)
        BY <1>1, <1>2, <1>4, ContextFacts, FailStep DEF Codes
    <1>5. ASSUME HasBytes(bound + 4), NEW length \in Lengths, HasBytes(bound + 4 + length),
                 Enter("sd.options", bound + 4, bound + 4 + length,
                       Result("Success", "sd", result.size + length, {}), bound + 4)
          PROVE  IInv'
        <2>1. bound + 4 \in Nat /\ bound + 4 + length \in Nat /\ result.size + length \in Nat
            BY ContextFacts, LengthsAssumption
        <2>2. result.size + length = bound + 4 + length \/ result.size + length >= Modulus
            BY <1>1, ContextFacts, LengthsAssumption, ModulusAssumption DEF IInv, InSpan
        <2> QED BY <1>1, <1>5, <2>1, <2>2, ContextFacts, EnterStep DEF Loops
    <1>6. CASE HasBytes(bound + 4) /\ Fail("sd", "TruncatedPayload", bound + 4)
        BY <1>1, <1>6, ContextFacts, FailStep DEF Codes
    <1> QED BY <1>3, <1>4, <1>5, <1>6 DEF SdEntry

LEMMA SdOptionStep ==
    ASSUME IInv, Undisturbed, SdOption
    PROVE  IInv'
    <1> USE DEF HasBytes
    <1>1. at = "sd.options" /\ at \in Loops
        BY DEF SdOption, Loops
    <1>2. CASE Leave("returned", 0)
        BY <1>1, <1>2, LeaveStep
    <1>3. ASSUME HasBytes(cursor + 3), NEW length \in Lengths,
                 CASE length = 0 -> Advance(3, 3)
                   [] length > 0 /\ ~HasBytes(cursor + 2 + length) -> Leave("returned", 3)
                   [] OTHER -> Advance(2 + length, IF length = 1 THEN 3 ELSE 2 + length)
          PROVE  IInv'
        <2>1. length \in Nat /\ start + cursor + 3 <= size
            BY <1>3, LengthsAssumption, ContextFacts
        <2>2. CASE length = 0
            BY <1>1, <1>3, <2>1, <2>2, AdvanceStep
        <2>3. CASE length > 0 /\ ~HasBytes(cursor + 2 + length)
            BY <1>1, <1>3, <2>1, <2>3, LeaveStep
        <2>4. CASE length > 0 /\ HasBytes(cursor + 2 + length)
            <3> DEFINE read == IF length = 1 THEN 3 ELSE 2 + length
            <3>1. Advance(2 + length, read)
                BY <1>3, <2>1, <2>4
            <3>2. 2 + length \in Nat /\ read \in Nat /\ start + cursor + read <= size
                BY <2>1, <2>4, ContextFacts
            <3> HIDE DEF read
            <3> QED BY <1>1, <3>1, <3>2, AdvanceStep
        <2> QED BY <2>1, <2>2, <2>3, <2>4
    <1> QED BY <1>2, <1>3 DEF SdOption

\* What decode_impl accepts, the parser of its payload type accepts too.
LEMMA DoipStep ==
    ASSUME IInv, Undisturbed, DoipDecode
    PROVE  IInv'
    <1> USE DEF HasBytes
    <1>1. at = "doip" /\ at # "idle" /\ ~ SdPhase
        BY DEF DoipDecode, SdPhase
    <1>2. CASE ~ HasBytes(8)
        <2>1. Fail("doip", "BufferTooSmall", 0)
            BY <1>2 DEF DoipDecode
        <2> QED BY <1>1, <2>1, SpanFacts, ContextFacts, FailStep DEF Codes
    <1>3. CASE HasBytes(8)
        <2>1. CASE Fail("doip", "InvalidVersion", 2)
            BY <1>1, <1>3, <2>1, ContextFacts, FailStep DEF Codes
        <2>2. CASE Fail("doip", "BufferTooSmall", 8)
            BY <1>1, <1>3, <2>2, ContextFacts, FailStep DEF Codes
        <2>3. CASE Fail("doip", "InvalidLength", 8)
            BY <1>1, <1>3, <2>3, ContextFacts, FailStep DEF Codes
        <2>4. ASSUME NEW type \in DoipTypes, NEW length \in Lengths, HasBytes(8 + length),
                     ~ (length < DoipMinimum[type]), Succeed("doip", 8, {type}, 8)
              PROVE  IInv'
            <3>1. length \in Nat /\ size - start - 8 >= length
                BY <2>4, LengthsAssumption, ContextFacts
            <3>2. type \in DOMAIN MessageParserNeeds =>
                    DoipMinimum[type] \in Nat /\ MessageParserNeeds[type] = DoipMinimum[type]
                BY DEF MessageParserNeeds, DoipMinimum
            <3>3. type \in DOMAIN StatusParserNeeds =>
                    DoipMinimum[type] \in Nat /\ StatusParserNeeds[type] = DoipMinimum[type]
                BY DEF StatusParserNeeds, DoipMinimum
            <3>4. Parses({type}, size - start - 8)
                BY <2>4, <3>1, <3>2, <3>3, ContextFacts DEF Parses
            <3> QED BY <1>1, <1>3, <2>4, <3>4, ContextFacts, SucceedStep
        <2>5. FieldChoices("doipLength", Lengths) = Lengths /\ FieldChoices("doipType", DoipTypes) = DoipTypes
            BY AnyChoice
        <2> QED BY <1>3, <2>1, <2>2, <2>3, <2>4, <2>5 DEF DoipDecode
    <1> QED BY <1>2, <1>3

LEMMA ApplicationPreserves ==
    ASSUME IInv, Undisturbed, ApplicationStep
    PROVE  IInv'
    BY SomeIpStep, SdStep, SdEntryStep, SdOptionStep, DoipStep DEF ApplicationStep
-----------------------------------------------------------------------------

LEMMA GptpBodies == \A type \in GptpTypes : GptpBody[type] \in Nat
    BY DEF GptpTypes, GptpBody

LEMMA GptpStep ==
    ASSUME IInv, Undisturbed, GptpDecode
    PROVE  IInv'
    <1> USE DEF HasBytes
    <1>1. at = "gptp" /\ at # "idle" /\ ~ SdPhase
        BY DEF GptpDecode, SdPhase
    <1>2. start <= size /\ Remaining = size - start /\ Remaining \in Nat
        BY <1>1, SpanFacts
    <1>3. CASE Remaining < 34
        <2>1. Fail("gptp", "BufferTooSmall", 0)
            BY <1>2, <1>3 DEF GptpDecode
        <2> QED BY <1>1, <1>2, <2>1, ContextFacts, FailStep DEF Codes
    <1>5. CASE Remaining >= 34 /\ Fail("gptp", "InvalidVersion", 34)
        <2>1. start + 34 <= size
            BY <1>2, <1>5, ContextFacts
        <2> QED BY <1>1, <1>5, <2>1, ContextFacts, FailStep DEF Codes
    <1>4. CASE Remaining >= 34 /\ ~ Fail("gptp", "InvalidVersion", 34)
        <2>1. start + 34 <= size
            BY <1>2, <1>4, ContextFacts
        <2>2. PICK length \in Lengths, type \in GptpTypes :
                LET whole == HasBytes(34 + GptpBody[type])
                    r == Result("Success", "gptp", length, {type})
                IN \/ Fail("gptp", "InvalidLength", 34)
                   \/ /\ length <= Remaining
                      /\ IF whole /\ type \in {"Follow_Up", "Announce"}
                         THEN Enter("gptp.tlvs", 34 + GptpBody[type], Remaining, r,
                                    34 + GptpBody[type])
                         ELSE Succeed("gptp", length, {type},
                                      IF whole THEN 34 + GptpBody[type] ELSE 34)
            <3>1. ~ (Remaining < 34)
                BY <1>2, <1>4
            <3> HIDE DEF HasBytes
            <3> QED BY <1>4, <3>1, Zenon DEF GptpDecode
        <2>3. length \in Nat /\ 34 + GptpBody[type] \in Nat
            BY LengthsAssumption, GptpBodies
        <2>4. CASE Fail("gptp", "InvalidLength", 34)
            BY <1>1, <2>1, <2>4, ContextFacts, FailStep DEF Codes
        <2>5. ASSUME length <= Remaining, NEW read \in {34, 34 + GptpBody[type]}, start + read <= size,
                     Succeed("gptp", length, {type}, read)
              PROVE  IInv'
            <3>1. read \in Nat /\ start + length <= size
                BY <1>2, <2>3, <2>5, ContextFacts
            <3> QED BY <1>1, <2>3, <2>5, <3>1, ContextFacts, SucceedStep
        <2>6. CASE /\ length <= Remaining /\ HasBytes(34 + GptpBody[type])
                   /\ Enter("gptp.tlvs", 34 + GptpBody[type], Remaining,
                            Result("Success", "gptp", length, {type}), 34 + GptpBody[type])
            <3>1. start + length <= size /\ start + Remaining <= size
                BY <1>2, <2>3, <2>6, ContextFacts
            <3> QED BY <1>1, <1>2, <2>3, <2>6, <3>1, EnterStep DEF Loops
        <2> QED BY <2>1, <2>2, <2>4, <2>5, <2>6
    <1> QED BY <1>2, <1>3, <1>4, <1>5

LEMMA GptpTlvStep ==
    ASSUME IInv, Undisturbed, GptpTlv
    PROVE  IInv'
    <1>1. at = "gptp.tlvs" /\ at \in Loops
        BY DEF GptpTlv, Loops
    <1>2. start + bound <= size
        BY <1>1, LoopFacts
    <1>3. CASE Leave("returned", 0)
        BY <1>1, <1>3, LeaveStep
    <1>4. CASE bound - cursor >= 4 /\ Leave("returned", 4)
        BY <1>1, <1>2, <1>4, ContextFacts, LeaveStep
    <1>5. ASSUME NEW length \in Lengths, TlvFits(length),
                 cursor' = cursor + 4 + length, count' = count + 1, touched' = Upto(cursor + 4 + length),
                 overread' = overread \/ overread' = overread \union {"follow_up_tlv"},
                 UNCHANGED <<at, size, start, bound, result>>
          PROVE  IInv'
        <2>1. length \in Nat
            BY LengthsAssumption
        <2>2. cursor' \in Nat /\ count' \in Nat /\ touched' \in Nat /\ touched' <= size
            BY <1>2, <1>5, <2>1, ContextFacts DEF TlvFits, Upto
        <2>3. overread' \subseteq {"someip_tp", "inline_qos", "follow_up_tlv"}
            BY <1>5, ContextFacts
        <2> QED BY <1>1, <1>5, <2>2, <2>3, LoopStep
    <1> QED BY <1>3, <1>4, <1>5 DEF GptpTlv

LEMMA RtpsStep ==
    ASSUME IInv, Undisturbed, RtpsDecode
    PROVE  IInv'
    <1> USE DEF HasBytes
    <1>1. at = "rtps" /\ at # "idle" /\ ~ SdPhase
        BY DEF RtpsDecode, SdPhase
    <1>2. start <= size /\ Remaining = size - start /\ Remaining \in Nat
        BY <1>1, SpanFacts
    <1>3. ASSUME NEW code \in Codes \ {"Success"}, NEW n \in Nat, start + n <= size, Fail("rtps", code, n)
          PROVE  IInv'
        BY <1>1, <1>3, FailStep
    <1>4. CASE ~ HasBytes(20)
        <2>1. Fail("rtps", "BufferTooSmall", 0)
            BY <1>4 DEF RtpsDecode
        <2> QED BY <1>2, <1>3, <2>1, ContextFacts DEF Codes
    <1>5. CASE HasBytes(20)
        <2>1. CASE Fail("rtps", "InvalidHeader", 4)
            BY <1>3, <1>5, <2>1, ContextFacts DEF Codes
        <2>2. CASE Fail("rtps", "InvalidVersion", 6)
            BY <1>3, <1>5, <2>2, ContextFacts DEF Codes
        <2>3. CASE Enter("rtps.submessages", 20, Remaining, Result("Success", "rtps", Remaining, {}), 20)
            <3>1. start + Remaining <= size
                BY <1>2, ContextFacts
            <3> QED BY <1>1, <1>2, <1>5, <2>3, <3>1, EnterStep DEF Loops
        <2> QED BY <1>5, <2>1, <2>2, <2>3 DEF RtpsDecode
    <1> QED BY <1>4, <1>5

\* A submessage without a length reaches to the end, one with a length must
\* fit, so the body that is parsed is captured.
LEMMA RtpsSubmessageStep ==
    ASSUME IInv, Undisturbed, RtpsSubmessage
    PROVE  IInv'
    <1>1. at = "rtps.submessages" /\ at \in Loops
        BY DEF RtpsSubmessage, Loops
    <1>2. start + bound <= size
        BY <1>1, LoopFacts
    <1>3. CASE Leave("returned", 0)
        BY <1>1, <1>3, LeaveStep
    <1>4. CASE cursor + 4 <= bound /\ Leave("returned", 4)
        BY <1>1, <1>2, <1>4, ContextFacts, LeaveStep
    <1>5. ASSUME cursor + 4 <= bound, NEW length \in Lengths, NEW body,
                 body = IF length = 0 THEN bound - cursor - 4 ELSE length,
                 ~ (cursor + 4 + body > bound), NEW read \in {0, body},
                 at' = IF length = 0 THEN "returned" ELSE at,
                 cursor' = cursor + 4 + body, count' = count + 1, touched' = Upto(cursor + 4 + read),
                 overread' = overread \/ overread' = overread \union {"inline_qos"},
                 UNCHANGED <<size, start, bound, result>>
          PROVE  IInv'
        <2>1. body \in Nat /\ read \in Nat /\ read <= body
            BY <1>5, LengthsAssumption, ContextFacts
        <2>2. cursor' \in Nat /\ count' \in Nat /\ touched' \in Nat /\ touched' <= size
            BY <1>2, <1>5, <2>1, ContextFacts DEF Upto
        <2>3. overread' \subseteq {"someip_tp", "inline_qos", "follow_up_tlv"}
            BY <1>5, ContextFacts
        <2> QED BY <1>1, <1>5, <2>2, <2>3, LoopStep
    <1> QED BY <1>3, <1>4, <1>5 DEF RtpsSubmessage

LEMMA DiscoveryListStep ==
    ASSUME IInv, Undisturbed, at \in {"participant", "publication", "subscription"}, DiscoveryList
    PROVE  IInv'
    <1>1. at # "idle" /\ ~ SdPhase
        BY DEF SdPhase
    <1>2. start <= size /\ Remaining = size - start /\ Remaining \in Nat
        BY <1>1, SpanFacts
    <1>3. PICK skip \in {0, 4} :
            Enter("discovery.parameters", skip, Remaining, Result("Success", "discovery", 0, {}),
                  Least(4, Remaining))
        BY DEF DiscoveryList
    <1>4. /\ Least(4, Remaining) \in Nat /\ start + Least(4, Remaining) <= size
          /\ start + Remaining <= size /\ start + 0 <= size /\ skip \in Nat
        BY <1>2, ContextFacts DEF Least
    <1> QED BY <1>1, <1>2, <1>3, <1>4, EnterStep DEF Loops

LEMMA DiscoveryParameterStep ==
    ASSUME IInv, Undisturbed, DiscoveryParameter
    PROVE  IInv'
    <1>1. at = "discovery.parameters" /\ at \in Loops
        BY DEF DiscoveryParameter, Loops
    <1>2. start + bound <= size
        BY <1>1, LoopFacts
    <1>3. CASE Leave("returned", 0)
        BY <1>1, <1>3, LeaveStep
    <1>4. CASE cursor + 4 <= bound /\ Leave("returned", 4)
        BY <1>1, <1>2, <1>4, ContextFacts, LeaveStep
    <1>5. CASE cursor + 4 <= bound /\ Advance(4, 4)
        BY <1>1, <1>2, <1>5, ContextFacts, AdvanceStep
    <1>6. ASSUME NEW length \in Lengths, ~ (cursor + 4 + length > bound),
                 Advance(4 + ((length + 3) \div 4) * 4, 4 + length)
          PROVE  IInv'
        <2>1. length \in Nat /\ 4 + ((length + 3) \div 4) * 4 \in Nat /\ 4 + length \in Nat
            BY LengthsAssumption
        <2>2. start + cursor + (4 + length) <= size
            BY <1>2, <1>6, <2>1, ContextFacts
        <2> QED BY <1>1, <1>6, <2>1, <2>2, AdvanceStep
    <1> QED BY <1>3, <1>4, <1>5, <1>6 DEF DiscoveryParameter

LEMMA MessagePreserves ==
    ASSUME IInv, Undisturbed, MessageStep
    PROVE  IInv'
    BY GptpStep, GptpTlvStep, RtpsStep, RtpsSubmessageStep, DiscoveryListStep, DiscoveryParameterStep
       DEF MessageStep, ParseParticipantData, ParsePublicationData, ParseSubscriptionData
-----------------------------------------------------------------------------
(* The dispatcher.                                                         *)

\* The decoders the dispatcher may call behind a header.
Entries == {"ipv4", "gptp", "udp", "tcp", "doip", "rtps", "someip.sd", "someip.guess"}

LEMMA InitIInv == Init => IInv
    <1> SUFFICES ASSUME Init PROVE IInv
        OBVIOUS
    <1> USE DEF Init
    <1>1. result.code = "Success" /\ result.call = "none" /\ result.size = 0
        BY DEF NoResult, Result
    <1>2. TypeOK
        BY <1>1 DEF TypeOK, ContextTypeOK, Codes
    <1>3. InSpan /\ Answering /\ AcceptedPayloadParses
        BY DEF InSpan, Answering, AcceptedPayloadParses, Loops
    <1>4. <<>> \in Seq({})
        OBVIOUS
    <1>5. IsList /\ Chained /\ Placed /\ Fitted
        BY <1>4 DEF IsList, Chained, Placed, End, Fitted
    <1> QED BY <1>2, <1>3, <1>5 DEF IInv, Stack

\* A call starts from nothing, and so does the dispatcher after one.
LEMMA FreshStep ==
    ASSUME at' \in {"ready", "idle", "ethernet", "ipv4", "participant", "publication", "subscription"},
           size' \in Nat, content' = Arbitrary, error' \in Codes,
           start' = 0, cursor' = 0, bound' = 0, count' = 0, touched' = 0, overread' = {},
           result' = NoResult, layers' = <<>>, payload' = 0
    PROVE  IInv'
    <1>1. result'.code = "Success" /\ result'.call = "none" /\ result'.size = 0
        BY DEF NoResult, Result
    <1>2. TypeOK'
        BY <1>1 DEF TypeOK, ContextTypeOK, Codes
    <1>3. InSpan' /\ Answering' /\ AcceptedPayloadParses'
        BY DEF InSpan, Answering, AcceptedPayloadParses, Loops
    <1>4. <<>> \in Seq({})
        OBVIOUS
    <1>5. IsList' /\ Chained' /\ Placed' /\ Fitted'
        BY <1>4 DEF IsList, Chained, Placed, End, Fitted
    <1> QED BY <1>2, <1>3, <1>5 DEF IInv, Stack

LEMMA CallStep ==
    ASSUME NEW point \in {"ethernet", "ipv4", "participant", "publication", "subscription"},
           NEW n \in Sizes, Call(point, n), content' = Arbitrary
    PROVE  IInv'
    <1>1. size' \in Nat
        BY SizesAssumption DEF Call
    <1>2. error' \in Codes
        BY DEF Call, Codes
    <1>3. at' \in {"idle", point}
        BY DEF Call
    <1>4. /\ start' = 0 /\ cursor' = 0 /\ bound' = 0 /\ count' = 0 /\ touched' = 0
          /\ overread' = {} /\ result' = NoResult /\ layers' = <<>> /\ payload' = 0
        BY DEF Call
    <1> QED BY <1>1, <1>2, <1>3, <1>4, FreshStep

LEMMA ReleaseStep ==
    ASSUME Release
    PROVE  IInv'
    <1>1. "Success" \in Codes
        BY DEF Codes
    <1> QED BY <1>1, FreshStep DEF Release

\* The decoder is done, and the dispatcher too.
LEMMA StopStep ==
    ASSUME IInv, at = "returned", at' = "idle", error' \in Codes,
           UNCHANGED <<content, size, start, cursor, bound, count, touched, overread, result, layers, payload>>
    PROVE  IInv'
    <1>1. TypeOK'
        BY ContextFacts DEF TypeOK, ContextTypeOK
    <1>2. InSpan' /\ Answering' /\ AcceptedPayloadParses'
        BY DEF IInv, InSpan, Answering, AcceptedPayloadParses, Loops
    <1>3. IsList' /\ Chained' /\ Placed' /\ Fitted'
        BY DEF IInv, Stack, IsList, Chained, Placed, End, Fitted
    <1> QED BY <1>1, <1>2, <1>3 DEF IInv, Stack

\* The new header is the last layer, and the layers still follow each other.
LEMMA PushedStack ==
    ASSUME IInv, at = "returned", result.code = "Success", NEW next, Push(next),
           next = "idle" \/ result.call # "sd"
    PROVE  /\ IsList' /\ Chained' /\ Fitted' /\ start' = End'
           /\ layers' # <<>> /\ layers'[Len(layers')].name = result.call /\ layers'[Len(layers')].from = start
    <1> DEFINE header == [name |-> result.call, from |-> start, to |-> start + result.size, tags |-> result.tags]
    <1>1. layers' = Append(layers, header) /\ start' = start + result.size
        BY DEF Push
    <1>2. header.name = result.call /\ header.from = start /\ header.to = start + result.size
        OBVIOUS
    <1>3. PICK S : layers \in Seq(S)
        BY DEF IInv, Stack, IsList
    <1> HIDE DEF header
    <1>4. layers \in Seq(S \cup {header})
        BY <1>3
    <1>5. layers' \in Seq(S \cup {header})
        BY <1>1, <1>4
    <1>6. /\ Len(layers) \in Nat /\ Len(layers') = Len(layers) + 1 /\ layers' # <<>>
          /\ \A i \in 1..Len(layers) : layers'[i] = layers[i]
          /\ layers'[Len(layers')] = header
        BY <1>1, <1>4
    <1>7. IsList'
        BY <1>5 DEF IsList
    <1>8. start' = End'
        BY <1>1, <1>2, <1>6 DEF End
    <1>9. Chained'
        <2> SUFFICES ASSUME NEW i \in 1..Len(layers')
                     PROVE  layers'[i].from = IF i = 1 THEN 0 ELSE layers'[i - 1].to
            BY DEF Chained
        <2>1. CASE i \in 1..Len(layers)
            BY <1>6, <2>1 DEF IInv, Stack, Chained
        <2>2. CASE i = Len(layers')
            <3>1. start = End
                BY DEF IInv, Stack, Placed
            <3>2. layers = <<>> <=> Len(layers) = 0
                BY <1>3
            <3> QED BY <1>2, <1>6, <2>2, <3>1, <3>2 DEF End
        <2> QED BY <1>6, <2>1, <2>2
    <1>10. Fitted'
        <2> SUFFICES ASSUME NEW i \in 1..Len(layers')
                     PROVE  \/ layers'[i].to <= size'
                            \/ /\ at' = "idle" /\ i = Len(layers') /\ layers'[i].name = "sd"
                               /\ layers'[i].to - layers'[i].from >= Modulus
            BY DEF Fitted
        <2>1. size' = size /\ at' = next
            BY DEF Push
        <2>2. CASE i \in 1..Len(layers)
            BY <1>6, <2>1, <2>2 DEF IInv, Stack, Fitted
        <2>3. CASE i = Len(layers')
            <3>1. \/ start + result.size <= size
                  \/ result.call = "sd" /\ result.size >= Modulus
                BY DEF IInv, InSpan
            <3>2. (start + result.size) - start = result.size
                BY ContextFacts
            <3> QED BY <1>2, <1>6, <2>1, <2>3, <3>1, <3>2
        <2> QED BY <1>6, <2>2, <2>3
    <1> QED BY <1>2, <1>6, <1>7, <1>8, <1>9, <1>10

\* The dispatcher goes on to a decoder whose span is captured, or stops.
LEMMA PushStep ==
    ASSUME IInv, at = "returned", result.code = "Success", NEW next, PushWithin(next), content' = content,
           next = "idle" \/ (next \in Entries /\ result.call # "sd")
    PROVE  IInv'
    <1>1. /\ at' = next /\ start' = start + result.size /\ payload' = start'
          /\ UNCHANGED <<size, cursor, bound, count, touched, overread, result, error>>
        BY DEF PushWithin, Push
    <1>2. result.call # "sd" => start + result.size <= size
        BY DEF IInv, InSpan
    <1>3. TypeOK'
        BY <1>1, ContextFacts DEF TypeOK, ContextTypeOK, Entries
    <1>4. InSpan'
        BY <1>1, <1>2, ContextFacts DEF InSpan, Loops, Entries
    <1>5. Answering' /\ AcceptedPayloadParses'
        BY <1>1 DEF Answering, AcceptedPayloadParses, Loops, Entries
    <1>6. IsList' /\ Chained' /\ Fitted' /\ start' = End'
        BY PushedStack DEF PushWithin
    <1>7. Placed'
        BY <1>1, <1>6 DEF Placed
    <1> QED BY <1>3, <1>4, <1>5, <1>6, <1>7 DEF IInv, Stack

\* Service discovery is tried with the payload still at the SOME/IP header.
LEMMA PushSdStep ==
    ASSUME IInv, at = "returned", result.code = "Success", result.call = "someip.sd",
           Push("sd"), UNCHANGED <<payload, content>>
    PROVE  IInv'
    <1>1. /\ at' = "sd" /\ start' = start + result.size
          /\ UNCHANGED <<size, cursor, bound, count, touched, overread, result, error>>
        BY DEF Push
    <1>2. start + result.size <= size
        BY DEF IInv, InSpan
    <1>3. payload = start
        BY DEF IInv, Stack, Placed, SdPhase
    <1>4. TypeOK'
        BY <1>1, ContextFacts DEF TypeOK, ContextTypeOK
    <1>5. InSpan'
        BY <1>1, <1>2, ContextFacts DEF InSpan, Loops
    <1>6. Answering' /\ AcceptedPayloadParses'
        BY <1>1 DEF Answering, AcceptedPayloadParses, Loops
    <1>7. /\ IsList' /\ Chained' /\ Fitted' /\ start' = End' /\ layers' # <<>>
          /\ layers'[Len(layers')].name = "someip.sd" /\ layers'[Len(layers')].from = start
        BY PushedStack
    <1>8. Placed'
        BY <1>1, <1>3, <1>7 DEF Placed, SdPhase
    <1> QED BY <1>4, <1>5, <1>6, <1>7, <1>8 DEF IInv, Stack

LEMMA ReturnStep ==
    ASSUME IInv, Return
    PROVE  IInv'
    <1> USE DEF Answered
    <1>1. at = "returned" /\ content' = content
        BY DEF Return, AfterEthernet, AfterIPv4, AfterTransport, AfterDoip, AfterSomeIp, AfterSd, AfterGuess,
               AfterMessage, AfterFailure, AfterDiscovery
    <1>2. CASE AfterEthernet
        <2>1. result.code = "Success" /\ result.call # "sd"
            BY <1>2 DEF AfterEthernet
        <2>2. PICK next \in {"ipv4", "gptp", "idle"} : PushWithin(next)
            BY <1>2 DEF AfterEthernet
        <2> QED BY <1>1, <2>1, <2>2, PushStep DEF Entries
    <1>3. CASE AfterIPv4
        <2>1. result.code = "Success" /\ result.call # "sd"
            BY <1>3 DEF AfterIPv4
        <2>2. PICK next \in {"udp", "tcp", "idle"} : PushWithin(next)
            BY <1>3 DEF AfterIPv4
        <2> QED BY <1>1, <2>1, <2>2, PushStep DEF Entries
    <1>4. CASE AfterTransport
        <2>1. result.code = "Success" /\ result.call # "sd"
            BY <1>4 DEF AfterTransport
        <2>2. PICK next \in {"doip", "rtps", "someip.sd", "someip.guess", "idle"} : PushWithin(next)
            BY <1>4 DEF AfterTransport, ApplicationOf
        <2> QED BY <1>1, <2>1, <2>2, PushStep DEF Entries
    <1>5. CASE AfterDoip \/ AfterSd \/ AfterMessage
        BY <1>1, <1>5, PushStep DEF AfterDoip, AfterSd, AfterMessage
    <1>6. CASE AfterSomeIp
        <2>1. CASE Push("sd") /\ payload' = payload
            BY <1>1, <1>6, <2>1, PushSdStep DEF AfterSomeIp
        <2>2. CASE PushWithin("idle")
            BY <1>1, <1>6, <2>2, PushStep DEF AfterSomeIp
        <2> QED BY <1>6, <2>1, <2>2 DEF AfterSomeIp
    <1>7. CASE AfterGuess
        <2>1. CASE PushWithin("idle")
            BY <1>1, <1>7, <2>1, PushStep DEF AfterGuess
        <2>2. CASE at' = "idle" /\ UNCHANGED <<size, start, cursor, bound, count, touched, overread, result,
                                               layers, payload, error>>
            BY <1>1, <2>2, ContextFacts, StopStep
        <2> QED BY <1>7, <2>1, <2>2 DEF AfterGuess
    <1>8. CASE AfterFailure
        <2>1. error' \in Codes
            BY <1>8, ContextFacts DEF AfterFailure
        <2> QED BY <1>1, <1>8, <2>1, StopStep DEF AfterFailure
    <1>9. CASE AfterDiscovery
        BY <1>1, <1>9, ContextFacts, StopStep DEF AfterDiscovery
    <1> QED BY <1>2, <1>3, <1>4, <1>5, <1>6, <1>7, <1>8, <1>9 DEF Return

LEMMA Inductive == Spec => []IInv
    <1>1. ASSUME IInv, [Next]_vars PROVE IInv'
        <2>1. CASE Decode \/ DecodeFromIp \/ ParseDiscovery
            BY <2>1, CallStep DEF Decode, DecodeFromIp, ParseDiscovery
        <2>2. CASE DecoderStep
            <3>1. Undisturbed /\ (TransportStep \/ ApplicationStep \/ MessageStep)
                BY <2>2 DEF DecoderStep, Undisturbed
            <3> QED BY <1>1, <3>1, TransportPreserves, ApplicationPreserves, MessagePreserves
        <2>3. CASE Return
            BY <1>1, <2>3, ReturnStep
        <2>4. CASE Release
            BY <2>4, ReleaseStep
        <2>5. CASE UNCHANGED vars
            BY <1>1, <2>5 DEF vars, IInv, TypeOK, ContextTypeOK, InSpan, Answering, AcceptedPayloadParses, Remaining,
                   Stack, IsList, Chained, Placed, SdPhase, End, Fitted
        <2> QED BY <1>1, <2>1, <2>2, <2>3, <2>4, <2>5 DEF Next
    <1> QED BY <1>1, InitIInv, PTL DEF Spec

\* Positions stay natural numbers and results keep to the error codes; only
\* the three copies known to be sized by a length field read past a source.
THEOREM TypeCorrect == Spec => []TypeOK
    BY Inductive, PTL DEF IInv

\* No decoder reads behind the captured bytes of a packet, whatever its size
\* and whatever its length fields hold, and the payload of every DoIP header
\* that decode_impl accepts is captured as far as its parser reads.
THEOREM WithinCapture == Spec => []ReadsWithinCapture
    <1>1. IInv => ReadsWithinCapture
        BY DEF IInv, InSpan, ReadsWithinCapture
    <1> QED BY <1>1, Inductive, PTL

\* The layers of every result tile the packet: each starts where the one
\* before it ends, and the payload behind the last, or at a SOME/IP header
\* whose service discovery failed.  They end inside the capture, but for a
\* service-discovery header whose entries length wraps.
THEOREM Tiled == Spec => []LayersTile
    <1>1. ASSUME IInv PROVE LayersTile
        <2>1. Chained /\ Placed /\ Fitted
            BY <1>1 DEF IInv, Stack
        <2> QED BY <2>1 DEF Chained, Placed, End, Fitted, LayersTile
    <1> QED BY <1>1, Inductive, PTL

-----------------------------------------------------------------------------
(* IPv4 fragments. *)

Datagrams == [number : Nat, size : DatagramSizes]

\* The fragments of an entry that has not expired are of the datagram being
\* sent, and once the last one was seen the size is that datagram's.
OfDatagram(entry, datagram) ==
    /\ \A o \in DOMAIN entry.fragments : entry.fragments[o].datagram = datagram
    /\ entry.seen_last => entry.total_size = datagram.size

FragmentInv ==
    /\ DOMAIN cache \subseteq Keys
    /\ quiet \in [Keys -> Nat]
    /\ sending \in [Keys -> Datagrams]
    /\ \A k \in DOMAIN cache : quiet[k] <= FragmentTimeout => OfDatagram(cache[k], sending[k])

(* SOME/IP-TP segments. *)

\* The buffer a message has, by the segments that arrived of it.
Buffer(length, segs) ==
    [i \in 1..length |-> IF \E s \in segs : s[1] < i /\ i <= s[1] + s[2] THEN i ELSE Hole]

\* Every message holds that buffer, no segment reaches beyond total_length, and
\* of a message that is not there no segment counts as arrived.
TpInv ==
    /\ DOMAIN messages \subseteq Messages
    /\ DOMAIN arrived = Messages
    /\ \A k \in DOMAIN messages :
         /\ messages[k].total_length \in Nat
         /\ messages[k].data = Buffer(messages[k].total_length, arrived[k])
         /\ \A s \in arrived[k] : s[1] \in Nat /\ s[2] \in Nat /\ s[1] + s[2] <= messages[k].total_length
    /\ \A k \in Messages \ DOMAIN messages : arrived[k] = {}

(* TCP connections. *)

Connection == [state : TcpStates, age : Nat]
Handshakes == SUBSET Marks

\* What the handshake of a connection in a state has come to.
Shaken(state, seen) ==
    /\ state = "SynSent" => "opened" \in seen
    /\ state = "SynReceived" => "SYN" \in seen
    /\ state \in DataStates => "SYN" \in seen /\ seen \intersect {"answered", "reset"} # {}

TcpInv ==
    /\ DOMAIN connections \subseteq Connections
    /\ connections \in [DOMAIN connections -> Connection]
    /\ shaken \in [Connections -> Handshakes]
    /\ \A k \in DOMAIN connections : Shaken(connections[k].state, shaken[k])
-----------------------------------------------------------------------------
(* Fragments are of the datagram being sent.                               *)

LEMMA FragmentInitial == FragmentInit => FragmentInv /\ DeliveredAsSent
    <1> SUFFICES ASSUME FragmentInit PROVE FragmentInv /\ DeliveredAsSent
        OBVIOUS
    <1>1. DOMAIN cache = {} /\ quiet \in [Keys -> Nat] /\ sending \in [Keys -> Datagrams] /\ returned = NoPayload
        BY FragmentAssumption DEF FragmentInit, Datagrams
    <1> QED BY <1>1 DEF FragmentInv, DeliveredAsSent

LEMMA StoredOfDatagram ==
    ASSUME NEW entry, NEW from, NEW to, NEW datagram, OfDatagram(entry, datagram)
    PROVE  /\ OfDatagram(Stored(entry, from, to, datagram), datagram)
           /\ from \in DOMAIN Stored(entry, from, to, datagram).fragments
    <1> DEFINE new == Stored(entry, from, to, datagram)
    <1>1. /\ new.fragments = [o \in DOMAIN entry.fragments \union {from} |->
                                IF o = from THEN [size |-> to - from, datagram |-> datagram]
                                ELSE entry.fragments[o]]
          /\ new.seen_last = (entry.seen_last \/ to = datagram.size)
          /\ new.total_size = IF to = datagram.size THEN to ELSE entry.total_size
        BY DEF Stored
    <1> HIDE DEF new
    <1>2. \A o \in DOMAIN new.fragments : new.fragments[o].datagram = datagram
        BY <1>1 DEF OfDatagram
    <1>3. new.seen_last => new.total_size = datagram.size
        BY <1>1 DEF OfDatagram
    <1>4. from \in DOMAIN new.fragments
        BY <1>1
    <1> QED BY <1>2, <1>3, <1>4 DEF OfDatagram, new

LEMMA AddFragmentStep ==
    ASSUME FragmentInv, NEW k \in Keys, NEW from, NEW to, AddFragment(k, from, to)
    PROVE  FragmentInv' /\ DeliveredAsSent'
    <1> DEFINE found == IF k \in Unexpired THEN cache[k] ELSE NoEntry
               entry == Stored(found, from, to, sending[k])
    <1>1. OfDatagram(found, sending[k])
        <2>1. OfDatagram(NoEntry, sending[k])
            BY DEF OfDatagram, NoEntry
        <2> QED BY <2>1 DEF FragmentInv, Unexpired
    <1>2. OfDatagram(entry, sending[k]) /\ from \in DOMAIN entry.fragments
        BY <1>1, StoredOfDatagram
    <1>3. quiet' = [quiet EXCEPT ![k] = 0] /\ UNCHANGED sending
        BY DEF AddFragment
    <1>4. \/ /\ Complete(entry)
             /\ cache' = [j \in Unexpired \ {k} |-> cache[j]]
             /\ returned' = [size |-> entry.total_size,
                             datagrams |-> {entry.fragments[o].datagram : o \in DOMAIN entry.fragments}]
          \/ /\ cache' = [j \in Unexpired \union {k} |-> IF j = k THEN entry ELSE cache[j]]
             /\ returned' = NoPayload
        BY DEF AddFragment
    <1> HIDE DEF entry, found
    <1>5. FragmentInv'
        BY <1>2, <1>3, <1>4 DEF FragmentInv, Unexpired
    <1>6. DeliveredAsSent'
        <2>1. CASE returned' = NoPayload
            BY <2>1 DEF DeliveredAsSent
        <2>2. CASE /\ Complete(entry)
                   /\ returned' = [size |-> entry.total_size,
                                   datagrams |-> {entry.fragments[o].datagram : o \in DOMAIN entry.fragments}]
            <3>1. entry.total_size = sending[k].size
                BY <1>2, <2>2 DEF OfDatagram, Complete
            <3>2. {entry.fragments[o].datagram : o \in DOMAIN entry.fragments} = {sending[k]}
                BY <1>2 DEF OfDatagram
            <3>3. returned'.size = sending[k].size /\ returned'.datagrams = {sending[k]}
                BY <2>2, <3>1, <3>2
            <3> QED BY <3>3 DEF DeliveredAsSent
        <2> QED BY <1>4, <2>1, <2>2
    <1> QED BY <1>5, <1>6

LEMMA FragmentStep ==
    ASSUME FragmentInv, DeliveredAsSent, FragmentNext
    PROVE  FragmentInv' /\ DeliveredAsSent'
    <1>1. ASSUME NEW k \in Keys, NextDatagram(k)
          PROVE  FragmentInv' /\ DeliveredAsSent'
        <2>1. PICK n \in DatagramSizes : sending' = [sending EXCEPT ![k] = [number |-> @.number + 1, size |-> n]]
            BY <1>1 DEF NextDatagram
        <2>2. quiet[k] > FragmentTimeout /\ UNCHANGED <<cache, quiet, returned>>
            BY <1>1 DEF NextDatagram
        <2>3. sending[k].number + 1 \in Nat
            BY DEF FragmentInv, Datagrams
        <2>4. sending' \in [Keys -> Datagrams] /\ \A j \in Keys \ {k} : sending'[j] = sending[j]
            BY <2>1, <2>3 DEF FragmentInv, Datagrams
        <2>5. ~(quiet[k] <= FragmentTimeout)
            BY <2>2, FragmentAssumption DEF FragmentInv
        <2>6. FragmentInv'
            BY <2>2, <2>4, <2>5 DEF FragmentInv
        <2> QED BY <2>2, <2>6 DEF DeliveredAsSent
    <1>2. CASE FragmentCleanupExpired
        BY <1>2 DEF FragmentCleanupExpired, FragmentInv, DeliveredAsSent, Unexpired
    <1>3. CASE FragmentClear
        BY <1>3 DEF FragmentClear, FragmentInv, DeliveredAsSent
    <1>4. CASE FragmentTick
        <2>1. quiet' \in [Keys -> Nat] /\ \A k \in Keys : quiet'[k] <= FragmentTimeout => quiet[k] <= FragmentTimeout
            BY <1>4, FragmentAssumption DEF FragmentTick, FragmentInv
        <2> QED BY <1>4, <2>1 DEF FragmentTick, FragmentInv, DeliveredAsSent
    <1> QED BY <1>1, <1>2, <1>3, <1>4, AddFragmentStep DEF FragmentNext
-----------------------------------------------------------------------------
(* The bytes of a message stand at their places.                           *)

LEMMA MaxOfTwo ==
    ASSUME NEW a \in Nat, NEW b \in Nat
    PROVE  Max({a, b}) = IF a >= b THEN a ELSE b
    <1> DEFINE most == IF a >= b THEN a ELSE b
    <1>1. most \in {a, b} /\ \A y \in {a, b} : most >= y
        OBVIOUS
    <1>2. ASSUME NEW x \in {a, b}, \A y \in {a, b} : x >= y
          PROVE  x = most
        BY <1>2
    <1> HIDE DEF most
    <1>3. Max({a, b}) \in {a, b} /\ \A y \in {a, b} : Max({a, b}) >= y
        BY <1>1 DEF Max
    <1>4. Max({a, b}) = most
        BY <1>2, <1>3
    <1> QED BY <1>4 DEF most

\* Another segment, wherever it lies, gives the buffer of one segment more.
LEMMA WrittenBuffer ==
    ASSUME NEW length \in Nat, NEW segs, \A s \in segs : s[1] \in Nat /\ s[2] \in Nat /\ s[1] + s[2] <= length,
           NEW offset \in Nat, NEW n \in Nat
    PROVE  /\ Max({length, offset + n}) \in Nat
           /\ Written(Buffer(length, segs), offset, n) = Buffer(Max({length, offset + n}), segs \union {<<offset, n>>})
           /\ \A s \in segs \union {<<offset, n>>} :
                s[1] \in Nat /\ s[2] \in Nat /\ s[1] + s[2] <= Max({length, offset + n})
    <1> DEFINE longer == Max({length, offset + n})
               data == Buffer(length, segs)
               more == segs \union {<<offset, n>>}
    <1>1. longer = IF length >= offset + n THEN length ELSE offset + n
        BY MaxOfTwo
    <1>2. longer \in Nat /\ longer >= length /\ longer >= offset + n
        BY <1>1
    <1>3. Len(data) = length /\ \A i \in 1..length :
            data[i] = IF \E s \in segs : s[1] < i /\ i <= s[1] + s[2] THEN i ELSE Hole
        BY DEF Buffer
    <1> HIDE DEF longer, data
    <1>4. Written(data, offset, n) = [i \in 1..longer |-> IF offset < i /\ i <= offset + n THEN i
                                                         ELSE IF i <= length THEN data[i] ELSE Hole]
        BY <1>3 DEF Written, longer
    <1>5. ASSUME NEW i \in 1..longer
          PROVE  (IF offset < i /\ i <= offset + n THEN i ELSE IF i <= length THEN data[i] ELSE Hole)
                   = IF \E s \in more : s[1] < i /\ i <= s[1] + s[2] THEN i ELSE Hole
        <2>1. CASE offset < i /\ i <= offset + n
            <3>1. <<offset, n>> \in more /\ <<offset, n>>[1] = offset /\ <<offset, n>>[2] = n
                OBVIOUS
            <3> QED BY <2>1, <3>1
        <2>2. CASE ~(offset < i /\ i <= offset + n)
            <3>1. (\E s \in more : s[1] < i /\ i <= s[1] + s[2]) <=> \E s \in segs : s[1] < i /\ i <= s[1] + s[2]
                BY <2>2
            <3>2. CASE i <= length
                BY <1>2, <1>3, <2>2, <3>1, <3>2
            <3>3. CASE ~(i <= length)
                <4>1. ~ \E s \in segs : s[1] < i /\ i <= s[1] + s[2]
                    BY <1>2, <3>3
                <4> QED BY <2>2, <3>1, <3>3, <4>1
            <3> QED BY <3>2, <3>3
        <2> QED BY <2>1, <2>2
    <1>6. Written(data, offset, n) = Buffer(longer, more)
        BY <1>4, <1>5 DEF Buffer
    <1>7. \A s \in more : s[1] \in Nat /\ s[2] \in Nat /\ s[1] + s[2] <= longer
        BY <1>2
    <1> QED BY <1>2, <1>6, <1>7 DEF longer, data

LEMMA TpInitial == TpInit => TpInv
    BY DEF TpInit, TpInv

LEMMA AddSegmentStep ==
    ASSUME TpInv, NEW k \in Messages, NEW offset \in Nat, NEW n \in Nat, AddSegment(k, offset, n)
    PROVE  TpInv'
    <1> DEFINE found == IF k \in DOMAIN messages THEN messages[k] ELSE NoMessage
               longer == Max({found.total_length, offset + n})
               new == [total_length |-> longer, data |-> Written(found.data, offset, n)]
               more == arrived[k] \union {<<offset, n>>}
    <1>1. /\ found.total_length \in Nat /\ found.data = Buffer(found.total_length, arrived[k])
          /\ \A s \in arrived[k] : s[1] \in Nat /\ s[2] \in Nat /\ s[1] + s[2] <= found.total_length
        <2>1. CASE k \in DOMAIN messages
            BY <2>1 DEF TpInv
        <2>2. CASE k \notin DOMAIN messages
            <3>1. arrived[k] = {} /\ found = NoMessage
                BY <2>2 DEF TpInv
            <3>2. Buffer(0, {}) = <<>>
                BY DEF Buffer
            <3> QED BY <3>1, <3>2 DEF NoMessage
        <2> QED BY <2>1, <2>2
    <1>2. /\ messages' = [j \in DOMAIN messages \union {k} |-> IF j # k THEN messages[j] ELSE new]
          /\ arrived' = [arrived EXCEPT ![k] = more]
        BY DEF AddSegment
    <1> HIDE DEF found
    <1>3. /\ longer \in Nat /\ Written(found.data, offset, n) = Buffer(longer, more)
          /\ \A s \in more : s[1] \in Nat /\ s[2] \in Nat /\ s[1] + s[2] <= longer
        <2> DEFINE length == found.total_length
                   segs == arrived[k]
        <2>1. length \in Nat /\ \A s \in segs : s[1] \in Nat /\ s[2] \in Nat /\ s[1] + s[2] <= length
            BY <1>1
        <2> HIDE DEF length, segs
        <2>2. /\ Max({length, offset + n}) \in Nat
              /\ Written(Buffer(length, segs), offset, n)
                   = Buffer(Max({length, offset + n}), segs \union {<<offset, n>>})
              /\ \A s \in segs \union {<<offset, n>>} :
                   s[1] \in Nat /\ s[2] \in Nat /\ s[1] + s[2] <= Max({length, offset + n})
            BY <2>1, WrittenBuffer
        <2> QED BY <1>1, <2>2 DEF length, segs
    <1>4. new.total_length = longer /\ new.data = Buffer(longer, more)
        BY <1>3
    <1> HIDE DEF new, longer, more
    <1>5. /\ DOMAIN messages' = DOMAIN messages \union {k} /\ messages'[k] = new
          /\ \A j \in DOMAIN messages' \ {k} : j \in DOMAIN messages /\ messages'[j] = messages[j]
        BY <1>2
    <1>6. DOMAIN arrived' = Messages /\ arrived'[k] = more /\ \A j \in Messages \ {k} : arrived'[j] = arrived[j]
        BY <1>2 DEF TpInv
    <1>7. ASSUME NEW j \in DOMAIN messages'
          PROVE  /\ messages'[j].total_length \in Nat
                 /\ messages'[j].data = Buffer(messages'[j].total_length, arrived'[j])
                 /\ \A s \in arrived'[j] : s[1] \in Nat /\ s[2] \in Nat /\ s[1] + s[2] <= messages'[j].total_length
        <2>1. CASE j = k
            BY <1>3, <1>4, <1>5, <1>6, <2>1
        <2>2. CASE j # k
            <3>1. j \in DOMAIN messages /\ messages'[j] = messages[j] /\ arrived'[j] = arrived[j]
                BY <1>5, <1>6, <2>2 DEF TpInv
            <3> QED BY <3>1 DEF TpInv
        <2> QED BY <2>1, <2>2
    <1>8. DOMAIN messages' \subseteq Messages /\ \A j \in Messages \ DOMAIN messages' : arrived'[j] = {}
        BY <1>5, <1>6 DEF TpInv
    <1> QED BY <1>6, <1>7, <1>8 DEF TpInv, Buffer

LEMMA TpStep ==
    ASSUME TpInv, TpNext
    PROVE  TpInv'
    <1>1. ASSUME NEW k \in Messages, NEW offset \in 0..MessageLength, NEW n \in SegmentLengths,
                 AddSegment(k, offset, n) \/ RefuseSegment(k, offset, n)
          PROVE  TpInv'
        <2>1. offset \in Nat /\ n \in Nat
            BY TpAssumption
        <2>2. CASE RefuseSegment(k, offset, n)
            BY <2>2 DEF RefuseSegment, tpVars, TpInv, Buffer
        <2> QED BY <1>1, <2>1, <2>2, AddSegmentStep
    <1>2. ASSUME NEW k \in Messages, GetMessage(k)
          PROVE  TpInv'
        BY <1>2 DEF GetMessage, TpInv, Buffer
    <1>3. ASSUME NEW k \in Messages, RemoveMessage(k)
          PROVE  TpInv'
        <2>1. /\ DOMAIN messages' = DOMAIN messages \ {k} /\ \A j \in DOMAIN messages' : messages'[j] = messages[j]
              /\ DOMAIN arrived' = Messages /\ arrived'[k] = {}
              /\ \A j \in Messages \ {k} : arrived'[j] = arrived[j]
            BY <1>3 DEF RemoveMessage, TpInv
        <2> QED BY <2>1 DEF TpInv, Buffer
    <1>4. ASSUME NEW now, CleanupTimedOut(now)
          PROVE  TpInv'
        BY <1>4 DEF CleanupTimedOut, TpInv, Buffer
    <1> QED BY <1>1, <1>2, <1>3, <1>4 DEF TpNext

LEMMA TpKept ==
    ASSUME TpInv
    PROVE  ArrivedBytesKept
    <1> SUFFICES ASSUME NEW k \in DOMAIN messages
                 PROVE  /\ Len(messages[k].data) = messages[k].total_length
                        /\ \A i \in 1..Len(messages[k].data) :
                             messages[k].data[i] =
                                 IF \E s \in arrived[k] : s[1] < i /\ i <= s[1] + s[2] THEN i ELSE Hole
        BY DEF ArrivedBytesKept
    <1>1. messages[k].total_length \in Nat /\ messages[k].data = Buffer(messages[k].total_length, arrived[k])
        BY DEF TpInv
    <1> QED BY <1>1 DEF Buffer
-----------------------------------------------------------------------------
(* Data after the handshake.                                               *)

LEMMA TcpInitial == TcpInit => TcpInv
    BY DEF TcpInit, TcpInv, Handshakes

LEMMA NextStateFacts ==
    ASSUME NEW before \in TcpStates, NEW flags \in SUBSET Flags, NEW seen \in Handshakes,
           Shaken(before, seen)
    PROVE  /\ NextState(before, flags) \in TcpStates
           /\ HandshakeAfter(seen, flags) \in Handshakes
           /\ Shaken(NextState(before, flags), HandshakeAfter(seen, flags))
    <1> DEFINE after == HandshakeAfter(seen, flags)
               state == NextState(before, flags)
    <1>1. state \in TcpStates
        BY DEF TcpStates, NextState, SynReceivedStep
    <1>2. after \in Handshakes /\ seen \subseteq after
        BY DEF HandshakeAfter, Handshakes, Marks
    <1>3. /\ "SYN" \in flags => "SYN" \in after
          /\ "ACK" \in flags /\ ("opened" \in seen \/ "SYN" \in seen)
               => "answered" \in after \/ "reset" \in after
        BY DEF HandshakeAfter
    <1>4. state = "SynSent" => before = "SynSent"
        BY DEF NextState, SynReceivedStep, TcpStates
    <1>5. state = "SynReceived" => "SYN" \in flags \/ before = "SynReceived"
        BY DEF NextState, SynReceivedStep, TcpStates
    <1>6. state \in DataStates =>
            \/ before \in DataStates
            \/ before = "SynSent" /\ "SYN" \in flags /\ "ACK" \in flags
            \/ before = "SynReceived" /\ "ACK" \in flags
        BY DEF NextState, SynReceivedStep, TcpStates, DataStates
    <1> HIDE DEF after, state
    <1>7. Shaken(state, after)
        BY <1>2, <1>3, <1>4, <1>5, <1>6 DEF Shaken
    <1> QED BY <1>1, <1>2, <1>7 DEF after, state

\* One connection gets a new state and a new record of its handshake.
LEMMA ConnectionStep ==
    ASSUME TcpInv, NEW k \in DOMAIN connections, NEW c \in Connection, NEW shake \in Handshakes,
           connections' = [connections EXCEPT ![k] = c], shaken' = [shaken EXCEPT ![k] = shake],
           Shaken(c.state, shake)
    PROVE  TcpInv'
    <1>1. /\ DOMAIN connections' = DOMAIN connections /\ connections' \in [DOMAIN connections' -> Connection]
          /\ connections'[k] = c /\ \A j \in DOMAIN connections \ {k} : connections'[j] = connections[j]
        BY DEF TcpInv
    <1>2. k \in Connections
        BY DEF TcpInv
    <1>3. shaken' \in [Connections -> Handshakes] /\ shaken'[k] = shake
            /\ \A j \in Connections \ {k} : shaken'[j] = shaken[j]
        BY <1>2 DEF TcpInv
    <1>4. \A j \in DOMAIN connections' : Shaken(connections'[j].state, shaken'[j])
        BY <1>1, <1>3 DEF TcpInv
    <1> QED BY <1>1, <1>3, <1>4 DEF TcpInv

LEMMA ConnectionFacts ==
    ASSUME TcpInv, NEW k \in DOMAIN connections
    PROVE  /\ connections[k] \in Connection /\ connections[k].state \in TcpStates /\ k \in Connections
           /\ shaken[k] \in Handshakes
           /\ Shaken(connections[k].state, shaken[k])
    <1>1. connections[k] \in Connection /\ k \in Connections /\ shaken[k] \in Handshakes
        BY DEF TcpInv
    <1>2. connections[k].state \in TcpStates
        BY <1>1 DEF Connection
    <1>3. Shaken(connections[k].state, shaken[k])
        BY DEF TcpInv
    <1> QED BY <1>1, <1>2, <1>3

LEMMA TcpSegmentStep ==
    ASSUME TcpInv, TcpNext
    PROVE  TcpInv'
    <1>1. ASSUME NEW k \in Connections, GetConnection(k)
          PROVE  TcpInv'
        <2> DEFINE new == [state |-> "Closed", age |-> 0]
        <2>1. new \in Connection /\ new.state = "Closed"
            BY DEF Connection, TcpStates
        <2>2. /\ k \notin DOMAIN connections
              /\ connections' = [j \in DOMAIN connections \union {k} |-> IF j = k THEN new ELSE connections[j]]
              /\ shaken' = [shaken EXCEPT ![k] = {}]
            BY <1>1 DEF GetConnection
        <2> HIDE DEF new
        <2>3. /\ DOMAIN connections' = DOMAIN connections \union {k} /\ connections'[k] = new
              /\ \A j \in DOMAIN connections : connections'[j] = connections[j]
            BY <2>2
        <2>4. connections' \in [DOMAIN connections' -> Connection]
            BY <2>1, <2>2 DEF TcpInv
        <2>5. shaken' \in [Connections -> Handshakes] /\ \A j \in Connections \ {k} : shaken'[j] = shaken[j]
            BY <2>2 DEF TcpInv, Handshakes
        <2>6. Shaken("Closed", shaken'[k])
            BY DEF Shaken, DataStates
        <2>7. \A j \in DOMAIN connections' : Shaken(connections'[j].state, shaken'[j])
            BY <2>1, <2>2, <2>3, <2>5, <2>6 DEF TcpInv
        <2> QED BY <2>3, <2>4, <2>5, <2>7 DEF TcpInv
    <1>2. ASSUME NEW k \in Connections, CallerSetsState(k)
          PROVE  TcpInv'
        <2>1. PICK s \in OpenedOrClosed(connections[k].state) :
                /\ connections' = [connections EXCEPT ![k].state = s]
                /\ shaken' = [shaken EXCEPT ![k] = IF s = "SynSent" THEN {"opened"}
                                                   ELSE IF s = "Listen" THEN {} ELSE @]
            BY <1>2 DEF CallerSetsState
        <2>2. k \in DOMAIN connections
            BY <1>2 DEF CallerSetsState
        <2> DEFINE c == [connections[k] EXCEPT !.state = s]
                   shake == IF s = "SynSent" THEN {"opened"} ELSE IF s = "Listen" THEN {} ELSE shaken[k]
        <2>3. /\ s \in TcpStates
              /\ \/ s \in {"SynSent", "Listen"}
                 \/ s \in DataStates /\ connections[k].state \in DataStates
            BY <2>1 DEF OpenedOrClosed, TcpStates, DataStates
        <2>4. c \in Connection /\ c.state = s
            BY <2>2, <2>3, ConnectionFacts DEF Connection
        <2>5. shake \in Handshakes /\ Shaken(s, shake)
            BY <2>2, <2>3, ConnectionFacts DEF Handshakes, Marks, Shaken, DataStates, TcpStates
        <2>6. connections' = [connections EXCEPT ![k] = c] /\ shaken' = [shaken EXCEPT ![k] = shake]
            BY <2>1, <2>2 DEF TcpInv
        <2> HIDE DEF c, shake
        <2> QED BY <2>2, <2>4, <2>5, <2>6, ConnectionStep
    <1>3. ASSUME NEW k \in Connections, NEW flags \in SUBSET Flags, UpdateConnection(k, flags)
          PROVE  TcpInv'
        <2> DEFINE before == connections[k].state
                   state == NextState(before, flags)
                   c == [state |-> state, age |-> 0]
                   shake == IF state = "Closed" THEN {} ELSE HandshakeAfter(shaken[k], flags)
        <2>1. k \in DOMAIN connections
            BY <1>3 DEF UpdateConnection
        <2>2. connections' = [connections EXCEPT ![k] = c] /\ shaken' = [shaken EXCEPT ![k] = shake]
            BY <1>3 DEF UpdateConnection
        <2>3. before \in TcpStates /\ shaken[k] \in Handshakes /\ Shaken(before, shaken[k])
            BY <2>1, ConnectionFacts
        <2> HIDE DEF before
        <2>4. /\ state \in TcpStates /\ HandshakeAfter(shaken[k], flags) \in Handshakes
              /\ Shaken(state, HandshakeAfter(shaken[k], flags))
            BY <2>3, NextStateFacts
        <2>5. {} \in Handshakes /\ Shaken("Closed", {})
            BY DEF Handshakes, Shaken, DataStates
        <2>6. shake \in Handshakes /\ Shaken(state, shake)
            BY <2>4, <2>5, Zenon
        <2> HIDE DEF state, shake
        <2>7. c \in Connection /\ c.state = state
            BY <2>4 DEF Connection
        <2> HIDE DEF c
        <2> QED BY <2>1, <2>2, <2>6, <2>7, ConnectionStep
    <1>4. CASE TcpCleanupExpired
        BY <1>4 DEF TcpCleanupExpired, TcpInv
    <1>5. CASE TcpClear
        BY <1>5 DEF TcpClear, TcpInv
    <1>6. CASE TcpTick
        <2> DEFINE older(c) == [c EXCEPT !.age = IF @ < HalfOpenTimeout THEN @ + 1 ELSE @]
        <2>1. connections' = [k \in DOMAIN connections |-> older(connections[k])] /\ shaken' = shaken
            BY <1>6 DEF TcpTick
        <2>2. \A c \in Connection : older(c) \in Connection /\ older(c).state = c.state
            BY DEF Connection
        <2> HIDE DEF older
        <2>3. /\ DOMAIN connections' = DOMAIN connections /\ connections' \in [DOMAIN connections' -> Connection]
              /\ \A k \in DOMAIN connections : connections'[k].state = connections[k].state
            BY <2>1, <2>2 DEF TcpInv
        <2> QED BY <2>1, <2>3 DEF TcpInv
    <1> QED BY <1>1, <1>2, <1>3, <1>4, <1>5, <1>6 DEF TcpNext
-----------------------------------------------------------------------------
(* All of it.                                                              *)

StreamsInv == FragmentInv /\ DeliveredAsSent /\ TpInv /\ TcpInv

LEMMA NextIInv ==
    ASSUME StreamsInv, [StreamsNext]_streamsVars
    PROVE  StreamsInv'
    <1>1. UNCHANGED fragmentVars => FragmentInv' /\ DeliveredAsSent'
        BY DEF StreamsInv, fragmentVars, FragmentInv, OfDatagram, DeliveredAsSent
    <1>2. UNCHANGED tpVars => TpInv'
        BY DEF StreamsInv, tpVars, TpInv, Buffer
    <1>3. UNCHANGED tcpVars => TcpInv'
        BY DEF StreamsInv, tcpVars, TcpInv
    <1>4. CASE UNCHANGED streamsVars
        BY <1>1, <1>2, <1>3, <1>4 DEF StreamsInv, streamsVars, fragmentVars, tpVars, tcpVars
    <1>5. CASE FragmentNext /\ UNCHANGED <<tpVars, tcpVars>>
        BY <1>2, <1>3, <1>5, FragmentStep DEF StreamsInv
    <1>6. CASE TpNext /\ UNCHANGED <<fragmentVars, tcpVars>>
        BY <1>1, <1>3, <1>6, TpStep DEF StreamsInv
    <1>7. CASE TcpNext /\ UNCHANGED <<fragmentVars, tpVars>>
        BY <1>1, <1>2, <1>7, TcpSegmentStep DEF StreamsInv
    <1> QED BY <1>4, <1>5, <1>6, <1>7 DEF StreamsNext

LEMMA Invariance == StreamsSpec => []StreamsInv
    <1>1. StreamsInit => StreamsInv
        BY FragmentInitial, TpInitial, TcpInitial DEF StreamsInit, StreamsInv
    <1>2. StreamsInv /\ [StreamsNext]_streamsVars => StreamsInv'
        BY NextIInv
    <1> QED BY <1>1, <1>2, PTL DEF StreamsSpec

\* However the fragments are lost, repeated, reordered or cut, and whatever is
\* left of an earlier datagram under the same identification: a payload that
\* add_fragment returns is that of one datagram and has its size.
THEOREM DeliveredWhole == StreamsSpec => []DeliveredAsSent
    BY Invariance, PTL DEF StreamsInv

\* Segments of any length, at any offset and in any order: each byte that
\* arrived of a message is at its place in the buffer of add_segment.
THEOREM BytesKept == StreamsSpec => []ArrivedBytesKept
    <1>1. StreamsInv => ArrivedBytesKept
        BY TpKept DEF StreamsInv
    <1> QED BY <1>1, Invariance, PTL

\* For any number of connections and any flags: update_connection lets none
\* carry data before a SYN and an ACK to it, if only a reset's, were on the wire.
THEOREM DataNeedsHandshake == StreamsSpec => []DataAfterHandshake
    <1>1. StreamsInv => DataAfterHandshake
        BY DEF StreamsInv, TcpInv, Shaken, DataAfterHandshake
    <1> QED BY <1>1, Invariance, PTL
=============================================================================
