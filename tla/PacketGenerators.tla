-------------------------- MODULE PacketGenerators --------------------------
(***************************************************************************)
(* PacketGenerator and its builders, with the dispatcher that decodes what *)
(* they build, the matchers that look at the decoded stack and the         *)
(* validator a caller hands it to.  A builder wraps what it is given: it   *)
(* adds its header's bytes and fixes the fields it writes.  Fields a       *)
(* builder takes from its random generator stay open.                      *)
(***************************************************************************)
EXTENDS ProtocolDispatcher, ProtocolValidator

LOCAL INSTANCE TLC

CONSTANTS
    PayloadSizes,   \* bytes of the innermost payload
    Addresses       \* 16-bit halves of an IPv4 address

ASSUME PayloadSizesAssumption == PayloadSizes \subseteq Nat
ASSUME AddressesAssumption == Addresses \subseteq 0..(Word - 1)

Built(n, fields) == [size |-> n, fields |-> fields]

\* Random bytes: nothing is known of them.
Bytes(n) == Built(n, [application |-> TRUE])

SOMEIPBuilder(n, sd) ==
    Built(16 + n, [application |-> TRUE, someipVersion |-> 1, someipLength |-> 8 + n,
                   sd |-> sd, tp |-> FALSE])

DoIPBuilder(n, type) ==
    Built(8 + n, [application |-> TRUE, inverted |-> TRUE, doipType |-> type, doipLength |-> n])

\* The bytes of a UDS message: a negative response, or a service with its
\* sub-function and n bytes of data.
UDSBuilder(negative, subFunction, n) ==
    IF negative THEN 3 ELSE 1 + (IF subFunction THEN 1 ELSE 0) + n

\* A length without the header that carries it.
UdpLengthOfPayload(n) == n % Word

UdpLength(n) == (8 + (n % Word)) % Word

UDPBuilder(inner, ports) ==
    Built(8 + inner.size, inner.fields @@ [length |-> UdpLength(inner.size), ports |-> ports])

TCPBuilder(inner, ports) ==
    Built(20 + inner.size, inner.fields @@ [words |-> 5, ports |-> ports])

TotalLength(n) == (20 + (n % Word)) % Word

\* The header's words: version and header length, total length, no
\* identification, don't fragment, time to live 64 and the protocol.
IPv4HeaderWords(n, protocol, source, target) ==
    LET header == <<17664, TotalLength(n), 0, 16384, 16384 + (IF protocol = "UDP" THEN 17 ELSE 6), 0,
                    source, target, target, source>>
    IN  [header EXCEPT ![ChecksumWord] = BuilderChecksum(header)]

IPv4Builder(inner, protocol, source, target) ==
    Built(20 + inner.size,
          inner.fields @@ [version |-> 4, ihl |-> 5, protocol |-> protocol,
                           total |-> TotalLength(inner.size),
                           header |-> IPv4HeaderWords(inner.size, protocol, source, target)])

EthernetBuilder(inner, vlans) ==
    Built(14 + 4 * vlans + inner.size, inner.fields @@ [vlans |-> vlans, type |-> "IPv4"])

\* A built packet is handed to decode_packet.
DecodeBuilt(method, vlans, datagram, protocol) ==
    \E source, target \in Addresses :
        LET frame == EthernetBuilder(IPv4Builder(datagram, protocol, source, target), vlans)
        IN  /\ Call("ethernet", frame.size)
            /\ content' = [method |-> method] @@ frame.fields

\* udp_packet, someip_udp_packet and someip_service_packet; ports are random
\* and may be those of another protocol.
OverUdp(method, inner) ==
    \E ports \in PortSets : DecodeBuilt(method, 0, UDPBuilder(inner, ports), "UDP")

\* tcp_packet, doip_tcp_packet and doip_diagnostic_packet.
OverTcp(method, inner) ==
    \E ports \in PortSets : DecodeBuilt(method, 0, TCPBuilder(inner, ports), "TCP")

\* A test chains the builders itself and adds a VLAN tag.
TaggedPacket ==
    \E n \in PayloadSizes, ports \in PortSets :
        \/ DecodeBuilt("builders", 1, UDPBuilder(Bytes(n), ports), "UDP")
        \/ DecodeBuilt("builders", 1, TCPBuilder(Bytes(n), ports), "TCP")

UdpPacket == \E n \in PayloadSizes : OverUdp("udp_packet", Bytes(n))

TcpPacket == \E n \in PayloadSizes : OverTcp("tcp_packet", Bytes(n))

SomeipUdpPacket ==
    \E n \in PayloadSizes, sd \in BOOLEAN : OverUdp("someip_udp_packet", SOMEIPBuilder(n, sd))

SomeipServicePacket ==
    \E sd \in BOOLEAN : OverUdp("someip_service_packet", SOMEIPBuilder(0, sd))

\* The payload types with_random_payload_type picks from.
RandomPayloadTypes ==
    {"Request", "VehicleIdentificationResponse", "RoutingActivationRequest",
     "RoutingActivationResponse", "DiagnosticMessage", "DiagnosticAck"}

DoipTcpPacket ==
    \E n \in PayloadSizes, type \in RandomPayloadTypes : OverTcp("doip_tcp_packet", DoIPBuilder(n, type))

\* Two addresses and the UDS bytes.
DoipDiagnosticPacket(n) == OverTcp("doip_diagnostic_packet", DoIPBuilder(4 + n, "DiagnosticMessage"))

\* uds_doip_packet picks a service and writes no sub-function.
UdsDoipPacket == DoipDiagnosticPacket(UDSBuilder(FALSE, FALSE, 0))

\* Session control, request seed, tester present and reset; read by
\* identifier; a negative response.
UdsServicePacket ==
    \/ DoipDiagnosticPacket(UDSBuilder(FALSE, TRUE, 0))
    \/ DoipDiagnosticPacket(UDSBuilder(FALSE, FALSE, 2))
    \/ DoipDiagnosticPacket(UDSBuilder(TRUE, FALSE, 0))

\* truncated_packet and random_bytes.
RandomPacket ==
    \E n \in PayloadSizes : Call("ethernet", n) /\ content' = [method |-> "random_bytes", application |-> TRUE]

Generate ==
    \/ UdpPacket \/ TcpPacket \/ SomeipUdpPacket \/ SomeipServicePacket
    \/ DoipTcpPacket \/ UdsDoipPacket \/ UdsServicePacket \/ RandomPacket \/ TaggedPacket

GeneratorNext == Next \/ Generate

GeneratorSpec == Init /\ [][GeneratorNext]_vars /\ WF_vars(DecoderStep \/ Return)

---------------------------------------------------------------------------
\* Matchers decode the packet themselves and look for their layer; what a
\* failing decode found before it failed still matches.

HasLayer(names) == \E i \in 1..Len(layers) : layers[i].name \in names

LayerTags(name) == UNION {layers[i].tags : i \in {j \in 1..Len(layers) : layers[j].name = name}}

HasEthertype(type) == HasLayer({"ethernet"}) /\ type \in LayerTags("ethernet")

\* A tag makes the header longer.
HasVlan == \E i \in 1..Len(layers) : layers[i].name = "ethernet" /\ layers[i].to - layers[i].from > 14

\* IsUDP and IsTCP look at the protocol field of the IPv4 header, the port
\* matchers at the transport header.
HasIPProtocol(protocol) == HasLayer({"ipv4"}) /\ protocol \in LayerTags("ipv4")

MatchesPort(ports) ==
    HasLayer({"udp", "tcp"}) /\ ports \subseteq (LayerTags("udp") \union LayerTags("tcp"))

HasSomeip == HasLayer({"someip.sd", "someip.guess"})

HasDoIPPayloadType(type) == HasLayer({"doip"}) /\ type \in LayerTags("doip")

IsGptp == HasLayer({"gptp"})

IsRtps == HasLayer({"rtps"})

DecodesSuccessfully == error = "Success"

\* The filters of dispatcher.hpp.  The port filter looks at the TCP header
\* only of a stack without a UDP header.
has_protocol(name) == HasLayer({name})

doip_type(type) == has_protocol("doip") /\ type \in LayerTags("doip")

port(number) ==
    IF has_protocol("udp") THEN number \in LayerTags("udp")
    ELSE has_protocol("tcp") /\ number \in LayerTags("tcp")

\* What a C program asks of a decoded stack; RTPS and service discovery have no
\* constant in wadjet_protocol_t.
wadjet_decode_result_success == DecodesSuccessfully

wadjet_decode_result_has_layer(protocol) ==
    CASE protocol = "SOMEIP" -> HasSomeip
      [] protocol \in {"ETHERNET", "IPV4", "UDP", "TCP", "DOIP", "GPTP"} ->
           HasLayer({[ETHERNET |-> "ethernet", IPV4 |-> "ipv4", UDP |-> "udp", TCP |-> "tcp",
                      DOIP |-> "doip", GPTP |-> "gptp"][protocol]})
      [] OTHER -> FALSE

\* The list of layers a caller hands to the validator.
ValidatorName ==
    [ethernet |-> "Ethernet", ipv4 |-> "IPv4", udp |-> "UDP", tcp |-> "TCP", doip |-> "DoIP",
     gptp |-> "gPTP", rtps |-> "DDS", sd |-> "SOME/IP-SD"] @@
    ("someip.sd" :> "SOME/IP") @@ ("someip.guess" :> "SOME/IP")

ProtocolLayers(stack) ==
    [i \in 1..Len(stack) |->
        [name |-> ValidatorName[stack[i].name], offset |-> stack[i].from,
         header |-> stack[i].to - stack[i].from,
         payload |-> IF stack[i].to <= size THEN size - stack[i].to ELSE 0]]

---------------------------------------------------------------------------
Decoded == at = "idle" /\ layers # <<>>

Generated == content.method \notin {"none", "random_bytes"}

\* A generated packet whose lengths fit their 16-bit fields matches what it
\* was built as, whatever its random fields are: the Ethernet type and tag, the
\* IPv4 protocol, and the ports of that transport; its header checksum is the one
\* the decoder and the checksum helper expect.  A SOME/IP packet matches as
\* SOME/IP unless its random port belongs to DoIP or RTPS, and a diagnostic
\* message as DoIP when a port is the DoIP port.  The dispatcher's filters and
\* the C interface see the ports, the transport and the type it was built with.
GeneratedDecodes ==
    Decoded /\ Generated /\ size - 14 - 4 * content.vlans < Word =>
        /\ HasEthertype("IPv4") /\ ~IsGptp
        /\ HasVlan <=> content.vlans > 0
        /\ HasIPProtocol(content.protocol) /\ MatchesPort(content.ports)
        /\ \A number \in {"doip", "rtps", "sd"} : port(number) <=> number \in content.ports
        /\ \A protocol \in {"UDP", "TCP"} :
             wadjet_decode_result_has_layer(protocol) <=> content.protocol = protocol
        /\ DecoderChecksumValid(content.header)
        /\ Ipv4Checksum(content.header) = content.header[ChecksumWord]
        /\ "someipLength" \in DOMAIN content /\ content.ports \subseteq {"sd"} =>
             HasSomeip /\ ~IsRtps /\ DecodesSuccessfully
        /\ content.method = "doip_diagnostic_packet" /\ "doip" \in content.ports =>
             HasDoIPPayloadType("DiagnosticMessage") /\ ~HasSomeip /\ wadjet_decode_result_success
        /\ content.method = "doip_tcp_packet" /\ "doip" \in content.ports /\ has_protocol("doip") =>
             doip_type(content.doipType)

View == INSTANCE PacketView

\* The frame as its decoded layers show it, for a PacketView of its bytes; a
\* second tag may be of either type.
SeenFrame(stack, inner) ==
    LET vlans == (stack[1].to - 14) \div 4
        words(i) == (stack[i].to - stack[i].from) \div 4
    IN  [size |-> size, types |-> SubSeq(<<"VLAN", inner>>, 1, vlans) \o <<"IPv4">>,
         version |-> 4, ihl |-> words(2), words |-> words(3),
         protocol |-> IF stack[3].name = "udp" THEN "UDP" ELSE "TCP"]

\* Does a PacketView find the header that is the third layer, and its payload
\* where the dispatcher does?  Behind two tags it finds no IPv4 header at all.
ViewAgrees(stack) ==
    Len(stack) > 2 /\ stack[1].name = "ethernet" /\ stack[3].name \in {"udp", "tcp"} =>
        \A inner \in View!TagTypes :
            LET frame == SeenFrame(stack, inner)
            IN  IF Len(frame.types) < 3
                THEN /\ View!udp_header(frame) <=> stack[3].name = "udp"
                     /\ View!tcp_header(frame) <=> stack[3].name = "tcp"
                     /\ View!payload(frame) = stack[3].to
                ELSE ~ View!ipv4_header(frame) /\ View!payload(frame) = size

\* The validator accepts the order and the lengths of every stack decode
\* produces, in both modes: headers lie inside the captured bytes, without a
\* gap between them, and no layer comes before the one that carries it.  Of
\* decode_from_ip it only misses the link layer, and it reports a service-
\* discovery header whose length wrapped as one that exceeds the packet.  A
\* PacketView, the second parser of the library, sees the same transport header
\* and payload.
DecodedStackValidates ==
    Decoded =>
        /\ \A mode \in Modes :
             /\ ValidateLayering(mode, ProtocolLayers(layers))
                  = When(layers[1].name = "ipv4", <<1, "first layer">>)
             /\ ValidateLengths(mode, ProtocolLayers(layers), size)
                  = When(\E i \in 1..Len(layers) : layers[i].to - layers[i].from >= Modulus,
                         <<0, "packet">>)
        /\ ViewAgrees(layers)

\* validateChecksums accepts a generated UDP packet: IPv4Builder writes the
\* header checksum, and UDPBuilder a zero that stands for no checksum.
BuiltChecksumAccepted ==
    Decoded /\ Generated /\ content.protocol = "UDP" =>
        \A mode \in Modes :
            ValidateChecksums(mode, content.header, 17, TotalLength(size), 0) = <<>>
==============================================================================
