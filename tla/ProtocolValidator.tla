-------------------------- MODULE ProtocolValidator --------------------------
(***************************************************************************)
(* ProtocolValidator: checks a list of protocol layers for their order,    *)
(* their lengths and their checksums.  The calls are const; the mode set   *)
(* before decides whether a call returns at the first error (Strict) or    *)
(* collects them all (Lenient).  A layer is [name, offset, header,         *)
(* payload]; an error is the position of its layer and its kind.           *)
(***************************************************************************)
EXTENDS Checksums

LOCAL INSTANCE SequencesExt

Modes == {"Strict", "Lenient"}

LinkLayers == {"Ethernet", "VLAN", "PPP", "Raw"}
NetworkLayers == {"IPv4", "IPv6"}
TransportLayers == {"UDP", "TCP", "SCTP"}
ApplicationLayers == {"SOME/IP", "SOME/IP-SD", "DoIP", "UDS", "DDS", "gPTP"}

\* In Strict mode the checks behind the first error are not reached.
Reported(mode, errors) ==
    IF mode = "Strict" /\ errors # <<>> THEN <<Head(errors)>> ELSE errors

When(condition, error) == IF condition THEN <<error>> ELSE <<>>

Before(layers, i, names) == \E j \in 1..(i - 1) : layers[j].name \in names

\* What validateLayering finds wrong with layer i, in the order of its checks.
LayeringErrorsAt(layers, i) ==
    LET name == layers[i].name
    IN  When(i = 1 /\ name \notin LinkLayers, <<i, "first layer">>)
        \o When(name \in NetworkLayers /\ Before(layers, i, NetworkLayers \ {name}), <<i, "mixed IP">>)
        \o When(name \in NetworkLayers /\ Before(layers, i, TransportLayers \union ApplicationLayers),
                <<i, "network too late">>)
        \o When(name \in TransportLayers /\ ~Before(layers, i, NetworkLayers), <<i, "no network">>)
        \o When(name \in TransportLayers /\ Before(layers, i, ApplicationLayers), <<i, "second transport">>)
        \o When(name \in ApplicationLayers \ {"gPTP"}
                  /\ ~Before(layers, i, TransportLayers \union NetworkLayers), <<i, "no transport">>)

ValidateLayering(mode, layers) ==
    Reported(mode, FlattenSeq([i \in 1..Len(layers) |-> LayeringErrorsAt(layers, i)]))

EndOf(layer) == layer.offset + layer.header + layer.payload

\* What the loop of validateLengths finds wrong with layer i: a gap behind
\* the end of the layer before it, or a header longer than its layer.
LengthErrorsAt(layers, i) ==
    When(layers[i].offset > (IF i = 1 THEN 0 ELSE EndOf(layers[i - 1])), <<i, "gap">>)
    \o When(layers[i].header > layers[i].header + layers[i].payload, <<i, "header">>)

ValidateLengths(mode, layers, total) ==
    Reported(mode, FlattenSeq([i \in 1..Len(layers) |-> LengthErrorsAt(layers, i)])
                   \o When(\E i \in 1..Len(layers) : EndOf(layers[i]) > total, <<0, "packet">>))

\* validate_ipv4_checksum sums the header together with its checksum, and
\* compares the complement with the checksum.
Ipv4ChecksumAccepted(header) == Complement(SumOf(header)) = header[ChecksumWord]

\* calculate_pseudo_checksum: addresses, protocol and length, without the
\* segment itself.
PseudoChecksum(addresses, protocol, bytes) ==
    Complement(SumOf(addresses) + protocol + (bytes % Word)
               + (IF bytes > Word - 1 THEN (bytes \div Word) % Word ELSE 0))

\* validate_udp_checksum and validate_tcp_checksum over an IPv4 packet.
TransportChecksumAccepted(addresses, protocol, bytes, field) ==
    \/ protocol = 17 /\ field = 0
    \/ PseudoChecksum(addresses, protocol, bytes) = field

\* validateChecksums of a packet with an IPv4 layer: its header, then its
\* UDP or TCP layer.
ValidateChecksums(mode, header, protocol, bytes, field) ==
    Reported(mode,
        When(~Ipv4ChecksumAccepted(header), "IPv4")
        \o When(protocol \in {6, 17} /\ ~TransportChecksumAccepted(SubSeq(header, 7, 10), protocol, bytes, field),
                "transport"))
==============================================================================
