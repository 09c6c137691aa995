-------------------------- MODULE TransportDecoders --------------------------
(***************************************************************************)
(* Ethernet with up to two VLAN tags, IPv4 and TCP with their option       *)
(* lists, and UDP.                                                         *)
(***************************************************************************)
EXTENDS DecodeContext

CONSTANTS
    HeaderWords,    \* values of the IHL and data-offset fields
    OptionLengths   \* values of the length byte of an IP or TCP option

ASSUME HeaderWordsAssumption == HeaderWords \subseteq 0..15
ASSUME OptionLengthsAssumption == OptionLengths \subseteq 0..255

EtherTypes == {"IPv4", "PTP", "other"}

Protocols == {"UDP", "TCP", "other"}

\* The application ports a datagram or segment carries, source or destination.
PortSets == {{}, {"doip"}, {"rtps"}, {"sd"}, {"rtps", "sd"}}

EthernetDecode ==
    /\ at = "ethernet"
    /\ \/ /\ ~HasBytes(14)
          /\ Fail("ethernet", "BufferTooSmall", 0)
       \/ /\ HasBytes(14)
          /\ \E vlans \in FieldChoices("vlans", 0..2), type \in FieldChoices("type", EtherTypes) :
               IF HasBytes(14 + 4 * vlans)
               THEN Succeed("ethernet", 14 + 4 * vlans, {type}, 14 + 4 * vlans)
               ELSE Fail("ethernet", "BufferTooSmall", 14 + 2 * ((Remaining - 14) \div 2))

\* A list whose truncated option is read all the same.
ParseOptionUnchecked(next) ==
    \/ cursor >= bound /\ Leave(next, 0)
    \/ /\ cursor < bound
       /\ \E length \in OptionLengths :
            IF length < 2 THEN Leave(next, 2) ELSE Advance(length, length)

\* One turn of an option list: end of options, no-operation, or a kind with a
\* length byte that counts kind and length too.
ParseOption(next) ==
    \/ cursor >= bound /\ Leave(next, 0)
    \/ cursor < bound /\ Leave(next, 1)
    \/ cursor < bound /\ Advance(1, 1)
    \/ /\ cursor < bound
       /\ \/ cursor + 1 >= bound /\ Leave(next, 1)
          \/ /\ cursor + 1 < bound
             /\ \E length \in OptionLengths :
                  IF length < 2 \/ cursor + length > bound
                  THEN Leave(next, 2)
                  ELSE Advance(length, length)

\* The dispatcher's decoder is built to accept a bad checksum, so the
\* checksum never fails the decode.
IPv4Decode ==
    /\ at = "ipv4"
    /\ \/ ~HasBytes(20) /\ Fail("ipv4", "BufferTooSmall", 0)
       \/ /\ HasBytes(20)
          /\ \E version \in FieldChoices("version", {4, 6}), ihl \in FieldChoices("ihl", HeaderWords),
               protocol \in FieldChoices("protocol", Protocols) :
               CASE version # 4 -> Fail("ipv4", "InvalidVersion", 1)
                 [] version = 4 /\ ihl < 5 -> Fail("ipv4", "InvalidHeader", 1)
                 [] version = 4 /\ ihl >= 5 /\ ~HasBytes(4 * ihl) -> Fail("ipv4", "BufferTooSmall", 1)
                 [] OTHER -> Enter("ipv4.options", 20, 4 * ihl,
                                   Result("Success", "ipv4", 4 * ihl, {protocol}), 4 * ihl)

Ipv4Options == at = "ipv4.options" /\ ParseOption("ipv4.length")

\* total_length is compared with the header only after the options.
IPv4TotalLength ==
    /\ at = "ipv4.length"
    /\ \E total \in FieldChoices("total", {result.size - 1, result.size}) :
         IF total < result.size THEN Fail("ipv4", "InvalidLength", 0) ELSE Leave("returned", 0)

UdpDecode ==
    /\ at = "udp"
    /\ \/ ~HasBytes(8) /\ Fail("udp", "BufferTooSmall", 0)
       \/ /\ HasBytes(8)
          /\ \E length \in FieldChoices("length", {7, 8}), ports \in FieldChoices("ports", PortSets) :
               IF length < 8 THEN Fail("udp", "InvalidLength", 8) ELSE Succeed("udp", 8, ports, 8)

TcpDecode ==
    /\ at = "tcp"
    /\ \/ ~HasBytes(20) /\ Fail("tcp", "BufferTooSmall", 0)
       \/ /\ HasBytes(20)
          /\ \E words \in FieldChoices("words", HeaderWords), ports \in FieldChoices("ports", PortSets) :
               CASE words < 5 -> Fail("tcp", "InvalidHeader", 14)
                 [] words >= 5 /\ ~HasBytes(4 * words) -> Fail("tcp", "BufferTooSmall", 14)
                 [] OTHER -> Enter("tcp.options", 20, 4 * words,
                                   Result("Success", "tcp", 4 * words, ports), 20)

TcpOptions == at = "tcp.options" /\ ParseOption("returned")

TransportStep ==
    \/ EthernetDecode \/ IPv4Decode \/ Ipv4Options \/ IPv4TotalLength
    \/ UdpDecode \/ TcpDecode \/ TcpOptions
==============================================================================
