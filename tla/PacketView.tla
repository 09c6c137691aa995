----------------------------- MODULE PacketView -----------------------------
(***************************************************************************)
(* PacketView: the lazy accessors a consumer of captured packets uses      *)
(* instead of the decoders.  A frame is its captured size, the Ethernet    *)
(* types at bytes 12, 16 and 20 (as many as there are tags, and one), and  *)
(* the fields of the headers behind them.  An optional header is whether   *)
(* it is there; a span is where it starts, its size when it is empty.      *)
(***************************************************************************)
EXTENDS Integers, Sequences

ETHERNET_HEADER_SIZE == 14
VLAN_TAG_SIZE == 4

TagTypes == {"VLAN", "QinQ"}

ethernet_header(frame) == frame.size >= ETHERNET_HEADER_SIZE

has_vlan(frame) == frame.size >= ETHERNET_HEADER_SIZE /\ frame.types[1] \in TagTypes

vlan_tag(frame) == has_vlan(frame) /\ frame.size >= ETHERNET_HEADER_SIZE + VLAN_TAG_SIZE

\* Behind one tag, and behind a second one if that is an 802.1Q tag.
l3_offset(frame) ==
    LET offset == ETHERNET_HEADER_SIZE + VLAN_TAG_SIZE
    IN  CASE ~ has_vlan(frame) -> ETHERNET_HEADER_SIZE
          [] has_vlan(frame) /\ frame.size > offset + 2 /\ frame.types[2] = "VLAN" ->
               offset + VLAN_TAG_SIZE
          [] OTHER -> offset

\* The type is looked for behind the outer tag only, and the header length is
\* not looked at.
ipv4_header(frame) ==
    /\ frame.size >= l3_offset(frame) + 20
    /\ ethernet_header(frame)
    /\ frame.types[IF vlan_tag(frame) THEN 2 ELSE 1] = "IPv4"
    /\ frame.version = 4

l4_offset(frame) ==
    l3_offset(frame) + (IF ipv4_header(frame) THEN 4 * frame.ihl ELSE 0)

udp_header(frame) ==
    /\ ipv4_header(frame) /\ frame.protocol = "UDP"
    /\ frame.size >= l4_offset(frame) + 8

tcp_header(frame) ==
    /\ ipv4_header(frame) /\ frame.protocol = "TCP"
    /\ frame.size >= l4_offset(frame) + 20

\* subview with an offset only, and the rest of the frame from an offset.
subview(frame, offset) == IF offset >= frame.size THEN frame.size ELSE offset

payload(frame) ==
    IF ~ ipv4_header(frame) THEN frame.size
    ELSE subview(frame, l4_offset(frame) +
                        (CASE frame.protocol = "UDP" -> 8
                           [] tcp_header(frame) -> 4 * frame.words
                           [] OTHER -> 0))
=============================================================================
