--------------------------- MODULE PacketChannel ---------------------------
(***************************************************************************)
(* What a live packet source promises its consumer, whatever buffer it     *)
(* uses: packets come out in the order in which they were captured, each   *)
(* at most once, and a captured packet is only discarded together with a   *)
(* malformed one at the front of the channel.  (Packets that find no room  *)
(* never enter the channel.)  A packet carries the number under which it   *)
(* arrived; the channel is the set of packets captured and not consumed    *)
(* yet, in the order of their numbers.                                     *)
(***************************************************************************)
EXTENDS Integers, Sequences

CONSTANTS
  Packet,    \* what can be captured
  Malformed  \* the packets that are captured but cannot be delivered

VARIABLES
  channel,  \* packets captured and not consumed yet
  consumed  \* packets handed to the consumer, oldest first

\* Every packet of S arrived before every packet of T.
Before(S, T) == \A p \in S, q \in T : p.number < q.number

First(packet) == packet \in channel /\ Before({packet}, channel \ {packet})

Delivered == {consumed[i] : i \in 1 .. Len(consumed)}

Init == channel = {} /\ consumed = <<>>

Capture ==
  /\ \E packet \in Packet :
       /\ Before(channel \cup Delivered, {packet})
       /\ channel' = channel \cup {packet}
  /\ UNCHANGED consumed

Deliver ==
  \E packet \in Packet \ Malformed :
    /\ First(packet)
    /\ consumed' = Append(consumed, packet)
    /\ channel' = channel \ {packet}

\* A malformed packet takes those up to some later one with it.
Discard ==
  /\ \E packet \in Malformed, rest \in SUBSET channel :
       /\ First(packet) /\ packet \notin rest
       /\ Before(channel \ rest, rest)
       /\ channel' = rest
  /\ UNCHANGED consumed

Next == Capture \/ Deliver \/ Discard

Spec == Init /\ [][Next]_<<channel, consumed>>
=============================================================================
