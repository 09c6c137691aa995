------------------------- MODULE ProtocolDispatcher -------------------------
(***************************************************************************)
(* ProtocolDispatcher: chains the decoders over a captured packet.  Each   *)
(* decoder returns through "returned"; the dispatcher appends the header   *)
(* to the layers, moves the span behind it and calls the next decoder.     *)
(* result.complete is set together with result.error everywhere, so the    *)
(* error stands for both.                                                  *)
(***************************************************************************)
EXTENDS TransportDecoders, ApplicationDecoders, MessageDecoders

CONSTANTS MaxLayers     \* max_layers of the dispatcher options

ASSUME MaxLayersAssumption == MaxLayers \in Nat

VARIABLES
    layers,     \* result.layers: name and extent of each decoded header
    payload,    \* where result.payload starts
    error       \* result.error, "Success" when there is none

vars == <<at, size, start, cursor, bound, count, touched, overread, result,
          content, layers, payload, error>>

Init ==
    /\ at = "ready" /\ size = 0 /\ start = 0 /\ cursor = 0 /\ bound = 0 /\ count = 0
    /\ touched = 0 /\ overread = {} /\ result = NoResult
    /\ content = Arbitrary /\ layers = <<>> /\ payload = 0 /\ error = "Success"

\* A call from outside: decode, decode_from_ip, or a discovery parser.
Call(point, n) ==
    /\ at = "ready"
    /\ at' = IF n = 0 /\ point \in {"ethernet", "ipv4"} THEN "idle" ELSE point
    /\ size' = n
    /\ start' = 0 /\ cursor' = 0 /\ bound' = 0 /\ count' = 0 /\ touched' = 0
    /\ overread' = {} /\ result' = NoResult /\ layers' = <<>> /\ payload' = 0
    /\ error' = IF n = 0 /\ point \in {"ethernet", "ipv4"} THEN "BufferTooSmall" ELSE "Success"

Decode == \E n \in Sizes : Call("ethernet", n) /\ content' = Arbitrary

DecodeFromIp == \E n \in Sizes : Call("ipv4", n) /\ content' = Arbitrary

ParseDiscovery ==
    /\ \E n \in Sizes, point \in {"participant", "publication", "subscription"} : Call(point, n)
    /\ content' = Arbitrary

\* The caller is done with the result; the dispatcher itself keeps nothing
\* from one call to the next.
Release ==
    /\ at = "idle"
    /\ at' = "ready" /\ size' = 0 /\ start' = 0 /\ cursor' = 0 /\ bound' = 0 /\ count' = 0
    /\ touched' = 0 /\ overread' = {} /\ result' = NoResult
    /\ content' = Arbitrary /\ layers' = <<>> /\ payload' = 0 /\ error' = "Success"

Answered(call) == at = "returned" /\ result.call = call /\ result.code = "Success"

\* The header decoded last becomes a layer and the span moves behind it, by
\* subspan.  Beyond the end of the data that is undefined; this build moves the
\* pointer and makes no check.
Push(next) ==
    /\ layers' = Append(layers, [name |-> result.call, from |-> start, to |-> start + result.size,
                                 tags |-> result.tags])
    /\ start' = start + result.size
    /\ at' = next
    /\ UNCHANGED <<size, cursor, bound, count, touched, overread, result, error>>

PushWithin(next) == Push(next) /\ payload' = start'

RoomFor(n) == n < MaxLayers

\* The header becomes a layer and the next decoder is given the same span.
AfterEthernetKeepingSpan ==
    /\ Answered("ethernet")
    /\ layers' = Append(layers, [name |-> "ethernet", from |-> start, to |-> start + result.size,
                                 tags |-> result.tags])
    /\ payload' = start + result.size
    /\ at' = IF "IPv4" \in result.tags THEN "ipv4" ELSE "idle"
    /\ UNCHANGED <<size, start, cursor, bound, count, touched, overread, result, error>>

\* The last layer is not counted yet when the next decoder is chosen.
AfterEthernet ==
    /\ Answered("ethernet")
    /\ \/ "IPv4" \in result.tags /\ PushWithin("ipv4")
       \/ /\ "PTP" \in result.tags
          /\ PushWithin(IF Remaining > result.size /\ RoomFor(Len(layers) + 1) THEN "gptp" ELSE "idle")
       \/ "other" \in result.tags /\ PushWithin("idle")

AfterIPv4 ==
    /\ Answered("ipv4")
    /\ PushWithin(CASE ~RoomFor(Len(layers) + 1) -> "idle"
                    [] "UDP" \in result.tags /\ RoomFor(Len(layers) + 1) -> "udp"
                    [] "TCP" \in result.tags /\ RoomFor(Len(layers) + 1) -> "tcp"
                    [] OTHER -> "idle")

\* decode_application: by port, then by guess.  The RTPS port counts only
\* with the RTPS magic behind it.
ApplicationOf(ports, rest, magic) ==
    CASE "doip" \in ports -> "doip"
      [] "doip" \notin ports /\ "rtps" \in ports /\ rest >= 4 /\ magic -> "rtps"
      [] "doip" \notin ports /\ "sd" \in ports /\ ~("rtps" \in ports /\ rest >= 4 /\ magic) -> "someip.sd"
      [] OTHER -> IF rest >= 16 THEN "someip.guess" ELSE "idle"

AfterTransport ==
    /\ Answered("udp") \/ Answered("tcp")
    /\ \E application \in FieldChoices("application", BOOLEAN), magic \in BOOLEAN :
         PushWithin(IF application /\ Remaining > result.size /\ RoomFor(Len(layers) + 1)
                    THEN ApplicationOf(result.tags, Remaining - result.size, magic)
                    ELSE "idle")

AfterDoip == Answered("doip") /\ PushWithin("idle")

\* Behind a SOME/IP header on the SD port the payload moves only when the
\* service-discovery decoder succeeds, or is not called.
AfterSomeIp ==
    /\ Answered("someip.sd")
    /\ \/ /\ "SD" \in result.tags /\ RoomFor(Len(layers) + 1)
          /\ Push("sd") /\ UNCHANGED payload
       \/ /\ ~("SD" \in result.tags /\ RoomFor(Len(layers) + 1))
          /\ PushWithin("idle")

AfterSd == Answered("sd") /\ PushWithin("idle")

AfterGuess ==
    /\ Answered("someip.guess")
    /\ \/ "fits" \in result.tags /\ PushWithin("idle")
       \/ /\ "fits" \notin result.tags
          /\ at' = "idle"
          /\ UNCHANGED <<size, start, cursor, bound, count, touched, overread, result,
                         layers, payload, error>>

\* decode_gptp and decode_rtps end the stack: behind a gPTP message stays
\* what its length leaves, behind RTPS nothing.
AfterMessage == (Answered("gptp") \/ Answered("rtps")) /\ PushWithin("idle")

\* The error of a decoder is the result's error, except of a guess and of
\* the service-discovery decoder.
AfterFailure ==
    /\ at = "returned"
    /\ result.code # "Success"
    /\ at' = "idle"
    /\ error' = IF result.call \in {"sd", "someip.guess"} THEN error ELSE result.code
    /\ UNCHANGED <<size, start, cursor, bound, count, touched, overread, result, layers, payload>>

AfterDiscovery ==
    /\ Answered("discovery")
    /\ at' = "idle"
    /\ UNCHANGED <<size, start, cursor, bound, count, touched, overread, result,
                   layers, payload, error>>

Return ==
    /\ \/ AfterEthernet \/ AfterIPv4 \/ AfterTransport \/ AfterDoip \/ AfterSomeIp \/ AfterSd
       \/ AfterGuess \/ AfterMessage \/ AfterFailure \/ AfterDiscovery
    /\ UNCHANGED content

DecoderStep ==
    /\ TransportStep \/ ApplicationStep \/ MessageStep
    /\ UNCHANGED <<content, layers, payload, error>>

Next == Decode \/ DecodeFromIp \/ ParseDiscovery \/ DecoderStep \/ Return \/ Release

Spec == Init /\ [][Next]_vars

\* A decode in progress runs on the caller's thread to its end.
FairSpec == Spec /\ WF_vars(DecoderStep \/ Return)

TypeOK ==
    /\ ContextTypeOK
    /\ at \in {"ready", "idle", "returned", "ethernet", "ipv4", "ipv4.options", "ipv4.length", "udp",
               "tcp", "tcp.options", "someip.sd", "someip.guess", "sd", "sd.entries",
               "sd.options", "doip", "gptp", "gptp.tlvs", "rtps", "rtps.submessages",
               "participant", "publication", "subscription", "discovery.parameters"}
    /\ payload \in Nat /\ error \in Codes

\* A DoIP header that decode_impl accepts is followed by enough captured
\* bytes for the parser of its payload type.
AcceptedPayloadParses ==
    at = "returned" /\ result.call = "doip" /\ result.code = "Success" =>
        /\ \A type \in result.tags \cap DOMAIN MessageParserNeeds :
             Remaining - result.size >= MessageParserNeeds[type]
        /\ \A type \in result.tags \cap DOMAIN StatusParserNeeds :
             Remaining - result.size >= StatusParserNeeds[type]

\* Every read a decoder makes stays inside the captured bytes, whatever the
\* length fields say: the has_bytes checks of the decoders and of their
\* option, entry, TLV, submessage and parameter loops are enough, and what
\* the DoIP decoder accepts its payload parsers can read.  The three copies
\* sized by a length field alone are recorded in overread.
ReadsWithinCapture == touched <= size /\ AcceptedPayloadParses

\* The layers of a result tile the packet from its first byte, each header
\* behind the one before, and the payload starts behind the last of them; a
\* service-discovery decode that fails leaves it at the SOME/IP header.  The
\* layers end inside the capture, but for a service-discovery header whose
\* entries length wraps in 32 bits, which is the last.
LayersTile ==
    /\ \A i \in 1..Len(layers) :
         /\ layers[i].from = IF i = 1 THEN 0 ELSE layers[i - 1].to
         /\ \/ layers[i].to <= size
            \/ /\ i = Len(layers) /\ layers[i].name = "sd"
               /\ layers[i].to - layers[i].from >= Modulus
    /\ at = "idle" /\ layers # <<>> =>
         \/ payload = layers[Len(layers)].to
         \/ /\ layers[Len(layers)].name = "someip.sd"
            /\ payload = layers[Len(layers)].from

\* What a caller of decode takes for granted: every header of a result was
\* captured.  An entries length of 2^32 - 8 or more passes the check of the
\* service-discovery decoder, whose header_size does not wrap.
LayersCaptured == \A i \in 1..Len(layers) : layers[i].to <= size

\* Every decode returns: no length field keeps a loop turning in place.
DecodeReturns == at \notin {"ready", "idle"} ~> at = "idle"
==============================================================================
