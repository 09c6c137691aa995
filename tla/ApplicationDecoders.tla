------------------------- MODULE ApplicationDecoders -------------------------
(***************************************************************************)
(* SOME/IP with its transport-protocol segments, SOME/IP service discovery *)
(* with its entry and option arrays, and DoIP with its payload parsers.    *)
(***************************************************************************)
EXTENDS DecodeContext

CONSTANTS
    Modulus,            \* 32-bit arithmetic wraps here: 2^32, scaled down
    MaxSegmentBytes,    \* MAX_MESSAGE_SIZE of a SOME/IP-TP message
    MaxEntries,         \* max_entries of the service-discovery decoder
    MaxOptions          \* max_options of the service-discovery decoder

ASSUME ModulusAssumption == Modulus \in Nat \ {0}
ASSUME SegmentAssumption == MaxSegmentBytes \in Nat
ASSUME ArrayLimitsAssumption == MaxEntries \in Nat /\ MaxOptions \in Nat

\* What the dispatcher reads of a SOME/IP header: is it service discovery,
\* and does the length field fit in the rest of the datagram?
SomeIpTags(sd, length) ==
    (IF sd THEN {"SD"} ELSE {}) \union (IF length <= Remaining THEN {"fits"} ELSE {})

\* add_segment copies length - 12 bytes from behind the TP header, a number
\* taken from the length field and not from the captured bytes.
SomeIpSegment(call, length, offset, tags) ==
    \/ ~HasBytes(20) /\ Fail(call, "BufferTooSmall", 16)
    \/ HasBytes(20) /\ offset + length - 12 > MaxSegmentBytes /\ Fail(call, "InvalidLength", 20)
    \/ /\ HasBytes(20)
       /\ offset + length - 12 <= MaxSegmentBytes
       /\ at' = "returned"
       /\ result' = Result("Success", call, 16, tags)
       /\ touched' = CopyUpto(20 + length - 12)
       /\ overread' = EndsAfter(20 + length - 12, "someip_tp")
       /\ UNCHANGED <<size, start, cursor, bound, count>>

SomeIpDecode(call) ==
    /\ at = call
    /\ \/ ~HasBytes(16) /\ Fail(call, "BufferTooSmall", 0)
       \/ HasBytes(16) /\ 0 \in FieldChoices("someipVersion", {0, 1}) /\ Fail(call, "InvalidVersion", 13)
       \/ /\ HasBytes(16)
          /\ 1 \in FieldChoices("someipVersion", {0, 1})
          /\ \E length \in FieldChoices("someipLength", Lengths), sd \in FieldChoices("sd", BOOLEAN),
               tp \in FieldChoices("tp", BOOLEAN) :
               \/ length < 8 /\ Fail(call, "InvalidLength", 16)
               \/ length >= 8 /\ ~tp /\ Succeed(call, 16, SomeIpTags(sd, length), 16)
               \/ /\ length >= 8 /\ tp
                  /\ length < 12 \/ length > MaxSegmentBytes
                  /\ Fail(call, "InvalidLength", 16)
               \/ /\ length >= 12 /\ length <= MaxSegmentBytes /\ tp
                  /\ \E offset \in Lengths :
                       SomeIpSegment(call, length, offset, SomeIpTags(sd, length))

\* entries_end: an int and a uint32_t add in 32 bits.
EntriesEnd(entriesLength) == (8 + entriesLength) % Modulus

\* A decoder that takes the entries array to be captured whole.
SdDecodeUntruncated ==
    /\ at = "sd"
    /\ \/ ~HasBytes(12) /\ Fail("sd", "BufferTooSmall", 0)
       \/ /\ HasBytes(12)
          /\ \E length \in Lengths :
               Enter("sd.entries", 8, 8, Result("Success", "sd", 12 + length, {}), 8)

\* header_size adds in 64 bits; the options are not yet in it.
SdDecode ==
    /\ at = "sd"
    /\ \/ ~HasBytes(12) /\ Fail("sd", "BufferTooSmall", 0)
       \/ /\ HasBytes(12)
          /\ \E length \in Lengths :
               IF HasBytes(EntriesEnd(length))
               THEN Enter("sd.entries", 8, EntriesEnd(length),
                          Result("Success", "sd", 12 + length, {}), 8)
               ELSE Fail("sd", "TruncatedPayload", 8)

\* One 16-byte entry of the entries array; max_entries of them at most.
SdEntry ==
    /\ at = "sd.entries"
    /\ \/ /\ cursor + 16 <= bound
          /\ count < MaxEntries
          /\ Advance(16, 16)
       \/ /\ cursor + 16 > bound \/ count >= MaxEntries
          /\ IF ~HasBytes(bound + 4)
             THEN Fail("sd", "TruncatedPayload", bound)
             ELSE \E length \in Lengths :
                    IF HasBytes(bound + 4 + length)
                    THEN Enter("sd.options", bound + 4, bound + 4 + length,
                               Result("Success", "sd", result.size + length, {}), bound + 4)
                    ELSE Fail("sd", "TruncatedPayload", bound + 4)

\* An option that does not fit is skipped by nothing: the loop turns again.
SdOptionNoBreak ==
    /\ at = "sd.options"
    /\ \/ /\ cursor >= bound \/ count >= MaxOptions
          /\ Leave("returned", 0)
       \/ /\ cursor < bound /\ count < MaxOptions
          /\ \E length \in Lengths :
               IF HasBytes(cursor + 2 + length) /\ length > 0
               THEN Advance(2 + length, 2 + length)
               ELSE UNCHANGED contextVars

\* One option: a length that counts the type byte, checked against the
\* datagram and not against the options array; an empty one takes 3 bytes.
SdOption ==
    /\ at = "sd.options"
    /\ \/ /\ cursor >= bound \/ count >= MaxOptions
          /\ Leave("returned", 0)
       \/ /\ cursor < bound /\ count < MaxOptions
          /\ \/ ~HasBytes(cursor + 3) /\ Leave("returned", 0)
             \/ /\ HasBytes(cursor + 3)
                /\ \E length \in Lengths :
                     CASE length = 0 -> Advance(3, 3)
                       [] length > 0 /\ ~HasBytes(cursor + 2 + length) -> Leave("returned", 3)
                       [] OTHER -> Advance(2 + length, IF length = 1 THEN 3 ELSE 2 + length)

\* Payload types whose length decode_impl checks, with the least it accepts.
DoipMinimum ==
    [GenericNack |-> 3, PowerModeResponse |-> 1, EntityStatusResponse |-> 5,
     AliveCheckResponse |-> 2, DiagnosticMessage |-> 4, DiagnosticAck |-> 3,
     RoutingActivationRequest |-> 7, RoutingActivationResponse |-> 9,
     VehicleIdentificationResponse |-> 32, Request |-> 0, Unknown |-> 0]

DoipTypes == DOMAIN DoipMinimum

DoipDecode ==
    /\ at = "doip"
    /\ \/ ~HasBytes(8) /\ Fail("doip", "BufferTooSmall", 0)
       \/ HasBytes(8) /\ FALSE \in FieldChoices("inverted", BOOLEAN) /\ Fail("doip", "InvalidVersion", 2)
       \/ /\ HasBytes(8)
          /\ TRUE \in FieldChoices("inverted", BOOLEAN)
          /\ \E type \in FieldChoices("doipType", DoipTypes), length \in FieldChoices("doipLength", Lengths) :
               CASE ~HasBytes(8 + length) -> Fail("doip", "BufferTooSmall", 8)
                 [] HasBytes(8 + length) /\ length < DoipMinimum[type]
                      -> Fail("doip", "InvalidLength", 8)
                 [] OTHER -> Succeed("doip", 8, {type}, 8)

\* The parsers of a DoIP payload, by the least payload each one accepts;
\* diagnostic acknowledgements and plain requests have none.
MessageParserNeeds ==
    [RoutingActivationRequest |-> 7, RoutingActivationResponse |-> 9,
     DiagnosticMessage |-> 4, VehicleIdentificationResponse |-> 32]

StatusParserNeeds ==
    [PowerModeResponse |-> 1, EntityStatusResponse |-> 5, GenericNack |-> 3,
     AliveCheckResponse |-> 2]

ApplicationStep ==
    \/ SomeIpDecode("someip.sd") \/ SomeIpDecode("someip.guess")
    \/ SdDecode \/ SdEntry \/ SdOption \/ DoipDecode
==============================================================================
