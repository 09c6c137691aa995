----------------------------- MODULE UdsMatchers -----------------------------
(***************************************************************************)
(* UDSBuilder of the test library, which puts UDS messages together, and   *)
(* the UDS matchers, which take them apart with the decoder.  A message is *)
(* what it is to UdsDecoder; of its data only the first two bytes of a     *)
(* service without sub-function are told apart, so of several data         *)
(* identifiers only the first is.                                          *)
(***************************************************************************)
EXTENDS UdsDecoder

\* What the builder's methods set: service, sub-function, data, direction.
BuilderStates(services, bytes) ==
    [service : services, has_sub_function : BOOLEAN, sub_function : {b \in bytes : b < 128},
     suppress : BOOLEAN, direction : {"request", "positive", "negative"},
     nrc : bytes, first : bytes, second : bytes, payload : {0, 2, 3}]

\* Fault variant: the bit is set on responses, too.
SuppressAlways(b) == IF b.suppress THEN b.sub_function + 128 ELSE b.sub_function

\* The sub-function byte: suppressing the response is asked of a request only.
SubFunctionByte(b) ==
    IF b.suppress /\ b.direction = "request" THEN b.sub_function + 128 ELSE b.sub_function

\* build()
Build(b) ==
    IF b.direction = "negative"
    THEN [sid |-> NegativeResponseSid, size |-> 3, sub |-> b.service, third |-> b.nrc]
    ELSE [sid |-> IF b.direction = "positive" THEN (b.service + ResponseSidOffset) % 256
                  ELSE b.service,
          size |-> 1 + (IF b.has_sub_function THEN 1 ELSE 0) + b.payload,
          sub |-> IF b.has_sub_function THEN SubFunctionByte(b) ELSE b.first,
          third |-> IF b.has_sub_function THEN b.first ELSE b.second]

------------------------------------------------------------------------------
(* The matchers *)

IsUdsRequest(m) == IsRequest(m)

IsUdsPositiveResponse(m) == IsPositiveResponse(m)

IsUdsNegativeResponse(m) == IsNegativeResponse(m)

IsUdsResponse(m) == IsPositiveResponse(m) \/ IsNegativeResponse(m)

HasUdsService(m, service) == Decode(m).ok /\ Decode(m).service = service

HasUdsNRC(m, nrc) == Decode(m).ok /\ Decode(m).direction = "negative" /\ m.third = nrc

\* A message whose parser gave up matches no content.
Parsed(m, services) ==
    Decode(m).parsed /\ Decode(m).direction # "negative" /\ Decode(m).service \in services

\* The parsers of request and response take the identifier from the same bytes.
HasUdsDID(m, first, second) ==
    Parsed(m, {ReadDataByIdentifier, WriteDataByIdentifier}) /\ <<m.sub, m.third>> = <<first, second>>

\* Only the parser of the request cuts the suppress bit off.
HasUdsSessionType(m, type) ==
    /\ Parsed(m, {DiagnosticSessionControl})
    /\ type = IF Decode(m).direction = "request" THEN ExtractSubFunction(m.sub) ELSE m.sub

------------------------------------------------------------------------------
\* A built message matches as what it was built as and as nothing else: its
\* direction and service, the response code, the session type, and the data
\* identifier, which of a write request is only found when data follow it.
MatchedAsBuilt(b) ==
    LET m == Build(b)
        carriesDid == /\ ~b.has_sub_function
                      /\ \/ b.service = ReadDataByIdentifier /\ b.payload >= 2
                         \/ b.service = WriteDataByIdentifier /\ b.payload >= 3
        carriesType == b.has_sub_function /\ b.service = DiagnosticSessionControl
    IN /\ HasUdsService(m, b.service)
       /\ IsUdsRequest(m) <=> b.direction = "request"
       /\ IsUdsPositiveResponse(m) <=> b.direction = "positive"
       /\ IsUdsNegativeResponse(m) <=> b.direction = "negative"
       /\ IsUdsResponse(m) <=> b.direction # "request"
       /\ \A nrc \in Byte : HasUdsNRC(m, nrc) <=> b.direction = "negative" /\ nrc = b.nrc
       /\ b.direction # "negative" /\ carriesDid => HasUdsDID(m, b.first, b.second)
       /\ b.direction # "negative" /\ carriesType => HasUdsSessionType(m, b.sub_function)
==============================================================================
