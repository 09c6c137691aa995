------------------------------ MODULE UdsDecoder ------------------------------
(***************************************************************************)
(* UdsDecoder: which of the parsers a UDS message reaches, and how many of *)
(* its bytes that parser reads.  A message is its size, its first byte     *)
(* (the service id), its second byte (the sub-function) and its third.     *)
(* Bytes from the size on are not there, whatever the record holds.        *)
(***************************************************************************)
EXTENDS Integers, FiniteSets, FiniteSetsExt

LOCAL INSTANCE TLC

Byte == 0..255

NegativeResponseSid == 127     \* NEGATIVE_RESPONSE_SID
ResponseSidOffset == 64        \* RESPONSE_SID_OFFSET

\* ServiceID
DiagnosticSessionControl == 16
ECUReset == 17
SecurityAccess == 39
TesterPresent == 62
ReadDataByIdentifier == 34
WriteDataByIdentifier == 46
RoutineControl == 49
RequestDownload == 52
TransferData == 54
RequestTransferExit == 55

KnownServices ==
    {DiagnosticSessionControl, ECUReset, SecurityAccess, TesterPresent, ReadDataByIdentifier,
     WriteDataByIdentifier, RoutineControl, RequestDownload, TransferData, RequestTransferExit}
    \union {40, 131, 132, 133, 134, 135, 35, 36, 42, 44, 61, 20, 25, 47, 53, 56}

ResponseBit(sid) == (sid \div 64) % 2 = 1

\* is_request, is_positive_response and is_negative_response of a message.
IsRequest(m) == m.size > 0 /\ m.sid # NegativeResponseSid /\ ~ResponseBit(m.sid)
IsPositiveResponse(m) == m.size > 0 /\ m.sid # NegativeResponseSid /\ ResponseBit(m.sid)
IsNegativeResponse(m) == m.size > 0 /\ m.sid = NegativeResponseSid

\* looks_like_uds: a known service in either direction, or a whole rejection.
LooksLikeUds(m) ==
    IF m.size > 0 /\ m.sid = NegativeResponseSid THEN m.size >= 3
    ELSE /\ m.size > 0
         /\ (IF ResponseBit(m.sid) THEN m.sid - ResponseSidOffset ELSE m.sid) \in KnownServices

\* service_has_sub_function
HasSubFunction(service) ==
    service \in {DiagnosticSessionControl, ECUReset, SecurityAccess, TesterPresent, RoutineControl}
                \union {40, 133, 134, 135, 25}

ExtractSubFunction(byte) == byte % 128

\* service_id() and min_size() of the request structures: the sessions and
\* the communication of an ECU, its data identifiers, its trouble codes, its
\* routines and outputs, and the transfers of memory.
SessionRequestSizes == [s \in {DiagnosticSessionControl, ECUReset, SecurityAccess, TesterPresent} |-> 2]
                       @@ [s \in {40} |-> 3]
DataRequestSizes == (133 :> 2) @@ (ReadDataByIdentifier :> 3) @@ (WriteDataByIdentifier :> 4)
TroubleCodeRequestSizes == (25 :> 2) @@ (20 :> 4)
RoutineRequestSizes == (RoutineControl :> 4) @@ (47 :> 4)
TransferRequestSizes == [s \in {RequestDownload, 53, 35} |-> 4] @@ (TransferData :> 2)
                        @@ (RequestTransferExit :> 1) @@ (61 :> 5)

RequestSizes == SessionRequestSizes @@ DataRequestSizes @@ TroubleCodeRequestSizes
                @@ RoutineRequestSizes @@ TransferRequestSizes

\* parse_request has a parser for some of the services only.
HasParser(service) ==
    service \in {DiagnosticSessionControl, ECUReset, SecurityAccess, TesterPresent,
                 ReadDataByIdentifier, WriteDataByIdentifier, RoutineControl, RequestDownload,
                 TransferData, RequestTransferExit}

RequestMinSize(service) == IF HasParser(service) THEN RequestSizes[service] ELSE 0

\* The least size the parser of the service's response asks for.
ResponseMinSize(service) ==
    CASE service \in {DiagnosticSessionControl, ECUReset, SecurityAccess, TesterPresent,
                      RequestDownload, TransferData} -> 2
      [] service \in {ReadDataByIdentifier, WriteDataByIdentifier} -> 3
      [] service = RoutineControl -> 4
      [] service = RequestTransferExit -> 1
      [] OTHER -> 0

\* A read request taken byte by byte, its last pair half beyond the message.
IdentifierBytesToEnd(size) == 1 + 2 * (size \div 2)

\* The data identifiers of a read request: pairs of bytes as long as a pair fits.
IdentifierBytes(size) == 1 + 2 * ((size - 1) \div 2)

\* parse_request_download_request: address and size are read when both fit.
DownloadRequestBytes(m) ==
    LET addressAndLength == 3 + (m.third % 16) + (m.third \div 16)
    IN IF m.size >= addressAndLength THEN addressAndLength ELSE 3

\* parse_request_download_response: the block length is read when it fits.
DownloadResponseBytes(m) ==
    LET n == m.sub \div 16
    IN IF m.size >= 2 + n /\ n <= 4 THEN 2 + n ELSE 2

\* The bytes a request's parser reads.  What it copies whole is a subspan.
RequestBytes(service, m) ==
    CASE service = ReadDataByIdentifier -> IdentifierBytes(m.size)
      [] service = WriteDataByIdentifier -> 3
      [] service = RoutineControl -> 4
      [] service = RequestDownload -> DownloadRequestBytes(m)
      [] service = RequestTransferExit -> 1
      [] OTHER -> 2

\* The bytes a response's parser reads: timings, a reset's delay and a block
\* length only when the message holds them.
ResponseBytes(service, m) ==
    CASE service = DiagnosticSessionControl -> IF m.size >= 6 THEN 6 ELSE 2
      [] service = ECUReset -> IF m.size >= 3 /\ m.sub \in {4, 5} THEN 3 ELSE 2
      [] service \in {ReadDataByIdentifier, WriteDataByIdentifier} -> 3
      [] service = RoutineControl -> 4
      [] service = RequestDownload -> DownloadResponseBytes(m)
      [] service = RequestTransferExit -> 1
      [] OTHER -> 2

NotDecoded == [ok |-> FALSE, direction |-> "none", service |-> 0, header_size |-> 0,
               payload_size |-> 0, parsed |-> FALSE, read |-> 0]

\* UdsHeader: the sub-function belongs to the header if the message has one.
HeaderSize(service, m) == IF HasSubFunction(service) /\ m.size >= 2 THEN 2 ELSE 1

Decoded(direction, service, m, minSize, bytes) ==
    [ok |-> TRUE, direction |-> direction, service |-> service,
     header_size |-> HeaderSize(service, m),
     payload_size |-> m.size - HeaderSize(service, m),
     parsed |-> HasParser(service) /\ m.size >= minSize,
     read |-> IF HasParser(service) /\ m.size >= minSize THEN bytes ELSE HeaderSize(service, m)]

ParseRequest(m) ==
    Decoded("request", m.sid, m, RequestMinSize(m.sid), RequestBytes(m.sid, m))

ParsePositiveResponse(m) ==
    LET service == m.sid - ResponseSidOffset
    IN Decoded("positive", service, m, ResponseMinSize(service), ResponseBytes(service, m))

\* The rejected service is the second byte, the code the third.
ParseNegativeResponse(m) ==
    IF m.size < 3 THEN NotDecoded
    ELSE [ok |-> TRUE, direction |-> "negative", service |-> m.sub, header_size |-> 3,
          payload_size |-> m.size - 3, parsed |-> TRUE, read |-> 3]

Decode(m) ==
    IF m.size < 1 THEN NotDecoded
    ELSE IF m.sid = NegativeResponseSid THEN ParseNegativeResponse(m)
    ELSE IF ResponseBit(m.sid) THEN ParsePositiveResponse(m)
    ELSE ParseRequest(m)

\* UdsOverDoipDecoder: what is left of a diagnostic message of the given
\* payload after the two addresses, and the direction it is given.
OverDoip(payloadSize, m) ==
    IF payloadSize < 5 THEN NotDecoded ELSE Decode([m EXCEPT !.size = payloadSize - 4])

OverDoipDirection(m) ==
    IF IsRequest(m) THEN "Request"
    ELSE IF IsPositiveResponse(m) \/ IsNegativeResponse(m) THEN "Response"
    ELSE "Unknown"

\* looks_like_diagnostic_message: a DoIP header whose version bytes complement
\* each other and whose payload is a diagnostic message.
DoipHeaderSize == 8
LooksLikeDiagnosticMessage(packet) ==
    packet.size >= DoipHeaderSize /\ packet.inverted /\ packet.diagnostic

\* UdsOverDoipDecoder::decode of a whole packet.  The DoIP decoder it asks
\* first refuses a packet cut short and a payload without both addresses.
DecodeDoipPacket(packet, m) ==
    IF /\ LooksLikeDiagnosticMessage(packet)
       /\ packet.size >= DoipHeaderSize + packet.payload_length
       /\ packet.payload_length >= 4
    THEN OverDoip(packet.payload_length, m)
    ELSE NotDecoded
===============================================================================
