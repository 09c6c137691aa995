---------------------------- MODULE TpReassembler ----------------------------
(***************************************************************************)
(* SomeipTpReassembler: messages put together from SOME/IP-TP segments, by *)
(* message and request id.  Segments come in any order, repeatedly or      *)
(* never.  Byte i of a message has the value i.                            *)
(***************************************************************************)
EXTENDS Integers, FiniteSets, FiniteSetsExt, Sequences

CONSTANTS
    Messages,           \* pairs of message id and request id
    MessageLength,      \* length of a message a sender cuts into segments
    SegmentLengths,     \* lengths of a segment
    MaxMessageSize,     \* MAX_MESSAGE_SIZE
    TpTimeout,          \* TIMEOUT_MS
    Hole                \* a byte of the buffer no segment has written

ASSUME TpAssumption ==
    /\ MessageLength \in Nat /\ SegmentLengths \subseteq Nat
    /\ MaxMessageSize \in Nat /\ TpTimeout \in Nat

VARIABLES
    messages,   \* messages_: the buffer and total_length of each message
    arrived,    \* history: the segments taken since the message was created
    received    \* the message get_message returned last

tpVars == <<messages, arrived, received>>

NoMessage == [total_length |-> 0, data |-> <<>>]

TpInit ==
    /\ messages = [k \in {} |-> NoMessage]
    /\ arrived = [k \in Messages |-> {}]
    /\ received = NoMessage

\* A buffer cut to the end of the segment written last.
WrittenToEnd(data, offset, n) ==
    [i \in 1..(offset + n) |->
        IF i > offset THEN i ELSE IF i <= Len(data) THEN data[i] ELSE Hole]

\* SomeipTpMessage::add_segment: the buffer grows to hold the segment.
Written(data, offset, n) ==
    [i \in 1..Max({Len(data), offset + n}) |->
        IF offset < i /\ i <= offset + n THEN i
        ELSE IF i <= Len(data) THEN data[i] ELSE Hole]

\* total_length follows the segments, and the buffer follows total_length.
IsComplete(message) ==
    Len(message.data) >= message.total_length /\ message.total_length > 0

AddSegment(k, offset, n) ==
    LET found == IF k \in DOMAIN messages THEN messages[k] ELSE NoMessage
    IN /\ offset + n <= MessageLength
       /\ offset <= MaxMessageSize /\ offset + n <= MaxMessageSize
       /\ messages' = [j \in DOMAIN messages \union {k} |->
                         IF j # k THEN messages[j]
                         ELSE [total_length |-> Max({found.total_length, offset + n}),
                               data |-> Written(found.data, offset, n)]]
       /\ arrived' = [arrived EXCEPT ![k] = @ \union {<<offset, n>>}]
       /\ UNCHANGED received

\* A segment beyond the largest message is refused.
RefuseSegment(k, offset, n) ==
    /\ offset + n <= MessageLength
    /\ offset > MaxMessageSize \/ offset + n > MaxMessageSize
    /\ UNCHANGED tpVars

GetMessage(k) ==
    /\ received' = IF k \in DOMAIN messages /\ IsComplete(messages[k]) THEN messages[k] ELSE NoMessage
    /\ UNCHANGED <<messages, arrived>>

RemoveMessage(k) ==
    /\ messages' = [j \in DOMAIN messages \ {k} |-> messages[j]]
    /\ arrived' = [arrived EXCEPT ![k] = {}]
    /\ UNCHANGED received

\* last_update_time is 0 in every message, so the age is the time itself.
CleanupTimedOut(now) ==
    /\ messages' = IF now > TpTimeout THEN [k \in {} |-> NoMessage] ELSE messages
    /\ arrived' = IF now > TpTimeout THEN [k \in Messages |-> {}] ELSE arrived
    /\ UNCHANGED received

TpNext ==
    \/ \E k \in Messages, offset \in 0..MessageLength, n \in SegmentLengths :
         AddSegment(k, offset, n) \/ RefuseSegment(k, offset, n)
    \/ \E k \in Messages : GetMessage(k) \/ RemoveMessage(k)
    \/ \E now \in {TpTimeout, TpTimeout + 1} : CleanupTimedOut(now)

\* What arrived of a message is in its buffer, every byte at its place, in
\* whatever order and however often the segments came.
ArrivedBytesKept ==
    \A k \in DOMAIN messages :
        /\ Len(messages[k].data) = messages[k].total_length
        /\ \A i \in 1..Len(messages[k].data) :
             messages[k].data[i] =
                 IF \E s \in arrived[k] : s[1] < i /\ i <= s[1] + s[2] THEN i ELSE Hole

\* A message handed out is whole: no byte of it is missing.
HandedOutWhole == \A i \in 1..Len(received.data) : received.data[i] # Hole
==============================================================================
