---------------------------- MODULE DecodeContext ----------------------------
(***************************************************************************)
(* The context every protocol decoder works in: a span of the captured     *)
(* bytes, the read position of its loops, and the result it returns.       *)
(* Decoders are stateless; what varies is one decode in progress.  Bytes   *)
(* are abstracted to positions: a field's value is chosen when it is read, *)
(* from the values on either side of every comparison made with it.        *)
(***************************************************************************)
EXTENDS Integers, Sequences

CONSTANTS
    Sizes,      \* captured lengths of a packet
    Lengths     \* values of a length field read from the packet

ASSUME SizesAssumption == Sizes \subseteq Nat
ASSUME LengthsAssumption == Lengths \subseteq Nat

VARIABLES
    at,         \* the decoder or the loop about to run; "idle" when its result is out
    size,       \* how many bytes were captured
    start,      \* where the span of the running decoder starts in the packet
    cursor,     \* read position of the running loop, counted from start
    bound,      \* where that loop ends, counted from start
    count,      \* elements the loop has parsed
    touched,    \* one past the furthest captured byte read
    overread,   \* the copies that took bytes past the end of their source
    result,     \* what the last decoder returned
    content     \* the fields of the packet that are known before they are read

contextVars == <<at, size, start, cursor, bound, count, touched, overread, result>>

Codes == {"Success", "BufferTooSmall", "InvalidHeader", "InvalidVersion",
          "InvalidLength", "MalformedData", "TruncatedPayload"}

\* DecodeResultT: the code, the call it answers, the header's size and what
\* the caller reads of the header.
Result(code, call, n, tags) == [code |-> code, call |-> call, size |-> n, tags |-> tags]

NoResult == Result("Success", "none", 0, {})

\* A packet nobody knows anything of.
Arbitrary == [method |-> "none"]

\* The values a field may have when a decoder reads it.
FieldChoices(field, all) == IF field \in DOMAIN content THEN {content[field]} ELSE all

HasBytes(n) == start + n <= size

Remaining == size - start

\* Bytes up to n of the running span were read.
Upto(n) == IF start + n > touched THEN start + n ELSE touched

\* What a copy of the bytes from..to-1 of the span reads of the capture.
CopyUpto(to) == IF HasBytes(to) THEN Upto(to) ELSE size

EndsAfter(to, who) == IF HasBytes(to) THEN overread ELSE overread \union {who}

\* make_error, after n bytes of the span were read.
Fail(call, code, n) ==
    /\ at' = "returned"
    /\ result' = Result(code, call, 0, {})
    /\ touched' = Upto(n)
    /\ UNCHANGED <<size, start, cursor, bound, count, overread>>

\* make_success.
Succeed(call, n, tags, read) ==
    /\ at' = "returned"
    /\ result' = Result("Success", call, n, tags)
    /\ touched' = Upto(read)
    /\ UNCHANGED <<size, start, cursor, bound, count, overread>>

\* A decoder enters the loop at point over the bytes from..to-1 of its span,
\* having read n bytes and with r decoded so far.
Enter(point, from, to, r, n) ==
    /\ at' = point
    /\ cursor' = from
    /\ bound' = to
    /\ count' = 0
    /\ result' = r
    /\ touched' = Upto(n)
    /\ UNCHANGED <<size, start, overread>>

\* The loop goes on behind n more bytes, of which read bytes were looked at.
Advance(n, read) ==
    /\ cursor' = cursor + n
    /\ count' = count + 1
    /\ touched' = Upto(cursor + read)
    /\ UNCHANGED <<at, size, start, bound, overread, result>>

\* The loop ends; read bytes at the cursor were looked at.
Leave(point, read) ==
    /\ at' = point
    /\ touched' = IF read = 0 THEN touched ELSE Upto(cursor + read)
    /\ UNCHANGED <<size, start, cursor, bound, count, overread, result>>

ContextTypeOK ==
    /\ size \in Nat /\ start \in Nat /\ cursor \in Nat /\ bound \in Nat /\ count \in Nat
    /\ touched \in Nat
    /\ overread \subseteq {"someip_tp", "inline_qos", "follow_up_tlv"}
    /\ result.code \in Codes /\ result.size \in Nat
==============================================================================
