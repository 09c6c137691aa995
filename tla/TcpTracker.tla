----------------------------- MODULE TcpTracker -----------------------------
(***************************************************************************)
(* TcpConnectionTracker: the state of connections followed from the        *)
(* segments of the remote side.  The tracker never opens or closes a       *)
(* connection: the caller does so through the pointer get_connection gives *)
(* it.  Sequence numbers, windows and options steer no transition.         *)
(***************************************************************************)
EXTENDS Integers, FiniteSets

CONSTANTS
    Connections,        \* ConnectionKey: addresses and ports of both sides
    TimeWaitTimeout,    \* seconds a connection stays in TimeWait
    HalfOpenTimeout,    \* seconds a connection stays half open
    MaxSegments         \* bound: segments that arrive

ASSUME TcpAssumption ==
    /\ MaxSegments \in Nat
    /\ TimeWaitTimeout \in Nat /\ HalfOpenTimeout \in Nat
    /\ TimeWaitTimeout <= HalfOpenTimeout

VARIABLES
    connections,    \* connections_: state and age of each
    shaken,         \* history: what was seen of a connection's handshake
    segments        \* how many segments arrived

tcpVars == <<connections, shaken, segments>>

TcpStates == {"Closed", "Listen", "SynSent", "SynReceived", "Established", "FinWait1",
              "FinWait2", "Closing", "TimeWait", "CloseWait", "LastAck"}

HalfOpen == {"SynSent", "SynReceived"}

Flags == {"SYN", "ACK", "FIN", "RST"}

TcpInit ==
    /\ connections = [k \in {} |-> [state |-> "Closed", age |-> 0]]
    /\ shaken = [k \in Connections |-> {}]
    /\ segments = 0

\* get_connection with create_if_missing.
GetConnection(k) ==
    /\ k \notin DOMAIN connections
    /\ connections' = [j \in DOMAIN connections \union {k} |->
                         IF j = k THEN [state |-> "Closed", age |-> 0]
                         ELSE connections[j]]
    /\ shaken' = [shaken EXCEPT ![k] = {}]
    /\ UNCHANGED segments

\* The caller opens, listens or closes: the state is a public member.
OpenedOrClosed(state) ==
    CASE state = "Closed" -> {"SynSent", "Listen"}
      [] state = "Established" -> {"FinWait1"}
      [] state = "CloseWait" -> {"LastAck"}
      [] OTHER -> {}

CallerSetsState(k) ==
    /\ k \in DOMAIN connections
    /\ \E s \in OpenedOrClosed(connections[k].state) :
         /\ connections' = [connections EXCEPT ![k].state = s]
         /\ shaken' = [shaken EXCEPT ![k] = IF s = "SynSent" THEN {"opened"}
                                            ELSE IF s = "Listen" THEN {} ELSE @]
    /\ UNCHANGED segments

\* The handshake is over with any acknowledgement, of a SYN or not.
SynReceivedStepAny(flags) == IF "ACK" \in flags \/ "SYN" \in flags THEN "Established" ELSE "SynReceived"

SynReceivedStep(flags) ==
    IF "ACK" \in flags /\ "SYN" \notin flags THEN "Established" ELSE "SynReceived"

\* The switch over the states; RST counts only where no other flag comes first.
NextState(state, flags) ==
    LET syn == "SYN" \in flags
        ack == "ACK" \in flags
        fin == "FIN" \in flags
        Reset(s) == IF "RST" \in flags THEN "Closed" ELSE s
    IN CASE state \in {"Closed", "Listen"} -> IF syn /\ ~ack THEN "SynReceived" ELSE state
         [] state = "SynSent" ->
              IF syn /\ ack THEN "Established" ELSE IF syn THEN "SynReceived" ELSE state
         [] state = "SynReceived" -> SynReceivedStep(flags)
         [] state = "Established" -> IF fin THEN "CloseWait" ELSE Reset(state)
         [] state = "FinWait1" ->
              CASE fin /\ ack -> "TimeWait"
                [] fin /\ ~ack -> "Closing"
                [] ~fin /\ ack -> "FinWait2"
                [] OTHER -> Reset(state)
         [] state = "FinWait2" -> IF fin THEN "TimeWait" ELSE Reset(state)
         [] state = "Closing" -> IF ack THEN "TimeWait" ELSE Reset(state)
         [] state \in {"CloseWait", "TimeWait"} -> Reset(state)
         [] state = "LastAck" -> IF ack THEN "Closed" ELSE Reset(state)

\* What the segments show of the handshake, whatever the state: a SYN, and an
\* ACK once a side has opened, which is a reset's if it carries RST.
Marks == {"opened", "SYN", "answered", "reset"}

HandshakeAfter(seen, flags) ==
    seen \union (flags \intersect {"SYN"})
         \union (IF "ACK" \in flags /\ seen \intersect {"opened", "SYN"} # {}
                 THEN {IF "RST" \in flags THEN "reset" ELSE "answered"}
                 ELSE {})

UpdateConnection(k, flags) ==
    /\ k \in DOMAIN connections
    /\ segments < MaxSegments
    /\ segments' = segments + 1
    /\ LET before == connections[k].state
           state == NextState(before, flags)
       IN /\ connections' = [connections EXCEPT ![k] = [state |-> state, age |-> 0]]
          /\ shaken' = [shaken EXCEPT ![k] =
                          IF state = "Closed" THEN {} ELSE HandshakeAfter(@, flags)]

\* Half-open connections are kept.
ExpiredTimeWait ==
    {k \in DOMAIN connections :
        \/ connections[k].state = "Closed"
        \/ connections[k].state = "TimeWait" /\ connections[k].age >= TimeWaitTimeout}

Expired ==
    {k \in DOMAIN connections :
        \/ connections[k].state = "Closed"
        \/ connections[k].state = "TimeWait" /\ connections[k].age >= TimeWaitTimeout
        \/ connections[k].state \in HalfOpen /\ connections[k].age >= HalfOpenTimeout}

TcpCleanupExpired ==
    /\ connections' = [k \in DOMAIN connections \ Expired |-> connections[k]]
    /\ UNCHANGED <<shaken, segments>>

TcpClear ==
    /\ connections' = [k \in {} |-> connections[k]]
    /\ UNCHANGED <<shaken, segments>>

TcpTick ==
    /\ connections' = [k \in DOMAIN connections |->
                         [connections[k] EXCEPT !.age = IF @ < HalfOpenTimeout THEN @ + 1 ELSE @]]
    /\ UNCHANGED <<shaken, segments>>

TcpNext ==
    \/ \E k \in Connections : GetConnection(k) \/ CallerSetsState(k)
    \/ \E k \in Connections, flags \in SUBSET Flags : UpdateConnection(k, flags)
    \/ TcpCleanupExpired \/ TcpClear \/ TcpTick

DataStates == TcpStates \ {"Closed", "Listen", "SynSent", "SynReceived"}

\* A connection carries data only after a SYN of the remote side and, from a
\* side that had heard of the other, an ACK, both on the wire since the
\* connection was created or last closed.  update_connection looks at no RST
\* before the handshake is over (tcp.cpp:297): a reset's ACK counts as the answer.
DataAfterHandshake ==
    \A k \in DOMAIN connections :
        connections[k].state \in DataStates =>
            "SYN" \in shaken[k] /\ shaken[k] \intersect {"answered", "reset"} # {}

\* Not so: "RST can be received from any state" and closes
\* (test_tcp_state.cpp:242), but RST with ACK completes a handshake.
ResetNeverConnects ==
    \A k \in DOMAIN connections :
        connections[k].state \in DataStates => "answered" \in shaken[k]

\* A connection whose handshake stops half way is forgotten, or goes on.
HalfOpenEnds ==
    \A k \in Connections :
        (k \in DOMAIN connections /\ connections[k].state \in HalfOpen)
            ~> ~(k \in DOMAIN connections /\ connections[k].state \in HalfOpen)
==============================================================================
