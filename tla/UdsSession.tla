------------------------------ MODULE UdsSession ------------------------------
(***************************************************************************)
(* UdsSession and UdsSessionManager: the session type, S3 timer and        *)
(* security levels of every ECU, followed from the messages that pass by.  *)
(*                                                                         *)
(* One thread feeds messages to the manager: it looks the session up under *)
(* the manager's lock, decodes without a lock and applies the message      *)
(* under the session's lock.  Other threads call the remaining operations  *)
(* between these steps.  A listener is told of the events of the sessions. *)
(* A second client uses a SecurityState of its own, a third the decoder on *)
(* arbitrary bytes, a fourth on the messages of UDSBuilder.                *)
(* P2 and P2* are carried by a session but decide nothing in it.           *)
(***************************************************************************)
EXTENDS UdsMatchers, SecurityState

CONSTANTS
    Ecus,             \* diagnostic addresses
    Subs,             \* second bytes of the messages
    S3Default,        \* s3_server of default_values() and programming_values()
    S3Values,         \* values update_timing may be given
    S3Bound,          \* bound: where the idle time of a session saturates
    MaxRejections,    \* bound on the keys refused to the second client
    FormatBytes,      \* second and third bytes of the third client's messages
    BuilderBytes,     \* bytes the fourth client gives to UDSBuilder
    MaxMessageSize    \* bound on the size of the third client's messages

ASSUME UdsAssumption ==
    /\ Subs \subseteq Byte /\ FormatBytes \subseteq Byte /\ BuilderBytes \subseteq Byte
    /\ S3Default \in Nat /\ S3Values \subseteq Nat
    /\ S3Bound \in Nat /\ \A s3 \in S3Values \union {S3Default} : s3 < S3Bound
    /\ MaxRejections \in Nat /\ MaxMessageSize \in Nat

VARIABLES
    client,      \* which of the four clients this behaviour is about
    sessions,    \* sessions_
    feeding,     \* the message between get_session and process_decoded
    listening,   \* the listener is in global_callbacks_
    listener,    \* what the events told the listener of each ECU
    untold,      \* history: ECUs whose last change came with no event
    server,      \* history: the session each ECU is in, and the keys it took in it
    security,    \* the second client's level
    refused,     \* history: keys refused to it since one was accepted
    since        \* history: time since the last refusal

vars == <<client, sessions, feeding, listening, listener, untold, server, security, refused, since>>

historyVars == <<listener, untold, server>>
managerVars == <<sessions, feeding, listening, historyVars>>
securityVars == <<security, refused, since>>

DefaultSession == 1
ProgrammingSession == 2

Levels == {(s + 1) \div 2 : s \in Subs}

\* UdsSession::UdsSession, with the callbacks get_session registers.
NewSession ==
    [type |-> DefaultSession, state |-> "Idle", s3 |-> S3Default, idle |-> 0,
     levels |-> [l \in Levels |-> NewLevel], heard |-> listening, cleared |-> FALSE,
     expired |-> FALSE]

Session ==
    [type : Nat, state : {"Idle", "Active"}, s3 : Nat, idle : Nat, levels : [Levels -> LevelStates],
     heard : BOOLEAN, cleared : BOOLEAN, expired : BOOLEAN]

NotFeeding == [ecu |-> "none"]

Beliefs == {"ended", "active", "unlocked"}

NoSession == [type |-> DefaultSession, keys |-> {}]

\* An ECU changes its session when it answers with another type.
InSession(ecu, type) == IF ecu.type = type THEN ecu ELSE [type |-> type, keys |-> {}]

\* The messages that may change a session, a rejection and one that may not.
SessionMessages ==
    [sid : {DiagnosticSessionControl, ECUReset, SecurityAccess, TesterPresent, 80, 81, 103, 126},
     size : {1, 2}, sub : Subs, third : {0}]
    \union [sid : {NegativeResponseSid}, size : {2, 3}, sub : {SecurityAccess}, third : {53}]
    \union [sid : {ReadDataByIdentifier}, size : {3}, sub : {1}, third : {0}]

\* The services UDSBuilder has methods for.
BuiltServices ==
    {DiagnosticSessionControl, ECUReset, SecurityAccess, TesterPresent, ReadDataByIdentifier,
     WriteDataByIdentifier, RoutineControl}

\* The builder when it is made: a request for TesterPresent.
NewBuilder ==
    [service |-> TesterPresent, has_sub_function |-> FALSE, sub_function |-> 0, suppress |-> FALSE,
     direction |-> "request", nrc |-> 16, first |-> 0, second |-> 0, payload |-> 0]

Init ==
    /\ client \in {"manager", "security", "decoder", "builder"}
    /\ sessions = [e \in {} |-> {}]
    /\ feeding \in
         IF client = "decoder"
         THEN [ecu : {"none"}, message : [sid : {0}, size : 0..MaxMessageSize, sub : FormatBytes,
                                          third : FormatBytes]]
         ELSE IF client = "builder"
         THEN {[ecu |-> "none", message |-> Build(NewBuilder), built |-> NewBuilder]}
         ELSE {NotFeeding}
    /\ listening = FALSE
    /\ listener = [e \in Ecus |-> "ended"]
    /\ untold = {}
    /\ server = [e \in Ecus |-> NoSession]
    /\ security = NewLevel
    /\ refused = 0
    /\ since = 0

------------------------------------------------------------------------------
(* The session *)

\* is_timed_out: an idle session never is.
IsTimedOut(session) == session.state = "Active" /\ session.idle > session.s3

\* state() and is_active()
State(session) == IF IsTimedOut(session) THEN "TimedOut" ELSE session.state

\* timeout_remaining: S3Bound stands for the "max" of an idle session.
TimeoutRemaining(session) ==
    IF session.state = "Idle" THEN S3Bound
    ELSE IF session.idle >= session.s3 THEN 0 ELSE session.s3 - session.idle

\* active_sessions of the manager
ActiveSessions == {e \in DOMAIN sessions : State(sessions[e]) = "Active"}

\* S3 may run out whenever the clock or the timing changes; expired remembers
\* it until the session's levels are reset.
Checked(session) == [session EXCEPT !.expired = @ \/ IsTimedOut(session)]

\* With S3 the ECU has fallen back to its default session.
AfterS3(ecu, session) == IF IsTimedOut(session) THEN NoSession ELSE ecu

\* What an event tells the listener; the other events say nothing of a state.
Tells ==
    [SessionStarted |-> "active", SessionChanged |-> "active", SessionEnded |-> "ended",
     SecurityUnlocked |-> "unlocked"]

\* emit_event, with the session's lock held.
Emit(e, session, event) ==
    IF session.heard /\ event \in DOMAIN Tells
    THEN listener' = [listener EXCEPT ![e] = Tells[event]] /\ untold' = untold \ {e}
    ELSE UNCHANGED <<listener, untold>>

\* A type change that leaves the security levels as they were.
TransitionKeepingLevels(session, type) ==
    [session EXCEPT !.type = type, !.state = "Active",
                    !.s3 = IF type = ProgrammingSession THEN S3Default ELSE @]

\* transition_to_session
TransitionToSession(session, type) ==
    [session EXCEPT
        !.type = type,
        !.state = "Active",
        !.levels = IF session.type # type THEN ResetLevels(@) ELSE @,
        !.s3 = IF type = ProgrammingSession THEN S3Default ELSE @,
        !.expired = @ /\ session.type = type]

\* reset_internal; the end of the session is reported.
ResetInternal(session) ==
    [session EXCEPT !.type = DefaultSession, !.state = "Idle", !.s3 = S3Default, !.idle = 0,
                    !.levels = ResetLevels(@), !.expired = FALSE]

\* handle_diagnostic_session_control_response
SessionControlResponse(e, session, type) ==
    /\ sessions' = [sessions EXCEPT ![e] = TransitionToSession(session, type)]
    /\ server' = [server EXCEPT ![e] = InSession(@, type)]
    /\ Emit(e, session, IF session.state = "Idle" THEN "SessionStarted"
                        ELSE IF session.type # type THEN "SessionChanged" ELSE "none")

\* handle_security_access_response: an even access type accepts a key.
SecurityAccessResponse(e, session, accessType) ==
    LET level == (accessType + 1) \div 2
    IN IF accessType % 2 = 1
       THEN sessions' = [sessions EXCEPT ![e] = session] /\ UNCHANGED historyVars
       ELSE /\ sessions' = [sessions EXCEPT ![e].idle = 0, ![e].levels[level] = KeyAccepted(@)]
            /\ server' = [server EXCEPT ![e].keys = @ \union {level}]
            /\ Emit(e, session, "SecurityUnlocked")

\* handle_ecu_reset: the request ends the session, whatever the ECU answers.
EcuResetRequest(e, session) ==
    /\ sessions' = [sessions EXCEPT ![e] = ResetInternal(session)]
    /\ server' = [server EXCEPT ![e] = NoSession]
    /\ Emit(e, session, "SessionEnded")

\* handle_tester_present, handle_negative_response and the other services:
\* the activity counts, no event of theirs tells the listener a new state.
ActivityOnly(e, session) ==
    /\ sessions' = [sessions EXCEPT ![e] = session]
    /\ UNCHANGED historyVars

\* process_decoded: every message the decoder accepts counts as activity.
ProcessDecoded(e, m, isRequest) ==
    LET decoded == Decode(m)
        session == [sessions[e] EXCEPT !.idle = 0]
        answers(service) == decoded.direction = "positive" /\ decoded.service = service
                                /\ decoded.parsed /\ ~isRequest
    IN \/ answers(DiagnosticSessionControl) /\ SessionControlResponse(e, session, m.sub)
       \/ answers(SecurityAccess) /\ SecurityAccessResponse(e, session, m.sub)
       \/ /\ decoded.direction = "request" /\ decoded.service = ECUReset
          /\ decoded.parsed /\ isRequest
          /\ EcuResetRequest(e, session)
       \/ /\ ~answers(DiagnosticSessionControl) /\ ~answers(SecurityAccess)
          /\ ~(/\ decoded.direction = "request" /\ decoded.service = ECUReset
               /\ decoded.parsed /\ isRequest)
          /\ ActivityOnly(e, session)

------------------------------------------------------------------------------
(* The manager *)

\* get_session: found or created; the reference outlives the lock.
GetSession(e) ==
    sessions' = IF e \in DOMAIN sessions THEN sessions
                ELSE [i \in DOMAIN sessions \union {e} |->
                        IF i = e THEN NewSession ELSE sessions[i]]

\* process_message of the manager, up to the session's lock.
FeedMessage(e, m, isRequest) ==
    /\ feeding = NotFeeding
    /\ GetSession(e)
    /\ feeding' = [ecu |-> e, message |-> m, request |-> isRequest, stale |-> FALSE]
    /\ UNCHANGED <<listening, historyVars>>

\* The session was destroyed while the message was decoded (the reference of
\* get_session is used without the lock): whatever is left of its callbacks may
\* tell the listener anything.
ApplyToRemoved(e) ==
    /\ \E belief \in Beliefs :
         listener' = [listener EXCEPT ![e] = IF listening THEN belief ELSE @]
    /\ untold' = untold \union {e}
    /\ UNCHANGED <<sessions, server>>

\* The rest of it: a message that does not decode changes nothing.
ApplyMessage ==
    /\ feeding # NotFeeding
    /\ feeding' = NotFeeding
    /\ UNCHANGED listening
    /\ IF feeding.stale THEN ApplyToRemoved(feeding.ecu)
       ELSE IF Decode(feeding.message).ok
       THEN ProcessDecoded(feeding.ecu, feeding.message, feeding.request)
       ELSE UNCHANGED <<sessions, historyVars>>

\* A listener that never hears the sessions that are there already.
ManagerOnEventNewOnly ==
    /\ ~listening
    /\ listening' = TRUE
    /\ UNCHANGED <<sessions, feeding, historyVars>>

\* on_event of the manager: for the sessions there are and those to come.
\* The listener starts with nothing known of any ECU.
ManagerOnEvent ==
    /\ ~listening
    /\ listening' = TRUE
    /\ sessions' = [e \in DOMAIN sessions |-> [sessions[e] EXCEPT !.heard = TRUE, !.cleared = FALSE]]
    /\ UNCHANGED <<feeding, historyVars>>

\* clear_callbacks of a session drops the manager's listener as well.
ClearCallbacks(e) ==
    /\ sessions' = [sessions EXCEPT ![e].heard = FALSE, ![e].cleared = TRUE]
    /\ UNCHANGED <<feeding, listening, historyVars>>

\* remove_session tells nobody, and does not wait for a message on its way.
RemoveSession(e) ==
    /\ sessions' = [i \in DOMAIN sessions \ {e} |-> sessions[i]]
    /\ feeding' = IF feeding # NotFeeding /\ feeding.ecu = e THEN [feeding EXCEPT !.stale = TRUE]
                  ELSE feeding
    /\ untold' = untold \union {e}
    /\ server' = [server EXCEPT ![e] = NoSession]
    /\ UNCHANGED <<listening, listener>>

\* reset_all: reset() of every session.
ResetAll ==
    /\ sessions' = [e \in DOMAIN sessions |-> ResetInternal(sessions[e])]
    /\ LET heard == {e \in DOMAIN sessions : sessions[e].heard}
       IN /\ listener' = [e \in Ecus |-> IF e \in heard THEN "ended" ELSE listener[e]]
          /\ untold' = untold \ heard
    /\ server' = [e \in Ecus |-> IF e \in DOMAIN sessions THEN NoSession ELSE server[e]]
    /\ UNCHANGED <<feeding, listening>>

\* force_session_type: no event and no activity, so that a session long idle is
\* timed out as soon as it is active.
ForceSessionType(e, type) ==
    LET session == TransitionToSession(sessions[e], type)
    IN /\ sessions' = [sessions EXCEPT ![e] = Checked(session)]
       /\ server' = [server EXCEPT ![e] = AfterS3(InSession(@, type), session)]
       /\ untold' = untold \union {e}
       /\ UNCHANGED <<feeding, listening, listener>>

\* refresh_timeout
RefreshTimeout(e) ==
    /\ sessions' = [sessions EXCEPT ![e].idle = 0]
    /\ UNCHANGED <<feeding, listening, historyVars>>

\* update_timing: with less time the session may be over at once.
UpdateTiming(e, s3) ==
    LET session == [sessions[e] EXCEPT !.s3 = s3]
    IN /\ sessions' = [sessions EXCEPT ![e] = Checked(session)]
       /\ server' = [server EXCEPT ![e] = AfterS3(@, session)]
       /\ UNCHANGED <<feeding, listening, listener, untold>>

\* Time passes for every session.
Aged(session) == [session EXCEPT !.idle = Min({@ + 1, S3Bound})]

SessionTick ==
    /\ \E e \in DOMAIN sessions : sessions[e].idle < S3Bound
    /\ sessions' = [e \in DOMAIN sessions |-> Checked(Aged(sessions[e]))]
    /\ server' = [e \in Ecus |-> IF e \in DOMAIN sessions
                                 THEN AfterS3(server[e], Aged(sessions[e])) ELSE server[e]]
    /\ UNCHANGED <<feeding, listening, listener, untold>>

ManagerNext ==
    \/ \E e \in Ecus, m \in SessionMessages, isRequest \in BOOLEAN : FeedMessage(e, m, isRequest)
    \/ ApplyMessage
    \/ ManagerOnEvent \/ ResetAll \/ SessionTick
    \/ \E e \in DOMAIN sessions :
         \/ ClearCallbacks(e) \/ RemoveSession(e) \/ RefreshTimeout(e)
         \/ \E type \in Subs : ForceSessionType(e, type)
         \/ \E s3 \in S3Values : UpdateTiming(e, s3)

------------------------------------------------------------------------------
(* A SecurityState on its own *)

RejectKey ==
    /\ refused < MaxRejections
    /\ security' = KeyRejected(security)
    /\ refused' = refused + 1
    /\ since' = 0

AcceptKey ==
    /\ security' = KeyAccepted(security)
    /\ refused' = 0
    /\ since' = 0

RequestSeed == security' = SeedRequested(security) /\ UNCHANGED <<refused, since>>

ResetSecurity == security' = ResetLevel(security) /\ UNCHANGED <<refused, since>>

SecurityTick ==
    /\ security' = ElapsedLevel(security)
    /\ since' = Min({since + 1, LockoutDuration})
    /\ UNCHANGED refused

SecurityNext == RejectKey \/ AcceptKey \/ RequestSeed \/ ResetSecurity \/ SecurityTick

------------------------------------------------------------------------------

\* The third client decodes the same bytes under one service id after another.
DecodeNext ==
    /\ feeding' = [feeding EXCEPT !.message.sid = (@ + 1) % 256]
    /\ UNCHANGED <<sessions, listening, historyVars>>

\* The fourth client configures a new builder, builds and matches the message,
\* and makes the next builder.
BuildNext ==
    /\ feeding.built = NewBuilder
    /\ \E b \in BuilderStates(BuiltServices, BuilderBytes) :
         feeding' = [ecu |-> "none", message |-> Build(b), built |-> b]
    /\ UNCHANGED <<sessions, listening, historyVars>>

DropBuilder ==
    /\ feeding.built # NewBuilder
    /\ feeding' = [ecu |-> "none", message |-> Build(NewBuilder), built |-> NewBuilder]
    /\ UNCHANGED <<sessions, listening, historyVars>>

Next ==
    /\ UNCHANGED client
    /\ \/ client = "manager" /\ ManagerNext /\ UNCHANGED securityVars
       \/ client = "security" /\ SecurityNext /\ UNCHANGED managerVars
       \/ client = "decoder" /\ DecodeNext /\ UNCHANGED securityVars
       \/ client = "builder" /\ (BuildNext \/ DropBuilder) /\ UNCHANGED securityVars

Spec == Init /\ [][Next]_vars

------------------------------------------------------------------------------
TypeOK ==
    /\ client \in {"manager", "security", "decoder", "builder"}
    /\ DOMAIN sessions \subseteq Ecus
    /\ sessions \in [DOMAIN sessions -> Session]
    /\ listening \in BOOLEAN
    /\ listener \in [Ecus -> Beliefs]
    /\ untold \subseteq Ecus
    /\ server \in [Ecus -> [type : Nat, keys : SUBSET Levels]]
    /\ security \in LevelStates
    /\ refused \in 0..MaxRejections
    /\ since \in 0..LockoutDuration

\* A level counts as unlocked only if its key was accepted in the session the
\* ECU is in, as its answers, the reset requests and the S3 time show it: no
\* message, reset, forced type or removal carries an unlocked level into another
\* session (uds_session.cpp, transition_to_session).  One thing does, and is
\* excepted: an S3 timeout, after which no level is locked until the type
\* changes or the session is reset (LockedAfterTimeout below).
UnlockedByKey ==
    \A e \in DOMAIN sessions : ~sessions[e].expired =>
        \A l \in Levels : IsUnlocked(sessions[e].levels[l]) => l \in server[e].keys

\* Not so: SessionState calls a session whose S3 expired "timed out"
\* (uds_session.hpp:135), yet the next message makes it active again with the
\* levels of the session that is over (uds_session.cpp:251, :381).
LockedAfterTimeout ==
    \A e \in DOMAIN sessions :
        \A l \in Levels :
            IsUnlocked(sessions[e].levels[l]) /\ ~IsTimedOut(sessions[e]) => l \in server[e].keys

\* Whoever listens hears every session whose callbacks were not cleared.  Since
\* the last event that told it of the ECU it is right: no level it believes
\* unlocked was locked again, and no session it believes active was ended, but
\* by force_session_type or remove_session, which emit nothing, or a timeout
\* (on_event of the manager, get_session, emit_event).
ListenerInStep ==
    listening =>
        \A e \in DOMAIN sessions : ~sessions[e].cleared =>
            /\ sessions[e].heard
            /\ e \notin untold =>
                 /\ listener[e] = "unlocked" => AnyUnlocked(sessions[e].levels)
                 /\ listener[e] = "active" => sessions[e].state = "Active"

\* Not so: SessionChanged stands for "Session type changed" (uds_session.hpp:141),
\* but a forced change, which locks every level, is not told.
EveryChangeTold ==
    listening =>
        \A e \in DOMAIN sessions :
            ~sessions[e].cleared /\ listener[e] = "unlocked" => AnyUnlocked(sessions[e].levels)

\* From the third refused key in a row on the level is locked out until the
\* lockout has passed since the last refusal, and not a moment longer
\* (key_rejected, key_accepted, reset).  MaxRejections is below 256, where the
\* 8-bit failed_attempts starts anew and a refusal no longer locks.
LockedOutAfterThree ==
    IsLockedOut(security) <=> refused >= MaxFailedAttempts /\ since < LockoutDuration

\* Every decoded message is split into header and payload without a byte lost,
\* its parser reads no byte that is not there, and the three tests of its
\* direction and looks_like_uds agree with the decoder (uds_decoder.cpp); the
\* least size of a request leaves room for its sub-function (uds_services.hpp).
\* What UDSBuilder has built matches as built (generators.hpp, matchers.hpp).
\* Carried over DoIP a message decodes as it does by itself, from exactly the
\* packets that hold all of it (uds_doip_decoder.cpp).
DecodedWithinMessage ==
    /\ \A s \in DOMAIN RequestSizes : HasSubFunction(s) => RequestSizes[s] >= 2
    /\ client = "builder" => MatchedAsBuilt(feeding.built) /\ LooksLikeUds(feeding.message)
    /\ client \in {"decoder", "builder"} =>
        LET m == feeding.message
            decoded == Decode(m)
        IN /\ decoded.ok => /\ decoded.read <= m.size
                            /\ decoded.header_size + decoded.payload_size = m.size
           /\ LooksLikeUds(m) => decoded.ok
           /\ decoded.direction = "request" => OverDoipDirection(m) = "Request"
           /\ decoded.direction \in {"positive", "negative"} => OverDoipDirection(m) = "Response"
           /\ decoded.ok => OverDoip(m.size + 4, m) = decoded
           /\ \A bytes \in 0..(m.size + 13), inverted, diagnostic \in BOOLEAN :
                LET packet == [size |-> bytes, inverted |-> inverted, diagnostic |-> diagnostic,
                               payload_length |-> m.size + 4]
                IN DecodeDoipPacket(packet, m) =
                     IF LooksLikeDiagnosticMessage(packet) /\ bytes >= m.size + 12
                     THEN decoded ELSE NotDecoded

\* Not so: a session with no "time remaining before session timeout"
\* (uds_session.hpp:233) is no longer among the active ones.  When S3 has just
\* passed, timeout_remaining is 0 and is_timed_out is still false
\* (uds_session.cpp:222, :244).
NoTimeNotActive == \A e \in ActiveSessions : TimeoutRemaining(sessions[e]) > 0

\* Not so: a session that S3 has ended is reported as ended before it is used
\* again (SessionEnded, uds_session.hpp:142).
TimeoutReported == \A e \in DOMAIN sessions : sessions[e].expired => IsTimedOut(sessions[e])
==============================================================================
