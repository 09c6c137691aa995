-------------------------- MODULE DiagnosticSession --------------------------
(***************************************************************************)
(* DiagnosticSessionManager (diagnostic/diagnostic_session): the session,  *)
(* security level and idle time of each ECU, kept from captured UDS        *)
(* messages, and the request correlator it owns.  Every message goes to    *)
(* the correlator first and to the session of its ECU afterwards, in one   *)
(* call under the manager's mutex; the correlator tells the manager of     *)
(* outcomes through a callback, which the manager passes on.  Correlation  *)
(* and timeout detection are enabled, as by default.                       *)
(*                                                                         *)
(* Abstractions.  The service of a message stands for its content; what a  *)
(* response carries besides is the session type or the access type.  P2    *)
(* and P2* of a session, its routing flag and addresses, message counters  *)
(* and ECU identification are left out: no guard reads them, and the       *)
(* correlator keeps timings of its own.                                    *)
(* Of the events, those of the correlator are counted, and those about a   *)
(* session reach a listener that follows them by their kinds alone.        *)
(***************************************************************************)
EXTENDS Integers, Sequences, FiniteSets, FiniteSetsExt

CONSTANTS
  Link, Timings, Delays, MaxPendingPerAddress, MaxCompletedHistory,
  MaxAge, MaxRequests, MaxResponses,  \* as in RequestCorrelator
  SessionType,  \* session types besides "default"
  AccessType,   \* SecurityAccess sub-functions: odd for a seed, even for a key
  S3            \* values of DiagnosticTiming::s3_server, the largest being the default

Service == {"session_control", "security_access", "ecu_reset", "other"}

ASSUME SessionAssumption ==
  /\ "default" \notin SessionType
  /\ AccessType \subseteq 0..255
  /\ MaxAge \in Nat /\ Delays \subseteq 0..MaxAge
  /\ S3 # {} /\ S3 \subseteq 0..(MaxAge - 1)

VARIABLES
  pending, completed, stats, timing, arrivals, received, untracked,  \* correlator_
  sessions,  \* sessions_: the state of every tracked ECU
  told,      \* correlation events passed on to the callbacks, by kind
  heard,     \* what a listener to the events believes of every ECU
  forgotten  \* auxiliary: ECUs reset_ecu was called for

Correlator == INSTANCE RequestCorrelator

correlator_vars == <<pending, completed, stats, timing, arrivals, received, untracked>>
vars == <<correlator_vars, sessions, told, heard, forgotten>>

\* The ECU of a message is the target of a request, the source of a response.
Ecu == {link[2] : link \in Link}

SecurityLevel == {(a + 1) \div 2 : a \in {k \in AccessType : k % 2 = 0}} \union {0}

DiagnosticSessionState ==
  [session_type : SessionType \union {"default"}, session_active : BOOLEAN,
   security_level : SecurityLevel, idle : 0..MaxAge, s3 : S3]

NewState == [session_type |-> "default", session_active |-> FALSE, security_level |-> 0,
             idle |-> 0, s3 |-> Max(S3)]

get_or_create_state(e) ==
  [f \in DOMAIN sessions \union {e} |-> IF f \in DOMAIN sessions THEN sessions[f] ELSE NewState]
-----------------------------------------------------------------------------
\* The callback forwards an event only with a pair, and only to a tracked ECU.
\* RequestTimeout and ResponsePending come with the pending request instead.
Forwarded(has_pair, e) == IF has_pair /\ e \in DOMAIN sessions THEN 1 ELSE 0

\* What the events tell a listener, who never looks at the state that comes
\* with them except for the new type or level: an ECU it has heard nothing of
\* is in no session.
Unheard == [session_type |-> "default", session_active |-> FALSE, security_level |-> 0]

Belief(e) == IF e \in DOMAIN heard THEN heard[e] ELSE Unheard

Believing(E, belief) == [e \in DOMAIN heard \union E |-> IF e \in E THEN belief ELSE heard[e]]

Hears(event, e, s) ==
  CASE event \in {"SessionStarted", "SessionChanged"} ->
         Believing({e}, [Belief(e) EXCEPT !.session_type = s.session_type,
                                          !.session_active = TRUE])
    [] event = "SecurityUnlocked" ->
         Believing({e}, [Belief(e) EXCEPT !.security_level = s.security_level])
    [] event = "SessionEnded" -> Believing({e}, Unheard)
    [] OTHER -> heard

\* Fault variant: only a session that was active before can change.
EventOfActive(old, new) ==
  IF old.session_active /\ old.session_type # new.session_type THEN "SessionChanged"
  ELSE "none"

\* The event of a session response: session_active is set before it is tested.
EventOfResponse(old, new) ==
  CASE old.session_type # new.session_type -> "SessionChanged"
    [] old.session_type = new.session_type /\ ~ new.session_active -> "SessionStarted"
    [] OTHER -> "none"

\* A session after any message: the idle time starts again.
Active(e) == [get_or_create_state(e) EXCEPT ![e].idle = 0]

Ended(s) == [s EXCEPT !.session_type = "default", !.session_active = FALSE,
                      !.security_level = 0]

\* Fault variant: no timeout while security is unlocked.
PatientWhenUnlocked(s) == s.session_active /\ s.idle > s.s3 /\ s.security_level = 0

is_potentially_timed_out(s) == s.session_active /\ s.idle > s.s3

\* update_session_state for a positive response.  A key response has an even
\* access type; the level is kept at the highest one unlocked.
SessionStarts(e, type) ==
  [Active(e) EXCEPT ![e].session_type = type, ![e].session_active = TRUE]

KeyAccepted(e, access_type) ==
  IF access_type % 2 = 1 THEN Active(e)
  ELSE [Active(e) EXCEPT ![e].security_level = Max({@, (access_type + 1) \div 2})]
-----------------------------------------------------------------------------
Init ==
  /\ Correlator!Init
  /\ sessions = [e \in {} |-> NewState]
  /\ told = [response_timeout |-> 0, negative_response |-> 0]
  /\ heard = [e \in {} |-> Unheard]
  /\ forgotten = {}

\* handle_uds_message for a request.
Request(link, service, delay) ==
  /\ Correlator!record_request(link, service, delay)
  /\ sessions' = Active(link[2])
  /\ UNCHANGED <<told, heard, forgotten>>

\* ... for a positive response: what the correlator makes of it, then the session.
PositiveResponse(link, service) ==
  /\ \/ Correlator!UnmatchedResponse(link)
     \/ Correlator!FinalResponse(link, service, "positive")
  /\ LET e == link[1] IN
     \/ /\ service = "session_control"
        /\ \E type \in SessionType \union {"default"} : sessions' = SessionStarts(e, type)
        /\ heard' = Hears(EventOfResponse(Active(e)[e], sessions'[e]), e, sessions'[e])
     \/ /\ service = "security_access"
        /\ \E a \in AccessType :
             /\ sessions' = KeyAccepted(e, a)
             /\ heard' = Hears(IF a % 2 = 1 THEN "none" ELSE "SecurityUnlocked", e, sessions'[e])
     \/ /\ service = "ecu_reset"
        /\ sessions' = [Active(e) EXCEPT ![e] = Ended(@)]
        /\ heard' = Hears("SessionEnded", e, sessions'[e])
     \/ /\ service = "other"
        /\ sessions' = Active(e)
        /\ UNCHANGED heard
  /\ UNCHANGED <<told, forgotten>>

\* ... for a negative response, final or ResponsePending.
NegativeResponse(link, service) ==
  /\ \/ /\ Correlator!UnmatchedResponse(link)
        /\ UNCHANGED told
     \/ /\ Correlator!ResponsePending(link, service)
        /\ UNCHANGED told
     \/ /\ Correlator!FinalResponse(link, service, "negative")
        /\ told' = [told EXCEPT !.negative_response = @ + Forwarded(TRUE, link[1])]
  /\ sessions' = Active(link[1])
  /\ UNCHANGED <<heard, forgotten>>

\* A routing activation response makes its ECU tracked; a request does nothing.
process_routing_activation(e) ==
  /\ sessions' = get_or_create_state(e)
  /\ UNCHANGED <<correlator_vars, told, heard, forgotten>>

set_timing(e, s3) ==
  /\ sessions' = [get_or_create_state(e) EXCEPT ![e].s3 = s3]
  /\ UNCHANGED <<correlator_vars, told, heard, forgotten>>

\* Pending requests first, then the sessions past S3.
check_timeouts ==
  /\ Correlator!check_timeouts
  /\ sessions' = [e \in DOMAIN sessions |->
                    IF is_potentially_timed_out(sessions[e])
                    THEN Ended(sessions[e]) ELSE sessions[e]]
  /\ heard' = Believing({e \in DOMAIN sessions : is_potentially_timed_out(sessions[e])}, Unheard)
  /\ told' = [told EXCEPT !.response_timeout = @ + Cardinality(
                {p \in pending : Correlator!is_timed_out(p) /\ Forwarded(FALSE, p.link[2]) = 1})]
  /\ UNCHANGED forgotten

\* Fault variant: the manager's reset leaves the correlator alone.
ResetSessionsOnly ==
  /\ sessions' = [e \in {} |-> NewState]
  /\ UNCHANGED <<correlator_vars, told, heard, forgotten>>

\* reset_ecu leaves the correlator alone, reset does not.  Neither emits an
\* event: the application that calls them drops what it heard itself.
reset_ecu(e) ==
  /\ sessions' = [f \in DOMAIN sessions \ {e} |-> sessions[f]]
  /\ heard' = [f \in DOMAIN heard \ {e} |-> heard[f]]
  /\ forgotten' = forgotten \union {e}
  /\ UNCHANGED <<correlator_vars, told>>

reset ==
  /\ Correlator!reset
  /\ sessions' = [e \in {} |-> NewState]
  /\ heard' = [e \in {} |-> Unheard]
  /\ UNCHANGED <<told, forgotten>>

\* One clock for the ages of requests and the idle times of sessions.
Idler(s) == [s EXCEPT !.idle = IF @ < MaxAge THEN @ + 1 ELSE @]

Tick ==
  /\ \/ \E p \in pending : p.age < MaxAge
     \/ \E e \in DOMAIN sessions : sessions[e].idle < MaxAge
  /\ pending' = {Correlator!Older(p) : p \in pending}
  /\ sessions' = [e \in DOMAIN sessions |-> Idler(sessions[e])]
  /\ UNCHANGED <<completed, stats, timing, arrivals, received, untracked, told, heard, forgotten>>

\* process_diagnostic_message.
DiagnosticMessage ==
  \/ \E link \in Link, service \in Service, delay \in Delays : Request(link, service, delay)
  \/ \E link \in Correlator!ResponseLink, service \in Service :
       PositiveResponse(link, service) \/ NegativeResponse(link, service)

\* process_doip_raw and process_doip_packet: a packet whose header or payload
\* does not decode, or of any other payload type, leaves all this as it was.
process_doip_packet ==
  \/ DiagnosticMessage
  \/ \E e \in Ecu : process_routing_activation(e)

Next ==
  \/ process_doip_packet
  \/ \E e \in Ecu, s3 \in S3 : set_timing(e, s3)
  \/ check_timeouts
  \/ \E e \in Ecu : reset_ecu(e)
  \/ reset
  \/ Tick

Spec == Init /\ [][Next]_vars

\* The clock runs, and the application polls check_timeouts.
FairSpec == Spec /\ WF_vars(Tick) /\ WF_vars(check_timeouts)
-----------------------------------------------------------------------------
(* Properties.                                                             *)

\* Types, of the correlator too: in particular the level of an ECU is always
\* one that a key response can unlock.
TypeOK ==
  /\ Correlator!TypeOK
  /\ DOMAIN sessions \subseteq Ecu
  /\ \A e \in DOMAIN sessions : sessions[e] \in DiagnosticSessionState
  /\ told \in [response_timeout : Nat, negative_response : Nat]
  /\ DOMAIN heard \subseteq DOMAIN sessions
  /\ forgotten \subseteq Ecu

\* The correlator's callback loses no negative response: each one that was
\* matched with a request has been passed on, unless reset_ecu dropped an ECU
\* that requests were still waiting for (handle_uds_message correlates before
\* it creates the state of an ECU, so this rests on the request having done so).
NegativesForwarded ==
  forgotten = {} => told.negative_response = stats.negative_responses

\* A listener that only follows the events never goes wrong about a session:
\* it knows the type and the security level of every ECU, through changes,
\* keys, resets and timeouts, and takes none for active that is over.  A
\* session that is over leaves nothing behind: its ECU is in the default one.
ListenerFollowsSessions ==
  \A e \in DOMAIN sessions :
    /\ Belief(e).session_type = sessions[e].session_type
    /\ Belief(e).security_level = sessions[e].security_level
    /\ Belief(e).session_active => sessions[e].session_active
    /\ ~ sessions[e].session_active => sessions[e].session_type = "default"

\* No session is active for ever without messages: once they stop, check_timeouts
\* ends it, whatever the S3 set meanwhile and however often routing is activated.
SessionsEnd ==
  \A e \in Ecu : []<>(e \notin DOMAIN sessions \/ ~ sessions[e].session_active)

\* Through the manager, too, no request is pending for ever.
RequestsEnd == Correlator!NoRequestPendingForever

\* The callbacks are told of every request that got no response in time.
TimeoutsForwarded ==
  forgotten = {} => told.response_timeout = stats.pending_timeouts

\* A listener is told of every session that starts.
StartsTold ==
  \A e \in DOMAIN sessions : sessions[e].session_active => Belief(e).session_active
=============================================================================
