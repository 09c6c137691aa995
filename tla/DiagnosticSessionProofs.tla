---------------------- MODULE DiagnosticSessionProofs ----------------------
(***************************************************************************)
(* Proofs about the two managers of the diagnostic layer.                  *)
(*                                                                         *)
(* DiagnosticSession, for any links, session types, access types and       *)
(* timings: Listening says that a listener's belief about every ECU is its *)
(* session, NegativesOK that the ECU of every pending request is tracked   *)
(* unless one was dropped, so that no negative response is lost; the       *)
(* messages drive RequestCorrelator step by step.                          *)
(*                                                                         *)
(* DtcManager, for any ECUs, codes, limits and calls: Sound says that the  *)
(* map is well formed, within the limits and, if there is room for a code  *)
(* of each ECU, known to the listener and newer than what was evicted.     *)
(* enforce_limits trims the map (Trimmed); its two loops and the loop over *)
(* a response's codes are followed by induction on their rounds.           *)
(***************************************************************************)
EXTENDS DiagnosticSession, DtcManager, FiniteSetTheorems, WellFoundedInduction, TLAPS

Beliefs == [session_type : SessionType \union {"default"}, session_active : BOOLEAN,
            security_level : SecurityLevel]

\* The sessions and what a listener was told of them.
SessionsOK ==
  /\ DOMAIN sessions \subseteq Ecu
  /\ sessions \in [DOMAIN sessions -> DiagnosticSessionState]
  /\ DOMAIN heard \subseteq DOMAIN sessions
  /\ heard \in [DOMAIN heard -> Beliefs]

\* The ECU of a pending request is tracked, as long as none was dropped, and
\* every negative response has been passed on.
NegativesOK ==
  /\ pending \subseteq Correlator!PendingRequest
  /\ arrivals \in Nat
  /\ forgotten = {} => \A p \in pending : p.link[2] \in DOMAIN sessions
  /\ told \in [response_timeout : Nat, negative_response : Nat]
  /\ "negative_responses" \in DOMAIN stats
  /\ stats.negative_responses \in Nat
  /\ NegativesForwarded
-----------------------------------------------------------------------------
(* Lemmas about the operators.                                             *)

\* A set of natural numbers that is not empty has a least element.
LEMMA LeastNatural ==
  ASSUME NEW A, A \subseteq Nat, A # {}
  PROVE  \E n \in A : \A m \in A : n <= m
<1> DEFINE R == {ss \in Nat \X Nat : ss[1] < ss[2]}
<1>1. IsWellFoundedOn(R, Nat)
  BY NatLessThanWellFounded, Zenon DEF OpToRel
<1>2. PICK n \in A : \A m \in A : ~ (<<m, n>> \in R)
  <2> HIDE DEF R
  <2> QED
    BY <1>1, WFMin, Zenon
<1>3. ASSUME NEW m \in A PROVE n <= m
  <2>1. n \in Nat /\ m \in Nat
    OBVIOUS
  <2>2. ~ (<<m, n>> \in R)
    BY <1>2
  <2> QED
    BY <2>1, <2>2
<1> QED
  BY <1>3

\* The default of S3 is one of its values.
LEMMA LargestS3 == Max(S3) \in S3
<1> DEFINE A == {n \in Nat : \E s \in S3 : n = MaxAge - s}
<1>0. \A s \in S3 : s \in Int /\ MaxAge - s \in Nat
  BY SessionAssumption
<1>1. A \subseteq Nat /\ A # {}
  <2>1. PICK s \in S3 : TRUE
    BY SessionAssumption
  <2>2. MaxAge - s \in A
    BY <1>0
  <2> QED
    BY <2>2
<1>2. PICK n \in A : \A m \in A : n <= m
  <2> HIDE DEF A
  <2> QED
    BY <1>1, LeastNatural
<1>3. PICK s \in S3 : n = MaxAge - s
  OBVIOUS
<1>4. ASSUME NEW t \in S3 PROVE s >= t
  <2>1. MaxAge - t \in A
    BY SessionAssumption
  <2>2. n <= MaxAge - t
    BY <1>2, <2>1
  <2> HIDE DEF A
  <2> QED
    BY <1>0, <1>3, <2>2, SessionAssumption
<1> QED
  BY <1>4 DEF Max

\* Largest of two levels.
LEMMA HigherLevel ==
  ASSUME NEW a \in Int, NEW b \in Int
  PROVE  Max({a, b}) \in {a, b}
<1>1. \E x \in {a, b} : \A y \in {a, b} : x >= y
  <2>1. CASE a >= b
    BY <2>1
  <2>2. CASE ~ (a >= b)
    BY <2>2
  <2> QED
    BY <2>1, <2>2
<1> QED
  BY <1>1 DEF Max

LEMMA NewStateType == NewState \in DiagnosticSessionState /\ Unheard \in Beliefs
BY LargestS3, SessionAssumption DEF NewState, DiagnosticSessionState, Unheard, Beliefs, SecurityLevel

\* A message makes its ECU tracked and its idle time start again, and changes
\* nothing else of any session.
LEMMA ActiveIs ==
  ASSUME SessionsOK, NEW e \in Ecu
  PROVE  /\ Active(e) \in [DOMAIN sessions \union {e} -> DiagnosticSessionState]
         /\ \A f \in DOMAIN sessions \ {e} : Active(e)[f] = sessions[f]
         /\ Active(e)[e] = [(IF e \in DOMAIN sessions THEN sessions[e] ELSE NewState)
                              EXCEPT !.idle = 0]
<1>1. get_or_create_state(e) \in [DOMAIN sessions \union {e} -> DiagnosticSessionState]
  BY NewStateType DEF SessionsOK, get_or_create_state
<1>2. /\ \A f \in DOMAIN sessions \ {e} : get_or_create_state(e)[f] = sessions[f]
      /\ get_or_create_state(e)[e] = IF e \in DOMAIN sessions THEN sessions[e] ELSE NewState
  BY DEF SessionsOK, get_or_create_state
<1>3. 0 \in 0..MaxAge
  BY SessionAssumption
<1>4. ASSUME NEW s \in DiagnosticSessionState
      PROVE  [s EXCEPT !.idle = 0] \in DiagnosticSessionState
  BY <1>3 DEF DiagnosticSessionState
<1>5. Active(e) = [get_or_create_state(e) EXCEPT ![e] = [get_or_create_state(e)[e] EXCEPT !.idle = 0]]
  BY DEF Active
<1> DEFINE g == get_or_create_state(e)
<1> HIDE DEF g
<1>6. Active(e) = [g EXCEPT ![e] = [g[e] EXCEPT !.idle = 0]]
  BY <1>5 DEF g
<1>7. /\ g \in [DOMAIN sessions \union {e} -> DiagnosticSessionState]
      /\ \A f \in DOMAIN sessions \ {e} : g[f] = sessions[f]
      /\ g[e] = IF e \in DOMAIN sessions THEN sessions[e] ELSE NewState
  BY <1>1, <1>2 DEF g
<1> QED
  BY <1>4, <1>6, <1>7
-----------------------------------------------------------------------------
(* What a listener believes.                                               *)

\* A belief about a session is right.
Right(b, s) ==
  /\ b.session_type = s.session_type
  /\ b.security_level = s.security_level
  /\ b.session_active => s.session_active
  /\ ~ s.session_active => s.session_type = "default"

\* Listening is sound: types, and every belief is right.
Listening == SessionsOK /\ \A e \in DOMAIN sessions : Right(Belief(e), sessions[e])

LEMMA RightIsFollowing == Listening => ListenerFollowsSessions
BY DEF Listening, Right, ListenerFollowsSessions

\* A step that changes the session of one ECU, and what is believed of it.
LEMMA OneSession ==
  ASSUME Listening, NEW e \in Ecu,
         sessions' \in [DOMAIN sessions \union {e} -> DiagnosticSessionState],
         \A f \in DOMAIN sessions \ {e} : sessions'[f] = sessions[f],
         \/ heard' = heard /\ Right(Belief(e), sessions'[e])
         \/ \E b \in Beliefs : heard' = Believing({e}, b) /\ Right(b, sessions'[e])
  PROVE  Listening'
<1>1. CASE heard' = heard /\ Right(Belief(e), sessions'[e])
  <2>1. SessionsOK'
    BY <1>1 DEF Listening, SessionsOK
  <2>2. ASSUME NEW f \in DOMAIN sessions' PROVE Right(Belief(f), sessions[f])'
    BY <1>1 DEF Listening, Belief, Right
  <2> QED
    BY <2>1, <2>2 DEF Listening
<1>2. ASSUME NEW b \in Beliefs, heard' = Believing({e}, b), Right(b, sessions'[e])
      PROVE  Listening'
  <2>1. heard' \in [DOMAIN heard \union {e} -> Beliefs]
    BY <1>2 DEF Listening, SessionsOK, Believing
  <2>2. heard'[e] = b /\ \A f \in DOMAIN heard \ {e} : heard'[f] = heard[f]
    BY <1>2 DEF Believing
  <2>3. SessionsOK'
    BY <2>1 DEF Listening, SessionsOK
  <2>4. ASSUME NEW f \in DOMAIN sessions' PROVE Right(Belief(f), sessions[f])'
    <3>1. CASE f = e
      BY <1>2, <2>1, <2>2, <3>1 DEF Belief, Right
    <3>2. CASE f # e
      BY <2>1, <2>2, <3>2 DEF Listening, Belief, Right
    <3> QED
      BY <3>1, <3>2
  <2> QED
    BY <2>3, <2>4 DEF Listening
<1> QED
  BY <1>1, <1>2

\* What is believed of the ECU of a message is right of its session, which the
\* message may have brought into being.
LEMMA ActiveStep ==
  ASSUME Listening, NEW e \in Ecu
  PROVE  Belief(e) \in Beliefs /\ Right(Belief(e), Active(e)[e])
<1>1. CASE e \in DOMAIN sessions
  <2>1. sessions[e] \in DiagnosticSessionState
    BY <1>1 DEF Listening, SessionsOK
  <2>2. Active(e)[e] = [sessions[e] EXCEPT !.idle = 0]
    BY <1>1, ActiveIs DEF Listening
  <2>3. Right(Belief(e), sessions[e])
    BY <1>1 DEF Listening
  <2>4. Right(Belief(e), Active(e)[e])
    BY <2>1, <2>2, <2>3 DEF Right, DiagnosticSessionState
  <2>5. Belief(e) \in Beliefs
    BY NewStateType DEF Belief, Listening, SessionsOK
  <2> QED
    BY <2>4, <2>5
<1>2. CASE e \notin DOMAIN sessions
  <2>1. Active(e)[e] = [NewState EXCEPT !.idle = 0]
    BY <1>2, ActiveIs DEF Listening
  <2>2. Belief(e) = Unheard
    BY <1>2 DEF Belief, Listening, SessionsOK
  <2> QED
    BY <2>1, <2>2, NewStateType DEF Right, NewState, Unheard
<1> QED
  BY <1>1, <1>2

\* A message that only makes its ECU active.
LEMMA PlainMessage ==
  ASSUME Listening, NEW e \in Ecu, sessions' = Active(e), heard' = heard
  PROVE  Listening'
BY OneSession, ActiveStep, ActiveIs DEF Listening

\* A session response: the listener is told unless the type is the same.
LEMMA SessionResponse ==
  ASSUME Listening, NEW e \in Ecu, NEW type \in SessionType \union {"default"},
         sessions' = SessionStarts(e, type),
         heard' = Hears(EventOfResponse(Active(e)[e], sessions'[e]), e, sessions'[e])
  PROVE  Listening'
<1> DEFINE old == Active(e)[e]
           new == [old EXCEPT !.session_type = type, !.session_active = TRUE]
<1>1. /\ Active(e) \in [DOMAIN sessions \union {e} -> DiagnosticSessionState]
      /\ \A f \in DOMAIN sessions \ {e} : Active(e)[f] = sessions[f]
  BY ActiveIs DEF Listening
<1>2. old \in DiagnosticSessionState
  BY <1>1
<1>3. /\ new \in DiagnosticSessionState
      /\ new.session_type = type /\ new.session_active = TRUE
      /\ new.security_level = old.security_level
  BY <1>2 DEF DiagnosticSessionState
<1>4. sessions' = [Active(e) EXCEPT ![e] = new]
  BY DEF SessionStarts
<1>5. Right(Belief(e), old) /\ Belief(e) \in Beliefs
  BY ActiveStep
<1> HIDE DEF old, new
<1>6. /\ sessions' \in [DOMAIN sessions \union {e} -> DiagnosticSessionState]
      /\ \A f \in DOMAIN sessions \ {e} : sessions'[f] = sessions[f]
      /\ sessions'[e] = new
  BY <1>1, <1>3, <1>4
<1>7. CASE old.session_type = type
  <2>1. EventOfResponse(old, new) = "none"
    BY <1>3, <1>7 DEF EventOfResponse
  <2>2. heard' = heard
    BY <1>6, <2>1 DEF Hears, old
  <2>3. Right(Belief(e), new)
    BY <1>3, <1>5, <1>7 DEF Right
  <2> QED
    BY <1>6, <2>2, <2>3, OneSession
<1>8. CASE old.session_type # type
  <2> DEFINE b == [Belief(e) EXCEPT !.session_type = type, !.session_active = TRUE]
  <2>1. EventOfResponse(old, new) = "SessionChanged"
    BY <1>3, <1>8 DEF EventOfResponse
  <2>2. heard' = Believing({e}, b)
    BY <1>3, <1>6, <2>1 DEF Hears, old
  <2>3. b \in Beliefs /\ Right(b, new)
    BY <1>3, <1>5 DEF Right, Beliefs
  <2> HIDE DEF b
  <2> QED
    BY <1>6, <2>2, <2>3, OneSession
<1> QED
  BY <1>7, <1>8


\* A security access response: an accepted key is told with the level it leaves.
LEMMA KeyResponse ==
  ASSUME Listening, NEW e \in Ecu, NEW a \in AccessType,
         sessions' = KeyAccepted(e, a),
         heard' = Hears(IF a % 2 = 1 THEN "none" ELSE "SecurityUnlocked", e, sessions'[e])
  PROVE  Listening'
<1> DEFINE old == Active(e)[e]
           level == Max({old.security_level, (a + 1) \div 2})
           new == [old EXCEPT !.security_level = level]
<1>1. /\ Active(e) \in [DOMAIN sessions \union {e} -> DiagnosticSessionState]
      /\ \A f \in DOMAIN sessions \ {e} : Active(e)[f] = sessions[f]
  BY ActiveIs DEF Listening
<1>2. old \in DiagnosticSessionState
  BY <1>1
<1>3. Right(Belief(e), old) /\ Belief(e) \in Beliefs
  BY ActiveStep
<1>4. CASE a % 2 = 1
  <2>1. sessions' = Active(e)
    BY <1>4 DEF KeyAccepted
  <2>2. heard' = heard
    BY <1>4 DEF Hears
  <2> QED
    BY <2>1, <2>2, PlainMessage
<1>5. CASE a % 2 # 1
  <2>1. a \in 0..255 /\ a % 2 = 0
    BY <1>5, SessionAssumption
  <2>2. (a + 1) \div 2 \in SecurityLevel /\ SecurityLevel \subseteq Int
    BY <2>1, SessionAssumption DEF SecurityLevel
  <2>3. level \in SecurityLevel
    <3>1. old.security_level \in SecurityLevel
      BY <1>2 DEF DiagnosticSessionState
    <3> QED
      BY <2>2, <3>1, HigherLevel
  <2> HIDE DEF level
  <2>4. /\ new \in DiagnosticSessionState
        /\ new.session_type = old.session_type /\ new.session_active = old.session_active
        /\ new.security_level = level
    BY <1>2, <2>3 DEF DiagnosticSessionState
  <2>5. sessions' = [Active(e) EXCEPT ![e] = new]
    BY <1>5 DEF KeyAccepted, level
  <2> DEFINE b == [Belief(e) EXCEPT !.security_level = level]
  <2>6. b \in Beliefs /\ Right(b, new)
    BY <1>3, <2>3, <2>4 DEF Right, Beliefs
  <2> HIDE DEF old, new
  <2>7. /\ sessions' \in [DOMAIN sessions \union {e} -> DiagnosticSessionState]
        /\ \A f \in DOMAIN sessions \ {e} : sessions'[f] = sessions[f]
        /\ sessions'[e] = new
    BY <1>1, <2>4, <2>5
  <2>8. heard' = Believing({e}, b)
    BY <1>5, <2>4, <2>7 DEF Hears
  <2> HIDE DEF b
  <2> QED
    BY <2>6, <2>7, <2>8, OneSession
<1> QED
  BY <1>4, <1>5

\* A session that is over is in the default session, with nothing unlocked.
LEMMA EndedIs ==
  ASSUME NEW s \in DiagnosticSessionState
  PROVE  Ended(s) \in DiagnosticSessionState /\ Right(Unheard, Ended(s))
BY DEF Ended, DiagnosticSessionState, SecurityLevel, Right, Unheard

\* An ECU that was reset.
LEMMA ResetResponse ==
  ASSUME Listening, NEW e \in Ecu,
         sessions' = [Active(e) EXCEPT ![e] = Ended(@)],
         heard' = Hears("SessionEnded", e, sessions'[e])
  PROVE  Listening'
<1>1. /\ Active(e) \in [DOMAIN sessions \union {e} -> DiagnosticSessionState]
      /\ \A f \in DOMAIN sessions \ {e} : Active(e)[f] = sessions[f]
  BY ActiveIs DEF Listening
<1>2. heard' = Believing({e}, Unheard)
  BY DEF Hears
<1>3. /\ Ended(Active(e)[e]) \in DiagnosticSessionState
      /\ Right(Unheard, Ended(Active(e)[e]))
  BY <1>1, EndedIs
<1>4. /\ sessions' \in [DOMAIN sessions \union {e} -> DiagnosticSessionState]
      /\ \A f \in DOMAIN sessions \ {e} : sessions'[f] = sessions[f]
      /\ sessions'[e] = Ended(Active(e)[e])
  BY <1>1, <1>3
<1> QED
  BY <1>2, <1>3, <1>4, NewStateType, OneSession

\* The operations that know nothing of a message.
LEMMA TrackedStep ==
  ASSUME Listening, NEW e \in Ecu, heard' = heard,
         \/ sessions' = get_or_create_state(e)
         \/ \E s3 \in S3 : sessions' = [get_or_create_state(e) EXCEPT ![e].s3 = s3]
  PROVE  Listening'
<1> DEFINE g == get_or_create_state(e)
<1>1. /\ g \in [DOMAIN sessions \union {e} -> DiagnosticSessionState]
      /\ \A f \in DOMAIN sessions \ {e} : g[f] = sessions[f]
      /\ g[e] = IF e \in DOMAIN sessions THEN sessions[e] ELSE NewState
  BY NewStateType DEF Listening, SessionsOK, get_or_create_state
<1>2. Right(Belief(e), g[e])
  <2>1. CASE e \in DOMAIN sessions
    BY <1>1, <2>1 DEF Listening
  <2>2. CASE e \notin DOMAIN sessions
    BY <1>1, <2>2 DEF Listening, SessionsOK, Belief, Right, NewState, Unheard
  <2> QED
    BY <2>1, <2>2
<1>3. CASE sessions' = g
  BY <1>1, <1>2, <1>3, OneSession
<1>4. ASSUME NEW s3 \in S3, sessions' = [g EXCEPT ![e].s3 = s3]
      PROVE  Listening'
  <2> HIDE DEF g
  <2> DEFINE new == [g[e] EXCEPT !.s3 = s3]
  <2>1. g[e] \in DiagnosticSessionState
    BY <1>1
  <2>2. new \in DiagnosticSessionState /\ Right(Belief(e), new)
    BY <1>2, <2>1 DEF DiagnosticSessionState, Right
  <2>3. sessions' = [g EXCEPT ![e] = new]
    BY <1>4
  <2> HIDE DEF new
  <2>4. /\ sessions' \in [DOMAIN sessions \union {e} -> DiagnosticSessionState]
        /\ \A f \in DOMAIN sessions \ {e} : sessions'[f] = sessions[f]
        /\ sessions'[e] = new
    BY <1>1, <2>2, <2>3
  <2> QED
    BY <2>2, <2>4, OneSession
<1> QED
  BY <1>3, <1>4

\* Sessions that time out together.
LEMMA TimeoutsHeard ==
  ASSUME Listening, check_timeouts
  PROVE  Listening'
<1> DEFINE late == {e \in DOMAIN sessions : is_potentially_timed_out(sessions[e])}
<1>1. /\ sessions' = [e \in DOMAIN sessions |->
                        IF e \in late THEN Ended(sessions[e]) ELSE sessions[e]]
      /\ heard' = Believing(late, Unheard)
  BY DEF check_timeouts
<1>2. late \subseteq DOMAIN sessions
  OBVIOUS
<1> HIDE DEF late
<1>3. \A e \in DOMAIN sessions : sessions[e] \in DiagnosticSessionState
  BY DEF Listening, SessionsOK
<1>4. sessions' \in [DOMAIN sessions -> DiagnosticSessionState]
  BY <1>1, <1>3, EndedIs
<1>5. heard' \in [DOMAIN heard \union late -> Beliefs]
  BY <1>1, NewStateType DEF Believing, Listening, SessionsOK
<1>6. SessionsOK'
  BY <1>2, <1>4, <1>5 DEF Listening, SessionsOK
<1>7. ASSUME NEW e \in DOMAIN sessions' PROVE Right(Belief(e), sessions[e])'
  <2>1. CASE e \in late
    <3>1. sessions'[e] = Ended(sessions[e]) /\ heard'[e] = Unheard /\ e \in DOMAIN heard'
      BY <1>1, <1>2, <2>1 DEF Believing
    <3>2. Right(Unheard, sessions'[e])
      BY <1>2, <1>3, <2>1, <3>1, EndedIs
    <3> QED
      BY <3>1, <3>2 DEF Belief, Right
  <2>2. CASE e \notin late
    <3>1. e \in DOMAIN sessions /\ sessions'[e] = sessions[e]
      BY <1>1, <1>4, <2>2
    <3>2. /\ e \in DOMAIN heard' <=> e \in DOMAIN heard
          /\ e \in DOMAIN heard => heard'[e] = heard[e]
      BY <1>1, <2>2 DEF Believing
    <3> QED
      BY <3>1, <3>2 DEF Listening, Belief, Right
  <2> QED
    BY <2>1, <2>2
<1> QED
  BY <1>6, <1>7 DEF Listening


\* An ECU that is forgotten, by the listener too, or all of them.
LEMMA ForgetStep ==
  ASSUME Listening, NEW E,
         sessions' = [f \in DOMAIN sessions \ E |-> sessions[f]],
         heard' = [f \in DOMAIN heard \ E |-> heard[f]]
  PROVE  Listening'
<1>1. SessionsOK'
  BY DEF Listening, SessionsOK
<1>2. ASSUME NEW e \in DOMAIN sessions' PROVE Right(Belief(e), sessions[e])'
  <2>1. e \in DOMAIN sessions \ E /\ sessions'[e] = sessions[e]
    OBVIOUS
  <2>2. /\ e \in DOMAIN heard' <=> e \in DOMAIN heard
        /\ e \in DOMAIN heard => heard'[e] = heard[e]
    BY <2>1
  <2> QED
    BY <2>1, <2>2 DEF Listening, Belief, Right
<1> QED
  BY <1>1, <1>2 DEF Listening

\* Time passes.
LEMMA IdleStep ==
  ASSUME Listening, heard' = heard,
         sessions' = [e \in DOMAIN sessions |-> Idler(sessions[e])]
  PROVE  Listening'
<1>1. ASSUME NEW e \in DOMAIN sessions
      PROVE  Idler(sessions[e]) \in DiagnosticSessionState /\ Right(Belief(e), Idler(sessions[e]))
  <2>1. sessions[e] \in DiagnosticSessionState /\ Right(Belief(e), sessions[e])
    BY DEF Listening, SessionsOK
  <2>2. \A n \in 0..MaxAge : (IF n < MaxAge THEN n + 1 ELSE n) \in 0..MaxAge
    BY SessionAssumption
  <2> QED
    BY <2>1, <2>2 DEF Idler, DiagnosticSessionState, Right
<1>2. SessionsOK'
  BY <1>1 DEF Listening, SessionsOK
<1>3. ASSUME NEW e \in DOMAIN sessions' PROVE Right(Belief(e), sessions[e])'
  BY <1>1 DEF Belief, Right
<1> QED
  BY <1>2, <1>3 DEF Listening

\* The ECU of a message is one of the ECUs.
LEMMA EcuOfLink ==
  /\ \A link \in Link : link[2] \in Ecu
  /\ \A link \in Correlator!ResponseLink : link[1] \in Ecu
BY DEF Ecu, Correlator!ResponseLink, Correlator!Reversed

LEMMA ListeningInit == Init => Listening
BY DEF Init, Listening, SessionsOK

LEMMA ListeningNext ==
  ASSUME Listening, [Next]_vars
  PROVE  Listening'
<1>1. ASSUME NEW link \in Link, NEW service \in Service, NEW delay \in Delays,
             Request(link, service, delay)
      PROVE  Listening'
  BY <1>1, EcuOfLink, PlainMessage DEF Request
<1>2. ASSUME NEW link \in Correlator!ResponseLink, NEW service \in Service,
             PositiveResponse(link, service)
      PROVE  Listening'
  <2> DEFINE e == link[1]
  <2>1. e \in Ecu
    BY EcuOfLink
  <2> HIDE DEF e
  <2>2. \/ \E type \in SessionType \union {"default"} :
             /\ sessions' = SessionStarts(e, type)
             /\ heard' = Hears(EventOfResponse(Active(e)[e], sessions'[e]), e, sessions'[e])
        \/ \E a \in AccessType :
             /\ sessions' = KeyAccepted(e, a)
             /\ heard' = Hears(IF a % 2 = 1 THEN "none" ELSE "SecurityUnlocked", e, sessions'[e])
        \/ /\ sessions' = [Active(e) EXCEPT ![e] = Ended(@)]
           /\ heard' = Hears("SessionEnded", e, sessions'[e])
        \/ sessions' = Active(e) /\ heard' = heard
    BY <1>2, Zenon DEF PositiveResponse, e
  <2> QED
    BY <2>1, <2>2, SessionResponse, KeyResponse, ResetResponse, PlainMessage
<1>3. ASSUME NEW link \in Correlator!ResponseLink, NEW service \in Service,
             NegativeResponse(link, service)
      PROVE  Listening'
  BY <1>3, EcuOfLink, PlainMessage DEF NegativeResponse
<1>4. ASSUME NEW e \in Ecu, process_routing_activation(e)
      PROVE  Listening'
  BY <1>4, TrackedStep DEF process_routing_activation
<1>5. ASSUME NEW e \in Ecu, NEW s3 \in S3, set_timing(e, s3)
      PROVE  Listening'
  BY <1>5, TrackedStep DEF set_timing
<1>6. CASE check_timeouts
  BY <1>6, TimeoutsHeard
<1>7. ASSUME NEW e \in Ecu, reset_ecu(e)
      PROVE  Listening'
  BY <1>7, ForgetStep DEF reset_ecu
<1>8. CASE reset
  BY <1>8 DEF reset, Listening, SessionsOK
<1>9. CASE Tick
  BY <1>9, IdleStep DEF Tick
<1>10. CASE UNCHANGED vars
  BY <1>10 DEF vars, Listening, SessionsOK, Belief, Right
<1> QED
  BY <1>1, <1>2, <1>3, <1>4, <1>5, <1>6, <1>7, <1>8, <1>9, <1>10
     DEF Next, process_doip_packet, DiagnosticMessage

LEMMA ListeningAlways == Spec => []Listening
BY ListeningInit, ListeningNext, PTL DEF Spec

\* A listener that only follows the events is right about every session, for
\* any ECUs, session types, access types and S3 values: handle_uds_message,
\* check_timeouts and the resets emit no event too few and none too many.
THEOREM ListenerIsRight == Spec => []ListenerFollowsSessions
BY ListeningAlways, RightIsFollowing, PTL
-----------------------------------------------------------------------------
(* The correlator behind the manager.                                      *)

\* A non-empty set of pending requests has an oldest one, and Oldest is it.
LEMMA OldestIsOldest ==
  ASSUME NEW S \in SUBSET Correlator!PendingRequest, S # {}
  PROVE  Correlator!Oldest(S) \in S
<1> DEFINE A == {p.arrival : p \in S}
<1>1. A \subseteq Nat /\ A # {}
  BY DEF Correlator!PendingRequest
<1>2. PICK n \in A : \A m \in A : n <= m
  <2> HIDE DEF A
  <2> QED
    BY <1>1, LeastNatural
<1>3. \E p \in S : \A q \in S : p.arrival <= q.arrival
  BY <1>2
<1> QED
  BY <1>3 DEF Correlator!Oldest

\* The request a response is taken for is one of those of its link.
LEMMA FoundIsPending ==
  ASSUME pending \subseteq Correlator!PendingRequest, NEW link, NEW service,
         Correlator!Deque(link) # {}
  PROVE  /\ Correlator!find_pending_for_response(link, service) \in pending
         /\ Correlator!find_pending_for_response(link, service).link = link
<1> DEFINE S == IF Correlator!ExactMatches(link, service) # {}
                THEN Correlator!ExactMatches(link, service) ELSE Correlator!Deque(link)
<1>1. S \in SUBSET Correlator!PendingRequest /\ S # {} /\ \A p \in S : p \in pending /\ p.link = link
  BY DEF Correlator!ExactMatches, Correlator!Deque
<1>2. Correlator!Oldest(S) \in S
  <2> HIDE DEF S
  <2> QED
    BY <1>1, OldestIsOldest
<1> QED
  BY <1>1, <1>2 DEF Correlator!find_pending_for_response


\* What a step of the correlator leaves pending: requests of before, on the
\* same links, or the one just recorded.
LEMMA PendingStays ==
  ASSUME NegativesOK,
         DOMAIN sessions \subseteq DOMAIN sessions', forgotten' = forgotten,
         pending' \subseteq Correlator!PendingRequest, arrivals' \in Nat,
         \A q \in pending' : q.link[2] \in DOMAIN sessions' \/ \E p \in pending : q.link = p.link,
         told' = told, DOMAIN stats' = DOMAIN stats,
         stats'.negative_responses = stats.negative_responses
  PROVE  NegativesOK'
BY DEF NegativesOK, NegativesForwarded

\* Matched negative responses are passed on: the ECU is tracked since the
\* request was.
LEMMA NegativeStep ==
  ASSUME NegativesOK, Listening, NEW link \in Correlator!ResponseLink, NEW service \in Service,
         NegativeResponse(link, service)
  PROVE  NegativesOK'
<1> DEFINE e == link[1]
<1>1. e \in Ecu /\ Correlator!ResponseKey(link) = <<link[2], e>>
  BY EcuOfLink DEF Correlator!ResponseKey
<1>2. sessions' = Active(e) /\ forgotten' = forgotten
  BY DEF NegativeResponse
<1>3. DOMAIN sessions' = DOMAIN sessions \union {e}
  BY <1>1, <1>2, ActiveIs DEF Listening
<1>4. CASE Correlator!UnmatchedResponse(link) /\ UNCHANGED told
  <2>1. /\ pending' = pending /\ arrivals' = arrivals
        /\ stats' = [stats EXCEPT !.responses_unmatched = @ + 1]
    BY <1>4 DEF Correlator!UnmatchedResponse
  <2> QED
    BY <1>1, <1>2, <1>3, <1>4, <2>1, PendingStays DEF NegativesOK
<1>5. CASE Correlator!ResponsePending(link, service) /\ UNCHANGED told
  <2> DEFINE found == Correlator!find_pending_for_response(Correlator!ResponseKey(link), service)
             later == [found EXCEPT !.pending_count = @ + 1]
  <2>1. found \in pending
    BY <1>5, FoundIsPending DEF Correlator!ResponsePending, NegativesOK
  <2>2. later \in Correlator!PendingRequest /\ later.link = found.link
    BY <2>1 DEF NegativesOK, Correlator!PendingRequest
  <2>3. /\ pending' = (pending \ {found}) \union {later}
        /\ stats' = [stats EXCEPT !.response_pending_count = @ + 1]
        /\ arrivals' = arrivals
    BY <1>5 DEF Correlator!ResponsePending
  <2> HIDE DEF found, later
  <2> QED
    BY <1>1, <1>2, <1>3, <1>5, <2>1, <2>2, <2>3, PendingStays DEF NegativesOK
<1>6. CASE /\ Correlator!FinalResponse(link, service, "negative")
           /\ told' = [told EXCEPT !.negative_response = @ + Forwarded(TRUE, e)]
  <2> DEFINE found == Correlator!find_pending_for_response(Correlator!ResponseKey(link), service)
  <2>1. found \in pending /\ found.link = <<link[2], e>>
    BY <1>1, <1>6, FoundIsPending DEF Correlator!FinalResponse, NegativesOK
  <2>2. /\ pending' \subseteq pending /\ arrivals' = arrivals
        /\ stats' = [stats EXCEPT !.responses_matched = @ + 1, !.negative_responses = @ + 1]
    BY <1>6 DEF Correlator!FinalResponse
  <2>3. /\ DOMAIN stats' = DOMAIN stats
        /\ stats'.negative_responses = stats.negative_responses + 1
    BY <2>2 DEF NegativesOK
  <2>4. forgotten = {} => Forwarded(TRUE, e) = 1
    BY <2>1 DEF NegativesOK, Forwarded
  <2>5. Forwarded(TRUE, e) \in Nat
    BY DEF Forwarded
  <2>6. /\ told' \in [response_timeout : Nat, negative_response : Nat]
        /\ told'.negative_response = told.negative_response + Forwarded(TRUE, e)
    <3> DEFINE n == Forwarded(TRUE, e)
    <3>1. n \in Nat
      BY <2>5
    <3>2. told' = [told EXCEPT !.negative_response = @ + n]
      BY <1>6
    <3>3. told \in [response_timeout : Nat, negative_response : Nat]
      BY DEF NegativesOK
    <3> HIDE DEF n
    <3>4. /\ told' \in [response_timeout : Nat, negative_response : Nat]
          /\ told'.negative_response = told.negative_response + n
      BY <3>1, <3>2, <3>3
    <3> QED
      BY <3>4 DEF n
  <2>7. NegativesForwarded'
    BY <1>2, <2>3, <2>4, <2>6 DEF NegativesOK, NegativesForwarded
  <2>8. pending' \subseteq Correlator!PendingRequest
    BY <2>2 DEF NegativesOK
  <2>9. forgotten' = {} => \A p \in pending' : p.link[2] \in DOMAIN sessions'
    BY <1>2, <1>3, <2>2 DEF NegativesOK
  <2> QED
    BY <2>2, <2>3, <2>6, <2>7, <2>8, <2>9 DEF NegativesOK
<1> QED
  BY <1>4, <1>5, <1>6 DEF NegativeResponse


\* A positive response leaves the count of negative ones alone.
LEMMA PositiveStep ==
  ASSUME NegativesOK, Listening, NEW link \in Correlator!ResponseLink, NEW service \in Service,
         PositiveResponse(link, service)
  PROVE  NegativesOK'
<1> DEFINE e == link[1]
<1>1. e \in Ecu
  BY EcuOfLink
<1>2. forgotten' = forgotten /\ told' = told
  BY DEF PositiveResponse
<1>3. DOMAIN sessions' = DOMAIN sessions \union {e}
  <2>1. DOMAIN sessions' = DOMAIN Active(e)
    <3>1. \A type : DOMAIN SessionStarts(e, type) = DOMAIN Active(e)
      BY DEF SessionStarts
    <3>2. \A a : DOMAIN KeyAccepted(e, a) = DOMAIN Active(e)
      BY DEF KeyAccepted
    <3>3. DOMAIN [Active(e) EXCEPT ![e] = Ended(@)] = DOMAIN Active(e)
      OBVIOUS
    <3> QED
      BY <3>1, <3>2, <3>3, Zenon DEF PositiveResponse
  <2> QED
    BY <1>1, <2>1, ActiveIs DEF Listening
<1>4. CASE Correlator!UnmatchedResponse(link)
  <2>1. /\ pending' = pending /\ arrivals' = arrivals
        /\ stats' = [stats EXCEPT !.responses_unmatched = @ + 1]
    BY <1>4 DEF Correlator!UnmatchedResponse
  <2> QED
    BY <1>1, <1>2, <1>3, <2>1, PendingStays DEF NegativesOK
<1>5. CASE Correlator!FinalResponse(link, service, "positive")
  <2>1. /\ pending' \subseteq pending /\ arrivals' = arrivals
        /\ stats' = [stats EXCEPT !.responses_matched = @ + 1, !.positive_responses = @ + 1]
    BY <1>5 DEF Correlator!FinalResponse
  <2> QED
    BY <1>1, <1>2, <1>3, <2>1, PendingStays DEF NegativesOK
<1> QED
  BY <1>4, <1>5 DEF PositiveResponse

\* A request makes its ECU tracked.
LEMMA RequestStep ==
  ASSUME NegativesOK, Listening, NEW link \in Link, NEW service \in Service, NEW delay \in Delays,
         Request(link, service, delay)
  PROVE  NegativesOK'
<1> DEFINE request == [link |-> link, service |-> service, arrival |-> arrivals + 1,
                       age |-> delay, pending_count |-> 0]
<1>1. /\ pending' \subseteq pending \union {request}
      /\ stats' = [stats EXCEPT !.requests_recorded = @ + 1]
      /\ sessions' = Active(link[2]) /\ arrivals' = arrivals + 1
      /\ UNCHANGED <<told, forgotten>>
  BY DEF Request, Correlator!record_request
<1>2. DOMAIN sessions' = DOMAIN sessions \union {link[2]}
  BY <1>1, EcuOfLink, ActiveIs DEF Listening
<1>3. request \in Correlator!PendingRequest /\ request.link = link
  BY SessionAssumption DEF NegativesOK, Correlator!PendingRequest
<1> HIDE DEF request
<1> QED
  BY <1>1, <1>2, <1>3, EcuOfLink, PendingStays DEF NegativesOK


\* Everything the manager does keeps NegativesOK.
LEMMA NegativesInit == Init => NegativesOK
BY DEF Init, Correlator!Init, Correlator!NoStatistics, NegativesOK, NegativesForwarded

LEMMA NegativesNext ==
  ASSUME NegativesOK, Listening, [Next]_vars
  PROVE  NegativesOK'
<1>1. ASSUME NEW link \in Link, NEW service \in Service, NEW delay \in Delays,
             Request(link, service, delay)
      PROVE  NegativesOK'
  BY <1>1, RequestStep
<1>2. ASSUME NEW link \in Correlator!ResponseLink, NEW service \in Service,
             PositiveResponse(link, service) \/ NegativeResponse(link, service)
      PROVE  NegativesOK'
  BY <1>2, PositiveStep, NegativeStep
<1>3. ASSUME NEW e \in Ecu, UNCHANGED <<correlator_vars, told, forgotten>>,
             DOMAIN sessions \subseteq DOMAIN sessions'
      PROVE  NegativesOK'
  BY <1>3, PendingStays DEF correlator_vars, NegativesOK
<1>4. ASSUME NEW e \in Ecu, process_routing_activation(e)
      PROVE  NegativesOK'
  BY <1>3, <1>4 DEF process_routing_activation, get_or_create_state
<1>5. ASSUME NEW e \in Ecu, NEW s3 \in S3, set_timing(e, s3)
      PROVE  NegativesOK'
  <2>1. DOMAIN sessions' = DOMAIN get_or_create_state(e)
    BY <1>5 DEF set_timing
  <2> QED
    BY <1>3, <1>5, <2>1 DEF set_timing, get_or_create_state
<1>6. CASE check_timeouts
  <2>1. {p \in pending : Correlator!is_timed_out(p) /\ Forwarded(FALSE, p.link[2]) = 1} = {}
    BY DEF Forwarded
  <2>2. told' = [told EXCEPT !.response_timeout = @ + 0]
    BY <1>6, <2>1, FS_EmptySet DEF check_timeouts
  <2>3. told' = told
    <3>1. told \in [response_timeout : Nat, negative_response : Nat]
      BY DEF NegativesOK
    <3>2. told.response_timeout + 0 = told.response_timeout
      BY <3>1
    <3>3. told' = [told EXCEPT !.response_timeout = told.response_timeout]
      BY <2>2, <3>2
    <3> QED
      BY <3>1, <3>3
  <2>4. /\ pending' \subseteq pending /\ arrivals' = arrivals
        /\ \E n : stats' = [stats EXCEPT !.pending_timeouts = n]
    BY <1>6 DEF check_timeouts, Correlator!check_timeouts
  <2>5. DOMAIN stats' = DOMAIN stats /\ stats'.negative_responses = stats.negative_responses
    BY <2>4 DEF NegativesOK
  <2>6. DOMAIN sessions' = DOMAIN sessions /\ forgotten' = forgotten
    BY <1>6 DEF check_timeouts
  <2> QED
    BY <2>3, <2>4, <2>5, <2>6, PendingStays DEF NegativesOK
<1>7. ASSUME NEW e \in Ecu, reset_ecu(e)
      PROVE  NegativesOK'
  BY <1>7 DEF reset_ecu, correlator_vars, NegativesOK, NegativesForwarded
<1>8. CASE reset
  BY <1>8 DEF reset, Correlator!reset, NegativesOK, NegativesForwarded
<1>9. CASE Tick
  <2>1. ASSUME NEW p \in pending
        PROVE  Correlator!Older(p) \in Correlator!PendingRequest /\ Correlator!Older(p).link = p.link
    <3>1. \A n \in 0..MaxAge : (IF n < MaxAge THEN n + 1 ELSE n) \in 0..MaxAge
      BY SessionAssumption
    <3> QED
      BY <3>1 DEF NegativesOK, Correlator!Older, Correlator!PendingRequest
  <2>2. /\ pending' = {Correlator!Older(p) : p \in pending}
        /\ DOMAIN sessions' = DOMAIN sessions
        /\ UNCHANGED <<stats, arrivals, told, forgotten>>
    BY <1>9 DEF Tick
  <2> QED
    BY <2>1, <2>2, PendingStays DEF NegativesOK
<1>10. CASE UNCHANGED vars
  BY <1>10 DEF vars, correlator_vars, NegativesOK, NegativesForwarded
<1> QED
  BY <1>1, <1>2, <1>4, <1>5, <1>6, <1>7, <1>8, <1>9, <1>10
     DEF Next, process_doip_packet, DiagnosticMessage

LEMMA NegativesAlways == Spec => []NegativesOK
<1>1. Init => NegativesOK
  BY NegativesInit
<1>2. NegativesOK /\ Listening /\ [Next]_vars => NegativesOK'
  BY NegativesNext
<1> QED
  BY <1>1, <1>2, ListeningAlways, PTL DEF Spec

\* Every negative response the correlator matched was passed on, as long as
\* reset_ecu is not called, for any interleaving of requests, responses,
\* timeouts and resets on any links (handle_uds_message).
THEOREM NegativesPassedOn == Spec => []NegativesForwarded
BY NegativesAlways, PTL DEF NegativesOK
-----------------------------------------------------------------------------
(* The manager drives its correlator as any client may.                    *)

\* A tick that makes no request older changes none.
LEMMA TickIsTick ==
  ASSUME NegativesOK, Tick
  PROVE  [Correlator!Next]_Correlator!vars
<1>1. CASE \E p \in pending : p.age < MaxAge
  BY <1>1 DEF Tick, Correlator!Tick, Correlator!Next
<1>2. CASE ~ \E p \in pending : p.age < MaxAge
  <2>1. ASSUME NEW p \in pending PROVE Correlator!Older(p) = p
    BY <1>2 DEF NegativesOK, Correlator!Older, Correlator!PendingRequest
  <2>2. pending' = pending
    BY <2>1 DEF Tick
  <2> QED
    BY <2>2 DEF Tick, Correlator!vars
<1> QED
  BY <1>1, <1>2

LEMMA CorrelatorStep ==
  ASSUME NegativesOK, [Next]_vars
  PROVE  [Correlator!Next]_Correlator!vars
<1>1. ASSUME NEW link \in Link, NEW service \in Service, NEW delay \in Delays,
             Request(link, service, delay)
      PROVE  Correlator!Next
  BY <1>1 DEF Request, Correlator!Next
<1>2. ASSUME NEW link \in Correlator!ResponseLink, NEW service \in Service,
             PositiveResponse(link, service) \/ NegativeResponse(link, service)
      PROVE  Correlator!Next
  <2>1. Correlator!process_response(link, service)
    BY <1>2 DEF PositiveResponse, NegativeResponse, Correlator!process_response, Correlator!Verdict
  <2> QED
    BY <2>1 DEF Correlator!Next
<1>3. CASE UNCHANGED correlator_vars
  BY <1>3 DEF correlator_vars, Correlator!vars
<1>4. CASE check_timeouts
  BY <1>4 DEF check_timeouts, Correlator!Next
<1>5. CASE reset
  BY <1>5 DEF reset, Correlator!Next
<1>6. CASE Tick
  BY <1>6, TickIsTick
<1>7. ASSUME NEW e \in Ecu, NEW s3 \in S3,
             process_routing_activation(e) \/ set_timing(e, s3) \/ reset_ecu(e)
      PROVE  UNCHANGED correlator_vars
  BY <1>7 DEF process_routing_activation, set_timing, reset_ecu
<1>8. CASE UNCHANGED vars
  BY <1>3, <1>8 DEF vars
<1> QED
  BY <1>1, <1>2, <1>3, <1>4, <1>5, <1>6, <1>7, <1>8, SessionAssumption
     DEF Next, process_doip_packet, DiagnosticMessage

\* The correlator inside the manager behaves as RequestCorrelator does by
\* itself, so what is proved of that holds behind the manager: responses are
\* matched with the right requests, oldest first, and the books balance.
THEOREM DrivesCorrelator == Spec => Correlator!Spec
<1>1. Init => Correlator!Init
  BY DEF Init
<1>2. NegativesOK /\ [Next]_vars => [Correlator!Next]_Correlator!vars
  BY CorrelatorStep
<1> QED
  BY <1>1, <1>2, NegativesAlways, PTL DEF Spec, Correlator!Spec
-----------------------------------------------------------------------------
(* DtcManager.                                                             *)

\* The codes of an ECU, and its entry in the map.
Codes == UNION {[D -> DTCRecord] : D \in SUBSET Dtc}
ECUEntry == [dtcs : Codes, cleared_history : Seq(DTCRecord)]

\* The map is well formed at time t: no record is newer, and no two records of an
\* ECU are of the same time.
WellFormed(data, t) ==
  /\ DOMAIN data \subseteq LogicalAddress
  /\ data \in [DOMAIN data -> ECUEntry]
  /\ \A e \in DOMAIN data : \A d \in DOMAIN data[e].dtcs :
       /\ data[e].dtcs[d].first_seen <= t
       /\ \A c \in DOMAIN data[e].dtcs :
            data[e].dtcs[c].first_seen = data[e].dtcs[d].first_seen => c = d

\* k is what is left of data when some of the oldest codes of each ECU are gone.
Trimmed(data, k) ==
  /\ DOMAIN k = DOMAIN data
  /\ \A e \in DOMAIN data :
       /\ DOMAIN k[e].dtcs \subseteq DOMAIN data[e].dtcs
       /\ k[e].cleared_history = data[e].cleared_history
       /\ \A d \in DOMAIN k[e].dtcs : k[e].dtcs[d] = data[e].dtcs[d]
       /\ \A d \in DOMAIN data[e].dtcs \ DOMAIN k[e].dtcs : \A c \in DOMAIN k[e].dtcs :
            data[e].dtcs[d].first_seen < data[e].dtcs[c].first_seen

\* Every record is under its own ECU and code.
OwnCodes(data) ==
  \A e \in DOMAIN data : \A d \in DOMAIN data[e].dtcs :
    data[e].dtcs[d].dtc = d /\ data[e].dtcs[d].ecu = e

\* The records are newer than those evicted from their ECU by time t.
NewerThan(data, t, gone) ==
  \A x \in gone :
    /\ x[2] <= t
    /\ x[1] \in DOMAIN data => \A d \in DOMAIN data[x[1]].dtcs : data[x[1]].dtcs[d].first_seen > x[2]

Within(data) ==
  /\ \A e \in DOMAIN data : Size(data, e) <= max_dtcs_per_ecu
  /\ 0 \notin LogicalAddress /\ RoomForEach => Total(data) <= max_total_dtcs

\* The inductive invariant, of the state a call makes of the four variables while
\* a listener is not yet told of the codes in X.
Sound(data, t, known, gone, X) ==
  /\ t \in Nat /\ WellFormed(data, t) /\ Within(data)
  /\ known \subseteq LogicalAddress \X (Dtc \union {0})
  /\ gone \subseteq LogicalAddress \X Nat
  /\ RoomForEach => /\ OwnCodes(data)
                    /\ Stored(data) \subseteq known \union X
                    /\ NewerThan(data, t, gone)

SoundOutcome(o, X) ==
  /\ o = [data |-> o.data, clock |-> o.clock, view |-> o.view, evicted |-> o.evicted]
  /\ Sound(o.data, o.clock, o.view, o.evicted, X)
-----------------------------------------------------------------------------
LEMMA CodesAre ==
  ASSUME NEW dtcs
  PROVE  dtcs \in Codes <=> DOMAIN dtcs \subseteq Dtc /\ dtcs \in [DOMAIN dtcs -> DTCRecord]
BY DEF Codes

\* What is well formed holds functions from codes to records.
LEMMA EntriesAre ==
  ASSUME NEW data, NEW t, WellFormed(data, t), NEW e \in DOMAIN data
  PROVE  /\ e \in LogicalAddress
         /\ data[e] \in ECUEntry
         /\ DOMAIN data[e].dtcs \subseteq Dtc
         /\ data[e].dtcs \in [DOMAIN data[e].dtcs -> DTCRecord]
         /\ data[e].cleared_history \in Seq(DTCRecord)
         /\ data[e] = [dtcs |-> data[e].dtcs, cleared_history |-> data[e].cleared_history]
<1>1. data[e] \in ECUEntry /\ e \in LogicalAddress
  BY DEF WellFormed
<1>2. data[e].dtcs \in Codes /\ data[e].cleared_history \in Seq(DTCRecord)
  BY <1>1 DEF ECUEntry
<1>3. data[e] = [dtcs |-> data[e].dtcs, cleared_history |-> data[e].cleared_history]
  BY <1>1 DEF ECUEntry
<1> QED
  BY <1>1, <1>2, <1>3, CodesAre

LEMMA StoredIs ==
  ASSUME NEW data
  PROVE  /\ \A c : c \in Stored(data) <=> \E e \in DOMAIN data : \E d \in DOMAIN data[e].dtcs : c = <<e, d>>
         /\ \A e, d : <<e, d>> \in Stored(data) <=> e \in DOMAIN data /\ d \in DOMAIN data[e].dtcs
BY DEF Stored

LEMMA CodesFinite ==
  ASSUME NEW data, NEW t, WellFormed(data, t)
  PROVE  /\ IsFiniteSet(Stored(data)) /\ Total(data) \in Nat
         /\ \A e \in DOMAIN data : /\ IsFiniteSet(DOMAIN data[e].dtcs) /\ Size(data, e) \in Nat
                                   /\ Size(data, e) <= Total(data)
<1>1. Stored(data) \subseteq LogicalAddress \X Dtc
  <2> SUFFICES ASSUME NEW c \in Stored(data) PROVE c \in LogicalAddress \X Dtc
    OBVIOUS
  <2>1. PICK e \in DOMAIN data : \E d \in DOMAIN data[e].dtcs : c = <<e, d>>
    BY StoredIs
  <2>2. PICK d \in DOMAIN data[e].dtcs : c = <<e, d>>
    BY <2>1
  <2> QED
    BY <2>2, EntriesAre
<1>2. IsFiniteSet(LogicalAddress \X Dtc)
  BY FS_Product, DtcManagerAssumption
<1>3. IsFiniteSet(Stored(data)) /\ Total(data) \in Nat
  BY <1>1, <1>2, FS_Subset, FS_CardinalityType DEF Total
<1>4. ASSUME NEW e \in DOMAIN data
      PROVE  /\ IsFiniteSet(DOMAIN data[e].dtcs) /\ Size(data, e) \in Nat
             /\ Size(data, e) <= Total(data)
  <2>1. IsFiniteSet(DOMAIN data[e].dtcs)
    BY EntriesAre, FS_Subset, DtcManagerAssumption
  <2> DEFINE f == [d \in DOMAIN data[e].dtcs |-> <<e, d>>]
  <2>2. f \in Injection(DOMAIN data[e].dtcs, Stored(data))
    <3>1. \A d \in DOMAIN data[e].dtcs : <<e, d>> \in Stored(data)
      BY StoredIs
    <3> QED
      BY <3>1 DEF Injection, IsInjective
  <2> HIDE DEF f
  <2>3. Cardinality(DOMAIN data[e].dtcs) <= Cardinality(Stored(data))
    BY <2>2, <1>3, FS_Injection
  <2> QED
    BY <2>1, <2>3, FS_CardinalityType DEF Size, Total
<1> QED
  BY <1>3, <1>4

\* With more codes than ECUs, some ECU has two (pigeonhole).
LEMMA SomeHasTwo ==
  ASSUME NEW data, NEW t, WellFormed(data, t), Total(data) > Cardinality(LogicalAddress)
  PROVE  \E e \in DOMAIN data : Size(data, e) > 1
<1> DEFINE f == [c \in Stored(data) |-> c[1]]
<1>1. f \in [Stored(data) -> LogicalAddress]
  <2>1. \A c \in Stored(data) : c[1] \in LogicalAddress
    BY StoredIs DEF WellFormed
  <2> QED
    BY <2>1
<1>2. PICK x, y \in Stored(data) : x # y /\ f[x] = f[y]
  <2> HIDE DEF f
  <2>1. Cardinality(LogicalAddress) < Cardinality(Stored(data))
    BY CodesFinite, FS_CardinalityType, DtcManagerAssumption DEF Total
  <2> QED
    BY <1>1, <2>1, CodesFinite, DtcManagerAssumption, FS_PigeonHole
<1>3. PICK e \in DOMAIN data : \E c \in DOMAIN data[e].dtcs : x = <<e, c>>
  BY StoredIs
<1>4. PICK c \in DOMAIN data[e].dtcs : x = <<e, c>>
  BY <1>3
<1>5. PICK d \in DOMAIN data[e].dtcs : y = <<e, d>> /\ c # d
  BY <1>2, <1>4, StoredIs
<1>6. IsFiniteSet(DOMAIN data[e].dtcs) /\ Size(data, e) \in Nat
  BY CodesFinite
<1>7. Size(data, e) # 0 /\ Size(data, e) # 1
  BY <1>5, <1>6, FS_EmptySet, FS_Singleton DEF Size
<1> QED
  BY <1>6, <1>7

LEMMA ReplacedIs ==
  ASSUME NEW data, NEW e \in DOMAIN data, NEW dtcs
  PROVE  /\ DOMAIN Replaced(data, e, dtcs) = DOMAIN data
         /\ Replaced(data, e, dtcs)[e].dtcs = dtcs
         /\ \A f \in DOMAIN data :
              Replaced(data, e, dtcs)[f].cleared_history = data[f].cleared_history
         /\ \A f \in DOMAIN data \ {e} : Replaced(data, e, dtcs)[f].dtcs = data[f].dtcs
BY DEF Replaced

LEMMA ReplacedFits ==
  ASSUME NEW data, NEW t, WellFormed(data, t), NEW e \in DOMAIN data, NEW dtcs \in Codes
  PROVE  Replaced(data, e, dtcs) \in [DOMAIN data -> ECUEntry]
<1>1. ASSUME NEW f \in DOMAIN data
      PROVE  [dtcs |-> IF f = e THEN dtcs ELSE data[f].dtcs,
              cleared_history |-> data[f].cleared_history] \in ECUEntry
  <2>1. data[f].dtcs \in Codes /\ data[f].cleared_history \in Seq(DTCRecord)
    BY EntriesAre, CodesAre
  <2> QED
    BY <2>1 DEF ECUEntry
<1> QED
  BY <1>1 DEF Replaced

Dropped(k, e, x) == Without(k, e, {x})

\* Removing one of an ECU's oldest codes.
LEMMA OldestDropped ==
  ASSUME NEW data, NEW t, NEW k, WellFormed(data, t), WellFormed(k, t), Trimmed(data, k),
         NEW e \in DOMAIN k, NEW x \in OldestCodes(k[e].dtcs)
  PROVE  /\ WellFormed(Dropped(k, e, x), t) /\ Trimmed(data, Dropped(k, e, x))
         /\ DOMAIN Dropped(k, e, x)[e].dtcs = DOMAIN k[e].dtcs \ {x}
         /\ \A f \in DOMAIN k \ {e} : Dropped(k, e, x)[f].dtcs = k[f].dtcs
         /\ Total(Dropped(k, e, x)) = Total(k) - 1
<1> DEFINE rest == [d \in DOMAIN k[e].dtcs \ {x} |-> k[e].dtcs[d]]
           less == Dropped(k, e, x)
<1>1. x \in DOMAIN k[e].dtcs /\ \A c \in DOMAIN k[e].dtcs : k[e].dtcs[x].first_seen <= k[e].dtcs[c].first_seen
  BY DEF OldestCodes
<1>2. less = Replaced(k, e, rest)
  BY DEF Dropped, Without
<1>3. rest \in Codes /\ DOMAIN rest = DOMAIN k[e].dtcs \ {x} /\ \A d \in DOMAIN rest : rest[d] = k[e].dtcs[d]
  <2>1. rest \in [DOMAIN rest -> DTCRecord] /\ DOMAIN rest \subseteq Dtc
    BY EntriesAre
  <2> QED
    BY <2>1, CodesAre
<1> HIDE DEF rest, less
<1>4. /\ DOMAIN less = DOMAIN k /\ less[e].dtcs = rest
      /\ \A f \in DOMAIN k : less[f].cleared_history = k[f].cleared_history
      /\ \A f \in DOMAIN k \ {e} : less[f].dtcs = k[f].dtcs
  BY <1>2, ReplacedIs
<1>5. WellFormed(less, t)
  <2>1. less \in [DOMAIN less -> ECUEntry]
    BY <1>2, <1>3, <1>4, ReplacedFits
  <2>2. ASSUME NEW f \in DOMAIN less, NEW d \in DOMAIN less[f].dtcs
        PROVE  /\ less[f].dtcs[d].first_seen <= t
               /\ \A c \in DOMAIN less[f].dtcs :
                    less[f].dtcs[c].first_seen = less[f].dtcs[d].first_seen => c = d
    <3>1. d \in DOMAIN k[f].dtcs /\ DOMAIN less[f].dtcs \subseteq DOMAIN k[f].dtcs
      BY <1>3, <1>4
    <3>2. \A c \in DOMAIN less[f].dtcs : less[f].dtcs[c] = k[f].dtcs[c]
      BY <1>3, <1>4
    <3> QED
      BY <3>1, <3>2, <1>4 DEF WellFormed
  <2> QED
    BY <1>4, <2>1, <2>2 DEF WellFormed
<1>6. Trimmed(data, less)
  <2>1. ASSUME NEW f \in DOMAIN data
        PROVE  /\ DOMAIN less[f].dtcs \subseteq DOMAIN data[f].dtcs
               /\ less[f].cleared_history = data[f].cleared_history
               /\ \A d \in DOMAIN less[f].dtcs : less[f].dtcs[d] = data[f].dtcs[d]
    BY <1>3, <1>4 DEF Trimmed
  <2>2. ASSUME NEW f \in DOMAIN data, NEW d \in DOMAIN data[f].dtcs \ DOMAIN less[f].dtcs,
               NEW c \in DOMAIN less[f].dtcs
        PROVE  data[f].dtcs[d].first_seen < data[f].dtcs[c].first_seen
    <3>1. c \in DOMAIN k[f].dtcs
      BY <1>3, <1>4 DEF Trimmed
    <3>2. CASE d \notin DOMAIN k[f].dtcs
      BY <3>1, <3>2 DEF Trimmed
    <3>3. CASE d \in DOMAIN k[f].dtcs
      <4>1. f = e /\ d = x /\ c # x
        BY <3>3, <1>3, <1>4 DEF Trimmed
      <4>2. data[e].dtcs[x] = k[e].dtcs[x] /\ data[e].dtcs[c] = k[e].dtcs[c]
        BY <4>1, <3>1, <3>3 DEF Trimmed
      <4>3. k[e].dtcs[x].first_seen <= k[e].dtcs[c].first_seen /\ k[e].dtcs[x].first_seen # k[e].dtcs[c].first_seen
        BY <1>1, <3>1, <4>1 DEF WellFormed
      <4>4. k[e].dtcs[x].first_seen \in Nat /\ k[e].dtcs[c].first_seen \in Nat
        BY <1>1, <3>1, <4>1, EntriesAre DEF DTCRecord
      <4> QED
        BY <4>1, <4>2, <4>3, <4>4
    <3> QED
      BY <3>2, <3>3
  <2>3. DOMAIN less = DOMAIN data
    BY <1>4 DEF Trimmed
  <2> QED
    BY <2>1, <2>2, <2>3 DEF Trimmed
<1>7. Total(less) = Total(k) - 1
  <2>1. Stored(less) = Stored(k) \ {<<e, x>>}
    <3>1. ASSUME NEW c PROVE c \in Stored(less) <=> c \in Stored(k) \ {<<e, x>>}
      BY <1>3, <1>4, StoredIs
    <3> QED
      BY <3>1
  <2>2. <<e, x>> \in Stored(k)
    BY <1>1, StoredIs
  <2> QED
    BY <2>1, <2>2, CodesFinite, FS_RemoveElement DEF Total
<1> QED
  BY <1>3, <1>4, <1>5, <1>6, <1>7 DEF less
-----------------------------------------------------------------------------
(* The loops.                                                              *)

\* Induction up to N: a set that holds 0 and with each number below N the next.
LEMMA Induction ==
  ASSUME NEW N \in Nat, NEW A, 0 \in A, \A n \in 1..N : n - 1 \in A => n \in A
  PROVE  \A n \in 0..N : n \in A
<1> SUFFICES ASSUME NEW k \in 0..N, k \notin A PROVE FALSE
  OBVIOUS
<1> DEFINE B == {n \in 0..N : n \notin A}
<1>1. PICK m \in B : \A n \in B : m <= n
  <2>1. B \subseteq Nat /\ B # {}
    OBVIOUS
  <2> HIDE DEF B
  <2> QED
    BY <2>1, LeastNatural
<1>2. m \in 1..N /\ m \notin A
  OBVIOUS
<1>3. m - 1 \in 0..N /\ ~ (m <= m - 1)
  BY <1>2
<1>4. m - 1 \in A
  BY <1>1, <1>3
<1> QED
  BY <1>2, <1>4

\* One round of each of the three loops, from a set of outcomes.
AfterRound(loop, e, list, n, S) ==
  CASE loop = "ecu"   -> UNION {EcuRound(k, e) : k \in S}
    [] loop = "total" -> UNION {TotalRound(k) : k \in S}
    [] OTHER          -> UNION {add_dtc(o, e, list[n][1], list[n][2]) : o \in S}

Runs(f, N, start, loop, e, list) ==
  f = [n \in 0..N |-> IF n = 0 THEN start ELSE AfterRound(loop, e, list, n, f[n - 1])]

\* The outcomes of a loop, round by round, exist.
LEMMA LoopExists ==
  ASSUME NEW N \in Nat, NEW start, NEW loop, NEW e, NEW list
  PROVE  \E f : Runs(f, N, start, loop, e, list)
<1> DEFINE Is(f, n) == /\ f = [i \in 0..n |-> f[i]]
                       /\ f[0] = start
                       /\ \A i \in 1..n : f[i] = AfterRound(loop, e, list, i, f[i - 1])
           A == {n \in 0..N : \E f : Is(f, n)}
<1>1. 0 \in A
  <2> DEFINE f == [i \in 0..0 |-> start]
  <2>1. Is(f, 0)
    OBVIOUS
  <2> HIDE DEF f, Is
  <2> QED
    BY <2>1
<1>2. ASSUME NEW n \in 1..N, n - 1 \in A PROVE n \in A
  <2>1. PICK f : Is(f, n - 1)
    BY <1>2, Zenon
  <2> DEFINE h == [i \in 0..n |-> IF i = n THEN AfterRound(loop, e, list, n, f[n - 1]) ELSE f[i]]
  <2>2. h = [i \in 0..n |-> h[i]]
    OBVIOUS
  <2>3. h[0] = start
    BY <2>1
  <2>4. ASSUME NEW i \in 1..n PROVE h[i] = AfterRound(loop, e, list, i, h[i - 1])
    <3>1. h[i - 1] = f[i - 1]
      OBVIOUS
    <3>2. CASE i = n
      BY <3>1, <3>2
    <3>3. CASE i # n
      <4>1. i \in 1..(n - 1) /\ h[i] = f[i]
        BY <3>3
      <4>2. f[i] = AfterRound(loop, e, list, i, f[i - 1])
        BY <2>1, <4>1
      <4> QED
        BY <3>1, <4>1, <4>2
    <3> QED
      BY <3>2, <3>3
  <2>5. Is(h, n)
    BY <2>2, <2>3, <2>4, Zenon
  <2>6. n \in 0..N
    OBVIOUS
  <2> HIDE DEF Is, h
  <2> QED
    BY <2>5, <2>6
<1>3. \A n \in 1..N : n - 1 \in A => n \in A
  BY <1>2
<1>4. N \in A
  <2> HIDE DEF A
  <2>1. \A n \in 0..N : n \in A
    BY <1>1, <1>3, Induction
  <2> QED
    BY <2>1
<1>5. PICK f : Is(f, N)
  BY <1>4, Zenon
<1>6. f = [n \in 0..N |-> IF n = 0 THEN start ELSE AfterRound(loop, e, list, n, f[n - 1])]
  <2> DEFINE g == [n \in 0..N |-> IF n = 0 THEN start ELSE AfterRound(loop, e, list, n, f[n - 1])]
  <2>1. ASSUME NEW n \in 0..N PROVE f[n] = g[n]
    <3>1. CASE n = 0
      BY <1>5, <3>1
    <3>2. CASE n # 0
      <4>1. n \in 1..N
        BY <3>2
      <4>2. f[n] = AfterRound(loop, e, list, n, f[n - 1])
        BY <1>5, <4>1
      <4> QED
        BY <3>2, <4>2
    <3> QED
      BY <3>1, <3>2
  <2>2. f = [i \in 0..N |-> f[i]]
    BY <1>5
  <2>3. g = [i \in 0..N |-> g[i]]
    OBVIOUS
  <2> HIDE DEF g, Is
  <2>4. f = g
    BY <2>1, <2>2, <2>3
  <2> QED
    BY <2>4 DEF g
<1>7. Runs(f, N, start, loop, e, list)
  BY <1>6, Zenon DEF Runs
<1> QED
  BY <1>7

LoopOf(N, start, loop, e, list) == CHOOSE f : Runs(f, N, start, loop, e, list)

\* ... and obey the recursion.
LEMMA LoopRuns ==
  ASSUME NEW N \in Nat, NEW start, NEW loop, NEW e, NEW list
  PROVE  /\ LoopOf(N, start, loop, e, list)[0] = start
         /\ \A n \in 1..N : LoopOf(N, start, loop, e, list)[n]
                             = AfterRound(loop, e, list, n, LoopOf(N, start, loop, e, list)[n - 1])
<1> DEFINE after == LoopOf(N, start, loop, e, list)
<1>1. Runs(after, N, start, loop, e, list)
  BY LoopExists DEF LoopOf
<1> HIDE DEF after
<1>2. after[0] = start
  <2>1. 0 \in 0..N
    OBVIOUS
  <2> QED
    BY <1>1, <2>1, Zenon DEF Runs
<1>3. ASSUME NEW n \in 1..N PROVE after[n] = AfterRound(loop, e, list, n, after[n - 1])
  <2>1. n \in 0..N /\ n # 0
    OBVIOUS
  <2> QED
    BY <1>1, <2>1, Zenon DEF Runs
<1> QED
  BY <1>2, <1>3 DEF after

EcuOutcomes(after, data, e) ==
  /\ EcuLoop(data, e) = after[Total(data)]
  /\ after[0] = {data}
  /\ \A n \in 1..Total(data) :
       after[n] = UNION {EcuRound(j, e) : j \in after[n - 1]}

LEMMA EcuLoopRuns ==
  ASSUME NEW data, NEW t, WellFormed(data, t), NEW e
  PROVE  \E after : EcuOutcomes(after, data, e)
<1> DEFINE after == LoopOf(Total(data), {data}, "ecu", e, <<>>)
<1>1. EcuLoop(data, e) = after[Total(data)]
  BY Zenon DEF EcuLoop, LoopOf, Runs, AfterRound
<1>2. Total(data) \in Nat
  BY CodesFinite
<1>3. /\ after[0] = {data}
      /\ \A n \in 1..Total(data) : after[n] = AfterRound("ecu", e, <<>>, n, after[n - 1])
  BY <1>2, LoopRuns
<1> HIDE DEF after
<1>4. ASSUME NEW n \in 1..Total(data) PROVE after[n] = UNION {EcuRound(j, e) : j \in after[n - 1]}
  BY <1>3 DEF AfterRound
<1> QED
  BY <1>1, <1>3, <1>4, Zenon DEF EcuOutcomes

TotalOutcomes(after, data) ==
  /\ TotalLoop(data) = after[Total(data)]
  /\ after[0] = {data}
  /\ \A n \in 1..Total(data) :
       after[n] = UNION {TotalRound(j) : j \in after[n - 1]}

LEMMA TotalLoopRuns ==
  ASSUME NEW data, NEW t, WellFormed(data, t)
  PROVE  \E after : TotalOutcomes(after, data)
<1> DEFINE after == LoopOf(Total(data), {data}, "total", 0, <<>>)
<1>1. TotalLoop(data) = after[Total(data)]
  BY Zenon DEF TotalLoop, LoopOf, Runs, AfterRound
<1>2. Total(data) \in Nat
  BY CodesFinite
<1>3. /\ after[0] = {data}
      /\ \A n \in 1..Total(data) : after[n] = AfterRound("total", 0, <<>>, n, after[n - 1])
  BY <1>2, LoopRuns
<1> HIDE DEF after
<1>4. ASSUME NEW n \in 1..Total(data) PROVE after[n] = UNION {TotalRound(j) : j \in after[n - 1]}
  BY <1>3 DEF AfterRound
<1> QED
  BY <1>1, <1>3, <1>4, Zenon DEF TotalOutcomes

ListOutcomes(after, e, list) ==
  /\ ListAdded(e, list) = after[Len(list)]
  /\ after[0] = {[Outcome EXCEPT !.data = WithEcu(ecu_data, e)]}
  /\ \A n \in 1..Len(list) :
       after[n] = UNION {add_dtc(o, e, list[n][1], list[n][2]) : o \in after[n - 1]}

LEMMA ListRuns ==
  ASSUME NEW e, NEW list, Len(list) \in Nat
  PROVE  \E after : ListOutcomes(after, e, list)
<1> DEFINE after == LoopOf(Len(list), {[Outcome EXCEPT !.data = WithEcu(ecu_data, e)]}, "list", e, list)
<1>1. ListAdded(e, list) = after[Len(list)]
  BY Zenon DEF ListAdded, LoopOf, Runs, AfterRound
<1>2. Len(list) \in Nat
  OBVIOUS
<1>3. /\ after[0] = {[Outcome EXCEPT !.data = WithEcu(ecu_data, e)]}
      /\ \A n \in 1..Len(list) : after[n] = AfterRound("list", e, list, n, after[n - 1])
  BY <1>2, LoopRuns
<1> HIDE DEF after
<1>4. ASSUME NEW n \in 1..Len(list) PROVE after[n] = UNION {add_dtc(o, e, list[n][1], list[n][2]) : o \in after[n - 1]}
  BY <1>3 DEF AfterRound
<1> QED
  BY <1>1, <1>3, <1>4, Zenon DEF ListOutcomes

\* The first loop removes oldest codes of e until the limit is met, never all.
LEMMA EcuLoopTrims ==
  ASSUME NEW data, NEW t, WellFormed(data, t), NEW e \in DOMAIN data, DOMAIN data[e].dtcs # {},
         NEW k \in EcuLoop(data, e)
  PROVE  /\ WellFormed(k, t) /\ Trimmed(data, k)
         /\ DOMAIN k[e].dtcs # {}
         /\ Size(k, e) <= max_dtcs_per_ecu
         /\ \A f \in DOMAIN data \ {e} : k[f].dtcs = data[f].dtcs
<1>0. PICK after : EcuOutcomes(after, data, e)
  BY EcuLoopRuns
<1>1. /\ EcuLoop(data, e) = after[Total(data)]
      /\ after[0] = {data}
      /\ \A n \in 1..Total(data) : after[n] = UNION {EcuRound(j, e) : j \in after[n - 1]}
  BY <1>0 DEF EcuOutcomes
<1>2. Total(data) \in Nat /\ max_dtcs_per_ecu \in Nat \ {0}
  BY CodesFinite, DtcManagerAssumption
<1> DEFINE Fine(j, n) == /\ WellFormed(j, t) /\ Trimmed(data, j)
                         /\ DOMAIN j[e].dtcs # {}
                         /\ \A f \in DOMAIN data \ {e} : j[f].dtcs = data[f].dtcs
                         /\ Size(j, e) <= max_dtcs_per_ecu \/ Total(j) <= Total(data) - n
           A == {n \in 0..Total(data) : \A j \in after[n] : Fine(j, n)}
<1>3. 0 \in A
  <2>1. Fine(data, 0)
    <3>1. Trimmed(data, data)
      BY DEF Trimmed
    <3> QED
      BY <3>1, <1>2
  <2> HIDE DEF Fine
  <2> QED
    BY <1>1, <1>2, <2>1
<1>4. ASSUME NEW n \in 1..Total(data), n - 1 \in A PROVE n \in A
  <2>1. n \in 0..Total(data)
    BY <1>2
  <2> SUFFICES ASSUME NEW j \in after[n] PROVE Fine(j, n)
    BY <2>1
  <2>2. PICK i \in after[n - 1] : j \in EcuRound(i, e)
    BY <1>1
  <2>3. Fine(i, n - 1)
    BY <1>4
  <2>4. /\ e \in DOMAIN i /\ Size(i, e) \in Nat /\ Total(i) \in Nat
        /\ IsFiniteSet(DOMAIN i[e].dtcs)
    <3>1. e \in DOMAIN i
      BY <2>3 DEF Trimmed
    <3> QED
      BY <2>3, <3>1, CodesFinite
  <2>5. CASE ~ (Size(i, e) > max_dtcs_per_ecu)
    <3>1. j = i
      BY <2>2, <2>5 DEF EcuRound
    <3>2. Size(i, e) <= max_dtcs_per_ecu
      BY <1>2, <2>4, <2>5
    <3> QED
      BY <2>3, <3>1, <3>2
  <2>6. CASE Size(i, e) > max_dtcs_per_ecu
    <3>1. PICK x \in OldestCodes(i[e].dtcs) : j = Dropped(i, e, x)
      BY <2>2, <2>6 DEF EcuRound, EvictOldest, Dropped
    <3>2. /\ WellFormed(j, t) /\ Trimmed(data, j)
          /\ DOMAIN j[e].dtcs = DOMAIN i[e].dtcs \ {x}
          /\ \A f \in DOMAIN i \ {e} : j[f].dtcs = i[f].dtcs
          /\ Total(j) = Total(i) - 1
      <4>1. WellFormed(i, t) /\ Trimmed(data, i) /\ e \in DOMAIN i
        BY <2>3, <2>4
      <4> HIDE DEF Fine, A
      <4>2. /\ WellFormed(Dropped(i, e, x), t) /\ Trimmed(data, Dropped(i, e, x))
            /\ DOMAIN Dropped(i, e, x)[e].dtcs = DOMAIN i[e].dtcs \ {x}
            /\ \A f \in DOMAIN i \ {e} : Dropped(i, e, x)[f].dtcs = i[f].dtcs
            /\ Total(Dropped(i, e, x)) = Total(i) - 1
        BY <4>1, OldestDropped
      <4> QED
        BY <3>1, <4>2
    <3>3. DOMAIN j[e].dtcs # {}
      <4>1. Cardinality(DOMAIN i[e].dtcs) > 1
        BY <1>2, <2>4, <2>6 DEF Size
      <4>2. DOMAIN i[e].dtcs # {x}
        <5> SUFFICES ASSUME DOMAIN i[e].dtcs = {x} PROVE FALSE
          OBVIOUS
        <5>1. Cardinality(DOMAIN i[e].dtcs) = 1
          BY FS_Singleton, Zenon
        <5> QED
          BY <4>1, <5>1
      <4> QED
        BY <2>3, <3>2, <4>2
    <3>4. \A f \in DOMAIN data \ {e} : j[f].dtcs = data[f].dtcs
      BY <2>3, <3>2 DEF Trimmed
    <3>5. Total(j) <= Total(data) - n
      BY <1>2, <2>3, <2>4, <2>6, <3>2
    <3> QED
      BY <3>2, <3>3, <3>4, <3>5
  <2> QED
    BY <2>5, <2>6
<1>5. Total(data) \in A
  <2>1. \A n \in 1..Total(data) : n - 1 \in A => n \in A
    BY <1>4
  <2> HIDE DEF A
  <2>2. \A n \in 0..Total(data) : n \in A
    BY <1>2, <1>3, <2>1, Induction
  <2> QED
    BY <1>2, <2>2
<1>6. Fine(k, Total(data))
  BY <1>1, <1>5
<1>7. Size(k, e) <= max_dtcs_per_ecu
  <2>1. e \in DOMAIN k
    BY <1>6 DEF Trimmed
  <2>2. Size(k, e) \in Nat /\ Size(k, e) <= Total(k) /\ Total(k) \in Nat
    BY <1>6, <2>1, CodesFinite
  <2> QED
    BY <1>2, <1>6, <2>2
<1> QED
  BY <1>6, <1>7

\* The second loop removes oldest codes until the limit over all ECUs is met.  With
\* room for a code of each ECU, it never takes the last code of one.
LEMMA TotalLoopTrims ==
  ASSUME NEW data, NEW t, WellFormed(data, t), NEW k \in TotalLoop(data)
  PROVE  /\ WellFormed(k, t) /\ Trimmed(data, k)
         /\ RoomForEach => \A f \in DOMAIN data : DOMAIN data[f].dtcs # {} => DOMAIN k[f].dtcs # {}
         /\ 0 \notin LogicalAddress => Total(k) <= max_total_dtcs
<1>0. PICK after : TotalOutcomes(after, data)
  BY TotalLoopRuns
<1>1. /\ TotalLoop(data) = after[Total(data)]
      /\ after[0] = {data}
      /\ \A n \in 1..Total(data) : after[n] = UNION {TotalRound(j) : j \in after[n - 1]}
  BY <1>0 DEF TotalOutcomes
<1>2. Total(data) \in Nat /\ max_total_dtcs \in Nat
  BY CodesFinite, DtcManagerAssumption
<1> DEFINE Kept(j) == \A f \in DOMAIN data : DOMAIN data[f].dtcs # {} => DOMAIN j[f].dtcs # {}
           Fine(j, n) == /\ WellFormed(j, t) /\ Trimmed(data, j)
                         /\ RoomForEach => Kept(j)
                         /\ \/ 0 \in LogicalAddress
                            \/ Total(j) <= max_total_dtcs
                            \/ Total(j) <= Total(data) - n
           A == {n \in 0..Total(data) : \A j \in after[n] : Fine(j, n)}
<1>3. 0 \in A
  <2>1. Fine(data, 0)
    <3>1. Trimmed(data, data)
      BY DEF Trimmed
    <3> QED
      BY <3>1, <1>2
  <2> HIDE DEF Fine
  <2> QED
    BY <1>1, <1>2, <2>1
<1>4. ASSUME NEW n \in 1..Total(data), n - 1 \in A PROVE n \in A
  <2>1. n \in 0..Total(data)
    BY <1>2
  <2> SUFFICES ASSUME NEW j \in after[n] PROVE Fine(j, n)
    BY <2>1
  <2>2. PICK i \in after[n - 1] : j \in TotalRound(i)
    BY <1>1
  <2>3. Fine(i, n - 1)
    BY <1>4
  <2>4. WellFormed(i, t) /\ Trimmed(data, i) /\ DOMAIN i = DOMAIN data /\ Total(i) \in Nat
    BY <2>3, CodesFinite DEF Trimmed
  <2>5. CASE ~ (Total(i) > max_total_dtcs)
    <3>1. j = i
      BY <2>2, <2>5 DEF TotalRound
    <3>2. Total(i) <= max_total_dtcs
      BY <1>2, <2>4, <2>5
    <3> QED
      BY <2>3, <3>1, <3>2
  <2>6. CASE Total(i) > max_total_dtcs
    <3>1. PICK e \in Largest(i) : j \in (IF e = 0 THEN {i} ELSE EvictOldest(i, e))
      BY <2>2, <2>6 DEF TotalRound
    <3>2. e \in DOMAIN i /\ \A f \in DOMAIN i : Size(i, f) <= Size(i, e)
      BY <3>1 DEF Largest
    <3>3. CASE e = 0
      <4>1. j = i
        BY <3>1, <3>3
      <4>2. 0 \in LogicalAddress
        BY <3>2, <3>3, <2>4 DEF WellFormed
      <4> QED
        BY <2>3, <4>1, <4>2
    <3>4. CASE e # 0
      <4>1. PICK x \in OldestCodes(i[e].dtcs) : j = Dropped(i, e, x)
        BY <3>1, <3>4 DEF EvictOldest, Dropped
      <4>2. /\ WellFormed(j, t) /\ Trimmed(data, j)
            /\ DOMAIN j[e].dtcs = DOMAIN i[e].dtcs \ {x}
            /\ \A f \in DOMAIN i \ {e} : j[f].dtcs = i[f].dtcs
            /\ Total(j) = Total(i) - 1
        <5> HIDE DEF Fine, A
        <5> QED
          BY <2>4, <3>2, <4>1, OldestDropped
      <4>3. ASSUME RoomForEach PROVE Kept(j)
        <5>1. max_total_dtcs >= Cardinality(LogicalAddress) /\ Cardinality(LogicalAddress) \in Nat
          BY <4>3, DtcManagerAssumption, FS_CardinalityType DEF RoomForEach
        <5>2. Total(i) > Cardinality(LogicalAddress)
          BY <5>1, <2>4, <2>6, <1>2
        <5>3. PICK f \in DOMAIN i : Size(i, f) > 1
          BY <5>2, <2>4, SomeHasTwo
        <5>4. /\ Size(i, e) \in Nat /\ Size(i, f) \in Nat /\ IsFiniteSet(DOMAIN i[e].dtcs)
          BY <2>4, <3>2, CodesFinite
        <5>5. Cardinality(DOMAIN i[e].dtcs) > 1
          BY <3>2, <5>3, <5>4 DEF Size
        <5>6. DOMAIN i[e].dtcs # {x} /\ DOMAIN i[e].dtcs # {}
          <6> HIDE DEF Fine, A, Kept
          <6>1. DOMAIN i[e].dtcs # {x}
            <7> SUFFICES ASSUME DOMAIN i[e].dtcs = {x} PROVE FALSE
              OBVIOUS
            <7>1. Cardinality(DOMAIN i[e].dtcs) = 1
              BY FS_Singleton, Zenon
            <7> QED
              BY <5>5, <7>1
          <6>2. DOMAIN i[e].dtcs # {}
            <7> SUFFICES ASSUME DOMAIN i[e].dtcs = {} PROVE FALSE
              OBVIOUS
            <7>1. Cardinality(DOMAIN i[e].dtcs) = 0
              BY FS_EmptySet, Zenon
            <7> QED
              BY <5>5, <7>1
          <6> QED
            BY <6>1, <6>2
        <5>7. DOMAIN j[e].dtcs # {}
          BY <4>2, <5>6
        <5>8. Kept(i)
          BY <2>3, <4>3
        <5> QED
          BY <2>4, <4>2, <5>7, <5>8
      <4>4. \/ 0 \in LogicalAddress
            \/ Total(j) <= max_total_dtcs
            \/ Total(j) <= Total(data) - n
        BY <1>2, <2>3, <2>4, <2>6, <4>2
      <4> QED
        BY <4>2, <4>3, <4>4
    <3> QED
      BY <3>3, <3>4
  <2> QED
    BY <2>5, <2>6
<1>5. Total(data) \in A
  <2>1. \A n \in 1..Total(data) : n - 1 \in A => n \in A
    BY <1>4
  <2> HIDE DEF A
  <2>2. \A n \in 0..Total(data) : n \in A
    BY <1>2, <1>3, <2>1, Induction
  <2> QED
    BY <1>2, <2>2
<1>6. Fine(k, Total(data))
  BY <1>1, <1>5
<1>7. Total(k) \in Nat
  BY <1>6, CodesFinite
<1> QED
  BY <1>2, <1>6, <1>7

\* What is trimmed twice is trimmed, and holds no more codes.
LEMMA TrimmedAgain ==
  ASSUME NEW data, NEW t, WellFormed(data, t), NEW k, WellFormed(k, t), Trimmed(data, k),
         NEW j, Trimmed(k, j)
  PROVE  Trimmed(data, j)
<1>1. DOMAIN j = DOMAIN data /\ DOMAIN k = DOMAIN data
  BY DEF Trimmed
<1>2. ASSUME NEW e \in DOMAIN data
      PROVE  /\ DOMAIN j[e].dtcs \subseteq DOMAIN k[e].dtcs
             /\ DOMAIN k[e].dtcs \subseteq DOMAIN data[e].dtcs
             /\ j[e].cleared_history = data[e].cleared_history
             /\ \A d \in DOMAIN k[e].dtcs : k[e].dtcs[d] = data[e].dtcs[d]
             /\ \A d \in DOMAIN j[e].dtcs : j[e].dtcs[d] = data[e].dtcs[d]
  BY <1>1 DEF Trimmed
<1>3. ASSUME NEW e \in DOMAIN data, NEW d \in DOMAIN data[e].dtcs \ DOMAIN j[e].dtcs,
             NEW c \in DOMAIN j[e].dtcs
      PROVE  data[e].dtcs[d].first_seen < data[e].dtcs[c].first_seen
  <2>1. c \in DOMAIN k[e].dtcs
    BY <1>2
  <2>2. CASE d \in DOMAIN k[e].dtcs
    <3>1. k[e].dtcs[d].first_seen < k[e].dtcs[c].first_seen
      BY <1>1, <2>2 DEF Trimmed
    <3> QED
      BY <3>1, <1>2, <2>1, <2>2
  <2>3. CASE d \notin DOMAIN k[e].dtcs
    BY <2>1, <2>3 DEF Trimmed
  <2> QED
    BY <2>2, <2>3
<1> QED
  BY <1>1, <1>2, <1>3 DEF Trimmed

LEMMA FewerCodes ==
  ASSUME NEW data, NEW t, WellFormed(data, t), NEW e \in DOMAIN data, NEW k,
         DOMAIN k[e].dtcs \subseteq DOMAIN data[e].dtcs
  PROVE  Size(k, e) <= Size(data, e)
BY CodesFinite, FS_Subset DEF Size

\* enforce_limits takes oldest codes only, of the ECU given never all.
LEMMA LimitsTrim ==
  ASSUME NEW data, NEW t, WellFormed(data, t), NEW e \in DOMAIN data, DOMAIN data[e].dtcs # {},
         NEW k \in enforce_limits(data, e)
  PROVE  /\ WellFormed(k, t) /\ Trimmed(data, k)
         /\ RoomForEach => DOMAIN k[e].dtcs # {}
         /\ Size(k, e) <= max_dtcs_per_ecu
         /\ 0 \notin LogicalAddress => Total(k) <= max_total_dtcs
<1>1. PICK j \in EcuLoop(data, e) : k \in TotalLoop(j)
  BY DEF enforce_limits
<1>2. /\ WellFormed(j, t) /\ Trimmed(data, j) /\ DOMAIN j[e].dtcs # {}
      /\ Size(j, e) <= max_dtcs_per_ecu
  BY <1>1, EcuLoopTrims
<1>3. /\ WellFormed(k, t) /\ Trimmed(j, k)
      /\ RoomForEach => \A f \in DOMAIN j : DOMAIN j[f].dtcs # {} => DOMAIN k[f].dtcs # {}
      /\ 0 \notin LogicalAddress => Total(k) <= max_total_dtcs
  BY <1>1, <1>2, TotalLoopTrims
<1>4. Trimmed(data, k)
  BY <1>2, <1>3, TrimmedAgain
<1>5. e \in DOMAIN j /\ e \in DOMAIN k /\ DOMAIN k[e].dtcs \subseteq DOMAIN j[e].dtcs
  BY <1>2, <1>3 DEF Trimmed
<1>6. Size(k, e) <= Size(j, e) /\ Size(k, e) \in Nat /\ Size(j, e) \in Nat
  BY <1>2, <1>3, <1>5, FewerCodes, CodesFinite
<1> QED
  BY <1>2, <1>3, <1>4, <1>5, <1>6, DtcManagerAssumption
-----------------------------------------------------------------------------
(* Adding codes.                                                           *)

LEMMA DefaultFits == DefaultRecord \in DTCRecord
BY DtcManagerAssumption DEF DefaultRecord, DTCRecord

\* Entering an ECU changes nothing that is stored.
LEMMA EcuEntered ==
  ASSUME NEW data, NEW t, NEW known, NEW gone, NEW X, Sound(data, t, known, gone, X),
         NEW e \in LogicalAddress
  PROVE  /\ Sound(WithEcu(data, e), t, known, gone, X)
         /\ e \in DOMAIN WithEcu(data, e)
<1>1. CASE e \in DOMAIN data
  BY <1>1 DEF WithEcu
<1>2. CASE e \notin DOMAIN data
  <2> DEFINE all == WithEcu(data, e)
  <2>1. /\ DOMAIN all = DOMAIN data \union {e}
        /\ all[e] = ECUData
        /\ \A f \in DOMAIN data : all[f] = data[f]
        /\ all = [f \in DOMAIN all |-> all[f]]
    BY <1>2 DEF WithEcu
  <2>2. /\ DOMAIN all[e].dtcs = {} /\ all[e] \in ECUEntry
    <3>1. ECUData.dtcs = NoCodes /\ NoCodes \in [{} -> DTCRecord] /\ DOMAIN NoCodes = {}
      BY DEF ECUData, NoCodes
    <3>2. NoCodes \in Codes
      BY <3>1, CodesAre
    <3> QED
      BY <2>1, <3>1, <3>2 DEF ECUEntry, ECUData
  <2> HIDE DEF all
  <2>3. WellFormed(data, t)
    BY DEF Sound
  <2>4. WellFormed(all, t)
    <3>1. \A f \in DOMAIN all : all[f] \in ECUEntry
      BY <2>1, <2>2, <2>3 DEF WellFormed
    <3>2. all \in [DOMAIN all -> ECUEntry]
      BY <2>1, <3>1
    <3>3. DOMAIN all \subseteq LogicalAddress
      BY <2>1, <2>3 DEF WellFormed
    <3>4. ASSUME NEW f \in DOMAIN all, NEW d \in DOMAIN all[f].dtcs
          PROVE  f \in DOMAIN data /\ all[f] = data[f]
      BY <2>1, <2>2
    <3> QED
      BY <2>3, <3>2, <3>3, <3>4 DEF WellFormed
  <2>5. Stored(all) = Stored(data)
    <3>1. ASSUME NEW c PROVE c \in Stored(all) <=> c \in Stored(data)
      BY <2>1, <2>2, StoredIs
    <3> QED
      BY <3>1
  <2>6. Within(all)
    <3>1. Size(all, e) = 0
      BY <2>2, FS_EmptySet DEF Size
    <3>2. \A f \in DOMAIN data : Size(all, f) = Size(data, f)
      BY <2>1 DEF Size
    <3>3. Total(all) = Total(data)
      BY <2>5 DEF Total
    <3> QED
      BY <2>1, <3>1, <3>2, <3>3, DtcManagerAssumption DEF Sound, Within
  <2>7. ASSUME RoomForEach
        PROVE  /\ OwnCodes(all) /\ Stored(all) \subseteq known \union X
               /\ NewerThan(all, t, gone)
    BY <2>1, <2>2, <2>5, <2>7 DEF Sound, OwnCodes, NewerThan
  <2> QED
    BY <2>1, <2>4, <2>6, <2>7 DEF Sound, all
<1> QED
  BY <1>1, <1>2

\* Storing a record under a new key.
LEMMA RecordStored ==
  ASSUME NEW data, NEW t \in Nat, WellFormed(data, t), NEW e \in DOMAIN data,
         NEW d \in Dtc, d \notin DOMAIN data[e].dtcs, NEW r \in DTCRecord,
         NEW u \in Nat, t <= u, r.first_seen <= u,
         \A c \in DOMAIN data[e].dtcs : data[e].dtcs[c].first_seen # r.first_seen
  PROVE  /\ WellFormed(With(data, e, d, r), u)
         /\ DOMAIN With(data, e, d, r) = DOMAIN data
         /\ DOMAIN With(data, e, d, r)[e].dtcs = DOMAIN data[e].dtcs \union {d}
         /\ With(data, e, d, r)[e].dtcs[d] = r
         /\ \A c \in DOMAIN data[e].dtcs : With(data, e, d, r)[e].dtcs[c] = data[e].dtcs[c]
         /\ \A f \in DOMAIN data \ {e} : With(data, e, d, r)[f].dtcs = data[f].dtcs
<1> DEFINE more == [c \in DOMAIN data[e].dtcs \union {d} |-> IF c = d THEN r ELSE data[e].dtcs[c]]
           all == With(data, e, d, r)
<1>1. all = Replaced(data, e, more)
  BY DEF With
<1>2. /\ more \in Codes /\ DOMAIN more = DOMAIN data[e].dtcs \union {d} /\ more[d] = r
      /\ \A c \in DOMAIN data[e].dtcs : more[c] = data[e].dtcs[c]
  <2>1. more \in [DOMAIN more -> DTCRecord] /\ DOMAIN more \subseteq Dtc
    BY EntriesAre
  <2> QED
    BY <2>1, CodesAre
<1> HIDE DEF more, all
<1>3. /\ DOMAIN all = DOMAIN data /\ all[e].dtcs = more
      /\ \A f \in DOMAIN data \ {e} : all[f].dtcs = data[f].dtcs
  BY <1>1, ReplacedIs
<1>4. all \in [DOMAIN all -> ECUEntry]
  BY <1>1, <1>2, <1>3, ReplacedFits
<1>5. ASSUME NEW f \in DOMAIN data, NEW c \in DOMAIN data[f].dtcs
      PROVE  data[f].dtcs[c].first_seen \in Nat /\ data[f].dtcs[c].first_seen <= u
  <2>1. data[f].dtcs[c].first_seen \in Nat
    BY EntriesAre DEF DTCRecord
  <2>2. data[f].dtcs[c].first_seen <= t
    BY DEF WellFormed
  <2> QED
    BY <2>1, <2>2
<1>6. ASSUME NEW f \in DOMAIN all, NEW c \in DOMAIN all[f].dtcs
      PROVE  /\ all[f].dtcs[c].first_seen <= u
             /\ \A b \in DOMAIN all[f].dtcs :
                  all[f].dtcs[b].first_seen = all[f].dtcs[c].first_seen => b = c
  <2>1. CASE f = e
    BY <1>2, <1>3, <1>5, <2>1 DEF WellFormed
  <2>2. CASE f # e
    BY <1>3, <1>5, <2>2 DEF WellFormed
  <2> QED
    BY <2>1, <2>2
<1>7. WellFormed(all, u)
  BY <1>3, <1>4, <1>6 DEF WellFormed
<1> QED
  BY <1>2, <1>3, <1>7 DEF all

\* A new code: what is left of the map once the limits are enforced is sound, and
\* the new code is in it if there is room for a code of each ECU.
LEMMA CodeCreated ==
  ASSUME NEW data, NEW t, NEW known, NEW gone, Sound(data, t, known, gone, {}),
         NEW e \in DOMAIN data, NEW d \in Dtc, d \notin DOMAIN data[e].dtcs,
         NEW r \in DTCRecord, r.first_seen = t + 1, r.dtc = d, r.ecu = e,
         NEW kept \in enforce_limits(With(data, e, d, r), e)
  PROVE  /\ e \in DOMAIN kept
         /\ d \in DOMAIN kept[e].dtcs =>
              Sound(kept, t + 1, known, gone \union Evictions(data, kept), {<<e, d>>})
         /\ d \notin DOMAIN kept[e].dtcs =>
              /\ Sound(With(kept, e, d, DefaultRecord), t + 1, known,
                       gone \union Evictions(data, kept), {<<e, d>>})
              /\ e \in DOMAIN With(kept, e, d, DefaultRecord)
              /\ d \in DOMAIN With(kept, e, d, DefaultRecord)[e].dtcs
<1> DEFINE added == With(data, e, d, r)
           out == gone \union Evictions(data, kept)
<1>1. t \in Nat /\ t + 1 \in Nat /\ WellFormed(data, t)
  BY DEF Sound
<1>2. ASSUME NEW f \in DOMAIN data, NEW c \in DOMAIN data[f].dtcs
      PROVE  data[f].dtcs[c].first_seen \in Nat /\ data[f].dtcs[c].first_seen <= t
  <2>1. data[f].dtcs[c].first_seen \in Nat
    BY <1>1, EntriesAre DEF DTCRecord
  <2> QED
    BY <1>1, <2>1 DEF WellFormed
<1>3. /\ WellFormed(added, t + 1)
      /\ DOMAIN added = DOMAIN data
      /\ DOMAIN added[e].dtcs = DOMAIN data[e].dtcs \union {d}
      /\ added[e].dtcs[d] = r
      /\ \A c \in DOMAIN data[e].dtcs : added[e].dtcs[c] = data[e].dtcs[c]
      /\ \A f \in DOMAIN data \ {e} : added[f].dtcs = data[f].dtcs
  <2>1. \A c \in DOMAIN data[e].dtcs : data[e].dtcs[c].first_seen # r.first_seen
    BY <1>1, <1>2
  <2>2. t <= t + 1 /\ r.first_seen <= t + 1
    BY <1>1
  <2> DEFINE u == t + 1
  <2>3. u \in Nat /\ t <= u /\ r.first_seen <= u
    BY <1>1, <2>2
  <2> HIDE DEF u
  <2>4. /\ WellFormed(With(data, e, d, r), u)
        /\ DOMAIN With(data, e, d, r) = DOMAIN data
        /\ DOMAIN With(data, e, d, r)[e].dtcs = DOMAIN data[e].dtcs \union {d}
        /\ With(data, e, d, r)[e].dtcs[d] = r
        /\ \A c \in DOMAIN data[e].dtcs : With(data, e, d, r)[e].dtcs[c] = data[e].dtcs[c]
        /\ \A f \in DOMAIN data \ {e} : With(data, e, d, r)[f].dtcs = data[f].dtcs
    BY <1>1, <2>1, <2>3, RecordStored
  <2> QED
    BY <2>4 DEF u
<1>4. kept \in enforce_limits(added, e)
  OBVIOUS
<1> HIDE DEF added
<1>5. /\ WellFormed(kept, t + 1) /\ Trimmed(added, kept)
      /\ RoomForEach => DOMAIN kept[e].dtcs # {}
      /\ Size(kept, e) <= max_dtcs_per_ecu
      /\ 0 \notin LogicalAddress => Total(kept) <= max_total_dtcs
  <2>1. e \in DOMAIN added /\ DOMAIN added[e].dtcs # {}
    BY <1>3
  <2> QED
    BY <1>3, <1>4, <2>1, LimitsTrim
<1>6. /\ DOMAIN kept = DOMAIN data
      /\ \A f \in DOMAIN data : DOMAIN kept[f].dtcs \subseteq DOMAIN added[f].dtcs
      /\ \A f \in DOMAIN data \ {e} : DOMAIN kept[f].dtcs \subseteq DOMAIN data[f].dtcs
      /\ \A f \in DOMAIN data : \A c \in DOMAIN kept[f].dtcs \intersect DOMAIN data[f].dtcs :
           kept[f].dtcs[c] = data[f].dtcs[c]
      /\ d \in DOMAIN kept[e].dtcs => kept[e].dtcs[d] = r
  BY <1>3, <1>5 DEF Trimmed
<1>7. ASSUME d \notin DOMAIN kept[e].dtcs PROVE DOMAIN kept[e].dtcs = {}
  <2> SUFFICES ASSUME NEW c \in DOMAIN kept[e].dtcs PROVE FALSE
    OBVIOUS
  <2>1. c \in DOMAIN added[e].dtcs /\ d \in DOMAIN added[e].dtcs \ DOMAIN kept[e].dtcs
    BY <1>3, <1>6, <1>7
  <2>2. added[e].dtcs[d].first_seen < added[e].dtcs[c].first_seen
    BY <1>3, <1>5, <2>1 DEF Trimmed
  <2>3. c \in DOMAIN data[e].dtcs
    BY <1>3, <1>7, <2>1
  <2> QED
    BY <1>1, <1>2, <1>3, <2>2, <2>3
<1>8. \A f \in DOMAIN data : Size(kept, f) <= max_dtcs_per_ecu
  <2> SUFFICES ASSUME NEW f \in DOMAIN data PROVE Size(kept, f) <= max_dtcs_per_ecu
    OBVIOUS
  <2>1. CASE f = e
    BY <1>5, <2>1
  <2>2. CASE f # e
    <3>1. Size(kept, f) <= Size(data, f) /\ Size(data, f) <= max_dtcs_per_ecu
      BY <1>1, <1>6, <2>2, FewerCodes DEF Sound, Within
    <3>2. Size(kept, f) \in Nat /\ Size(data, f) \in Nat
      BY <1>1, <1>5, <1>6, CodesFinite
    <3> QED
      BY <3>1, <3>2, DtcManagerAssumption
  <2> QED
    BY <2>1, <2>2
<1>9. out \subseteq LogicalAddress \X Nat
  <2>1. ASSUME NEW x \in Evictions(data, kept) PROVE x \in LogicalAddress \X Nat
    <3>1. PICK c \in Stored(data) : x = <<c[1], data[c[1]].dtcs[c[2]].first_seen>>
      BY DEF Evictions
    <3>2. c[1] \in DOMAIN data /\ c[2] \in DOMAIN data[c[1]].dtcs
      BY StoredIs
    <3>3. c[1] \in LogicalAddress /\ data[c[1]].dtcs[c[2]].first_seen \in Nat
      BY <1>1, <1>2, <3>2 DEF WellFormed
    <3> QED
      BY <3>1, <3>3
  <2> QED
    BY <2>1 DEF Sound
<1> HIDE DEF out
<1>10. ASSUME d \in DOMAIN kept[e].dtcs
       PROVE  Sound(kept, t + 1, known, out, {<<e, d>>})
  <2>1. Within(kept)
    BY <1>5, <1>6, <1>8 DEF Within
  <2>2. OwnCodes(data) => OwnCodes(kept)
    <3>1. ASSUME OwnCodes(data), NEW f \in DOMAIN kept, NEW c \in DOMAIN kept[f].dtcs
          PROVE  kept[f].dtcs[c].dtc = c /\ kept[f].dtcs[c].ecu = f
      <4>1. CASE c \in DOMAIN data[f].dtcs
        BY <1>6, <3>1, <4>1 DEF OwnCodes
      <4>2. CASE c \notin DOMAIN data[f].dtcs
        BY <1>3, <1>6, <4>2
      <4> QED
        BY <4>1, <4>2
    <3> QED
      BY <3>1 DEF OwnCodes
  <2>3. Stored(kept) \subseteq Stored(data) \union {<<e, d>>}
    <3> SUFFICES ASSUME NEW c \in Stored(kept), c # <<e, d>> PROVE c \in Stored(data)
      OBVIOUS
    <3>1. PICK f \in DOMAIN kept : \E b \in DOMAIN kept[f].dtcs : c = <<f, b>>
      BY StoredIs
    <3>2. PICK b \in DOMAIN kept[f].dtcs : c = <<f, b>>
      BY <3>1
    <3>3. f \in DOMAIN data /\ b \in DOMAIN data[f].dtcs
      BY <1>3, <1>6, <3>2
    <3> QED
      BY <3>2, <3>3, StoredIs
  <2>4. ASSUME NewerThan(data, t, gone) PROVE NewerThan(kept, t + 1, out)
    <3> SUFFICES ASSUME NEW x \in out
                 PROVE  /\ x[2] <= t + 1
                        /\ x[1] \in DOMAIN kept =>
                             \A c \in DOMAIN kept[x[1]].dtcs : kept[x[1]].dtcs[c].first_seen > x[2]
      BY DEF NewerThan
    <3>0. x[1] \in LogicalAddress /\ x[2] \in Nat
      BY <1>9
    <3>1. CASE x \in gone
      <4>1. x[2] <= t
        BY <2>4, <3>1 DEF NewerThan
      <4>2. ASSUME x[1] \in DOMAIN kept, NEW c \in DOMAIN kept[x[1]].dtcs
            PROVE  kept[x[1]].dtcs[c].first_seen > x[2]
        <5>1. CASE c \in DOMAIN data[x[1]].dtcs
          BY <1>6, <2>4, <3>1, <4>2, <5>1 DEF NewerThan
        <5>2. CASE c \notin DOMAIN data[x[1]].dtcs
          <6>1. x[1] = e /\ c = d
            BY <1>3, <1>6, <4>2, <5>2
          <6>2. kept[x[1]].dtcs[c].first_seen = t + 1
            BY <1>6, <1>10, <6>1
          <6> QED
            BY <1>1, <3>0, <4>1, <6>2
        <5> QED
          BY <5>1, <5>2
      <4> QED
        BY <1>1, <3>0, <4>1, <4>2
    <3>2. CASE x \in Evictions(data, kept)
      <4>1. PICK b \in Stored(data) \ Stored(kept) : x = <<b[1], data[b[1]].dtcs[b[2]].first_seen>>
        BY <3>2 DEF Evictions
      <4>2. PICK f \in DOMAIN data : \E a \in DOMAIN data[f].dtcs : b = <<f, a>>
        BY <4>1, StoredIs
      <4>3. PICK a \in DOMAIN data[f].dtcs : b = <<f, a>>
        BY <4>2
      <4>4. a \notin DOMAIN kept[f].dtcs
        BY <1>6, <4>1, <4>3, StoredIs
      <4>5. x[1] = f /\ x[2] = data[f].dtcs[a].first_seen
        BY <4>1, <4>3
      <4>6. a \in DOMAIN added[f].dtcs /\ added[f].dtcs[a] = data[f].dtcs[a]
        BY <1>3
      <4>7. ASSUME NEW c \in DOMAIN kept[f].dtcs PROVE kept[f].dtcs[c].first_seen > x[2]
        <5>1. added[f].dtcs[a].first_seen < added[f].dtcs[c].first_seen
          BY <1>3, <1>5, <4>4, <4>6 DEF Trimmed
        <5>2. kept[f].dtcs[c] = added[f].dtcs[c]
          BY <1>3, <1>5 DEF Trimmed
        <5>3. kept[f].dtcs[c].first_seen \in Nat
          BY <1>5, <1>6, EntriesAre DEF DTCRecord
        <5> QED
          BY <3>0, <4>5, <4>6, <5>1, <5>2, <5>3
      <4>8. x[2] <= t + 1
        BY <1>1, <1>2, <4>5
      <4> QED
        BY <4>5, <4>7, <4>8
    <3> QED
      BY <3>1, <3>2 DEF out
  <2>5. RoomForEach => /\ OwnCodes(kept)
                       /\ Stored(kept) \subseteq known \union {<<e, d>>}
                       /\ NewerThan(kept, t + 1, out)
    BY <2>2, <2>3, <2>4 DEF Sound
  <2>6. known \subseteq LogicalAddress \X (Dtc \union {0})
    BY DEF Sound
  <2> QED
    BY <1>1, <1>5, <1>9, <2>1, <2>5, <2>6 DEF Sound
<1>11. ASSUME d \notin DOMAIN kept[e].dtcs
       PROVE  /\ Sound(With(kept, e, d, DefaultRecord), t + 1, known, out, {<<e, d>>})
              /\ e \in DOMAIN With(kept, e, d, DefaultRecord)
              /\ d \in DOMAIN With(kept, e, d, DefaultRecord)[e].dtcs
  <2>1. DOMAIN kept[e].dtcs = {} /\ ~ RoomForEach /\ e \in DOMAIN kept
    BY <1>5, <1>6, <1>7, <1>11
  <2> DEFINE again == With(kept, e, d, DefaultRecord)
  <2>2. /\ WellFormed(again, t + 1)
        /\ DOMAIN again = DOMAIN kept
        /\ DOMAIN again[e].dtcs = DOMAIN kept[e].dtcs \union {d}
        /\ \A f \in DOMAIN kept \ {e} : again[f].dtcs = kept[f].dtcs
    <3> DEFINE u == t + 1
    <3>1. u \in Nat /\ u <= u /\ DefaultRecord.first_seen <= u /\ WellFormed(kept, u)
      BY <1>1, <1>5 DEF DefaultRecord
    <3> HIDE DEF u
    <3>2. /\ WellFormed(With(kept, e, d, DefaultRecord), u)
          /\ DOMAIN With(kept, e, d, DefaultRecord) = DOMAIN kept
          /\ DOMAIN With(kept, e, d, DefaultRecord)[e].dtcs = DOMAIN kept[e].dtcs \union {d}
          /\ \A f \in DOMAIN kept \ {e} : With(kept, e, d, DefaultRecord)[f].dtcs = kept[f].dtcs
      BY <2>1, <3>1, <1>11, DefaultFits, RecordStored
    <3> QED
      BY <3>2 DEF u
  <2> HIDE DEF again
  <2>3. Within(again)
    <3>1. Size(again, e) = 1
      <4>1. DOMAIN again[e].dtcs = {d}
        BY <2>1, <2>2
      <4> QED
        BY <4>1, FS_Singleton, Zenon DEF Size
    <3>2. \A f \in DOMAIN kept \ {e} : Size(again, f) = Size(kept, f)
      BY <2>2 DEF Size
    <3>3. \A f \in DOMAIN again : Size(again, f) <= max_dtcs_per_ecu
      BY <1>6, <1>8, <2>2, <3>1, <3>2, DtcManagerAssumption
    <3> QED
      BY <2>1, <3>3 DEF Within
  <2>4. known \subseteq LogicalAddress \X (Dtc \union {0})
    BY DEF Sound
  <2>5. Sound(again, t + 1, known, out, {<<e, d>>})
    BY <1>1, <1>9, <2>1, <2>2, <2>3, <2>4 DEF Sound
  <2> QED
    BY <2>1, <2>2, <2>5 DEF again
<1> QED
  BY <1>6, <1>10, <1>11 DEF out

\* get_or_create_dtc leaves a sound outcome that holds the code; of a code that is
\* new the listener is still to be told.
LEMMA CodeFound ==
  ASSUME NEW o, SoundOutcome(o, {}), NEW e \in LogicalAddress, NEW d \in Dtc,
         NEW n \in get_or_create_dtc(o, e, d)
  PROVE  /\ SoundOutcome(n, {<<e, d>>})
         /\ e \in DOMAIN n.data /\ d \in DOMAIN n.data[e].dtcs
         /\ ~ IsNew(o, e, d) => SoundOutcome(n, {})
<1> DEFINE data == WithEcu(o.data, e)
           t == o.clock
           r == [DefaultRecord EXCEPT !.dtc = d, !.ecu = e, !.first_seen = t + 1]
<1>1. /\ Sound(data, t, o.view, o.evicted, {}) /\ e \in DOMAIN data
      /\ o = [data |-> o.data, clock |-> o.clock, view |-> o.view, evicted |-> o.evicted]
  BY EcuEntered DEF SoundOutcome
<1>2. CASE d \in DOMAIN data[e].dtcs
  <2>1. n = [o EXCEPT !.data = data]
    BY <1>2 DEF get_or_create_dtc
  <2> HIDE DEF data
  <2>2. /\ n = [data |-> n.data, clock |-> n.clock, view |-> n.view, evicted |-> n.evicted]
        /\ n.data = data /\ n.clock = t /\ n.view = o.view /\ n.evicted = o.evicted
    BY <1>1, <2>1
  <2>3. SoundOutcome(n, {})
    BY <1>1, <2>2 DEF SoundOutcome
  <2>4. SoundOutcome(n, {<<e, d>>})
    BY <2>3 DEF SoundOutcome, Sound
  <2> QED
    BY <1>1, <1>2, <2>2, <2>3, <2>4
<1>3. CASE d \notin DOMAIN data[e].dtcs
  <2> DEFINE Reindexed(kept) ==
               IF d \in DOMAIN kept[e].dtcs THEN kept ELSE With(kept, e, d, DefaultRecord)
  <2>1. PICK kept \in enforce_limits(With(data, e, d, r), e) :
           n = [o EXCEPT !.data = Reindexed(kept), !.clock = @ + 1,
                         !.evicted = @ \union Evictions(data, kept)]
    BY <1>3 DEF get_or_create_dtc
  <2>2. IsNew(o, e, d)
    BY <1>3 DEF IsNew
  <2> DEFINE final == Reindexed(kept)
             out == o.evicted \union Evictions(data, kept)
             u == t + 1
  <2>3. r \in DTCRecord /\ r.first_seen = t + 1 /\ r.dtc = d /\ r.ecu = e
    <3>1. t \in Nat
      BY <1>1 DEF Sound
    <3> QED
      <4>1. u \in Nat /\ r = [DefaultRecord EXCEPT !.dtc = d, !.ecu = e, !.first_seen = u]
        BY <3>1
      <4> HIDE DEF r, u, data
      <4>2. r \in DTCRecord /\ r.first_seen = u /\ r.dtc = d /\ r.ecu = e
        BY <4>1, DefaultFits DEF DTCRecord
      <4> QED
        BY <4>2 DEF u
  <2> HIDE DEF data, r
  <2>4. Sound(final, u, o.view, out, {<<e, d>>}) /\ e \in DOMAIN final /\ d \in DOMAIN final[e].dtcs
    <3>1. /\ e \in DOMAIN kept
          /\ d \in DOMAIN kept[e].dtcs =>
              Sound(kept, t + 1, o.view, o.evicted \union Evictions(data, kept), {<<e, d>>})
          /\ d \notin DOMAIN kept[e].dtcs =>
              /\ Sound(With(kept, e, d, DefaultRecord), t + 1, o.view,
                       o.evicted \union Evictions(data, kept), {<<e, d>>})
              /\ e \in DOMAIN With(kept, e, d, DefaultRecord)
              /\ d \in DOMAIN With(kept, e, d, DefaultRecord)[e].dtcs
      BY <1>1, <1>3, <2>1, <2>3, CodeCreated
    <3> QED
      BY <3>1
  <2>5. n = [o EXCEPT !.data = final, !.clock = u, !.evicted = out]
    BY <2>1
  <2> HIDE DEF final, out, u
  <2>6. /\ n = [data |-> n.data, clock |-> n.clock, view |-> n.view, evicted |-> n.evicted]
        /\ n.data = final /\ n.clock = u /\ n.view = o.view /\ n.evicted = out
    BY <1>1, <2>5
  <2>7. SoundOutcome(n, {<<e, d>>})
    BY <2>4, <2>6 DEF SoundOutcome
  <2> QED
    BY <2>2, <2>4, <2>6, <2>7
<1> QED
  BY <1>2, <1>3

\* Changing a stored record, other than its code and time, keeps an outcome sound.
LEMMA RecordChanged ==
  ASSUME NEW n, NEW X, SoundOutcome(n, X), NEW e \in DOMAIN n.data,
         NEW d \in DOMAIN n.data[e].dtcs, NEW new \in DTCRecord,
         new.dtc = n.data[e].dtcs[d].dtc, new.first_seen = n.data[e].dtcs[d].first_seen,
         new.ecu = n.data[e].dtcs[d].ecu
  PROVE  SoundOutcome([n EXCEPT !.data[e].dtcs[d] = new], X)
<1> DEFINE data == n.data
           codes == [data[e].dtcs EXCEPT ![d] = new]
           entry == [data[e] EXCEPT !.dtcs = codes]
           all == [data EXCEPT ![e] = entry]
           put == [n EXCEPT !.data = all]
<1>0. put = [n EXCEPT !.data[e].dtcs[d] = new]
  OBVIOUS
<1>1. /\ Sound(data, n.clock, n.view, n.evicted, X) /\ WellFormed(data, n.clock)
      /\ n = [data |-> n.data, clock |-> n.clock, view |-> n.view, evicted |-> n.evicted]
  BY DEF SoundOutcome, Sound
<1>2. e \in DOMAIN data /\ d \in DOMAIN data[e].dtcs
  OBVIOUS
<1>3. /\ new.dtc = data[e].dtcs[d].dtc /\ new.first_seen = data[e].dtcs[d].first_seen
      /\ new.ecu = data[e].dtcs[d].ecu
  OBVIOUS
<1> HIDE DEF data
<1>4. /\ codes \in Codes /\ DOMAIN codes = DOMAIN data[e].dtcs /\ codes[d] = new
      /\ \A c \in DOMAIN data[e].dtcs \ {d} : codes[c] = data[e].dtcs[c]
  <2>1. /\ DOMAIN data[e].dtcs \subseteq Dtc
        /\ data[e].dtcs \in [DOMAIN data[e].dtcs -> DTCRecord]
    BY <1>1, <1>2, EntriesAre
  <2>2. codes \in [DOMAIN codes -> DTCRecord] /\ DOMAIN codes \subseteq Dtc
    BY <2>1
  <2> QED
    BY <1>2, <2>1, <2>2, CodesAre
<1> HIDE DEF codes
<1>5. entry \in ECUEntry /\ entry.dtcs = codes
  <2>1. data[e] \in ECUEntry
    BY <1>1, <1>2, EntriesAre
  <2> QED
    BY <1>4, <2>1 DEF ECUEntry
<1> HIDE DEF entry
<1>6. /\ DOMAIN all = DOMAIN data /\ all[e].dtcs = codes
      /\ \A f \in DOMAIN data \ {e} : all[f].dtcs = data[f].dtcs
      /\ all \in [DOMAIN all -> ECUEntry]
  BY <1>1, <1>2, <1>5 DEF WellFormed
<1> HIDE DEF all
<1>7. /\ \A f \in DOMAIN data : DOMAIN all[f].dtcs = DOMAIN data[f].dtcs
      /\ \A f \in DOMAIN data : \A c \in DOMAIN data[f].dtcs :
           /\ all[f].dtcs[c].first_seen = data[f].dtcs[c].first_seen
           /\ all[f].dtcs[c].dtc = data[f].dtcs[c].dtc
           /\ all[f].dtcs[c].ecu = data[f].dtcs[c].ecu
  BY <1>2, <1>3, <1>4, <1>6
<1>8. WellFormed(all, n.clock)
  BY <1>1, <1>6, <1>7 DEF WellFormed
<1>9. Stored(all) = Stored(data)
  <2>1. ASSUME NEW c PROVE c \in Stored(all) <=> c \in Stored(data)
    BY <1>6, <1>7, StoredIs
  <2> QED
    BY <2>1
<1>10. Within(all)
  <2>1. \A f \in DOMAIN data : Size(all, f) = Size(data, f)
    BY <1>7 DEF Size
  <2>2. Total(all) = Total(data)
    BY <1>9 DEF Total
  <2> QED
    BY <1>1, <1>6, <2>1, <2>2 DEF Sound, Within
<1>11. RoomForEach => /\ OwnCodes(all)
                      /\ Stored(all) \subseteq n.view \union X
                      /\ NewerThan(all, n.clock, n.evicted)
  BY <1>1, <1>6, <1>7, <1>9 DEF Sound, OwnCodes, NewerThan
<1>12. Sound(all, n.clock, n.view, n.evicted, X)
  BY <1>1, <1>8, <1>10, <1>11 DEF Sound
<1>13. /\ put = [data |-> put.data, clock |-> put.clock, view |-> put.view, evicted |-> put.evicted]
       /\ put.data = all /\ put.clock = n.clock /\ put.view = n.view /\ put.evicted = n.evicted
  BY <1>1
<1>14. SoundOutcome(put, X)
  <2> HIDE DEF put
  <2> QED
    BY <1>12, <1>13 DEF SoundOutcome
<1> QED
  BY <1>0, <1>14

\* Telling a listener of the code.
LEMMA CodeTold ==
  ASSUME NEW n, NEW e \in LogicalAddress, NEW d \in Dtc, SoundOutcome(n, {<<e, d>>}),
         NEW r \in DTCRecord, RoomForEach => r.dtc = d
  PROVE  SoundOutcome(Told(n, e, r), {})
<1> DEFINE known == n.view \union {<<e, r.dtc>>}
           m == [n EXCEPT !.view = known]
<1>1. /\ Sound(n.data, n.clock, n.view, n.evicted, {<<e, d>>})
      /\ n = [data |-> n.data, clock |-> n.clock, view |-> n.view, evicted |-> n.evicted]
  BY DEF SoundOutcome
<1>2. Told(n, e, r) = m
  BY DEF Told
<1>3. known \subseteq LogicalAddress \X (Dtc \union {0})
  BY <1>1 DEF Sound, DTCRecord
<1>4. Sound(n.data, n.clock, known, n.evicted, {})
  BY <1>1, <1>3 DEF Sound
<1> HIDE DEF known
<1>5. /\ m = [data |-> m.data, clock |-> m.clock, view |-> m.view, evicted |-> m.evicted]
      /\ m.data = n.data /\ m.clock = n.clock /\ m.view = known /\ m.evicted = n.evicted
  BY <1>1
<1> HIDE DEF m
<1> QED
  BY <1>2, <1>4, <1>5 DEF SoundOutcome

LEMMA RecordFound ==
  ASSUME NEW n, NEW X, SoundOutcome(n, X), NEW e \in DOMAIN n.data, NEW d \in DOMAIN n.data[e].dtcs
  PROVE  n.data[e].dtcs[d] \in DTCRecord /\ (RoomForEach => n.data[e].dtcs[d].dtc = d)
<1>1. WellFormed(n.data, n.clock) /\ (RoomForEach => OwnCodes(n.data))
  BY DEF SoundOutcome, Sound
<1> QED
  BY <1>1, EntriesAre DEF OwnCodes

LEMMA DtcAdded ==
  ASSUME NEW o, SoundOutcome(o, {}), NEW e \in LogicalAddress, NEW d \in Dtc, NEW status \in Status,
         NEW m \in add_dtc(o, e, d, status)
  PROVE  SoundOutcome(m, {})
<1> DEFINE Old(n) == n.data[e].dtcs[d]
           New(n) == [Old(n) EXCEPT !.status = status,
                                    !.occurrence_count = IF IsNew(o, e, d) THEN @ ELSE @ + 1]
           Put(n) == [n EXCEPT !.data[e].dtcs[d] = New(n)]
<1>1. PICK n \in get_or_create_dtc(o, e, d) :
         m = IF IsNew(o, e, d) \/ Compared(Old(n).status) # Compared(status)
             THEN Told(Put(n), e, New(n)) ELSE Put(n)
  BY DEF add_dtc
<1>2. /\ SoundOutcome(n, {<<e, d>>})
      /\ e \in DOMAIN n.data /\ d \in DOMAIN n.data[e].dtcs
      /\ ~ IsNew(o, e, d) => SoundOutcome(n, {})
  BY CodeFound
<1>3. Old(n) \in DTCRecord /\ (RoomForEach => Old(n).dtc = d)
  BY <1>2, RecordFound
<1> DEFINE old == Old(n)
           count == IF IsNew(o, e, d) THEN old.occurrence_count ELSE old.occurrence_count + 1
           new == [old EXCEPT !.status = status, !.occurrence_count = count]
<1>4. New(n) = new
  OBVIOUS
<1>5. /\ new \in DTCRecord /\ new.dtc = old.dtc
      /\ new.first_seen = old.first_seen /\ new.ecu = old.ecu
  <2> HIDE DEF old
  <2>1. old \in DTCRecord
    BY <1>3 DEF old
  <2>2. count \in Nat
    BY <2>1 DEF DTCRecord
  <2> HIDE DEF count
  <2> QED
    BY <2>1, <2>2 DEF DTCRecord
<1> DEFINE put == [n EXCEPT !.data[e].dtcs[d] = new]
<1>6. Put(n) = put
  BY <1>4
<1>7. /\ new.dtc = n.data[e].dtcs[d].dtc /\ new.first_seen = n.data[e].dtcs[d].first_seen
      /\ new.ecu = n.data[e].dtcs[d].ecu
      /\ RoomForEach => new.dtc = d
  BY <1>3, <1>5
<1>8. m = IF IsNew(o, e, d) \/ Compared(Old(n).status) # Compared(status)
          THEN Told(put, e, new) ELSE put
  BY <1>1, <1>4, <1>6
<1> HIDE DEF new, Old, New, Put
<1>9. SoundOutcome(put, {<<e, d>>}) /\ (~ IsNew(o, e, d) => SoundOutcome(put, {}))
  BY <1>2, <1>5, <1>7, RecordChanged
<1> HIDE DEF put
<1>10. SoundOutcome(Told(put, e, new), {})
  BY <1>5, <1>7, <1>9, CodeTold
<1> QED
  BY <1>8, <1>9, <1>10

LEMMA SnapshotAdded ==
  ASSUME NEW o, SoundOutcome(o, {}), NEW e \in LogicalAddress, NEW d \in Dtc,
         NEW m \in add_snapshot(o, e, d)
  PROVE  SoundOutcome(m, {})
<1>1. PICK n \in get_or_create_dtc(o, e, d) :
         m = LET new == [n.data[e].dtcs[d] EXCEPT !.snapshots = @ + 1]
             IN  Told([n EXCEPT !.data[e].dtcs[d] = new], e, new)
  BY DEF add_snapshot
<1>2. /\ SoundOutcome(n, {<<e, d>>}) /\ e \in DOMAIN n.data /\ d \in DOMAIN n.data[e].dtcs
  BY CodeFound
<1> DEFINE old == n.data[e].dtcs[d]
           count == old.snapshots + 1
           new == [old EXCEPT !.snapshots = count]
           put == [n EXCEPT !.data[e].dtcs[d] = new]
<1>3. old \in DTCRecord /\ (RoomForEach => old.dtc = d)
  BY <1>2, RecordFound
<1>4. m = Told(put, e, new)
  BY <1>1
<1>5. /\ new \in DTCRecord /\ new.dtc = old.dtc
      /\ new.first_seen = old.first_seen /\ new.ecu = old.ecu
  <2> HIDE DEF old
  <2>1. count \in Nat
    BY <1>3 DEF DTCRecord
  <2> HIDE DEF count
  <2> QED
    BY <1>3, <2>1 DEF DTCRecord
<1>6. /\ new.dtc = n.data[e].dtcs[d].dtc /\ new.first_seen = n.data[e].dtcs[d].first_seen
      /\ new.ecu = n.data[e].dtcs[d].ecu
      /\ RoomForEach => new.dtc = d
  BY <1>3, <1>5
<1> HIDE DEF new, old
<1>7. SoundOutcome(put, {<<e, d>>})
  BY <1>2, <1>5, <1>6, RecordChanged
<1> HIDE DEF put
<1> QED
  BY <1>4, <1>5, <1>6, <1>7, CodeTold

LEMMA ExtendedDataAdded ==
  ASSUME NEW o, SoundOutcome(o, {}), NEW e \in LogicalAddress, NEW d \in Dtc,
         NEW m \in add_extended_data(o, e, d)
  PROVE  SoundOutcome(m, {})
<1>1. PICK n \in get_or_create_dtc(o, e, d) :
         m = LET new == [n.data[e].dtcs[d] EXCEPT !.extended = TRUE]
             IN  Told([n EXCEPT !.data[e].dtcs[d] = new], e, new)
  BY DEF add_extended_data
<1>2. /\ SoundOutcome(n, {<<e, d>>}) /\ e \in DOMAIN n.data /\ d \in DOMAIN n.data[e].dtcs
  BY CodeFound
<1> DEFINE old == n.data[e].dtcs[d]
           yes == TRUE
           new == [old EXCEPT !.extended = yes]
           put == [n EXCEPT !.data[e].dtcs[d] = new]
<1>3. old \in DTCRecord /\ (RoomForEach => old.dtc = d)
  BY <1>2, RecordFound
<1>4. m = Told(put, e, new)
  BY <1>1
<1>5. /\ new \in DTCRecord /\ new.dtc = old.dtc
      /\ new.first_seen = old.first_seen /\ new.ecu = old.ecu
  <2> HIDE DEF old
  <2>1. yes \in BOOLEAN
    OBVIOUS
  <2> HIDE DEF yes
  <2> QED
    BY <1>3, <2>1 DEF DTCRecord
<1>6. /\ new.dtc = n.data[e].dtcs[d].dtc /\ new.first_seen = n.data[e].dtcs[d].first_seen
      /\ new.ecu = n.data[e].dtcs[d].ecu
      /\ RoomForEach => new.dtc = d
  BY <1>3, <1>5
<1> HIDE DEF new, old
<1>7. SoundOutcome(put, {<<e, d>>})
  BY <1>2, <1>5, <1>6, RecordChanged
<1> HIDE DEF put
<1> QED
  BY <1>4, <1>5, <1>6, <1>7, CodeTold

\* The codes of a list, one after the other.
LEMMA ListIsAdded ==
  ASSUME SoundOutcome(Outcome, {}), NEW e \in LogicalAddress, NEW list \in DtcLists,
         NEW m \in ListAdded(e, list)
  PROVE  SoundOutcome(m, {})
<1>1. list \in Seq(Dtc \X Status) /\ Len(list) \in Nat
  BY DtcManagerAssumption
<1>2. PICK after : ListOutcomes(after, e, list)
  BY <1>1, ListRuns
<1>3. /\ ListAdded(e, list) = after[Len(list)]
      /\ after[0] = {[Outcome EXCEPT !.data = WithEcu(ecu_data, e)]}
      /\ \A n \in 1..Len(list) :
           after[n] = UNION {add_dtc(o, e, list[n][1], list[n][2]) : o \in after[n - 1]}
  BY <1>2 DEF ListOutcomes
<1> DEFINE A == {n \in 0..Len(list) : \A o \in after[n] : SoundOutcome(o, {})}
<1>4. 0 \in A
  <2> DEFINE all == WithEcu(ecu_data, e)
             o == [Outcome EXCEPT !.data = all]
  <2>1. Sound(ecu_data, clock, view, evicted, {})
    BY DEF SoundOutcome, Outcome
  <2>2. Sound(all, clock, view, evicted, {})
    BY <2>1, EcuEntered
  <2> HIDE DEF all
  <2>3. o = [data |-> all, clock |-> clock, view |-> view, evicted |-> evicted]
    BY DEF Outcome
  <2>4. SoundOutcome(o, {})
    <3> HIDE DEF o
    <3> QED
      BY <2>2, <2>3 DEF SoundOutcome
  <2>5. after[0] = {o}
    BY <1>3 DEF all
  <2> HIDE DEF o
  <2> QED
    BY <1>1, <2>4, <2>5
<1>5. ASSUME NEW n \in 1..Len(list), n - 1 \in A PROVE n \in A
  <2>1. n \in 0..Len(list)
    BY <1>1
  <2> SUFFICES ASSUME NEW j \in after[n] PROVE SoundOutcome(j, {})
    BY <2>1
  <2>2. PICK o \in after[n - 1] : j \in add_dtc(o, e, list[n][1], list[n][2])
    BY <1>3
  <2>3. SoundOutcome(o, {})
    BY <1>5
  <2>4. list[n][1] \in Dtc /\ list[n][2] \in Status
    BY <1>1
  <2> QED
    BY <2>2, <2>3, <2>4, DtcAdded
<1>6. \A n \in 1..Len(list) : n - 1 \in A => n \in A
  BY <1>5
<1>7. Len(list) \in A
  <2> HIDE DEF A
  <2>1. \A n \in 0..Len(list) : n \in A
    BY <1>1, <1>4, <1>6, Induction
  <2> QED
    BY <1>1, <2>1
<1> QED
  BY <1>3, <1>7
-----------------------------------------------------------------------------
(* Clearing codes.                                                         *)

\* Taking codes out of the map keeps it sound, if the listener still knows the rest.
LEMMA CodesRemoved ==
  ASSUME NEW data, NEW t, NEW known, NEW gone, Sound(data, t, known, gone, {}),
         NEW k, DOMAIN k \subseteq DOMAIN data, k \in [DOMAIN k -> ECUEntry],
         \A f \in DOMAIN k : /\ DOMAIN k[f].dtcs \subseteq DOMAIN data[f].dtcs
                             /\ \A c \in DOMAIN k[f].dtcs : k[f].dtcs[c] = data[f].dtcs[c],
         NEW rest \in SUBSET known, RoomForEach => Stored(k) \subseteq rest
  PROVE  Sound(k, t, rest, gone, {})
<1>1. WellFormed(data, t) /\ t \in Nat
  BY DEF Sound
<1>2. WellFormed(k, t)
  BY <1>1 DEF WellFormed
<1>3. Stored(k) \subseteq Stored(data)
  <2> SUFFICES ASSUME NEW c \in Stored(k) PROVE c \in Stored(data)
    OBVIOUS
  <2>1. PICK f \in DOMAIN k : \E d \in DOMAIN k[f].dtcs : c = <<f, d>>
    BY StoredIs
  <2>2. PICK d \in DOMAIN k[f].dtcs : c = <<f, d>>
    BY <2>1
  <2>3. f \in DOMAIN data /\ d \in DOMAIN data[f].dtcs
    BY <2>2
  <2> QED
    BY <2>2, <2>3, StoredIs
<1>4. Within(k)
  <2>1. ASSUME NEW f \in DOMAIN k PROVE Size(k, f) <= max_dtcs_per_ecu
    <3>1. f \in DOMAIN data /\ DOMAIN k[f].dtcs \subseteq DOMAIN data[f].dtcs
      OBVIOUS
    <3>2. Size(k, f) <= Size(data, f) /\ Size(data, f) <= max_dtcs_per_ecu
      BY <1>1, <3>1, FewerCodes DEF Sound, Within
    <3>3. Size(k, f) \in Nat /\ Size(data, f) \in Nat
      BY <1>1, <1>2, <3>1, CodesFinite
    <3> QED
      BY <3>2, <3>3, DtcManagerAssumption
  <2>2. Total(k) <= Total(data) /\ Total(k) \in Nat /\ Total(data) \in Nat
    BY <1>1, <1>2, <1>3, CodesFinite, FS_Subset DEF Total
  <2>3. 0 \notin LogicalAddress /\ RoomForEach => Total(k) <= max_total_dtcs
    BY <2>2, DtcManagerAssumption DEF Sound, Within
  <2> QED
    BY <2>1, <2>3 DEF Within
<1>5. RoomForEach => OwnCodes(k) /\ Stored(k) \subseteq rest /\ NewerThan(k, t, gone)
  BY DEF Sound, OwnCodes, NewerThan
<1>6. rest \subseteq LogicalAddress \X (Dtc \union {0}) /\ gone \subseteq LogicalAddress \X Nat
  BY DEF Sound
<1> QED
  BY <1>1, <1>2, <1>4, <1>5, <1>6 DEF Sound

LEMMA NoCodesFit == NoCodes \in Codes /\ DOMAIN NoCodes = {}
<1>1. NoCodes \in [{} -> DTCRecord] /\ DOMAIN NoCodes = {}
  BY DEF NoCodes
<1> QED
  BY <1>1, CodesAre

\* The history after clearing all codes holds records.
LEMMA HistoryFits ==
  ASSUME NEW data, NEW t, WellFormed(data, t), NEW e \in DOMAIN data,
         NEW order \in SetToSeqs({data[e].dtcs[d] : d \in DOMAIN data[e].dtcs})
  PROVE  LastOf(data[e].cleared_history \o order, max_cleared_history) \in Seq(DTCRecord)
<1> DEFINE S == {data[e].dtcs[d] : d \in DOMAIN data[e].dtcs}
           N == Cardinality(S)
<1>1. data[e].dtcs \in [DOMAIN data[e].dtcs -> DTCRecord] /\ IsFiniteSet(DOMAIN data[e].dtcs)
  BY EntriesAre, CodesFinite
<1>2. S \subseteq DTCRecord
  BY <1>1
<1>3. IsFiniteSet(S)
  <2>1. data[e].dtcs \in Surjection(DOMAIN data[e].dtcs, S)
    BY <1>1 DEF Surjection
  <2> HIDE DEF S
  <2> QED
    BY <1>1, <2>1, FS_Surjection
<1>4. order \in [1..N -> S]
  BY Zenon DEF SetToSeqs
<1>5. N \in Nat
  BY <1>3, FS_CardinalityType
<1> HIDE DEF S, N
<1>6. order \in Seq(DTCRecord)
  BY <1>2, <1>4, <1>5
<1>7. data[e].cleared_history \in Seq(DTCRecord)
  BY EntriesAre
<1> DEFINE s == data[e].cleared_history \o order
<1>8. s \in Seq(DTCRecord)
  BY <1>6, <1>7
<1> HIDE DEF s
<1>9. LastOf(s, max_cleared_history) \in Seq(DTCRecord)
  BY <1>8, DtcManagerAssumption DEF LastOf
<1> QED
  BY <1>9 DEF s

\* What ClearedAll makes of an ECU's entry.
LEMMA AllCleared ==
  ASSUME NEW data, NEW t, WellFormed(data, t), NEW e \in DOMAIN data, NEW k \in ClearedAll(data, e)
  PROVE  /\ DOMAIN k = DOMAIN data /\ k \in [DOMAIN k -> ECUEntry]
         /\ DOMAIN k[e].dtcs = {}
         /\ \A f \in DOMAIN data \ {e} : k[f] = data[f]
<1> DEFINE old == data[e].cleared_history
           kept(order) == IF keep_cleared_history /\ DOMAIN data[e].dtcs # {}
                          THEN LastOf(old \o order, max_cleared_history) ELSE old
<1>1. PICK order \in SetToSeqs({data[e].dtcs[d] : d \in DOMAIN data[e].dtcs}) :
         k = [data EXCEPT ![e].dtcs = NoCodes, ![e].cleared_history = kept(order)]
  BY DEF ClearedAll
<1> DEFINE history == kept(order)
           entry == [data[e] EXCEPT !.dtcs = NoCodes, !.cleared_history = history]
<1>2. history \in Seq(DTCRecord)
  BY HistoryFits, EntriesAre
<1>3. k = [data EXCEPT ![e].dtcs = NoCodes, ![e].cleared_history = history]
  BY <1>1
<1> HIDE DEF history, kept
<1>4. k = [data EXCEPT ![e] = entry]
  BY <1>3
<1>5. entry \in ECUEntry /\ entry.dtcs = NoCodes
  <2>1. data[e] \in ECUEntry
    BY EntriesAre
  <2> QED
    BY <1>2, <2>1, NoCodesFit DEF ECUEntry
<1> HIDE DEF entry
<1>6. data \in [DOMAIN data -> ECUEntry]
  BY DEF WellFormed
<1> QED
  BY <1>4, <1>5, <1>6, NoCodesFit

\* What ClearedOne makes of it.
LEMMA OneCleared ==
  ASSUME NEW data, NEW t, WellFormed(data, t), NEW e \in DOMAIN data, NEW d \in DOMAIN data[e].dtcs,
         NEW k, k = ClearedOne(data, e, d)
  PROVE  /\ DOMAIN k = DOMAIN data /\ k \in [DOMAIN k -> ECUEntry]
         /\ DOMAIN k[e].dtcs = DOMAIN data[e].dtcs \ {d}
         /\ \A c \in DOMAIN k[e].dtcs : k[e].dtcs[c] = data[e].dtcs[c]
         /\ \A f \in DOMAIN data \ {e} : k[f].dtcs = data[f].dtcs
<1> DEFINE rest == [c \in DOMAIN data[e].dtcs \ {d} |-> data[e].dtcs[c]]
           less == Replaced(data, e, rest)
           old == less[e].cleared_history
           history == IF keep_cleared_history THEN Append(old, data[e].dtcs[d]) ELSE old
           entry == [less[e] EXCEPT !.cleared_history = history]
<1>1. rest \in Codes /\ DOMAIN rest = DOMAIN data[e].dtcs \ {d} /\ \A c \in DOMAIN rest : rest[c] = data[e].dtcs[c]
  <2>1. rest \in [DOMAIN rest -> DTCRecord] /\ DOMAIN rest \subseteq Dtc
    BY EntriesAre
  <2> QED
    BY <2>1, CodesAre
<1>2. k = [less EXCEPT ![e] = entry]
  BY DEF ClearedOne, Without
<1> HIDE DEF rest
<1>3. /\ DOMAIN less = DOMAIN data /\ less[e].dtcs = rest
      /\ old = data[e].cleared_history
      /\ \A f \in DOMAIN data \ {e} : less[f].dtcs = data[f].dtcs
      /\ less \in [DOMAIN data -> ECUEntry]
  BY <1>1, ReplacedIs, ReplacedFits
<1> HIDE DEF less
<1>4. history \in Seq(DTCRecord)
  <2>1. old \in Seq(DTCRecord) /\ data[e].dtcs[d] \in DTCRecord
    BY <1>3, EntriesAre
  <2> HIDE DEF old
  <2> QED
    BY <2>1
<1> HIDE DEF history
<1>5. entry \in ECUEntry /\ entry.dtcs = rest
  <2>1. less[e] \in ECUEntry
    BY <1>3
  <2> QED
    BY <1>3, <1>4, <2>1 DEF ECUEntry
<1> HIDE DEF entry
<1> QED
  BY <1>1, <1>2, <1>3, <1>5
-----------------------------------------------------------------------------
(* The invariant.                                                          *)

DtcInv ==
  /\ Sound(ecu_data, clock, view, evicted, {})
  /\ mutex \in {"free", "held"}
  /\ calls \in 0..MaxCalls

LEMMA DtcInvInit == DtcInit => DtcInv
<1> SUFFICES ASSUME DtcInit PROVE DtcInv
  OBVIOUS
<1>1. DOMAIN ecu_data = {} /\ ecu_data \in [{} -> ECUEntry] /\ clock = 0 /\ view = {} /\ evicted = {}
  BY DEF DtcInit
<1>2. WellFormed(ecu_data, clock)
  BY <1>1 DEF WellFormed
<1>3. Stored(ecu_data) = {}
  BY <1>1, StoredIs
<1>4. Within(ecu_data)
  BY <1>1, <1>3, FS_EmptySet, DtcManagerAssumption DEF Within, Total
<1>5. OwnCodes(ecu_data) /\ NewerThan(ecu_data, clock, evicted)
  BY <1>1 DEF OwnCodes, NewerThan
<1>6. Sound(ecu_data, clock, view, evicted, {})
  BY <1>1, <1>2, <1>3, <1>4, <1>5 DEF Sound
<1> QED
  BY <1>6, DtcManagerAssumption DEF DtcInit, DtcInv

LEMMA OutcomeIsSound == DtcInv => SoundOutcome(Outcome, {})
BY DEF DtcInv, SoundOutcome, Outcome

LEMMA OutcomeTaken ==
  ASSUME DtcInv, Call, mutex' \in {"free", "held"},
         \E o : SoundOutcome(o, {}) /\ Become(o)
  PROVE  DtcInv'
<1>1. PICK o : SoundOutcome(o, {}) /\ Become(o)
  OBVIOUS
<1>2. Sound(ecu_data', clock', view', evicted', {})
  BY <1>1 DEF SoundOutcome, Become
<1>3. calls' \in 0..MaxCalls
  BY DtcManagerAssumption DEF DtcInv, Call
<1> QED
  BY <1>2, <1>3 DEF DtcInv

LEMMA RemovalTaken ==
  ASSUME DtcInv, Locked, UNCHANGED <<clock, evicted, mutex>>,
         NEW data, Sound(data, clock, view, evicted, {}),
         DOMAIN ecu_data' \subseteq DOMAIN data, ecu_data' \in [DOMAIN ecu_data' -> ECUEntry],
         \A f \in DOMAIN ecu_data' :
           /\ DOMAIN ecu_data'[f].dtcs \subseteq DOMAIN data[f].dtcs
           /\ \A c \in DOMAIN ecu_data'[f].dtcs : ecu_data'[f].dtcs[c] = data[f].dtcs[c],
         view' \subseteq view, RoomForEach => Stored(ecu_data') \subseteq view'
  PROVE  DtcInv'
<1>1. PICK k : k = ecu_data'
  OBVIOUS
<1>2. PICK rest : rest = view'
  OBVIOUS
<1>3. Sound(k, clock, rest, evicted, {})
  BY <1>1, <1>2, CodesRemoved
<1>4. calls' \in 0..MaxCalls
  BY DtcManagerAssumption DEF DtcInv, Locked, Call
<1> QED
  BY <1>1, <1>2, <1>3, <1>4 DEF DtcInv

LEMMA ClearAllStep ==
  ASSUME DtcInv, NEW e \in LogicalAddress, ClearAllResponse(e)
  PROVE  DtcInv'
<1>1. PICK data : data = WithEcu(ecu_data, e)
  OBVIOUS
<1>2. Sound(data, clock, view, evicted, {}) /\ e \in DOMAIN data
  BY <1>1, EcuEntered DEF DtcInv
<1>3. PICK k \in ClearedAll(data, e) : k = ecu_data'
  BY <1>1 DEF ClearAllResponse
<1>4. WellFormed(data, clock)
  BY <1>2 DEF Sound
<1>5. /\ DOMAIN k = DOMAIN data /\ k \in [DOMAIN k -> ECUEntry]
      /\ DOMAIN k[e].dtcs = {}
      /\ \A f \in DOMAIN data \ {e} : k[f] = data[f]
  BY <1>2, <1>3, <1>4, AllCleared
<1>6. \A f \in DOMAIN k : /\ DOMAIN k[f].dtcs \subseteq DOMAIN data[f].dtcs
                          /\ \A c \in DOMAIN k[f].dtcs : k[f].dtcs[c] = data[f].dtcs[c]
  BY <1>5
<1>7. view' = view \/ view' = ToldCleared({e})
  BY DEF ClearAllResponse
<1>8. view' \subseteq view /\ \A c \in view : c[1] # e => c \in view'
  BY <1>7 DEF ToldCleared
<1>9. ASSUME RoomForEach PROVE Stored(k) \subseteq view'
  <2> SUFFICES ASSUME NEW c \in Stored(k) PROVE c \in view'
    OBVIOUS
  <2>1. PICK f \in DOMAIN k : \E d \in DOMAIN k[f].dtcs : c = <<f, d>>
    BY StoredIs
  <2>2. PICK d \in DOMAIN k[f].dtcs : c = <<f, d>>
    BY <2>1
  <2>3. f # e /\ d \in DOMAIN data[f].dtcs /\ f \in DOMAIN data
    BY <1>5, <2>2
  <2>4. c \in Stored(data)
    BY <2>2, <2>3, StoredIs
  <2>5. c \in view
    BY <1>2, <1>9, <2>4 DEF Sound
  <2> QED
    BY <1>8, <2>2, <2>3, <2>5
<1>10. Locked /\ UNCHANGED <<clock, evicted, mutex>>
  BY DEF ClearAllResponse
<1> QED
  BY <1>2, <1>3, <1>5, <1>6, <1>8, <1>9, <1>10, RemovalTaken

LEMMA ClearOneStep ==
  ASSUME DtcInv, NEW e \in LogicalAddress, NEW d \in Dtc, ClearOneResponse(e, d)
  PROVE  DtcInv'
<1>1. PICK data : data = WithEcu(ecu_data, e)
  OBVIOUS
<1>2. Sound(data, clock, view, evicted, {}) /\ e \in DOMAIN data
  BY <1>1, EcuEntered DEF DtcInv
<1>3. WellFormed(data, clock)
  BY <1>2 DEF Sound
<1>4. Locked /\ UNCHANGED <<clock, evicted, mutex>>
  BY DEF ClearOneResponse
<1>5. CASE d \in DOMAIN data[e].dtcs
  <2>1. PICK k : k = ecu_data'
    OBVIOUS
  <2>2. k = ClearedOne(data, e, d) /\ view' = view \ {<<e, data[e].dtcs[d].dtc>>}
    BY <1>1, <1>5, <2>1 DEF ClearOneResponse
  <2>3. /\ DOMAIN k = DOMAIN data /\ k \in [DOMAIN k -> ECUEntry]
        /\ DOMAIN k[e].dtcs = DOMAIN data[e].dtcs \ {d}
        /\ \A c \in DOMAIN k[e].dtcs : k[e].dtcs[c] = data[e].dtcs[c]
        /\ \A f \in DOMAIN data \ {e} : k[f].dtcs = data[f].dtcs
    BY <1>2, <1>3, <1>5, <2>2, OneCleared
  <2>4. \A f \in DOMAIN k : /\ DOMAIN k[f].dtcs \subseteq DOMAIN data[f].dtcs
                            /\ \A c \in DOMAIN k[f].dtcs : k[f].dtcs[c] = data[f].dtcs[c]
    BY <2>3
  <2>5. ASSUME RoomForEach PROVE Stored(k) \subseteq view'
    <3> SUFFICES ASSUME NEW c \in Stored(k) PROVE c \in view'
      OBVIOUS
    <3>1. PICK f \in DOMAIN k : \E b \in DOMAIN k[f].dtcs : c = <<f, b>>
      BY StoredIs
    <3>2. PICK b \in DOMAIN k[f].dtcs : c = <<f, b>>
      BY <3>1
    <3>3. f \in DOMAIN data /\ b \in DOMAIN data[f].dtcs /\ ~ (f = e /\ b = d)
      BY <2>3, <3>2
    <3>4. c \in Stored(data)
      BY <3>2, <3>3, StoredIs
    <3>5. c \in view /\ data[e].dtcs[d].dtc = d
      BY <1>2, <1>5, <2>5, <3>4 DEF Sound, OwnCodes
    <3> QED
      BY <2>2, <3>2, <3>3, <3>5
  <2>6. view' \subseteq view
    BY <2>2
  <2> QED
    BY <1>2, <1>4, <2>1, <2>3, <2>4, <2>5, <2>6, RemovalTaken
<1>6. CASE d \notin DOMAIN data[e].dtcs
  <2>1. ecu_data' = data /\ view' = view
    BY <1>1, <1>6 DEF ClearOneResponse
  <2>2. data \in [DOMAIN data -> ECUEntry]
    BY <1>3 DEF WellFormed
  <2>3. RoomForEach => Stored(data) \subseteq view
    BY <1>2 DEF Sound
  <2> QED
    BY <1>2, <1>4, <2>1, <2>2, <2>3, RemovalTaken
<1> QED
  BY <1>5, <1>6

\* clear_ecu and clear_all.
LEMMA EntriesEmptied ==
  ASSUME DtcInv, NEW E \in SUBSET DOMAIN ecu_data, Locked, UNCHANGED <<clock, evicted, mutex>>,
         NEW k, k = ecu_data', DOMAIN k = DOMAIN ecu_data, k = [f \in DOMAIN k |-> k[f]],
         \A f \in E : k[f] = [ecu_data[f] EXCEPT !.dtcs = NoCodes],
         \A f \in DOMAIN ecu_data \ E : k[f] = ecu_data[f],
         view' = ToldCleared(E)
  PROVE  DtcInv'
<1>1. Sound(ecu_data, clock, view, evicted, {}) /\ WellFormed(ecu_data, clock)
  BY DEF DtcInv, Sound
<1>2. ASSUME NEW f \in DOMAIN ecu_data
      PROVE  /\ k[f] \in ECUEntry
             /\ DOMAIN k[f].dtcs \subseteq DOMAIN ecu_data[f].dtcs
             /\ \A c \in DOMAIN k[f].dtcs : k[f].dtcs[c] = ecu_data[f].dtcs[c] /\ f \notin E
  <2>1. ecu_data[f] \in ECUEntry
    BY <1>1, EntriesAre
  <2>2. CASE f \in E
    <3>1. k[f] \in ECUEntry /\ k[f].dtcs = NoCodes
      BY <2>1, <2>2, NoCodesFit DEF ECUEntry
    <3> QED
      BY <3>1, NoCodesFit
  <2>3. CASE f \notin E
    BY <2>1, <2>3
  <2> QED
    BY <2>2, <2>3
<1>3. k \in [DOMAIN k -> ECUEntry]
  BY <1>2
<1>4. ASSUME RoomForEach PROVE Stored(k) \subseteq view'
  <2> SUFFICES ASSUME NEW c \in Stored(k) PROVE c \in view'
    OBVIOUS
  <2>1. PICK f \in DOMAIN k : \E b \in DOMAIN k[f].dtcs : c = <<f, b>>
    BY StoredIs
  <2>2. PICK b \in DOMAIN k[f].dtcs : c = <<f, b>>
    BY <2>1
  <2>3. f \in DOMAIN ecu_data /\ b \in DOMAIN ecu_data[f].dtcs /\ f \notin E
    BY <1>2, <2>2
  <2>4. c \in Stored(ecu_data)
    BY <2>2, <2>3, StoredIs
  <2>5. c \in view
    BY <1>1, <1>4, <2>4 DEF Sound
  <2> QED
    BY <2>2, <2>3, <2>5 DEF ToldCleared
<1>5. view' \subseteq view
  BY DEF ToldCleared
<1>6. PICK data : data = ecu_data
  OBVIOUS
<1>7. /\ Sound(data, clock, view, evicted, {}) /\ DOMAIN k \subseteq DOMAIN data
      /\ \A f \in DOMAIN k : /\ DOMAIN k[f].dtcs \subseteq DOMAIN data[f].dtcs
                             /\ \A c \in DOMAIN k[f].dtcs : k[f].dtcs[c] = data[f].dtcs[c]
  BY <1>1, <1>2, <1>6
<1> QED
  BY <1>3, <1>4, <1>5, <1>7, RemovalTaken

LEMMA DtcInvNext == DtcInv /\ [DtcNext]_dtcVars => DtcInv'
<1> SUFFICES ASSUME DtcInv, [DtcNext]_dtcVars PROVE DtcInv'
  OBVIOUS
<1>0. SoundOutcome(Outcome, {}) /\ mutex \in {"free", "held"}
  BY OutcomeIsSound DEF DtcInv
<1>1. ASSUME NEW e \in LogicalAddress, NEW list \in DtcLists, process_read_dtc_response(e, list)
      PROVE  DtcInv'
  <2>1. Call /\ mutex' \in {"free", "held"} /\ \E o \in ListAdded(e, list) : Become(o)
    BY <1>0, <1>1 DEF process_read_dtc_response, ReadList, ReadRecord, Locked
  <2> QED
    BY <1>0, <2>1, ListIsAdded, OutcomeTaken
<1>2. ASSUME NEW e \in LogicalAddress, NEW d \in Dtc, NEW status \in Status, AddDtc(e, d, status)
      PROVE  DtcInv'
  <2>1. Call /\ mutex' \in {"free", "held"} /\ \E o \in add_dtc(Outcome, e, d, status) : Become(o)
    BY <1>0, <1>2 DEF AddDtc
  <2>2. PICK o \in add_dtc(Outcome, e, d, status) : Become(o)
    BY <2>1
  <2>3. SoundOutcome(o, {})
    BY <1>0, DtcAdded
  <2> QED
    BY <2>1, <2>2, <2>3, OutcomeTaken
<1>3. ASSUME NEW e \in LogicalAddress, NEW d \in Dtc, AddSnapshot(e, d) PROVE DtcInv'
  <2>1. Call /\ mutex' \in {"free", "held"} /\ \E o \in add_snapshot(Outcome, e, d) : Become(o)
    BY <1>0, <1>3 DEF AddSnapshot, Locked
  <2>2. PICK o \in add_snapshot(Outcome, e, d) : Become(o)
    BY <2>1
  <2>3. SoundOutcome(o, {})
    BY <1>0, SnapshotAdded
  <2> QED
    BY <2>1, <2>2, <2>3, OutcomeTaken
<1>4. ASSUME NEW e \in LogicalAddress, NEW d \in Dtc, AddExtendedData(e, d) PROVE DtcInv'
  <2>1. Call /\ mutex' \in {"free", "held"} /\ \E o \in add_extended_data(Outcome, e, d) : Become(o)
    BY <1>0, <1>4 DEF AddExtendedData, Locked
  <2>2. PICK o \in add_extended_data(Outcome, e, d) : Become(o)
    BY <2>1
  <2>3. SoundOutcome(o, {})
    BY <1>0, ExtendedDataAdded
  <2> QED
    BY <2>1, <2>2, <2>3, OutcomeTaken
<1>5. ASSUME NEW e \in LogicalAddress, process_clear_dtc_response(e) PROVE DtcInv'
  BY <1>5, ClearAllStep, ClearOneStep DEF process_clear_dtc_response
<1>6. ASSUME NEW e \in LogicalAddress, clear_ecu(e) PROVE DtcInv'
  <2>1. PICK k : k = ecu_data'
    OBVIOUS
  <2>2. k = [ecu_data EXCEPT ![e].dtcs = NoCodes] /\ e \in DOMAIN ecu_data
    BY <1>6, <2>1 DEF clear_ecu
  <2>3. Locked /\ UNCHANGED <<clock, evicted, mutex>> /\ view' = ToldCleared({e})
    BY <1>6 DEF clear_ecu
  <2>4. /\ DOMAIN k = DOMAIN ecu_data /\ k = [f \in DOMAIN k |-> k[f]]
        /\ \A f \in {e} : k[f] = [ecu_data[f] EXCEPT !.dtcs = NoCodes]
        /\ \A f \in DOMAIN ecu_data \ {e} : k[f] = ecu_data[f]
    BY <2>2
  <2>5. PICK E : E = {e}
    OBVIOUS
  <2> QED
    BY <2>1, <2>2, <2>3, <2>4, <2>5, EntriesEmptied
<1>7. CASE clear_all
  <2>1. PICK k : k = ecu_data'
    OBVIOUS
  <2>2. k = [f \in DOMAIN ecu_data |-> [ecu_data[f] EXCEPT !.dtcs = NoCodes]]
    BY <1>7, <2>1 DEF clear_all
  <2>3. Locked /\ UNCHANGED <<clock, evicted, mutex>> /\ view' = ToldCleared(DOMAIN ecu_data)
    BY <1>7 DEF clear_all
  <2>4. /\ DOMAIN k = DOMAIN ecu_data /\ k = [f \in DOMAIN k |-> k[f]]
        /\ \A f \in DOMAIN ecu_data : k[f] = [ecu_data[f] EXCEPT !.dtcs = NoCodes]
    BY <2>2
  <2>5. PICK E : E = DOMAIN ecu_data
    OBVIOUS
  <2>6. /\ E \in SUBSET DOMAIN ecu_data /\ view' = ToldCleared(E)
        /\ DOMAIN k = DOMAIN ecu_data /\ k = [f \in DOMAIN k |-> k[f]]
        /\ Locked /\ UNCHANGED <<clock, evicted, mutex>>
        /\ \A f \in E : k[f] = [ecu_data[f] EXCEPT !.dtcs = NoCodes]
        /\ \A f \in DOMAIN ecu_data \ E : k[f] = ecu_data[f]
    BY <2>3, <2>4, <2>5
  <2> QED
    BY <2>1, <2>6, EntriesEmptied
<1>8. CASE reset_dtcs
  <2>1. DOMAIN ecu_data' = {} /\ ecu_data' \in [{} -> ECUEntry] /\ view' = view
    BY <1>8 DEF reset_dtcs
  <2>2. Locked /\ UNCHANGED <<clock, evicted, mutex>>
    BY <1>8 DEF reset_dtcs
  <2>3. Stored(ecu_data') = {}
    <3>1. PICK k : k = ecu_data'
      OBVIOUS
    <3>2. Stored(k) = {}
      BY <2>1, <3>1, StoredIs
    <3> QED
      BY <3>1, <3>2
  <2>4. PICK data : data = ecu_data
    OBVIOUS
  <2>5. Sound(data, clock, view, evicted, {})
    BY <2>4 DEF DtcInv
  <2> QED
    BY <2>1, <2>2, <2>3, <2>5, RemovalTaken
<1>9. CASE get_all_statistics
  <2>1. UNCHANGED <<ecu_data, clock, view, evicted>> /\ mutex' = "held" /\ calls' \in 0..MaxCalls
    BY <1>9, DtcManagerAssumption DEF get_all_statistics, Locked, Call, DtcInv
  <2> QED
    BY <2>1 DEF DtcInv
<1>10. CASE UNCHANGED dtcVars
  BY <1>10 DEF dtcVars, DtcInv
<1> QED
  BY <1>1, <1>2, <1>3, <1>4, <1>5, <1>6, <1>7, <1>8, <1>9, <1>10 DEF DtcNext

LEMMA DtcInvAlways == DtcSpec => []DtcInv
<1> QED
  BY DtcInvInit, DtcInvNext, PTL DEF DtcSpec

\* enforce_limits keeps the limit per ECU whatever the limits, the codes and the calls, and
\* the one over all ECUs if there is room for a code of each and none has address 0.
THEOREM LimitsAlwaysKept == DtcSpec => []LimitsKept
<1>1. DtcInv => LimitsKept
  BY DEF DtcInv, Sound, Within, LimitsKept
<1> QED
  BY <1>1, DtcInvAlways, PTL

\* With room for a code of each ECU, what is stored of an ECU is newer than all that
\* enforce_limits evicted from it.
THEOREM OldestLeaveFirst ==
  ASSUME RoomForEach
  PROVE  DtcSpec => []EvictedOldestFirst
<1>1. DtcInv => EvictedOldestFirst
  BY DEF DtcInv, Sound, NewerThan, EvictedOldestFirst
<1> QED
  BY <1>1, DtcInvAlways, PTL

\* With room for a code of each ECU, a listener knows every stored code (emit_event).
THEOREM ListenerIsTold ==
  ASSUME RoomForEach
  PROVE  DtcSpec => []ListenerKnowsStored
<1>1. DtcInv => ListenerKnowsStored
  BY DEF DtcInv, Sound, ListenerKnowsStored
<1> QED
  BY <1>1, DtcInvAlways, PTL

\* Of one ECU as many stored codes satisfy a filter as keys do.
LEMMA CodesCounted ==
  ASSUME NEW D, IsFiniteSet(D), NEW e
  PROVE  Cardinality({<<e, d>> : d \in D}) = Cardinality(D)
<1> DEFINE S == {<<e, d>> : d \in D}
           f == [d \in D |-> <<e, d>>]
<1>1. f \in Surjection(D, S)
  BY DEF Surjection
<1>2. f \in Injection(D, S)
  BY DEF Injection, IsInjective
<1> HIDE DEF f, S
<1>3. Cardinality(S) = Cardinality(D)
  BY <1>1, <1>2, FS_Surjection
<1> QED
  BY <1>3 DEF S

\* With room for a code of each ECU, get_dtcs returns as many codes of an ECU, and as
\* many active ones, as get_ecu_statistics counts.
THEOREM QueriesAlwaysAgree ==
  ASSUME RoomForEach
  PROVE  DtcSpec => []QueriesAgree
<1>1. ASSUME DtcInv, NEW e \in LogicalAddress \ {0}
      PROVE  /\ Cardinality(get_dtcs(e, "any")) = get_ecu_statistics(e).total_dtcs
             /\ Cardinality(get_dtcs(e, "test_failed")) = get_ecu_statistics(e).active_dtcs
  <2>1. WellFormed(ecu_data, clock) /\ OwnCodes(ecu_data)
    BY <1>1 DEF DtcInv, Sound
  <2>2. CASE e \notin DOMAIN ecu_data
    <3>1. get_dtcs(e, "any") = {} /\ get_dtcs(e, "test_failed") = {}
      BY <2>2, StoredIs DEF get_dtcs
    <3> QED
      BY <2>2, <3>1, FS_EmptySet DEF get_ecu_statistics
  <2>3. CASE e \in DOMAIN ecu_data
    <3> DEFINE All == DOMAIN ecu_data[e].dtcs
               Failing == {d \in All : "test_failed" \in ecu_data[e].dtcs[d].status}
    <3>1. IsFiniteSet(All) /\ IsFiniteSet(Failing)
      <4>1. IsFiniteSet(All)
        BY <2>1, <2>3, CodesFinite
      <4> QED
        BY <4>1, FS_Subset
    <3>2. get_dtcs(e, "any") = {<<e, d>> : d \in All}
      <4>1. ASSUME NEW c PROVE c \in get_dtcs(e, "any") <=> c \in {<<e, d>> : d \in All}
        BY <2>1, <2>3, StoredIs DEF get_dtcs, matches_filter, OwnCodes
      <4> QED
        BY <4>1
    <3>3. get_dtcs(e, "test_failed") = {<<e, d>> : d \in Failing}
      <4>1. ASSUME NEW c PROVE c \in get_dtcs(e, "test_failed") <=> c \in {<<e, d>> : d \in Failing}
        BY <2>1, <2>3, StoredIs DEF get_dtcs, matches_filter, OwnCodes
      <4> QED
        BY <4>1
    <3>4. /\ get_ecu_statistics(e).total_dtcs = Cardinality(All)
          /\ get_ecu_statistics(e).active_dtcs = Cardinality(Failing)
      BY <2>3 DEF get_ecu_statistics
    <3> HIDE DEF All, Failing
    <3>5. Cardinality({<<e, d>> : d \in All}) = Cardinality(All)
      BY <3>1, CodesCounted
    <3>6. Cardinality({<<e, d>> : d \in Failing}) = Cardinality(Failing)
      BY <3>1, CodesCounted
    <3> QED
      BY <3>2, <3>3, <3>4, <3>5, <3>6, Zenon
  <2> QED
    BY <2>2, <2>3
<1>2. DtcInv => QueriesAgree
  BY <1>1 DEF QueriesAgree
<1> QED
  BY <1>2, DtcInvAlways, PTL

\* The maps hold typed records that carry times the clock has reached.
THEOREM DtcTypesKept == DtcSpec => []DtcTypeOK
<1>1. DtcInv => DtcTypeOK
  <2> SUFFICES ASSUME DtcInv PROVE DtcTypeOK
    OBVIOUS
  <2>1. WellFormed(ecu_data, clock)
    BY DEF DtcInv, Sound
  <2>2. ASSUME NEW e \in DOMAIN ecu_data
        PROVE  /\ DOMAIN ecu_data[e].dtcs \subseteq Dtc
               /\ \A d \in DOMAIN ecu_data[e].dtcs :
                    /\ ecu_data[e].dtcs[d] \in DTCRecord
                    /\ ecu_data[e].dtcs[d].first_seen <= clock
               /\ ecu_data[e].cleared_history \in Seq(DTCRecord)
    <3>1. /\ DOMAIN ecu_data[e].dtcs \subseteq Dtc
          /\ ecu_data[e].dtcs \in [DOMAIN ecu_data[e].dtcs -> DTCRecord]
          /\ ecu_data[e].cleared_history \in Seq(DTCRecord)
      BY <2>1, EntriesAre
    <3>2. \A d \in DOMAIN ecu_data[e].dtcs : ecu_data[e].dtcs[d].first_seen <= clock
      BY <2>1 DEF WellFormed
    <3> QED
      BY <3>1, <3>2
  <2> QED
    BY <2>1, <2>2 DEF DtcInv, Sound, DtcTypeOK, WellFormed
<1> QED
  BY <1>1, DtcInvAlways, PTL
=============================================================================
