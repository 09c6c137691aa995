-------------------------- MODULE UdsSessionProofs --------------------------
(***************************************************************************)
(* Proofs about the UDS sessions and their security levels, for any set of *)
(* ECUs, sub-functions and timings: no level is unlocked without its key,  *)
(* the listener keeps in step with the sessions, and the lockout lasts     *)
(* exactly as long as it should.                                           *)
(***************************************************************************)
EXTENDS UdsSession, TLAPS

Feed == [ecu : Ecus, message : SessionMessages, request : BOOLEAN, stale : BOOLEAN]

Server == [type : Nat, keys : SUBSET Levels]

\* The session a message is on its way to is there, unless it was removed.
FeedingKnown ==
    client = "manager" =>
        \/ feeding = NotFeeding
        \/ feeding \in Feed /\ (feeding.stale \/ feeding.ecu \in DOMAIN sessions)

\* Until S3 runs out the session has the type the ECU is in, and its unlocked
\* levels have had their keys.
KeysKnown(s, ecu) ==
    ~s.expired =>
        /\ s.type = ecu.type
        /\ \A l \in Levels : IsUnlocked(s.levels[l]) => l \in ecu.keys

KeysFollow ==
    /\ \A e \in DOMAIN sessions : KeysKnown(sessions[e], server[e])
    /\ \A e \in Ecus \ DOMAIN sessions : server[e].type = DefaultSession

\* Before it listens, and of an ECU without a session of which nothing went
\* untold, the listener believes what it started with.
NothingBelieved ==
    /\ ~listening => \A e \in Ecus : listener[e] = "ended"
    /\ ~listening => \A e \in DOMAIN sessions : ~sessions[e].heard
    /\ \A e \in Ecus \ DOMAIN sessions : e \notin untold => listener[e] = "ended"

Right(s, belief) ==
    /\ belief = "unlocked" => AnyUnlocked(s.levels)
    /\ belief = "active" => s.state = "Active"

IInv == TypeOK /\ FeedingKnown /\ KeysFollow /\ NothingBelieved /\ ListenerInStep

\* The attempts counted are the keys refused since the last accepted one, and
\* what is left of the lockout is what has not passed since the last refusal.
LockoutCounts ==
    /\ security \in LevelStates /\ refused \in 0..MaxRejections /\ since \in 0..LockoutDuration
    /\ security.failed_attempts = refused
    /\ security.lockout = IF refused >= MaxFailedAttempts THEN LockoutDuration - since ELSE 0
-----------------------------------------------------------------------------
(* The security levels.                                                    *)

LEMMA MinOfTwo ==
    ASSUME NEW a \in Nat, NEW b \in Nat
    PROVE  Min({a, b}) = IF a <= b THEN a ELSE b
    <1> DEFINE least == IF a <= b THEN a ELSE b
    <1>1. least \in {a, b} /\ \A y \in {a, b} : least <= y
        OBVIOUS
    <1>2. ASSUME NEW x \in {a, b}, \A y \in {a, b} : x <= y
          PROVE  x = least
        BY <1>2
    <1> HIDE DEF least
    <1>3. Min({a, b}) \in {a, b} /\ \A y \in {a, b} : Min({a, b}) <= y
        BY <1>1 DEF Min
    <1>4. Min({a, b}) = least
        BY <1>2, <1>3
    <1> QED BY <1>4 DEF least

LEMMA LevelFacts ==
    /\ NewLevel \in LevelStates /\ ~IsUnlocked(NewLevel)
    /\ \A level \in LevelStates :
         /\ KeyAccepted(level) \in LevelStates /\ IsUnlocked(KeyAccepted(level))
         /\ ResetLevel(level) \in LevelStates /\ ~IsUnlocked(ResetLevel(level))
    <1> USE SecurityAssumption DEF LevelStates, IsUnlocked, IsLockedOut
    <1>1. NewLevel \in LevelStates /\ ~IsUnlocked(NewLevel)
        BY DEF NewLevel
    <1>2. \A level \in LevelStates : KeyAccepted(level) \in LevelStates /\ IsUnlocked(KeyAccepted(level))
        BY DEF KeyAccepted
    <1>3. ASSUME NEW level \in LevelStates
          PROVE  ResetLevel(level) \in LevelStates
        BY DEF ResetLevel
    <1>4. ASSUME NEW level \in LevelStates
          PROVE  ~IsUnlocked(ResetLevel(level))
        <2>1. ResetLevel(level).unlocked = FALSE
            BY DEF ResetLevel
        <2> QED BY <2>1
    <1> QED BY <1>1, <1>2, <1>3, <1>4

LEMMA ResetLevelsFacts ==
    ASSUME NEW levels \in [Levels -> LevelStates]
    PROVE  /\ ResetLevels(levels) \in [Levels -> LevelStates]
           /\ \A l \in Levels : ~IsUnlocked(ResetLevels(levels)[l])
    BY LevelFacts DEF ResetLevels

\* Counting refusals: the lockout holds from the third on.
LEMMA LockoutInit == Init => LockoutCounts
    BY SecurityAssumption, UdsAssumption DEF Init, LockoutCounts, NewLevel, LevelStates

LEMMA LockoutStep ==
    ASSUME MaxRejections < AttemptModulus, LockoutCounts, [Next]_vars
    PROVE  LockoutCounts'
    <1> USE SecurityAssumption, UdsAssumption
    <1>1. /\ security.failed_attempts \in 0..(AttemptModulus - 1) /\ security.lockout \in 0..LockoutDuration
          /\ security.unlocked \in BOOLEAN /\ security.seeded \in BOOLEAN
          /\ refused \in Nat /\ since \in Nat
        BY DEF LockoutCounts, LevelStates
    <1>2. CASE RejectKey
        <2>1. refused < MaxRejections /\ refused' = refused + 1 /\ since' = 0 /\ security' = KeyRejected(security)
            BY <1>2 DEF RejectKey
        <2>2. (security.failed_attempts + 1) % AttemptModulus = refused + 1
            BY <1>1, <2>1 DEF LockoutCounts
        <2>3. security' = [unlocked |-> security.unlocked, failed_attempts |-> refused + 1, seeded |-> FALSE,
                           lockout |-> IF refused + 1 >= MaxFailedAttempts THEN LockoutDuration ELSE security.lockout]
            BY <1>1, <2>1, <2>2 DEF KeyRejected, LockoutCounts, LevelStates
        <2>4. security' \in LevelStates
            BY <1>1, <2>1, <2>3 DEF LevelStates
        <2> QED BY <1>1, <2>1, <2>3, <2>4 DEF LockoutCounts
    <1>3. CASE AcceptKey
        BY <1>3 DEF AcceptKey, KeyAccepted, LockoutCounts, LevelStates
    <1>4. CASE RequestSeed \/ ResetSecurity
        BY <1>1, <1>4 DEF RequestSeed, ResetSecurity, SeedRequested, ResetLevel, LockoutCounts, LevelStates
    <1>5. CASE SecurityTick
        <2>1. since' = (IF since + 1 <= LockoutDuration THEN since + 1 ELSE LockoutDuration) /\ refused' = refused
            BY <1>1, <1>5, MinOfTwo DEF SecurityTick
        <2>2. security' = ElapsedLevel(security)
            BY <1>5 DEF SecurityTick
        <2> QED BY <1>1, <2>1, <2>2 DEF ElapsedLevel, LockoutCounts, LevelStates
    <1>6. CASE UNCHANGED securityVars
        BY <1>6 DEF securityVars, LockoutCounts
    <1> QED BY <1>2, <1>3, <1>4, <1>5, <1>6 DEF Next, SecurityNext, vars, securityVars

\* As long as fewer than 2^8 keys are refused between two accepted ones, the
\* level is locked out exactly from the third refusal in a row until the
\* lockout has passed since the last: key_rejected starts it anew each time,
\* and no reset of the session ends it early.
THEOREM LockoutExact ==
    ASSUME MaxRejections < AttemptModulus
    PROVE  Spec => []LockedOutAfterThree
    <1>1. LockoutCounts /\ [Next]_vars => LockoutCounts'
        BY LockoutStep
    <1>2. LockoutCounts => LockedOutAfterThree
        BY SecurityAssumption, UdsAssumption DEF LockoutCounts, LockedOutAfterThree, IsLockedOut, LevelStates
    <1> QED BY <1>1, <1>2, LockoutInit, PTL DEF Spec
-----------------------------------------------------------------------------
(* One session.                                                            *)

LEMMA SessionFields ==
    ASSUME NEW s \in Session
    PROVE  /\ s.type \in Nat /\ s.state \in {"Idle", "Active"} /\ s.s3 \in Nat /\ s.idle \in Nat
           /\ s.levels \in [Levels -> LevelStates]
           /\ s.heard \in BOOLEAN /\ s.cleared \in BOOLEAN /\ s.expired \in BOOLEAN
    BY DEF Session

LEMMA NewSessionFacts ==
    ASSUME listening \in BOOLEAN
    PROVE  /\ NewSession \in Session /\ NewSession.heard = listening /\ NewSession.cleared = FALSE
           /\ NewSession.type = DefaultSession
           /\ \A l \in Levels : ~IsUnlocked(NewSession.levels[l])
    BY LevelFacts, UdsAssumption DEF NewSession, Session, DefaultSession

\* Every message, and refresh_timeout, restarts the S3 timer.
LEMMA RefreshedFacts ==
    ASSUME NEW s \in Session
    PROVE  LET t == [s EXCEPT !.idle = 0]
           IN  /\ t \in Session /\ t.heard = s.heard /\ t.cleared = s.cleared
               /\ t.type = s.type /\ t.levels = s.levels /\ t.state = s.state /\ t.expired = s.expired
    BY DEF Session

\* Where S3 has not run out, nothing has changed.
LEMMA CheckedFacts ==
    ASSUME NEW s \in Session, NEW ecu
    PROVE  LET t == Checked(s)
           IN  /\ t \in Session /\ t.heard = s.heard /\ t.cleared = s.cleared
               /\ t.type = s.type /\ t.levels = s.levels /\ t.state = s.state
               /\ ~t.expired => ~s.expired /\ AfterS3(ecu, s) = ecu
    <1> DEFINE over == s.expired \/ IsTimedOut(s)
               t == Checked(s)
    <1>1. over \in BOOLEAN
        BY Zenon
    <1>2. t = [s EXCEPT !.expired = over]
        BY DEF Checked
    <1>3. ~over => ~s.expired /\ AfterS3(ecu, s) = ecu
        BY Zenon DEF AfterS3
    <1> HIDE DEF over, t
    <1>4. /\ t \in Session /\ t.heard = s.heard /\ t.cleared = s.cleared /\ t.expired = over
          /\ t.type = s.type /\ t.levels = s.levels /\ t.state = s.state
        BY <1>1, <1>2 DEF Session
    <1> QED BY <1>3, <1>4 DEF t

LEMMA TransitionFacts ==
    ASSUME NEW s \in Session, NEW type \in Nat
    PROVE  LET t == TransitionToSession(s, type)
           IN  /\ t \in Session /\ t.heard = s.heard /\ t.cleared = s.cleared
               /\ t.type = type /\ t.state = "Active"
               /\ s.type # type => \A l \in Levels : ~IsUnlocked(t.levels[l])
               /\ s.type = type => t.levels = s.levels /\ (~t.expired => ~s.expired)
    <1> DEFINE levels == IF s.type # type THEN ResetLevels(s.levels) ELSE s.levels
               s3 == IF type = ProgrammingSession THEN S3Default ELSE s.s3
               over == s.expired /\ s.type = type
               t == TransitionToSession(s, type)
    <1>1. levels \in [Levels -> LevelStates] /\ s3 \in Nat
        BY SessionFields, ResetLevelsFacts, UdsAssumption
    <1>2. over \in BOOLEAN /\ (s.type = type => (~over => ~s.expired))
        BY Zenon
    <1>3. t = [s EXCEPT !.type = type, !.state = "Active", !.levels = levels, !.s3 = s3, !.expired = over]
        BY DEF TransitionToSession, Session
    <1>4. s.type # type => \A l \in Levels : ~IsUnlocked(levels[l])
        BY SessionFields, ResetLevelsFacts
    <1>5. s.type = type => levels = s.levels
        OBVIOUS
    <1> HIDE DEF levels, s3, over, t
    <1>6. /\ t \in Session /\ t.heard = s.heard /\ t.cleared = s.cleared /\ t.levels = levels
          /\ t.type = type /\ t.state = "Active" /\ t.expired = over
        BY <1>1, <1>2, <1>3 DEF Session
    <1> QED BY <1>2, <1>4, <1>5, <1>6 DEF t

\* A change of type as the ECU makes it: what is unlocked still has its key.
LEMMA ChangeKeepsKeys ==
    ASSUME NEW s \in Session, NEW ecu \in Server, NEW type \in Nat, KeysKnown(s, ecu)
    PROVE  /\ InSession(ecu, type) \in Server
           /\ KeysKnown(TransitionToSession(s, type), InSession(ecu, type))
    <1> DEFINE t == TransitionToSession(s, type)
               after == InSession(ecu, type)
    <1>1. after \in Server /\ after.type = type /\ (ecu.type = type => after = ecu)
        BY DEF InSession, Server
    <1>2. /\ t.type = type
          /\ s.type # type => \A l \in Levels : ~IsUnlocked(t.levels[l])
          /\ s.type = type => t.levels = s.levels /\ (~t.expired => ~s.expired)
        BY TransitionFacts
    <1> HIDE DEF t, after
    <1>3. KeysKnown(t, after)
        BY <1>1, <1>2 DEF KeysKnown
    <1> QED BY <1>1, <1>3 DEF t, after

LEMMA ResetFacts ==
    ASSUME NEW s \in Session
    PROVE  LET t == ResetInternal(s)
           IN  /\ t \in Session /\ t.heard = s.heard /\ t.cleared = s.cleared
               /\ NoSession \in Server /\ KeysKnown(t, NoSession)
    <1> DEFINE levels == ResetLevels(s.levels)
               t == ResetInternal(s)
    <1>1. levels \in [Levels -> LevelStates] /\ \A l \in Levels : ~IsUnlocked(levels[l])
        BY SessionFields, ResetLevelsFacts
    <1>2. t = [s EXCEPT !.type = DefaultSession, !.state = "Idle", !.s3 = S3Default, !.idle = 0,
                        !.levels = levels, !.expired = FALSE]
        BY DEF ResetInternal, Session
    <1> HIDE DEF levels, t
    <1>3. /\ t \in Session /\ t.heard = s.heard /\ t.cleared = s.cleared /\ t.levels = levels
          /\ t.type = DefaultSession
        BY <1>1, <1>2, UdsAssumption DEF Session, DefaultSession
    <1>4. NoSession \in Server /\ NoSession.type = DefaultSession
        BY DEF NoSession, Server, DefaultSession
    <1>5. KeysKnown(t, NoSession)
        BY <1>1, <1>3, <1>4 DEF KeysKnown
    <1> QED BY <1>3, <1>4, <1>5 DEF t

LEMMA UnlockedFacts ==
    ASSUME NEW s \in Session, NEW level \in Levels
    PROVE  LET t == [s EXCEPT !.idle = 0, !.levels[level] = KeyAccepted(@)]
           IN  /\ t \in Session /\ t.heard = s.heard /\ t.cleared = s.cleared
               /\ t.type = s.type /\ t.expired = s.expired
               /\ IsUnlocked(t.levels[level])
               /\ \A l \in Levels \ {level} : t.levels[l] = s.levels[l]
    <1> DEFINE levels == [s.levels EXCEPT ![level] = KeyAccepted(@)]
               t == [s EXCEPT !.idle = 0, !.levels[level] = KeyAccepted(@)]
    <1>1. /\ levels \in [Levels -> LevelStates] /\ IsUnlocked(levels[level])
          /\ \A l \in Levels \ {level} : levels[l] = s.levels[l]
        BY SessionFields, LevelFacts
    <1>2. t = [s EXCEPT !.idle = 0, !.levels = levels]
        BY DEF Session
    <1> HIDE DEF levels, t
    <1>3. /\ t \in Session /\ t.heard = s.heard /\ t.cleared = s.cleared /\ t.levels = levels
          /\ t.type = s.type /\ t.expired = s.expired
        BY <1>1, <1>2 DEF Session
    <1> QED BY <1>1, <1>3 DEF t
-----------------------------------------------------------------------------
(* The manager.                                                            *)

LEMMA ManagerFacts ==
    ASSUME IInv
    PROVE  /\ DOMAIN sessions \subseteq Ecus /\ sessions \in [DOMAIN sessions -> Session]
           /\ listening \in BOOLEAN /\ listener \in [Ecus -> Beliefs] /\ untold \subseteq Ecus
           /\ server \in [Ecus -> Server]
           /\ \A e \in DOMAIN sessions :
                 /\ e \in Ecus /\ sessions[e] \in Session /\ server[e] \in Server /\ listener[e] \in Beliefs
                 /\ KeysKnown(sessions[e], server[e])
    BY DEF IInv, TypeOK, Server, KeysFollow

\* What a step may do to one session: its unlocked levels have had their keys,
\* and what it makes the listener believe is so.
LEMMA UpdateStep ==
    ASSUME IInv, UNCHANGED <<client, listening, securityVars>>, feeding' = feeding \/ feeding' = NotFeeding,
           NEW e \in DOMAIN sessions, NEW t \in Session, NEW S \in Server, NEW L \in Beliefs,
           sessions' = [sessions EXCEPT ![e] = t],
           server' = [server EXCEPT ![e] = S],
           listener' = [listener EXCEPT ![e] = L],
           untold' \subseteq Ecus, \A i \in Ecus \ {e} : i \in untold' <=> i \in untold,
           KeysKnown(t, S),
           ~listening => ~t.heard /\ L = "ended",
           listening /\ ~t.cleared => t.heard /\ (e \notin untold' => Right(t, L))
    PROVE  IInv'
    <1>1. /\ DOMAIN sessions' = DOMAIN sessions /\ sessions' \in [DOMAIN sessions' -> Session]
          /\ sessions'[e] = t /\ \A i \in DOMAIN sessions \ {e} : sessions'[i] = sessions[i]
        BY ManagerFacts
    <1>2. e \in Ecus
        BY ManagerFacts
    <1>3. server' \in [Ecus -> Server] /\ server'[e] = S /\ \A i \in Ecus \ {e} : server'[i] = server[i]
        BY <1>2, ManagerFacts
    <1>4. listener' \in [Ecus -> Beliefs] /\ listener'[e] = L /\ \A i \in Ecus \ {e} : listener'[i] = listener[i]
        BY <1>2, ManagerFacts
    <1>5. TypeOK'
        BY <1>1, <1>3, <1>4 DEF IInv, TypeOK, Server, securityVars
    <1>6. FeedingKnown'
        BY <1>1 DEF IInv, FeedingKnown
    <1>7. KeysFollow'
        BY <1>1, <1>2, <1>3, ManagerFacts DEF IInv, KeysFollow
    <1>8. NothingBelieved'
        BY <1>1, <1>2, <1>4, ManagerFacts DEF IInv, NothingBelieved
    <1>9. ListenerInStep'
        BY <1>1, <1>2, <1>4, ManagerFacts DEF IInv, ListenerInStep, Right
    <1> QED BY <1>5, <1>6, <1>7, <1>8, <1>9 DEF IInv

\* A step that leaves the sessions, the listener and the histories as they were.
LEMMA SameStep ==
    ASSUME IInv, UNCHANGED <<client, sessions, listening, listener, untold, server>>, TypeOK', FeedingKnown'
    PROVE  IInv'
    BY DEF IInv, KeysFollow, NothingBelieved, ListenerInStep

LEMMA InitIInv == Init => IInv
    <1> SUFFICES ASSUME Init PROVE IInv
        OBVIOUS
    <1>1. DOMAIN sessions = {}
        BY DEF Init
    <1>2. sessions \in [DOMAIN sessions -> Session]
        BY <1>1 DEF Init
    <1>3. /\ client \in {"manager", "security", "decoder", "builder"} /\ listening = FALSE
          /\ listener = [e \in Ecus |-> "ended"] /\ untold = {} /\ server = [e \in Ecus |-> NoSession]
          /\ security = NewLevel /\ refused = 0 /\ since = 0
        BY DEF Init
    <1>4. NoSession \in Server /\ NoSession.type = DefaultSession
        BY DEF NoSession, Server, DefaultSession
    <1>5. TypeOK
        <2>1. security \in LevelStates
            BY <1>3, LevelFacts
        <2>2. refused \in 0..MaxRejections /\ since \in 0..LockoutDuration
            BY <1>3, SecurityAssumption, UdsAssumption
        <2>3. listener \in [Ecus -> Beliefs] /\ server \in [Ecus -> Server]
            BY <1>3, <1>4 DEF Beliefs
        <2> QED BY <1>1, <1>2, <1>3, <2>1, <2>2, <2>3 DEF TypeOK, Server
    <1>6. FeedingKnown
        BY DEF Init, FeedingKnown
    <1> QED BY <1>1, <1>3, <1>4, <1>5, <1>6 DEF IInv, KeysFollow, NothingBelieved, ListenerInStep

\* Only the answers to a session, reset, security or presence request are
\* positive, and their second byte is a sub-function.
LEMMA AnswerSub ==
    ASSUME NEW m \in SessionMessages, Decode(m).direction = "positive"
    PROVE  m.sub \in Subs
    <1>1. m.sid # 127 /\ m.size >= 1
        BY DEF Decode, ParseNegativeResponse, NotDecoded, NegativeResponseSid, SessionMessages
    <1>2. m.sid # 34
        <2>1. SUFFICES ASSUME m.sid = 34 PROVE FALSE
            OBVIOUS
        <2>2. ~ResponseBit(m.sid)
            BY <2>1 DEF ResponseBit
        <2>3. Decode(m) = ParseRequest(m)
            BY <1>1, <2>2 DEF Decode, NegativeResponseSid, SessionMessages
        <2> QED BY <2>3 DEF ParseRequest, Decoded
    <1> QED BY <1>1, <1>2 DEF SessionMessages, NegativeResponseSid, ReadDataByIdentifier

LEMMA FeedStep ==
    ASSUME IInv, UNCHANGED <<client, securityVars>>, NEW e \in Ecus, NEW m \in SessionMessages,
           NEW isRequest \in BOOLEAN, FeedMessage(e, m, isRequest)
    PROVE  IInv'
    <1>1. /\ UNCHANGED <<listening, listener, untold, server>>
          /\ feeding' = [ecu |-> e, message |-> m, request |-> isRequest, stale |-> FALSE]
        BY DEF FeedMessage, historyVars
    <1>2. CASE e \in DOMAIN sessions
        <2>1. sessions' = sessions
            BY <1>2 DEF FeedMessage, GetSession
        <2> QED BY <1>1, <1>2, <2>1, SameStep DEF IInv, TypeOK, FeedingKnown, Feed, securityVars
    <1>3. CASE e \notin DOMAIN sessions
        <2>1. sessions' = [i \in DOMAIN sessions \union {e} |-> IF i = e THEN NewSession ELSE sessions[i]]
            BY <1>3 DEF FeedMessage, GetSession
        <2>2. /\ DOMAIN sessions' = DOMAIN sessions \union {e} /\ sessions'[e] = NewSession
              /\ \A i \in DOMAIN sessions : sessions'[i] = sessions[i]
            BY <1>3, <2>1
        <2>3. /\ NewSession \in Session /\ NewSession.heard = listening /\ NewSession.cleared = FALSE
              /\ NewSession.type = DefaultSession
              /\ \A l \in Levels : ~IsUnlocked(NewSession.levels[l])
            BY ManagerFacts, NewSessionFacts
        <2> HIDE DEF NewSession
        <2>4. sessions' \in [DOMAIN sessions' -> Session]
            BY <2>1, <2>3, ManagerFacts
        <2>5. TypeOK'
            BY <1>1, <2>2, <2>4 DEF IInv, TypeOK, securityVars
        <2>6. FeedingKnown'
            BY <1>1, <2>2 DEF FeedingKnown, Feed
        <2>7. KeysFollow'
            BY <1>1, <1>3, <2>2, <2>3 DEF IInv, KeysFollow, KeysKnown
        <2>8. NothingBelieved'
            BY <1>1, <2>2, <2>3 DEF IInv, NothingBelieved
        <2>9. ListenerInStep'
            BY <1>1, <1>3, <2>2, <2>3 DEF IInv, ListenerInStep, NothingBelieved
        <2> QED BY <2>5, <2>6, <2>7, <2>8, <2>9 DEF IInv
    <1> QED BY <1>2, <1>3

\* A step that tells the listener nothing and leaves its belief as right as it was.
LEMMA QuietStep ==
    ASSUME IInv, UNCHANGED <<client, listening, securityVars>>, feeding' = feeding \/ feeding' = NotFeeding,
           NEW e \in DOMAIN sessions, NEW t \in Session, NEW S \in Server,
           sessions' = [sessions EXCEPT ![e] = t], server' = [server EXCEPT ![e] = S],
           UNCHANGED listener, untold' = untold \/ untold' = untold \union {e},
           KeysKnown(t, S), t.heard = sessions[e].heard, t.cleared = sessions[e].cleared,
           e \notin untold' => t.levels = sessions[e].levels /\ t.state = sessions[e].state
    PROVE  IInv'
    <1>1. e \in Ecus /\ listener[e] \in Beliefs
        BY ManagerFacts
    <1>2. listener' = [listener EXCEPT ![e] = listener[e]]
        BY <1>1, ManagerFacts
    <1>3. untold' \subseteq Ecus /\ \A i \in Ecus \ {e} : i \in untold' <=> i \in untold
        BY <1>1, ManagerFacts
    <1>4. ~listening => ~t.heard /\ listener[e] = "ended"
        BY <1>1 DEF IInv, NothingBelieved
    <1>5. listening /\ ~t.cleared => t.heard /\ (e \notin untold' => Right(t, listener[e]))
        BY DEF IInv, ListenerInStep, Right
    <1> QED BY <1>1, <1>2, <1>3, <1>4, <1>5, UpdateStep

\* A session whose timer alone moved, and that is not over.
LEMMA ActivityStep ==
    ASSUME IInv, UNCHANGED <<client, listening, securityVars>>, feeding' = feeding \/ feeding' = NotFeeding,
           NEW e \in DOMAIN sessions, sessions' = [sessions EXCEPT ![e] = [sessions[e] EXCEPT !.idle = 0]],
           UNCHANGED <<server, listener, untold>>
    PROVE  IInv'
    <1> DEFINE t == [sessions[e] EXCEPT !.idle = 0]
    <1>1. /\ e \in Ecus /\ sessions[e] \in Session /\ server[e] \in Server
          /\ KeysKnown(sessions[e], server[e])
        BY ManagerFacts
    <1>2. /\ t \in Session /\ t.heard = sessions[e].heard /\ t.cleared = sessions[e].cleared
          /\ t.type = sessions[e].type /\ t.levels = sessions[e].levels /\ t.state = sessions[e].state
          /\ t.expired = sessions[e].expired
        BY <1>1, RefreshedFacts
    <1>3. sessions' = [sessions EXCEPT ![e] = t]
        OBVIOUS
    <1>4. server' = [server EXCEPT ![e] = server[e]]
        BY ManagerFacts
    <1> HIDE DEF t
    <1>5. KeysKnown(t, server[e])
        BY <1>1, <1>2 DEF KeysKnown
    <1> QED BY <1>1, <1>2, <1>3, <1>4, <1>5, QuietStep

\* A handler and the event it emits: what the event tells is so, and without
\* one the levels and the state are as they were.
LEMMA EventStep ==
    ASSUME IInv, UNCHANGED <<client, listening, securityVars>>, feeding' = feeding \/ feeding' = NotFeeding,
           NEW e \in DOMAIN sessions, NEW t \in Session, NEW S \in Server, NEW s, NEW event,
           sessions' = [sessions EXCEPT ![e] = t], server' = [server EXCEPT ![e] = S],
           Emit(e, s, event), s.heard = sessions[e].heard,
           KeysKnown(t, S), t.heard = sessions[e].heard, t.cleared = sessions[e].cleared,
           event \in DOMAIN Tells => Tells[event] \in Beliefs /\ Right(t, Tells[event]),
           event \notin DOMAIN Tells => t.levels = sessions[e].levels /\ t.state = sessions[e].state
    PROVE  IInv'
    <1>1. e \in Ecus /\ sessions[e] \in Session
        BY ManagerFacts
    <1>2. CASE event \notin DOMAIN Tells
        <2>1. UNCHANGED <<listener, untold>>
            BY <1>2 DEF Emit
        <2> QED BY <1>2, <2>1, QuietStep
    <1>3. CASE event \in DOMAIN Tells /\ ~sessions[e].heard
        <2>1. UNCHANGED <<listener, untold>>
            BY <1>3 DEF Emit
        <2>2. listening => t.cleared
            BY <1>3 DEF IInv, ListenerInStep
        <2>3. listener' = [listener EXCEPT ![e] = listener[e]] /\ listener[e] \in Beliefs
            BY <1>1, <2>1, ManagerFacts
        <2>4. ~listening => ~t.heard /\ listener[e] = "ended"
            BY <1>1 DEF IInv, NothingBelieved
        <2>5. untold' \subseteq Ecus /\ \A i \in Ecus \ {e} : i \in untold' <=> i \in untold
            BY <2>1, ManagerFacts
        <2> QED BY <2>2, <2>3, <2>4, <2>5, UpdateStep
    <1>4. CASE event \in DOMAIN Tells /\ sessions[e].heard
        <2>1. listener' = [listener EXCEPT ![e] = Tells[event]] /\ untold' = untold \ {e}
            BY <1>4 DEF Emit
        <2>2. listening
            BY <1>4 DEF IInv, NothingBelieved
        <2>3. untold' \subseteq Ecus /\ \A i \in Ecus \ {e} : i \in untold' <=> i \in untold
            BY <2>1, ManagerFacts
        <2> QED BY <1>4, <2>1, <2>2, <2>3, UpdateStep
    <1> QED BY <1>2, <1>3, <1>4

LEMMA TellsFacts ==
    /\ "SessionStarted" \in DOMAIN Tells /\ Tells["SessionStarted"] = "active"
    /\ "SessionChanged" \in DOMAIN Tells /\ Tells["SessionChanged"] = "active"
    /\ "SessionEnded" \in DOMAIN Tells /\ Tells["SessionEnded"] = "ended"
    /\ "SecurityUnlocked" \in DOMAIN Tells /\ Tells["SecurityUnlocked"] = "unlocked"
    /\ "none" \notin DOMAIN Tells
    BY DEF Tells

LEMMA SessionControlStep ==
    ASSUME IInv, UNCHANGED <<client, listening, securityVars>>, feeding' = NotFeeding,
           NEW e \in DOMAIN sessions, NEW type \in Subs,
           SessionControlResponse(e, [sessions[e] EXCEPT !.idle = 0], type)
    PROVE  IInv'
    <1> DEFINE s == [sessions[e] EXCEPT !.idle = 0]
               t == TransitionToSession(s, type)
               S == InSession(server[e], type)
               event == IF s.state = "Idle" THEN "SessionStarted"
                        ELSE IF s.type # type THEN "SessionChanged" ELSE "none"
    <1>1. /\ e \in Ecus /\ sessions[e] \in Session /\ server[e] \in Server
          /\ KeysKnown(sessions[e], server[e])
        BY ManagerFacts
    <1>2. /\ s \in Session /\ s.heard = sessions[e].heard /\ s.cleared = sessions[e].cleared
          /\ s.levels = sessions[e].levels /\ s.type = sessions[e].type /\ s.state = sessions[e].state
          /\ s.expired = sessions[e].expired
        BY <1>1, RefreshedFacts
    <1>3. /\ sessions' = [sessions EXCEPT ![e] = t] /\ server' = [server EXCEPT ![e] = S]
          /\ Emit(e, s, event)
        BY DEF SessionControlResponse
    <1> HIDE DEF s
    <1>4. type \in Nat /\ KeysKnown(s, server[e])
        BY <1>1, <1>2, UdsAssumption DEF Byte, KeysKnown
    <1>5. /\ t \in Session /\ t.heard = s.heard /\ t.cleared = s.cleared /\ t.state = "Active"
          /\ s.type = type => t.levels = s.levels
        BY <1>2, <1>4, TransitionFacts
    <1>6. S \in Server /\ KeysKnown(t, S)
        BY <1>1, <1>2, <1>4, ChangeKeepsKeys
    <1> HIDE DEF t, S
    <1>7. event \in DOMAIN Tells => Tells[event] \in Beliefs /\ Right(t, Tells[event])
        BY <1>5, TellsFacts DEF Beliefs, Right
    <1>8. event \notin DOMAIN Tells => t.levels = sessions[e].levels /\ t.state = sessions[e].state
        <2>1. s.state \in {"Idle", "Active"}
            BY <1>2, SessionFields
        <2> QED BY <1>2, <1>5, <2>1, TellsFacts
    <1> HIDE DEF event
    <1> QED BY <1>2, <1>3, <1>5, <1>6, <1>7, <1>8, EventStep

LEMMA SecurityAccessStep ==
    ASSUME IInv, UNCHANGED <<client, listening, securityVars>>, feeding' = NotFeeding,
           NEW e \in DOMAIN sessions, NEW sub \in Subs,
           SecurityAccessResponse(e, [sessions[e] EXCEPT !.idle = 0], sub)
    PROVE  IInv'
    <1> DEFINE s == [sessions[e] EXCEPT !.idle = 0]
               level == (sub + 1) \div 2
               t == [sessions[e] EXCEPT !.idle = 0, !.levels[level] = KeyAccepted(@)]
               S == [server[e] EXCEPT !.keys = @ \union {level}]
    <1>1. /\ e \in Ecus /\ sessions[e] \in Session /\ server[e] \in Server
          /\ KeysKnown(sessions[e], server[e])
        BY ManagerFacts
    <1>2. s.heard = sessions[e].heard
        BY <1>1, RefreshedFacts
    <1>3. CASE sub % 2 = 1
        <2>1. sessions' = [sessions EXCEPT ![e] = s] /\ UNCHANGED <<server, listener, untold>>
            BY <1>3 DEF SecurityAccessResponse, historyVars
        <2> QED BY <2>1, ActivityStep
    <1>4. CASE ~(sub % 2 = 1)
        <2>1. sessions' = [sessions EXCEPT ![e] = t]
            BY <1>1, <1>4, ManagerFacts DEF SecurityAccessResponse
        <2>2. server' = [server EXCEPT ![e] = S] /\ Emit(e, s, "SecurityUnlocked")
            BY <1>1, <1>4, ManagerFacts DEF SecurityAccessResponse
        <2>3. level \in Levels
            BY DEF Levels
        <2> HIDE DEF s, level
        <2>4. /\ t \in Session /\ t.heard = sessions[e].heard /\ t.cleared = sessions[e].cleared
              /\ t.type = sessions[e].type /\ t.expired = sessions[e].expired
              /\ IsUnlocked(t.levels[level])
              /\ \A l \in Levels \ {level} : t.levels[l] = sessions[e].levels[l]
            BY <1>1, <2>3, UnlockedFacts
        <2> HIDE DEF t
        <2>5. S \in Server /\ S.type = server[e].type /\ S.keys = server[e].keys \union {level}
            BY <1>1, <2>3 DEF Server
        <2> HIDE DEF S
        <2>6. KeysKnown(t, S)
            BY <1>1, <2>4, <2>5 DEF KeysKnown
        <2>7. AnyUnlocked(t.levels)
            BY <2>3, <2>4, SessionFields DEF AnyUnlocked
        <2>8. /\ "SecurityUnlocked" \in DOMAIN Tells /\ Tells["SecurityUnlocked"] \in Beliefs
              /\ Right(t, Tells["SecurityUnlocked"])
            BY <2>7, TellsFacts DEF Beliefs, Right
        <2> QED BY <1>2, <2>1, <2>2, <2>4, <2>5, <2>6, <2>8, EventStep
    <1> QED BY <1>3, <1>4

LEMMA EcuResetStep ==
    ASSUME IInv, UNCHANGED <<client, listening, securityVars>>, feeding' = NotFeeding,
           NEW e \in DOMAIN sessions, EcuResetRequest(e, [sessions[e] EXCEPT !.idle = 0])
    PROVE  IInv'
    <1> DEFINE s == [sessions[e] EXCEPT !.idle = 0]
               t == ResetInternal(s)
    <1>1. e \in Ecus /\ sessions[e] \in Session
        BY ManagerFacts
    <1>2. s \in Session /\ s.heard = sessions[e].heard /\ s.cleared = sessions[e].cleared
        BY <1>1, RefreshedFacts
    <1>3. /\ sessions' = [sessions EXCEPT ![e] = t] /\ server' = [server EXCEPT ![e] = NoSession]
          /\ Emit(e, s, "SessionEnded")
        BY DEF EcuResetRequest
    <1> HIDE DEF s
    <1>4. /\ t \in Session /\ t.heard = s.heard /\ t.cleared = s.cleared
          /\ NoSession \in Server /\ KeysKnown(t, NoSession)
        BY <1>2, ResetFacts
    <1> HIDE DEF t
    <1>5. /\ "SessionEnded" \in DOMAIN Tells /\ Tells["SessionEnded"] \in Beliefs
          /\ Right(t, Tells["SessionEnded"])
        BY TellsFacts DEF Beliefs, Right
    <1> QED BY <1>2, <1>3, <1>4, <1>5, EventStep

\* A message for a session that is gone: the listener is told anything.
LEMMA RemovedStep ==
    ASSUME IInv, UNCHANGED <<client, listening, securityVars>>, feeding' = NotFeeding,
           NEW e \in Ecus, ApplyToRemoved(e)
    PROVE  IInv'
    <1>1. PICK belief \in Beliefs : listener' = [listener EXCEPT ![e] = IF listening THEN belief ELSE @]
        BY DEF ApplyToRemoved
    <1>2. UNCHANGED <<sessions, server>> /\ untold' = untold \union {e}
        BY DEF ApplyToRemoved
    <1>3. /\ listener' \in [Ecus -> Beliefs] /\ \A i \in Ecus \ {e} : listener'[i] = listener[i]
          /\ ~listening => listener'[e] = listener[e]
        BY <1>1, ManagerFacts
    <1>4. TypeOK' /\ FeedingKnown' /\ KeysFollow'
        BY <1>2, <1>3 DEF IInv, TypeOK, FeedingKnown, KeysFollow, securityVars
    <1>5. NothingBelieved' /\ ListenerInStep'
        BY <1>2, <1>3, ManagerFacts DEF IInv, NothingBelieved, ListenerInStep
    <1> QED BY <1>4, <1>5 DEF IInv

LEMMA ApplyStep ==
    ASSUME IInv, client = "manager", UNCHANGED <<client, securityVars>>, ApplyMessage
    PROVE  IInv'
    <1> DEFINE e == feeding.ecu
               m == feeding.message
               s == [sessions[e] EXCEPT !.idle = 0]
    <1>1. feeding \in Feed /\ (feeding.stale \/ e \in DOMAIN sessions)
        BY DEF ApplyMessage, IInv, FeedingKnown
    <1>2. m \in SessionMessages /\ e \in Ecus
        BY <1>1 DEF Feed
    <1>3. UNCHANGED listening /\ feeding' = NotFeeding
        BY DEF ApplyMessage
    <1>4. CASE feeding.stale
        <2>1. ApplyToRemoved(e)
            BY <1>4 DEF ApplyMessage
        <2> QED BY <1>2, <1>3, <2>1, RemovedStep
    <1>5. CASE ~feeding.stale /\ ~Decode(m).ok
        <2>1. UNCHANGED <<sessions, listener, untold, server>>
            BY <1>5 DEF ApplyMessage, historyVars
        <2>2. TypeOK' /\ FeedingKnown'
            BY <1>3, <2>1 DEF IInv, TypeOK, FeedingKnown, securityVars
        <2> QED BY <1>3, <2>1, <2>2, SameStep
    <1>6. CASE ~feeding.stale /\ Decode(m).ok
        <2>1. ProcessDecoded(e, m, feeding.request)
            BY <1>6 DEF ApplyMessage
        <2>2. e \in DOMAIN sessions
            BY <1>1, <1>6
        <2> HIDE DEF m, e
        <2>3. \/ Decode(m).direction = "positive" /\ SessionControlResponse(e, s, m.sub)
              \/ Decode(m).direction = "positive" /\ SecurityAccessResponse(e, s, m.sub)
              \/ EcuResetRequest(e, s)
              \/ ActivityOnly(e, s)
            BY <2>1, Zenon DEF ProcessDecoded
        <2>4. CASE Decode(m).direction = "positive" /\ SessionControlResponse(e, s, m.sub)
            BY <1>2, <1>3, <2>2, <2>4, AnswerSub, SessionControlStep
        <2>5. CASE Decode(m).direction = "positive" /\ SecurityAccessResponse(e, s, m.sub)
            BY <1>2, <1>3, <2>2, <2>5, AnswerSub, SecurityAccessStep
        <2>6. CASE EcuResetRequest(e, s)
            BY <1>3, <2>2, <2>6, EcuResetStep
        <2>7. CASE ActivityOnly(e, s)
            <3>1. sessions' = [sessions EXCEPT ![e] = s] /\ UNCHANGED <<server, listener, untold>>
                BY <2>7 DEF ActivityOnly, historyVars
            <3> QED BY <1>3, <2>2, <3>1, ActivityStep
        <2> QED BY <2>3, <2>4, <2>5, <2>6, <2>7
    <1> QED BY <1>4, <1>5, <1>6

\* clear_callbacks, refresh_timeout, update_timing and force_session_type.
LEMMA ClearStep ==
    ASSUME IInv, UNCHANGED <<client, securityVars>>, NEW e \in DOMAIN sessions, ClearCallbacks(e)
    PROVE  IInv'
    <1> DEFINE t == [sessions[e] EXCEPT !.heard = FALSE, !.cleared = TRUE]
    <1>1. /\ e \in Ecus /\ sessions[e] \in Session /\ server[e] \in Server /\ listener[e] \in Beliefs
          /\ KeysKnown(sessions[e], server[e])
        BY ManagerFacts
    <1>2. sessions' = [sessions EXCEPT ![e] = t]
        BY <1>1, ManagerFacts DEF ClearCallbacks
    <1>3. /\ t \in Session /\ ~t.heard /\ t.cleared /\ t.levels = sessions[e].levels
          /\ t.type = sessions[e].type /\ t.expired = sessions[e].expired
        BY <1>1 DEF Session
    <1> HIDE DEF t
    <1>4. UNCHANGED <<feeding, listening, listener, untold, server>>
        BY DEF ClearCallbacks, historyVars
    <1>5. server' = [server EXCEPT ![e] = server[e]] /\ listener' = [listener EXCEPT ![e] = listener[e]]
        BY <1>1, <1>4, ManagerFacts
    <1>6. KeysKnown(t, server[e])
        BY <1>1, <1>3 DEF KeysKnown
    <1>7. ~listening => listener[e] = "ended"
        BY <1>1 DEF IInv, NothingBelieved
    <1>8. untold' \subseteq Ecus /\ \A i \in Ecus \ {e} : i \in untold' <=> i \in untold
        BY <1>4, ManagerFacts
    <1> QED BY <1>1, <1>2, <1>3, <1>4, <1>5, <1>6, <1>7, <1>8, UpdateStep

LEMMA TimingStep ==
    ASSUME IInv, UNCHANGED <<client, securityVars>>, NEW e \in DOMAIN sessions,
           RefreshTimeout(e) \/ \E s3 \in S3Values : UpdateTiming(e, s3)
    PROVE  IInv'
    <1>1. /\ e \in Ecus /\ sessions[e] \in Session /\ server[e] \in Server
          /\ KeysKnown(sessions[e], server[e])
        BY ManagerFacts
    <1>2. CASE RefreshTimeout(e)
        <2>1. sessions' = [sessions EXCEPT ![e] = [sessions[e] EXCEPT !.idle = 0]]
            BY <1>2, ManagerFacts DEF RefreshTimeout
        <2>2. UNCHANGED <<feeding, listening, listener, untold, server>>
            BY <1>2 DEF RefreshTimeout, historyVars
        <2> QED BY <2>1, <2>2, ActivityStep
    <1>3. ASSUME NEW s3 \in S3Values, UpdateTiming(e, s3)
          PROVE  IInv'
        <2> DEFINE s == [sessions[e] EXCEPT !.s3 = s3]
                   t == Checked(s)
                   S == AfterS3(server[e], s)
        <2>1. /\ sessions' = [sessions EXCEPT ![e] = t] /\ server' = [server EXCEPT ![e] = S]
              /\ UNCHANGED <<feeding, listening, listener, untold>>
            BY <1>3 DEF UpdateTiming
        <2>2. /\ s \in Session /\ s.heard = sessions[e].heard /\ s.cleared = sessions[e].cleared
              /\ s.levels = sessions[e].levels /\ s.state = sessions[e].state
              /\ s.type = sessions[e].type /\ s.expired = sessions[e].expired
            BY <1>1, UdsAssumption DEF Session
        <2> HIDE DEF s
        <2>3. /\ t \in Session /\ t.heard = s.heard /\ t.cleared = s.cleared
              /\ t.type = s.type /\ t.levels = s.levels /\ t.state = s.state
              /\ ~t.expired => ~s.expired /\ S = server[e]
            BY <2>2, CheckedFacts
        <2>4. S \in Server
            BY <1>1 DEF AfterS3, NoSession, Server, DefaultSession
        <2> HIDE DEF t, S
        <2>5. KeysKnown(t, S)
            BY <1>1, <2>2, <2>3 DEF KeysKnown
        <2> QED BY <2>1, <2>2, <2>3, <2>4, <2>5, QuietStep
    <1> QED BY <1>2, <1>3

LEMMA ForceStep ==
    ASSUME IInv, UNCHANGED <<client, securityVars>>, NEW e \in DOMAIN sessions, NEW type \in Subs,
           ForceSessionType(e, type)
    PROVE  IInv'
    <1> DEFINE s == TransitionToSession(sessions[e], type)
               t == Checked(s)
               S == AfterS3(InSession(server[e], type), s)
    <1>1. /\ e \in Ecus /\ sessions[e] \in Session /\ server[e] \in Server
          /\ KeysKnown(sessions[e], server[e])
        BY ManagerFacts
    <1>2. /\ sessions' = [sessions EXCEPT ![e] = t] /\ server' = [server EXCEPT ![e] = S]
          /\ UNCHANGED <<feeding, listening, listener>> /\ untold' = untold \union {e}
        BY DEF ForceSessionType
    <1>3. type \in Nat
        BY UdsAssumption DEF Byte
    <1>4. s \in Session /\ s.heard = sessions[e].heard /\ s.cleared = sessions[e].cleared
        BY <1>1, <1>3, TransitionFacts
    <1>5. InSession(server[e], type) \in Server /\ KeysKnown(s, InSession(server[e], type))
        BY <1>1, <1>3, ChangeKeepsKeys
    <1> HIDE DEF s
    <1>6. /\ t \in Session /\ t.heard = s.heard /\ t.cleared = s.cleared
          /\ t.type = s.type /\ t.levels = s.levels
          /\ ~t.expired => ~s.expired /\ S = InSession(server[e], type)
        BY <1>4, CheckedFacts
    <1>7. S \in Server
        BY <1>5 DEF AfterS3, NoSession, Server, DefaultSession
    <1> HIDE DEF t, S
    <1>8. KeysKnown(t, S)
        BY <1>5, <1>6 DEF KeysKnown
    <1> QED BY <1>2, <1>4, <1>6, <1>7, <1>8, QuietStep

\* on_event finds the listener not yet told anything.
LEMMA OnEventStep ==
    ASSUME IInv, UNCHANGED <<client, securityVars>>, ManagerOnEvent
    PROVE  IInv'
    <1> DEFINE told(s) == [s EXCEPT !.heard = TRUE, !.cleared = FALSE]
    <1>1. ~listening /\ listening' = TRUE /\ UNCHANGED <<feeding, listener, untold, server>>
        BY DEF ManagerOnEvent, historyVars
    <1>2. sessions' = [e \in DOMAIN sessions |-> told(sessions[e])]
        BY DEF ManagerOnEvent
    <1>3. \A e \in DOMAIN sessions :
            /\ told(sessions[e]) \in Session /\ told(sessions[e]).heard
            /\ told(sessions[e]).levels = sessions[e].levels /\ told(sessions[e]).type = sessions[e].type
            /\ told(sessions[e]).expired = sessions[e].expired
        BY ManagerFacts DEF Session
    <1> HIDE DEF told
    <1>4. /\ DOMAIN sessions' = DOMAIN sessions /\ sessions' \in [DOMAIN sessions' -> Session]
          /\ \A e \in DOMAIN sessions :
                /\ sessions'[e].heard /\ sessions'[e].levels = sessions[e].levels
                /\ sessions'[e].type = sessions[e].type /\ sessions'[e].expired = sessions[e].expired
        BY <1>2, <1>3
    <1>5. TypeOK'
        BY <1>1, <1>4 DEF IInv, TypeOK, securityVars
    <1>6. FeedingKnown' /\ KeysFollow'
        BY <1>1, <1>4 DEF IInv, FeedingKnown, KeysFollow, KeysKnown
    <1>7. \A e \in Ecus : listener'[e] = "ended"
        BY <1>1 DEF IInv, NothingBelieved
    <1>8. NothingBelieved' /\ ListenerInStep'
        BY <1>1, <1>4, <1>7, ManagerFacts DEF NothingBelieved, ListenerInStep
    <1> QED BY <1>5, <1>6, <1>8 DEF IInv

LEMMA RemoveStep ==
    ASSUME IInv, UNCHANGED <<client, securityVars>>, NEW e \in DOMAIN sessions, RemoveSession(e)
    PROVE  IInv'
    <1>1. /\ sessions' = [i \in DOMAIN sessions \ {e} |-> sessions[i]]
          /\ server' = [server EXCEPT ![e] = NoSession] /\ untold' = untold \union {e}
          /\ UNCHANGED <<listening, listener>>
        BY DEF RemoveSession
    <1>2. /\ DOMAIN sessions' = DOMAIN sessions \ {e} /\ sessions' \in [DOMAIN sessions' -> Session]
          /\ \A i \in DOMAIN sessions' : sessions'[i] = sessions[i]
        BY <1>1, ManagerFacts
    <1>3. NoSession \in Server /\ NoSession.type = DefaultSession
        BY DEF NoSession, Server, DefaultSession
    <1>4. /\ e \in Ecus /\ server' \in [Ecus -> Server] /\ server'[e].type = DefaultSession
          /\ \A i \in Ecus \ {e} : server'[i] = server[i]
        BY <1>1, <1>3, ManagerFacts
    <1>5. TypeOK'
        BY <1>1, <1>2, <1>4 DEF IInv, TypeOK, Server, securityVars
    <1>6. FeedingKnown'
        <2>1. CASE feeding # NotFeeding /\ feeding.ecu = e
            <3>1. feeding' = [feeding EXCEPT !.stale = TRUE]
                BY <2>1 DEF RemoveSession
            <3>2. client = "manager" => feeding' \in Feed /\ feeding'.stale
                BY <2>1, <3>1 DEF IInv, FeedingKnown, Feed
            <3> QED BY <3>2 DEF FeedingKnown
        <2>2. CASE ~(feeding # NotFeeding /\ feeding.ecu = e)
            <3>1. feeding' = feeding
                BY <2>2 DEF RemoveSession
            <3> QED BY <1>2, <2>2, <3>1 DEF IInv, FeedingKnown
        <2> QED BY <2>1, <2>2
    <1>7. KeysFollow'
        BY <1>2, <1>4, ManagerFacts DEF IInv, KeysFollow
    <1>8. NothingBelieved' /\ ListenerInStep'
        BY <1>1, <1>2, <1>4, ManagerFacts DEF IInv, NothingBelieved, ListenerInStep
    <1> QED BY <1>5, <1>6, <1>7, <1>8 DEF IInv

LEMMA ResetAllStep ==
    ASSUME IInv, UNCHANGED <<client, securityVars>>, ResetAll
    PROVE  IInv'
    <1> DEFINE heard == {e \in DOMAIN sessions : sessions[e].heard}
    <1>1. /\ sessions' = [e \in DOMAIN sessions |-> ResetInternal(sessions[e])]
          /\ UNCHANGED <<feeding, listening>> /\ untold' = untold \ heard
        BY DEF ResetAll
    <1>2. \A e \in DOMAIN sessions :
            /\ ResetInternal(sessions[e]) \in Session
            /\ ResetInternal(sessions[e]).heard = sessions[e].heard
            /\ ResetInternal(sessions[e]).cleared = sessions[e].cleared
            /\ KeysKnown(ResetInternal(sessions[e]), NoSession)
        BY ManagerFacts, ResetFacts
    <1>3. /\ DOMAIN sessions' = DOMAIN sessions /\ sessions' \in [DOMAIN sessions' -> Session]
          /\ \A e \in DOMAIN sessions :
                /\ sessions'[e].heard = sessions[e].heard /\ sessions'[e].cleared = sessions[e].cleared
                /\ KeysKnown(sessions'[e], NoSession)
        BY <1>1, <1>2
    <1>4. /\ listener' \in [Ecus -> Beliefs]
          /\ \A e \in Ecus : listener'[e] = IF e \in heard THEN "ended" ELSE listener[e]
        BY ManagerFacts DEF ResetAll, Beliefs
    <1>5. NoSession \in Server
        BY DEF NoSession, Server, DefaultSession
    <1>6. /\ server' \in [Ecus -> Server]
          /\ \A e \in Ecus : server'[e] = IF e \in DOMAIN sessions THEN NoSession ELSE server[e]
        BY <1>5, ManagerFacts DEF ResetAll
    <1>7. TypeOK'
        BY <1>1, <1>3, <1>4, <1>6 DEF IInv, TypeOK, Server, securityVars
    <1>8. FeedingKnown' /\ KeysFollow'
        BY <1>1, <1>3, <1>6, ManagerFacts DEF IInv, FeedingKnown, KeysFollow
    <1>9. NothingBelieved' /\ ListenerInStep'
        BY <1>1, <1>3, <1>4, ManagerFacts DEF IInv, NothingBelieved, ListenerInStep
    <1> QED BY <1>7, <1>8, <1>9 DEF IInv

LEMMA TickStep ==
    ASSUME IInv, UNCHANGED <<client, securityVars>>, SessionTick
    PROVE  IInv'
    <1>1. /\ sessions' = [e \in DOMAIN sessions |-> Checked(Aged(sessions[e]))]
          /\ UNCHANGED <<feeding, listening, listener, untold>>
        BY DEF SessionTick
    <1>2. ASSUME NEW e \in DOMAIN sessions
          PROVE  LET t == Checked(Aged(sessions[e]))
                     S == AfterS3(server[e], Aged(sessions[e]))
                 IN  /\ t \in Session /\ t.heard = sessions[e].heard /\ t.cleared = sessions[e].cleared
                     /\ t.levels = sessions[e].levels /\ t.state = sessions[e].state
                     /\ S \in Server /\ KeysKnown(t, S)
        <2> DEFINE s == Aged(sessions[e])
                   t == Checked(s)
                   S == AfterS3(server[e], s)
        <2>1. sessions[e] \in Session /\ server[e] \in Server /\ KeysKnown(sessions[e], server[e])
            BY ManagerFacts
        <2>2. Min({sessions[e].idle + 1, S3Bound}) \in Nat
            BY <2>1, SessionFields, MinOfTwo, UdsAssumption
        <2>3. /\ s \in Session /\ s.heard = sessions[e].heard /\ s.cleared = sessions[e].cleared
              /\ s.levels = sessions[e].levels /\ s.state = sessions[e].state
              /\ s.type = sessions[e].type /\ s.expired = sessions[e].expired
            BY <2>1, <2>2 DEF Aged, Session
        <2> HIDE DEF s
        <2>4. /\ t \in Session /\ t.heard = s.heard /\ t.cleared = s.cleared
              /\ t.type = s.type /\ t.levels = s.levels /\ t.state = s.state
              /\ ~t.expired => ~s.expired /\ S = server[e]
            BY <2>3, CheckedFacts
        <2>5. S \in Server
            BY <2>1 DEF AfterS3, NoSession, Server, DefaultSession
        <2> HIDE DEF t, S
        <2>6. KeysKnown(t, S)
            BY <2>1, <2>3, <2>4 DEF KeysKnown
        <2> QED BY <2>3, <2>4, <2>5, <2>6 DEF s, t, S
    <1>3. /\ server' \in [Ecus -> Server]
          /\ \A e \in DOMAIN sessions : server'[e] = AfterS3(server[e], Aged(sessions[e]))
          /\ \A e \in Ecus \ DOMAIN sessions : server'[e] = server[e]
        BY <1>2, ManagerFacts DEF SessionTick
    <1>4. /\ DOMAIN sessions' = DOMAIN sessions /\ sessions' \in [DOMAIN sessions' -> Session]
          /\ \A e \in DOMAIN sessions :
                /\ sessions'[e].heard = sessions[e].heard /\ sessions'[e].cleared = sessions[e].cleared
                /\ sessions'[e].levels = sessions[e].levels /\ sessions'[e].state = sessions[e].state
                /\ KeysKnown(sessions'[e], server'[e])
        BY <1>1, <1>2, <1>3
    <1>5. TypeOK'
        BY <1>1, <1>3, <1>4 DEF IInv, TypeOK, Server, securityVars
    <1>6. FeedingKnown' /\ KeysFollow'
        BY <1>1, <1>3, <1>4 DEF IInv, FeedingKnown, KeysFollow
    <1>7. NothingBelieved' /\ ListenerInStep'
        BY <1>1, <1>4 DEF IInv, NothingBelieved, ListenerInStep
    <1> QED BY <1>5, <1>6, <1>7 DEF IInv
-----------------------------------------------------------------------------
(* All of it.                                                              *)

\* The level of the second client keeps its type, the count modulo 2^8.
LEMMA SecurityTypes ==
    ASSUME TypeOK, SecurityNext
    PROVE  security' \in LevelStates /\ refused' \in 0..MaxRejections /\ since' \in 0..LockoutDuration
    <1> USE SecurityAssumption, UdsAssumption
    <1>1. /\ security \in LevelStates /\ refused \in 0..MaxRejections /\ since \in 0..LockoutDuration
          /\ security.failed_attempts \in 0..(AttemptModulus - 1) /\ security.lockout \in 0..LockoutDuration
        BY DEF TypeOK, LevelStates
    <1>2. CASE RejectKey
        <2>1. (security.failed_attempts + 1) % AttemptModulus \in 0..(AttemptModulus - 1)
            BY <1>1
        <2> DEFINE count == (security.failed_attempts + 1) % AttemptModulus
                   lockout == IF count >= MaxFailedAttempts THEN LockoutDuration ELSE security.lockout
        <2>2. lockout \in 0..LockoutDuration
            BY <1>1
        <2>3. security' = [security EXCEPT !.failed_attempts = count, !.seeded = FALSE, !.lockout = lockout]
            BY <1>2 DEF RejectKey, KeyRejected
        <2> HIDE DEF count, lockout
        <2>4. count \in 0..(AttemptModulus - 1)
            BY <2>1 DEF count
        <2>5. security' \in LevelStates
            BY <1>1, <2>2, <2>3, <2>4 DEF LevelStates
        <2> QED BY <1>1, <1>2, <2>5 DEF RejectKey
    <1>3. CASE AcceptKey
        BY <1>1, <1>3 DEF AcceptKey, KeyAccepted, LevelStates
    <1>4. CASE RequestSeed \/ ResetSecurity
        BY <1>1, <1>4 DEF RequestSeed, ResetSecurity, SeedRequested, ResetLevel, LevelStates
    <1>5. CASE SecurityTick
        <2>1. since' \in 0..LockoutDuration /\ refused' = refused
            BY <1>1, <1>5, MinOfTwo DEF SecurityTick
        <2> QED BY <1>1, <1>5, <2>1 DEF SecurityTick, ElapsedLevel, LevelStates
    <1> QED BY <1>2, <1>3, <1>4, <1>5 DEF SecurityNext

LEMMA NextIInv ==
    ASSUME IInv, [Next]_vars
    PROVE  IInv'
    <1>1. CASE client = "manager" /\ ManagerNext /\ UNCHANGED <<client, securityVars>>
        BY <1>1, FeedStep, ApplyStep, OnEventStep, ResetAllStep, TickStep, ClearStep, RemoveStep,
           TimingStep, ForceStep DEF ManagerNext
    <1>2. CASE client = "security" /\ SecurityNext /\ UNCHANGED <<client, managerVars>>
        <2>1. TypeOK'
            BY <1>2, SecurityTypes DEF IInv, TypeOK, managerVars, historyVars
        <2> QED BY <1>2, <2>1, SameStep DEF FeedingKnown, managerVars, historyVars
    <1>3. CASE /\ client \in {"decoder", "builder"} /\ UNCHANGED <<client, securityVars>>
               /\ UNCHANGED <<sessions, listening, listener, untold, server>>
        <2>1. TypeOK' /\ FeedingKnown'
            BY <1>3 DEF IInv, TypeOK, FeedingKnown, securityVars
        <2> QED BY <1>3, <2>1, SameStep
    <1>4. CASE UNCHANGED vars
        <2>1. TypeOK' /\ FeedingKnown'
            BY <1>4 DEF IInv, TypeOK, FeedingKnown, vars
        <2> QED BY <1>4, <2>1, SameStep DEF vars
    <1> QED BY <1>1, <1>2, <1>3, <1>4 DEF Next, DecodeNext, BuildNext, DropBuilder, historyVars

LEMMA Invariance == Spec => []IInv
    <1>1. IInv /\ [Next]_vars => IInv'
        BY NextIInv
    <1> QED BY <1>1, InitIInv, PTL DEF Spec

\* The sessions, their levels and timers, and what the listener holds keep
\* their types whatever the four clients do.
THEOREM TypeCorrect == Spec => []TypeOK
    BY Invariance, PTL DEF IInv

\* For any set of ECUs, sub-functions and timings: a level counts as unlocked
\* only if its key was accepted in the session the ECU is in, however messages,
\* forced types, resets and removals follow each other; an S3 timeout voids
\* this until the type changes or the session is reset.
THEOREM UnlockedNeedsKey == Spec => []UnlockedByKey
    <1>1. IInv => UnlockedByKey
        BY DEF IInv, KeysFollow, KeysKnown, UnlockedByKey
    <1> QED BY <1>1, Invariance, PTL

\* A listener hears every session whose callbacks were not cleared, those it
\* found and those made later, and what it was last told of a session is so
\* until a change that emits no event: a forced type or a removal.
THEOREM ListenerFollows == Spec => []ListenerInStep
    BY Invariance, PTL DEF IInv
==============================================================================
