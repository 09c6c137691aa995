----------------------------- MODULE SecurityState -----------------------------
(***************************************************************************)
(* SecurityState: the security levels of an ECU, which of them a key has   *)
(* unlocked, and how many keys in a row were refused.  lockout_until is    *)
(* kept as the time left until it, 0 for none or past.                     *)
(***************************************************************************)
EXTENDS Integers, FiniteSets, FiniteSetsExt

CONSTANTS
    MaxFailedAttempts,   \* MAX_FAILED_ATTEMPTS
    LockoutDuration,     \* DEFAULT_LOCKOUT_DURATION
    AttemptModulus       \* 2^8: failed_attempts is a uint8_t

ASSUME SecurityAssumption ==
    /\ MaxFailedAttempts \in Nat \ {0} /\ LockoutDuration \in Nat \ {0}
    /\ AttemptModulus \in Nat /\ AttemptModulus > MaxFailedAttempts

\* SecurityLevelState
LevelStates ==
    [unlocked : BOOLEAN, failed_attempts : 0..(AttemptModulus - 1),
     lockout : 0..LockoutDuration, seeded : BOOLEAN]

NewLevel == [unlocked |-> FALSE, failed_attempts |-> 0, lockout |-> 0, seeded |-> FALSE]

IsLockedOut(level) == level.lockout > 0

IsUnlocked(level) == level.unlocked /\ ~IsLockedOut(level)

AnyUnlocked(levels) == \E l \in DOMAIN levels : IsUnlocked(levels[l])

HighestUnlockedLevel(levels) ==
    Max({0} \union {l \in DOMAIN levels : IsUnlocked(levels[l])})

SeedRequested(level) == [level EXCEPT !.seeded = TRUE]

KeyAccepted(level) ==
    [unlocked |-> TRUE, failed_attempts |-> 0, lockout |-> 0, seeded |-> FALSE]

\* A refused key that starts the lockout once, at the third attempt.
KeyRejectedOnce(level) ==
    [level EXCEPT !.failed_attempts = (@ + 1) % AttemptModulus,
                  !.seeded = FALSE,
                  !.lockout = IF level.failed_attempts + 1 = MaxFailedAttempts
                              THEN LockoutDuration ELSE @]

\* From the third refusal on, every refused key starts the lockout anew.
KeyRejected(level) ==
    [level EXCEPT !.failed_attempts = (@ + 1) % AttemptModulus,
                  !.seeded = FALSE,
                  !.lockout = IF (level.failed_attempts + 1) % AttemptModulus >= MaxFailedAttempts
                              THEN LockoutDuration ELSE @]

\* The attempts and the lockout outlive a change of session.
ResetLevel(level) == [level EXCEPT !.unlocked = FALSE, !.seeded = FALSE]

ResetLevels(levels) == [l \in DOMAIN levels |-> ResetLevel(levels[l])]

\* Time: the clock the lockout is compared with moves on.
ElapsedLevel(level) == [level EXCEPT !.lockout = IF @ > 0 THEN @ - 1 ELSE 0]
================================================================================
