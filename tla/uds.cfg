SPECIFICATION Spec
CONSTANTS
    MaxFailedAttempts = 3
    LockoutDuration = 4
    AttemptModulus = 256
    Ecus = {e1}
    Subs = {1, 2, 4}
    S3Default = 1
    S3Values = {0, 1}
    S3Bound = 2
    MaxRejections = 255
    FormatBytes = {0, 4, 17, 33, 68, 255}
    BuilderBytes = {1, 16, 120}
    MaxMessageSize = 11
INVARIANTS UnlockedByKey ListenerInStep LockedOutAfterThree DecodedWithinMessage
