SPECIFICATION Spec
CONSTANTS
    Uids = {u1}
    NoUid = NoUid
    Slots = {s1, s2}
    Emails = {e1}
    NoEmail = NoEmail
    MaxPending = 2
    Faults = {"restart", "request", "write", "upload"}
SYMMETRY Symmetry
CHECK_DEADLOCK FALSE
INVARIANT TypeOK
INVARIANT TrustIsEarned
INVARIANT HalfRecord
PROPERTY VerifiedEntry
PROPERTY ErasureKept
