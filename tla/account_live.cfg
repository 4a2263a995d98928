SPECIFICATION FairSpec
CONSTANTS
    Uids = {u1, u2}
    NoUid = NoUid
    Slots = {s1}
    Emails = {e1}
    NoEmail = NoEmail
    MaxPending = 1
    Faults = {"restart"}
PROPERTY RegistrationLeadsOn
