SPECIFICATION Spec
CONSTANTS
    Uids = {u1, u2}
    NoUid = NoUid
    Slots = {s1, s2}
    Emails = {e1, e2}
    NoEmail = NoEmail
    MaxPending = 2
    Faults = {"restart", "storageDown"}
SYMMETRY Symmetry
VIEW View
CONSTRAINT NotAstray
CHECK_DEADLOCK FALSE
 
 
PROPERTY RegistrationHandedOn
