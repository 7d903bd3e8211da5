CONSTANTS
    NoRecord = NoRecord
    Users = {u1}
    Notices = {1, 2}
    Roles = {"worker"}
    DigestLimit = 2
    MaxFaults = 0
SPECIFICATION Spec
INVARIANTS
    UndeliveredStaysPending
