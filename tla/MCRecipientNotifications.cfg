CONSTANTS
    NoRecord = NoRecord
    Users = {u1}
    Notices = {1, 2}
    Roles = {"worker", "http"}
    DigestLimit = 1
    MaxFaults = 1
SPECIFICATION FairSpec
INVARIANTS
    DeliveredWasTold
    TellingsBounded
    IInv
PROPERTIES
    NoticesDrain
