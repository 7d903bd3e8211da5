CONSTANTS
    NoRecord = NoRecord
    Users = {u1}
    Requests = {1, 2}
    Posts = {p1, p2}
    SignTtl = 1
    Limits = {1}
    GrantTicks = 1
    MaxAnswers = 2
    Plans <- SwapAndPlainSend
SPECIFICATION FairSpec
INVARIANTS
    ServedIsResolvable
    RepliedNotServed
    VerdictWasAnswered
    ChargedAtTheEnd
    SpentIsBacked
    IInv
PROPERTIES
    ImplementsStepwiseConsent
    BotEventuallyFree
