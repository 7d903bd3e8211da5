CONSTANTS
    Matches <- MCMatches
    UsdcChains = {1}
    Manifests = {TRUE, FALSE}
    CompileReplies <- MCCompileReplies
    MaxCompileTurns = 2
    MaxDisambigTurns = 2
    Updates <- MCUpdates
    Hasty <- MCHasty
    MaxInbox = 2
    MaxFaults = 1
SPECIFICATION Spec
INVARIANTS
    TypeOK
    AnswersSeenQuestion
    AbandonedStaysAbandoned
    TokensAsAsked
    PaidIsNotified
    QuestionsBounded
    EveryUpdateAnswered
