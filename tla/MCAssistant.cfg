CONSTANTS
    MAX_TOOL_ROUNDS = 2
    MaxToolCalls = 2
    HistoryLimit = 4
    WINDOW_SIZE = 3
    Tools = {"vault"}
    Manifest <- MCManifest
    ParamNames = {}
    Intents <- MCIntents
    MaxMessages = 3
    MaxSecond = 2
    MaxFaults = 1
SPECIFICATION Spec
CHECK_DEADLOCK FALSE
INVARIANTS TypeOK HistoryAccepted
