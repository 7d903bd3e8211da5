CONSTANTS
    joe = joe
    uni = uni
    send = send
    Tools <- MCTools
    Category <- MCCategory
    Priority <- MCPriority
    Defaults <- MCDefaults
    Commands = {c}
    NoTool = NoTool
    Admins = {a1, a2}
    Chats = {s}
    TopK = 2
    Scores = {1, 2}
    HasIndex = TRUE
    MaxFaults = 1
SPECIFICATION Spec
SYMMETRY MCSymmetry
INVARIANTS SelectedWasActive IndexFollowsTable
