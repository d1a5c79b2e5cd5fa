CONSTANTS
    c1 = c1
    c2 = c2
    c3 = c3
    NoCall = NoCall
    NoTask = NoTask
    Calls = {c1, c2, c3}
    Actions = {"a"}
    Types = {"go", "check", "postponed"}
    GasLimited = TRUE
    MAX_RETRY = 1
    Bypass = 1
    MaxTime = 1
    m1 = m1
    m2 = m2
    A = A
    B = B
    Unset = Unset
    None = None
    AdminCalls = {m1}
    Configs = {A, B}
    Hosts = {"system", "user"}
    Mutations = {"add", "start", "stop", "remove", "rate"}
    Ups = {m1}
    Background = {"crash", "reboot"}
    Families = {"evm", "dict", "polkadot", "solana", "subgraph"}
    Requests <- MCEndpointRequests
    NodeTypes = {"evm", "polkadot", "solana", "subgraph", "subquery"}
    BoxStates = {"none", "healthy"}
    MaxHeight = 2
SPECIFICATION MCSpec
SYMMETRY CoordinatorSymmetry
INVARIANTS
    PendingWasGivenUp
    ForcedOnlyLate
    ContainersFollowFile
    RunningIsServed
    RunningWasChecked
    ReportInOrder
PROPERTIES
    QueueSpec
