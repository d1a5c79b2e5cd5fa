CONSTANTS
    h1 = h1
    h2 = h2
    NoCache = NoCache
    Handlers = {h1, h2}
    Modes = {"single", "multiple"}
    Amounts = {1}
    UnitCosts <- MCPollUnits
    MaxConflict = 1
    RangeMax = 1
    Rows <- MCPollRows
    MaxBill = 1
    MaxQueued = 1
    q1 = q1
    q2 = q2
    d1 = d1
    a1 = a1
    a2 = a2
    p1 = p1
    p2 = p2
    None = None
    Nobody = None
    Indexers = {i1}
    ControllerKeys = {k1, k2}
    Loops = {1, 2}
    Boots = {"boot"}
    Strangers = {}
    MaxLinks = 2
    MaxEvents = 2
SPECIFICATION MCSpec
INVARIANTS
    RunsAsAccount
    PeerKnown
PROPERTIES
    ChannelsFollow
    BacklogDelivered
    RevokedRefused
    TableFollows
    IdentityFollows
    MetricsReached
