CONSTANTS
    Families = {"subgraph"}
    Requests <- MCRequests
    None = None
SPECIFICATION RouteSpec
INVARIANTS
    DefaultServesPost
