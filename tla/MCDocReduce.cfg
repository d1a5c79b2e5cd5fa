CONSTANTS
    d1 = d1
    d2 = d2
    r1 = r1
    r2 = r2
    p1 = p1
    p2 = p2
    p3 = p3
    Deployments = {d1, d2}
    Runs = {r1}
    PlanIds = {p1, p2}
    NoPlan = NoPlan
    MaxAmount = 2
    Stakes = {0, 2}
    MaxChanges = 1
SPECIFICATION FairSpec
PROPERTIES
    ExcessRemoved
