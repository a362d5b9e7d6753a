\* Properties TLC refutes, each in place of those below: INVARIANT
\* DeletedAreCleanedUp and, with Ids = {a1, a2}, INVARIANT LimitHolds.
SPECIFICATION FairSpec
CONSTANTS
    Pods = {p1, p2}
    MaxCrashes = 1
    Ids = {a1}
    Clients = {c1, c2}
    MaxPerWorkItem = 1
INVARIANTS CompletedHasObject PurgedLeaveNothing JobExclusive
PROPERTIES NothingStaysPending
