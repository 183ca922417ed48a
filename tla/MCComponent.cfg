SPECIFICATION FairSpec
INVARIANTS
    UsersEndFirst
    StopLeavesNothing
PROPERTIES
    StopReturns
