SPECIFICATION FairSchedulerSpec
CONSTANTS
    p1 = p1
    p2 = p2
    p3 = p3
    p4 = p4
    f1 = f1
    a1 = a1
    a2 = a2
    a3 = a3
    c1 = c1
    c2 = c2
    Tickets = {p1, p2, p3, p4, f1, a1, a2, a3}
    Actors = {c1, c2}
    NoActor = NoActor
    TierOf <- MCTierOf
    CreatedAt <- MCCreatedAt
    ActorOf <- MCActorOf
    MaxConcurrentJobs = 2
    MaxAnonymousJobs = 1
    MaxDepth = 2
    MaxStarts = 2
INVARIANTS
    SlotsRespected
    NoIdleSlot
PROPERTIES
    UsageFollowsActors
    OldestPaidServed
