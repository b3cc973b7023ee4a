\* Leases of two workers over two households, and the plans of one household.
SPECIFICATION PlanSpec
CONSTANTS
    w1 = w1
    w2 = w2
    h1 = h1
    h2 = h2
    Workers = {w1, w2}
    Households = {h1, h2}
    Nobody = Nobody
    MaxItems = 2
    MaxInteger = 40
    MaxAttempts = 2
    BaseYear = 2022
    Months = 600
    LoopLimit = 60
    Worlds <- MCWorlds
    MaxVersion = 3
PROPERTIES
    LeaseIsKept
    EveryHouseholdIsMaintained
    PlanFollowsRule
    NextPaydayFollows
    RefusedContributionStays
CHECK_DEADLOCK FALSE
