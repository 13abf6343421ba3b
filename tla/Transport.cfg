SPECIFICATION FairSpec
CONSTANTS
    Calls = {c1, c2}
    MaxRetries = 1
INVARIANTS
    WritesAtMostOnce
    ResultsAreHonest
PROPERTIES
    EveryCallReturns
    RefinesContract
