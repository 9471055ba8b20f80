CONSTANTS
    s1 = s1
    s2 = s2
    m = m
    p = p
    q = q
    Shards = {s1, s2}
    Singles = {m}
    Packs = {p, q}
    Providers = {q}
    MaxConcurrent = 1
    MaxTasks = 3
    MaxWorkers = 2
    Size <- MCSize
    Plans <- MCPlans
SPECIFICATION FairSpec
INVARIANTS  FinishedFilesAreVerified  NoShardVanishes
 
CHECK_DEADLOCK FALSE
