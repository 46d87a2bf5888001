SPECIFICATION FairSpec
CONSTANTS
    t1 = t1
    t2 = t2
    r1 = r1
    r2 = r2
    s1 = s1
    Apps = {"signer", "regulator"}
    Tabs <- MCTabs
    Accounts = {r1, r2, s1}
    Role <- MCRole
    Shared = Shared
    None = None
    Garbage = Garbage
    MongoFails = TRUE
    MaxTokens = 2
    MaxCalls = 2
INVARIANT InStep
PROPERTIES SessionKept DeadSessionEnds
\* Tokens run out, and a guest may do nothing.
CHECK_DEADLOCK FALSE
