SPECIFICATION FairSpec
CONSTANTS
    d1 = d1
    cust = cust
    s1 = s1
    s2 = s2
    reg = reg
    Docs = {d1}
    Users = {cust, s1, s2, reg}
    Reqs = {r1, r2, r3}
    RoleOf <- MCRoleOf
    Arrivals <- LiveArrivals
    Live = TRUE
    Faults = TRUE
    Absent = Absent
    NoOne = NoOne
INVARIANTS LedgerLeads VerifiedIsApproved AnswerHolds
PROPERTIES ContractSpec ServiceSpec Answered DecisionReachesMongo
\* Every request slot serves one request.
CHECK_DEADLOCK FALSE
