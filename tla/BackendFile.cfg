SPECIFICATION Spec
CONSTANTS
    d1 = d1
    cust = cust
    s1 = s1
    s2 = s2
    reg = reg
    Docs = {d1}
    Users = {cust, s1, s2, reg}
    Reqs = {r1, r2}
    RoleOf <- MCRoleOf
    Arrivals <- RaceArrivals
    Live = FALSE
    Faults = TRUE
    Absent = Absent
    NoOne = NoOne
SYMMETRY MCSymmetry
INVARIANT PendingHasFile
\* Every request slot serves one request.
CHECK_DEADLOCK FALSE
