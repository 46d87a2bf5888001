SPECIFICATION Spec
CONSTANTS
    d1 = d1
    cust = cust
    s1 = s1
    s2 = s2
    reg = reg
    Docs = {d1}
    Users = {cust, s1, s2, reg}
    Reqs = {r1, r2}
    RoleOf <- MCRoleOf
    Arrivals <- LiveArrivals
    Live = TRUE
    Faults = FALSE
    Absent = Absent
    NoOne = NoOne
SYMMETRY MCSymmetry
INVARIANT RevocationTakesEffect
\* Every request slot serves one request.
CHECK_DEADLOCK FALSE
