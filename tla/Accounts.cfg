SPECIFICATION Spec
CONSTANTS
    new = new
    old = old
    p1 = p1
    p2 = p2
    Emails = {new, old}
    Passwords = {p1, p2}
    Reqs = {r1, r2, r3}
    Arrivals <- MCArrivals
    Registered <- MCRegistered
    Modes = {TRUE, FALSE}
    Faults = TRUE
    Absent = Absent
    NoOne = NoOne
SYMMETRY MCSymmetry
INVARIANTS AccountsSound LedgerRoleMatches
PROPERTIES RegulatorDecidesCertificate
\* Every request slot serves one request.
CHECK_DEADLOCK FALSE
