SPECIFICATION LedgerSpec
CONSTANTS
    Ids = {d1, d2}
    TxIds = {t1, t2, t3}
    Hashes = {h1, NoHash}
    NoHash = NoHash
    Owners = {u1}
    Absent = Absent
    NoOne = NoOne
    Callers <- MCCallers
SYMMETRY MCSymmetry
INVARIANT ApprovedCounted
\* The transaction ids run out.
CHECK_DEADLOCK FALSE
