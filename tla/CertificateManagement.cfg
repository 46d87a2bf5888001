SPECIFICATION FairSpec
CONSTANTS
    Nobody = Nobody
    Users = {u1, u2}
    Revocations = {n1, n2, n3}
INVARIANTS RowsTrue
PROPERTIES RevokingEnds
\* The regulator may leave, and the page is then done.
CHECK_DEADLOCK FALSE
