SPECIFICATION FairSpec
CONSTANTS
    Nobody = Nobody
    Docs = {d1, d2}
    Denials = {n1, n2}
    Polls = {p1}
INVARIANT SentAsConfirmed
PROPERTIES QueueConverges
\* The signer may leave, and the page is then done.
CHECK_DEADLOCK FALSE
