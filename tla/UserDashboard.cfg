SPECIFICATION FairSpec
CONSTANTS
    d1 = d1
    d2 = d2
    Docs = {d1, d2}
    Stored <- MCStored
    Polls = {p1, p2}
    Loads = {l1}
    Decisions = {"signed"}
    MAX_NOTIFICATIONS = 2
INVARIANTS NotificationsTrue
PROPERTIES Announced ListConverges
\* The customer may leave, and the page is then done.
CHECK_DEADLOCK FALSE
