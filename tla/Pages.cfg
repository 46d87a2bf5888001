SPECIFICATION FairPages
CONSTANTS
    Uploads = {1, 2, 3}
    Searches = {{1, 2, 3}, {2, 3}}
    Sizes = {1, 2}
    Subjects = {a, b}
    Files = {f1, f2}
    MaxAsks = 3
    MaxPreviews = 2
    All = All
    Nothing = Nothing
    Null = Null
    Loads = {l1, l2}
    MaxVersion = 2
INVARIANTS TableTrue LookupTrue
PROPERTIES QueueEmpties LoadingEnds StatsCatchUp
\* A page that was left is done when nothing is on its way any more.
CHECK_DEADLOCK FALSE
