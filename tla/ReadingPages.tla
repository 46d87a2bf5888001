---------------------------- MODULE ReadingPages ---------------------------
(* A frontend shows one page at a time: the signer's table, one of the      *)
(* lookups, or the regulator's overview, each for one visit.                *)
EXTENDS Integers, FiniteSets

CONSTANTS Uploads, Searches, Sizes,                           \* the table
          Subjects, All, Nothing, Files, MaxAsks, MaxPreviews, \* the lookups
          Null, Loads, MaxVersion                             \* the overview

VARIABLES shows,
          listed, tableLoading, tableError, rows, match, ascending, pageNo, rowsPerPage, visible,
          view, open, subject, shown, loading, error, asks, calls, superseded,
          file, previewingId, fetches, fetched, urls, overlapped, carried,
          version, stats, statsLoading, statsError, crashed, statsCalls, failed

Table == INSTANCE DocumentTable WITH Docs <- Uploads, docs <- listed, page <- pageNo,
             loading <- tableLoading, error <- tableError
Lookup == INSTANCE Lookups WITH mounted <- open
Stats == INSTANCE Overview WITH server <- version,
             loading <- statsLoading, error <- statsError, calls <- statsCalls

\* An empty search matches everything; a page of the table has room for a row.
ASSUME PagesAssumption ==
    /\ Uploads \subseteq Int /\ IsFiniteSet(Uploads)
    /\ Searches \subseteq SUBSET Uploads /\ Uploads \in Searches
    /\ Sizes \subseteq Nat \ {0} /\ Sizes # {}
    /\ All \notin Subjects /\ Nothing \notin Subjects \cup {All} \cup Files \cup Lookup!Fetches
    /\ MaxAsks \in Nat \ {0} /\ MaxPreviews \in Nat
    /\ MaxVersion \in Nat /\ Null \notin Stats!Versions

tableVars == <<listed, tableLoading, tableError, rows, match, ascending, pageNo, rowsPerPage, visible>>
lookupVars == <<view, open, subject, shown, loading, error, asks, calls, superseded,
                file, previewingId, fetches, fetched, urls, overlapped, carried>>
statsVars == <<version, stats, statsLoading, statsError, crashed, statsCalls, failed>>
pagesVars == <<shows, tableVars, lookupVars, statsVars>>

\* What a page would start with does not matter while another one is shown.
PagesInit ==
    /\ shows \in {"table", "lookup", "overview"}
    /\ Table!Init /\ Lookup!Init /\ Stats!Init
    /\ shows # "table" => rowsPerPage = CHOOSE size \in Sizes : TRUE
    /\ shows # "lookup" => view = "table"

PagesNext ==
    \/ shows = "table" /\ Table!Next /\ UNCHANGED <<shows, lookupVars, statsVars>>
    \/ shows = "lookup" /\ Lookup!Next /\ UNCHANGED <<shows, tableVars, statsVars>>
    \/ shows = "overview" /\ Stats!Next /\ UNCHANGED <<shows, tableVars, lookupVars>>

PagesSpec == PagesInit /\ [][PagesNext]_pagesVars

FairPages ==
    /\ PagesSpec
    /\ shows = "table" => Table!Fairness
    /\ shows = "lookup" => Lookup!Fairness
    /\ shows = "overview" => Stats!Fairness

----------------------------------------------------------------------------
\* The table: its rows are the documents of the list, however the fading rows
\* and the list overtake each other, no page of a table that has rows is empty,
\* and each row that matches is on one page.
TableTrue ==
    /\ Table!TypeOK /\ Table!RowsMirrorDocs
    /\ Table!PageNotEmpty /\ Table!EachOnOnePage

\* The reading pages: what is on screen under a name is about it, previews are of
\* that user's files, URLs are let go, and the overview breaks down only when
\* it never had statistics.
LookupTrue ==
    /\ Lookup!TypeOK /\ Lookup!ShownIsAsked /\ Lookup!PreviewIsOurs /\ Lookup!UrlsReleased
    /\ Stats!TypeOK /\ Stats!BreaksOnlyEmpty

\* A table whose documents are all handled makes room for the notice.
QueueEmpties == shows = "table" => Table!QueueEmpties

\* Every spinner of a lookup ends.
LoadingEnds == shows = "lookup" => Lookup!LoadingEnds

\* The overview comes to show the server's statistics.
StatsCatchUp == shows = "overview" => Stats!StatsCatchUp
============================================================================
