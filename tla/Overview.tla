------------------------------ MODULE Overview -----------------------------
(***************************************************************************)
(* The regulator's first page (Overview.jsx): statistics and the latest    *)
(* events, loaded at once and again every 30 s, whether the last load has  *)
(* been answered or not.  The statistics are the server's at the time.     *)
(***************************************************************************)
EXTENDS Naturals

CONSTANTS Null,
          Loads,       \* loads that can be in flight
          MaxVersion   \* a bound: changes of the statistics on the server

VARIABLES server, stats, loading, error, crashed,
          calls,       \* per load: whether it is on its way, and what it carries
          failed       \* some load has failed

vars == <<server, stats, loading, error, crashed, calls, failed>>

Versions == 0..MaxVersion
Idle == [sent |-> FALSE, data |-> Null]
Sent == [sent |-> TRUE, data |-> Null]
First == CHOOSE l \in Loads : TRUE

TypeOK ==
    /\ server \in Versions /\ stats \in {Null} \cup Versions
    /\ {loading, error, crashed, failed} \subseteq BOOLEAN
    /\ calls \in [Loads -> [sent : BOOLEAN, data : {Null} \cup Versions]]

Init ==
    /\ server = 0 /\ stats = Null /\ loading = TRUE /\ error = FALSE
    /\ crashed = FALSE /\ failed = FALSE
    /\ calls = [l \in Loads |-> IF l = First THEN Sent ELSE Idle]

\* The cards read stats.totalDocuments: without statistics the rendering
\* throws, and ErrorBoundary replaces the whole dashboard.
Render(s, isLoading, isError) ==
    /\ stats' = s /\ loading' = isLoading /\ error' = isError
    /\ crashed' = (~isLoading /\ ~isError /\ s = Null)

\* Variant: a load starts from nothing.
clearForget == Render(Null, loading, FALSE)

\* setError(''), which is rendered before the answer comes.
clear == Render(stats, loading, FALSE)

Tick(l) ==
    /\ ~crashed /\ calls[l] = Idle
    /\ clear
    /\ calls' = [calls EXCEPT ![l] = Sent]
    /\ UNCHANGED <<server, failed>>

Serve(l) ==
    /\ calls[l] = Sent
    /\ calls' = [calls EXCEPT ![l].data = server]
    /\ UNCHANGED <<server, stats, loading, error, crashed, failed>>

\* Variant: statistics are set once.
LoadedOnce(l) ==
    /\ ~crashed /\ calls[l].data # Null
    /\ Render(IF stats = Null THEN calls[l].data ELSE stats, FALSE, error)
    /\ calls' = [calls EXCEPT ![l] = Idle]
    /\ UNCHANGED <<server, failed>>

Loaded(l) ==
    /\ ~crashed /\ calls[l].data # Null
    /\ Render(calls[l].data, FALSE, error)
    /\ calls' = [calls EXCEPT ![l] = Idle]
    /\ UNCHANGED <<server, failed>>

LoadFails(l) ==
    /\ ~crashed /\ calls[l].sent
    /\ Render(stats, FALSE, TRUE)
    /\ calls' = [calls EXCEPT ![l] = Idle]
    /\ failed' = TRUE
    /\ UNCHANGED server

Others ==
    /\ server < MaxVersion /\ server' = server + 1
    /\ UNCHANGED <<stats, loading, error, crashed, calls, failed>>

Next == Others \/ \E l \in Loads : Tick(l) \/ Serve(l) \/ Loaded(l) \/ LoadFails(l)

Spec == Init /\ [][Next]_vars

\* The interval ticks, and requests are served and answered, not always by a
\* failure.
Fairness ==
    /\ WF_vars(\E l \in Loads : Tick(l))
    /\ \A l \in Loads : SF_vars(Serve(l)) /\ SF_vars(Loaded(l))

----------------------------------------------------------------------------
(* Properties.                                                             *)
\* The page only breaks down when a load has failed before any succeeded: the
\* next tick takes the error away, and there is nothing to render.
BreaksOnlyEmpty == crashed => failed /\ stats = Null

\* The polling keeps the dashboard current: answers may overtake each other,
\* but once the server is quiet its statistics come to be those on the page,
\* unless the page broke down.
StatsCatchUp == \A v \in Versions : <>[](server = v) => []<>(crashed \/ stats = v)
============================================================================
