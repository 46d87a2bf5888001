--------------------------- MODULE DocumentTable ---------------------------
(***************************************************************************)
(* The signer's table (PendingDocuments.jsx): it mirrors the list the page *)
(* holds, but lets a row that has gone fade out first, and shows one page  *)
(* of the rows that match the search (usePagination.js).  AllDocuments.jsx *)
(* and MyDocuments.jsx filter, sort and page alike, without the fading.    *)
(*                                                                         *)
(* A document is the time it was uploaded.  The DOM is part of the state   *)
(* where it decides what the code hears: a row leaves the table for good   *)
(* when its opacity has changed on screen, and an element that is not      *)
(* rendered, or was never made opaque, changes nothing.  React runs the    *)
(* effects of a change before it handles the next event, so a step is an   *)
(* event with its renderings and effects.                                  *)
(***************************************************************************)
EXTENDS Integers, FiniteSets

CONSTANTS Docs,         \* numbers, in the order of uploading
          Searches,     \* what a search text can match: sets of documents
          Sizes         \* rowsPerPageOptions

VARIABLES docs,        \* the prop: SignerDashboard's list
          loading, error,
          rows,        \* per document: "none", or how its row stands
          match, ascending, page, rowsPerPage,
          visible      \* the browser tab is: no frame is drawn in a hidden one

list == <<docs, loading, error>>
view == <<match, ascending, page, rowsPerPage>>
vars == <<docs, loading, error, rows, match, ascending, page, rowsPerPage, visible>>

\* new: ~_entered; shown: _entered; fading and stuck: _leaving, with the
\* transition running or without one.
RowStates == {"none", "new", "shown", "fading", "stuck"}

TypeOK ==
    /\ docs \subseteq Docs /\ loading \in BOOLEAN /\ error \in BOOLEAN
    /\ rows \in [Docs -> RowStates]
    /\ match \in Searches /\ ascending \in BOOLEAN /\ visible \in BOOLEAN
    /\ page \in 0..Cardinality(Docs) /\ rowsPerPage \in Sizes

Leaving(d) == rows[d] \in {"fading", "stuck"}

Init ==
    /\ docs = {} /\ loading = TRUE /\ error = FALSE
    /\ rows = [d \in Docs |-> "none"]
    /\ match = Docs /\ ascending = TRUE /\ page = 0 /\ rowsPerPage \in Sizes
    /\ visible = TRUE

----------------------------------------------------------------------------
(* Filter, order and page                                                  *)
filtered(r, m) == {d \in m : r[d] # "none"}

\* A row's place in the order the table is sorted by.
Place(r, m, up, d) ==
    Cardinality({e \in filtered(r, m) : IF up THEN e < d ELSE e > d})

\* Variant: the slice is one row too long.
pageItemsLong(r, m, up, p, size) ==
    {d \in filtered(r, m) : Place(r, m, up, d) \in p * size .. p * size + size}

pageItems(r, m, up, p, size) ==
    {d \in filtered(r, m) : Place(r, m, up, d) \in p * size .. p * size + size - 1}

Rendered == IF loading \/ error THEN {} ELSE pageItems(rows, match, ascending, page, rowsPerPage)

\* Variant: the effect follows the search only.
resetPageOnSearch(r, m) == IF m # match THEN 0 ELSE page

resetPage(r, m) ==
    IF Cardinality(filtered(r, m)) # Cardinality(filtered(rows, match)) THEN 0 ELSE page

\* The rows become r and the search m: the page resets in an effect, after a
\* rendering with the old one.  A fading row that any of these renderings
\* leaves out loses its element, and with it the transition.
Render(r, m) ==
    /\ match' = m
    /\ page' = resetPage(r, m)
    /\ rows' = [d \in Docs |->
                  IF r[d] = "fading" /\ ~(/\ d \in Rendered
                                          /\ d \in pageItems(r, m, ascending, page, rowsPerPage)
                                          /\ d \in pageItems(r, m, ascending, page', rowsPerPage))
                  THEN "stuck" ELSE r[d]]
    /\ UNCHANGED <<ascending, rowsPerPage>>

\* The page, the order or the size changes; the rows stay.
Turn(up, p, size) ==
    /\ ascending' = up /\ page' = p /\ rowsPerPage' = size
    /\ rows' = [d \in Docs |->
                  IF rows[d] = "fading" /\ ~(d \in Rendered /\ d \in pageItems(rows, match, up, p, size))
                  THEN "stuck" ELSE rows[d]]
    /\ UNCHANGED match

----------------------------------------------------------------------------
(* The list changes: the first load, a poll, a row handled on this page.   *)
\* Variant: a row that is leaving goes on leaving.
nextRowLeaves(d, incoming) ==
    IF Leaving(d) THEN rows[d]
    ELSE IF d \in incoming THEN IF rows[d] = "none" THEN "new" ELSE "shown"
    ELSE CASE rows[d] = "new"   -> "stuck"
           [] rows[d] = "shown" -> "fading"
           [] OTHER             -> rows[d]

nextRow(d, incoming) ==
    IF d \in incoming THEN IF rows[d] = "none" THEN "new" ELSE "shown"
    ELSE CASE rows[d] = "new"   -> "stuck"      \* its opacity is 0 and stays 0
           [] rows[d] = "shown" -> "fading"
           [] OTHER             -> rows[d]

Incoming(D) ==
    /\ docs' = D
    /\ Render([d \in Docs |-> nextRow(d, D)], match)

\* A poll's answer, or a row that is handled or put back on this page; polls
\* go on during the first load and after it has failed.
SetDocs(D) ==
    /\ D # docs /\ Incoming(D)
    /\ UNCHANGED <<loading, error, visible>>

Load(D) ==
    /\ loading /\ loading' = FALSE
    /\ Incoming(D)
    /\ UNCHANGED <<error, visible>>

\* Nothing calls loadDocs again: the error stays for as long as the page.
LoadFails ==
    /\ loading /\ loading' = FALSE /\ error' = TRUE
    /\ UNCHANGED <<docs, rows, view, visible>>

\* The animation frame after a row was added; for a row that has gone by then
\* it makes no difference to what is drawn.
Frame ==
    /\ visible /\ \E d \in Docs : rows[d] = "new"
    /\ rows' = [d \in Docs |-> IF rows[d] = "new" THEN "shown" ELSE rows[d]]
    /\ UNCHANGED <<list, view, visible>>

\* Variant: the wrong side of the filter is kept.
handleExitedKeeps(d) == rows

handleExited(d) == [rows EXCEPT ![d] = "none"]

FadeEnds(d) ==
    /\ visible /\ rows[d] = "fading"
    /\ Render(handleExited(d), match)
    /\ UNCHANGED <<list, visible>>

\* A row without a transition of its own still hears those of its buttons.
Hover(d) ==
    /\ visible /\ d \in Rendered /\ rows[d] = "stuck"
    /\ Render(handleExited(d), match)
    /\ UNCHANGED <<list, visible>>

----------------------------------------------------------------------------
(* The signer                                                              *)
EmptyNotice == ~loading /\ ~error /\ docs = {} /\ ~\E d \in Docs : Leaving(d)
TableShown == ~loading /\ ~error /\ ~EmptyNotice

Search(m) ==
    /\ visible /\ TableShown /\ m # match
    /\ Render(rows, m)
    /\ UNCHANGED <<list, visible>>

ToggleSort ==
    /\ visible /\ ~error /\ ~EmptyNotice
    /\ Turn(~ascending, page, rowsPerPage)
    /\ UNCHANGED <<list, visible>>

\* TablePagination offers the pages there are.
ChangePage(p) ==
    /\ visible /\ TableShown /\ p # page
    /\ p * rowsPerPage < Cardinality(filtered(rows, match))
    /\ Turn(ascending, p, rowsPerPage)
    /\ UNCHANGED <<list, visible>>

handleChangeRowsPerPage(size) ==
    /\ visible /\ TableShown /\ size # rowsPerPage /\ filtered(rows, match) # {}
    /\ Turn(ascending, 0, size)
    /\ UNCHANGED <<list, visible>>

SwitchTab == visible' = ~visible /\ UNCHANGED <<list, rows, view>>

Next ==
    \/ \E D \in SUBSET Docs : SetDocs(D) \/ Load(D)
    \/ LoadFails \/ Frame \/ ToggleSort \/ SwitchTab
    \/ \E d \in Docs : FadeEnds(d) \/ Hover(d)
    \/ \E m \in Searches : Search(m)
    \/ \E p \in 0..Cardinality(Docs) : ChangePage(p)
    \/ \E size \in Sizes : handleChangeRowsPerPage(size)

Spec == Init /\ [][Next]_vars

\* The load is answered or times out; a visible tab draws frames, and a
\* transition that runs in it ends.
Fairness ==
    /\ WF_vars(LoadFails \/ \E D \in SUBSET Docs : Load(D))
    /\ WF_vars(Frame) /\ \A d \in Docs : WF_vars(FadeEnds(d))

----------------------------------------------------------------------------
(* Properties.                                                             *)
\* The rows that can be signed or denied are the documents of the list: those
\* that are gone are marked as leaving at once, and one that comes back while
\* its row is still fading is an ordinary row again.
RowsMirrorDocs == {d \in Docs : rows[d] \in {"new", "shown"}} = docs

\* The signer never looks at an empty page of a table that has rows: not when
\* rows fade away behind the page, nor when the search or the size changes.
PageNotEmpty == TableShown /\ filtered(rows, match) # {} => Rendered # {}

\* Paging loses no row and shows none twice: every row that matches is on
\* exactly one page, and TablePagination offers that page.
EachOnOnePage ==
    \A d \in filtered(rows, match) : \E p \in 0..Cardinality(Docs) :
        /\ p * rowsPerPage < Cardinality(filtered(rows, match))
        /\ \A q \in 0..Cardinality(Docs) :
              d \in pageItems(rows, match, ascending, q, rowsPerPage) <=> q = p

\* When every document has been handled, the table makes room for the notice,
\* as soon as the tab is looked at; unless the first load failed, or a row
\* left unseen (on another page, filtered out, in a hidden tab, behind the
\* skeleton): no transition ends for it, and it stays as an invisible row.
QueueEmpties ==
    <>[](docs = {} /\ visible) =>
        <>[](EmptyNotice \/ error \/ \E d \in Docs : rows[d] = "stuck")
============================================================================
