------------------------------ MODULE Lookups ------------------------------
(***************************************************************************)
(* What the frontends fetch on demand and show when it arrives, without    *)
(* cancelling anything: a document's history (DocumentHistory.jsx), a      *)
(* user's documents and activity (ReviewUser.jsx), the audit trail under a *)
(* filter (AuditTrail.jsx), the table of all documents (AllDocuments.jsx), *)
(* and the preview of a file, a blob URL the page must release, from any   *)
(* list of documents (MyDocuments.jsx and SignerDashboard.jsx too).        *)
(*                                                                         *)
(* The model is one visit to one of them.  Content is the name of what it  *)
(* is about; each subject has the files of Files.                          *)
(***************************************************************************)
EXTENDS Naturals, FiniteSets

CONSTANTS Subjects,      \* documents, users, filters
          All,           \* the table's one subject, and the audit trail unfiltered
          Nothing,
          Files,         \* the documents of a list
          MaxAsks, MaxPreviews    \* bounds

Dialogs == {"history", "review"}
Views == Dialogs \cup {"audit", "table"}

VARIABLES view, mounted,
          subject,      \* whose content is asked for; Nothing: the dialog is closed
          shown,        \* docs and events: the subject of the content they hold
          loading, error,
          asks,         \* requests made so far
          calls,        \* those in flight
          superseded,   \* one before the latest has been answered since
          file,         \* previewFile and previewTitle
          previewingId,
          fetches,      \* file requests in flight
          fetched,      \* file requests made so far
          urls,         \* blob URLs not released, by the request that made them
          overlapped,   \* two file requests were in flight at once
          carried       \* the dialog was closed with one in flight

lookup == <<subject, shown, loading, error, asks, calls, superseded>>
preview == <<file, previewingId, fetches, fetched, urls, overlapped, carried>>
vars == <<view, mounted, subject, shown, loading, error, asks, calls, superseded,
          file, previewingId, fetches, fetched, urls, overlapped, carried>>

Targets == Subjects \cup {All, Nothing}
Calls == [id : 1..MaxAsks, about : Subjects \cup {All}]
Fetches == [id : 1..MaxPreviews, of : Files, about : Subjects \cup {All}]

TypeOK ==
    /\ view \in Views /\ mounted \in BOOLEAN
    /\ subject \in Targets /\ shown \in Targets
    /\ loading \in BOOLEAN /\ error \in BOOLEAN /\ superseded \in BOOLEAN
    /\ asks \in 0..MaxAsks /\ calls \subseteq Calls
    /\ file \in Fetches \cup {Nothing} /\ previewingId \in Files \cup {Nothing}
    /\ fetched \in 0..MaxPreviews /\ fetches \subseteq Fetches /\ urls \subseteq 1..MaxPreviews
    /\ overlapped \in BOOLEAN /\ carried \in BOOLEAN

\* A dialog is mounted closed; a page loads when it is mounted.
Init ==
    /\ view \in Views /\ mounted = TRUE
    /\ shown = Nothing /\ error = FALSE /\ superseded = FALSE
    /\ IF view \in Dialogs
       THEN subject = Nothing /\ loading = FALSE /\ asks = 0 /\ calls = {}
       ELSE subject = All /\ loading = TRUE /\ asks = 1 /\ calls = {[id |-> 1, about |-> All]}
    /\ file = Nothing /\ previewingId = Nothing
    /\ fetches = {} /\ fetched = 0 /\ urls = {} /\ overlapped = FALSE /\ carried = FALSE

PreviewOpen == file # Nothing /\ subject # Nothing

----------------------------------------------------------------------------
(* Asking                                                                  *)
\* Variant: the old content stays until the new one arrives.
loadQuietly(s) ==
    /\ subject' = s /\ error' = FALSE /\ superseded' = FALSE
    /\ asks' = asks + 1 /\ calls' = calls \cup {[id |-> asks + 1, about |-> s]}
    /\ UNCHANGED <<shown, loading>>

load(s) ==
    /\ subject' = s /\ loading' = TRUE /\ error' = FALSE /\ superseded' = FALSE
    /\ asks' = asks + 1 /\ calls' = calls \cup {[id |-> asks + 1, about |-> s]}
    /\ UNCHANGED shown

\* A dialog is opened on a subject: the page behind it is out of reach then.
Open(s) ==
    /\ mounted /\ view \in Dialogs /\ subject = Nothing /\ asks < MaxAsks
    /\ load(s)
    /\ UNCHANGED <<view, mounted, preview>>

\* Closing keeps everything but the subject.
Close ==
    /\ mounted /\ view \in Dialogs /\ subject # Nothing /\ ~PreviewOpen
    /\ subject' = Nothing
    /\ carried' = (carried \/ fetches # {})
    /\ UNCHANGED <<view, mounted, shown, loading, error, asks, calls, superseded,
                   file, previewingId, fetches, fetched, urls, overlapped>>

\* The form of the audit trail is there while it loads, too.
handleFilter(s) ==
    /\ mounted /\ view = "audit" /\ asks < MaxAsks
    /\ load(s)
    /\ UNCHANGED <<view, mounted, preview>>

clearFilter ==
    /\ mounted /\ view = "audit" /\ subject # All /\ asks < MaxAsks
    /\ load(All)
    /\ UNCHANGED <<view, mounted, preview>>

Late(c) == c.id # asks \/ subject = Nothing

Answered(c) ==
    /\ mounted /\ c \in calls
    /\ calls' = calls \ {c}
    /\ shown' = c.about /\ loading' = FALSE
    /\ superseded' = (superseded \/ Late(c))
    /\ UNCHANGED <<view, mounted, subject, error, asks, preview>>

\* Variant: the spinner goes on.
CallFailsSpinning(c) ==
    /\ mounted /\ c \in calls
    /\ calls' = calls \ {c}
    /\ error' = TRUE
    /\ superseded' = (superseded \/ Late(c))
    /\ UNCHANGED <<view, mounted, subject, shown, loading, asks, preview>>

CallFails(c) ==
    /\ mounted /\ c \in calls
    /\ calls' = calls \ {c}
    /\ error' = TRUE /\ loading' = FALSE
    /\ superseded' = (superseded \/ Late(c))
    /\ UNCHANGED <<view, mounted, subject, shown, asks, preview>>

----------------------------------------------------------------------------
(* Previewing a file of the list on screen                                 *)
ContentShown == mounted /\ subject # Nothing /\ ~loading /\ ~error /\ shown # Nothing

\* Only the row of the latest request has its button disabled.
handlePreview(f) ==
    /\ ContentShown /\ view \in {"review", "table"} /\ ~PreviewOpen
    /\ previewingId # f /\ fetched < MaxPreviews
    /\ previewingId' = f
    /\ fetched' = fetched + 1
    /\ fetches' = fetches \cup {[id |-> fetched + 1, of |-> f, about |-> shown]}
    /\ overlapped' = (overlapped \/ fetches # {})
    /\ UNCHANGED <<view, mounted, lookup, file, urls, carried>>

\* fetchDocumentFile makes the URL; what then shows it may be gone.
FileArrives(c) ==
    /\ c \in fetches
    /\ fetches' = fetches \ {c}
    /\ urls' = urls \cup {c.id}
    /\ file' = IF mounted THEN c ELSE file
    /\ previewingId' = Nothing
    /\ UNCHANGED <<view, mounted, lookup, fetched, overlapped, carried>>

FileFails(c) ==
    /\ c \in fetches
    /\ fetches' = fetches \ {c}
    /\ previewingId' = Nothing
    /\ UNCHANGED <<view, mounted, lookup, file, fetched, urls, overlapped, carried>>

\* Variant: the URL is left to the garbage collector, which does not take it.
closePreviewKeepsURL ==
    /\ mounted /\ PreviewOpen
    /\ file' = Nothing
    /\ UNCHANGED <<view, mounted, lookup, previewingId, fetches, fetched, urls, overlapped, carried>>

closePreview ==
    /\ mounted /\ PreviewOpen
    /\ urls' = urls \ {file.id} /\ file' = Nothing
    /\ UNCHANGED <<view, mounted, lookup, previewingId, fetches, fetched, overlapped, carried>>

\* The page goes, by a link or the back button.  Nothing is released.
Leave ==
    /\ mounted /\ mounted' = FALSE
    /\ file' = Nothing /\ calls' = {} /\ loading' = FALSE
    /\ UNCHANGED <<view, subject, shown, error, asks, superseded,
                   previewingId, fetches, fetched, urls, overlapped, carried>>

Next ==
    \/ \E s \in Subjects : Open(s) \/ handleFilter(s)
    \/ clearFilter \/ Close \/ closePreview \/ Leave
    \/ \E c \in calls : Answered(c) \/ CallFails(c)
    \/ \E f \in Files : handlePreview(f)
    \/ \E c \in fetches : FileArrives(c) \/ FileFails(c)

Spec == Init /\ [][Next]_vars

\* A request is answered or fails; nothing is assumed of the user.
Fairness == \A n \in 1..MaxAsks :
    WF_vars(\E c \in calls : c.id = n /\ (Answered(c) \/ CallFails(c)))

----------------------------------------------------------------------------
(* Properties.                                                             *)
\* What is on screen under a name is about it, or is its own error: a request
\* that was superseded can put the content of another one there only by being
\* answered after the one that replaced it was made.
ShownIsAsked ==
    ContentShown /\ ~superseded => shown = subject

\* Every spinner ends, whatever fails and in whatever order the answers come.
LoadingEnds == loading ~> ~loading

\* A reviewed user's dialog previews files of that user's documents, unless a
\* file was on its way when the dialog was closed for another user's: it opens
\* over the next one.
PreviewIsOurs ==
    mounted /\ PreviewOpen /\ ~superseded /\ ~carried => file.about = subject

\* A page that stays open keeps no blob URL but the one it shows, unless two
\* files were fetched at once: the second replaces the first, whose URL nobody
\* holds any more.
UrlsReleased ==
    mounted /\ ~overlapped => urls \subseteq (IF file = Nothing THEN {} ELSE {file.id})
============================================================================
