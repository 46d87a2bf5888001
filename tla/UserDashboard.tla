--------------------------- MODULE UserDashboard ---------------------------
(***************************************************************************)
(* The customer's page (UserDashboard.jsx): the list of their documents,   *)
(* its silent poll, the upload form, and the notifications the poll makes  *)
(* when it sees a decision (NotificationsContext.jsx).  A request and its  *)
(* answer are two steps, and two polls may be in flight: they start every  *)
(* 8 s and time out after 15 s.                                            *)
(*                                                                         *)
(* A row is a document's id and status.  The page is one visit; its polls  *)
(* may still be answered when it is gone.  The skeleton and the error text *)
(* that stand for the list during and after a load, and the identifier     *)
(* and time of a notification, are left out.                               *)
(***************************************************************************)
EXTENDS Naturals, Sequences, SequencesExt

CONSTANTS Docs,
          Stored,             \* documents on the server when the page opens, newest first
          Polls,              \* polls that can be in flight
          Loads,              \* visible loads: the first, and one per upload; a bound
          Decisions,          \* "signed" and "rejected", which the page treats alike
          MAX_NOTIFICATIONS

Rows == [id : Docs, status : {"pending"} \cup Decisions]
Notifications == [doc : Docs, status : {"pending"} \cup Decisions, read : BOOLEAN]
NoUpload == [call |-> "idle"]
NoRefresh == [call |-> "idle", data |-> << >>]

ASSUME UserAssumption ==
    /\ Stored \in Seq(Rows) /\ Loads # {}
    /\ IsInjective([i \in DOMAIN Stored |-> Stored[i].id])
    /\ Decisions \subseteq {"signed", "rejected"} /\ MAX_NOTIFICATIONS \in Nat \ {0}

VARIABLES server,         \* MongoDB: the customer's documents, newest first
          docs,           \* the list on the page
          mounted,
          upload,         \* the upload form's request
          refreshes,      \* requests for the list, by a poll or a load
          notifications   \* newest first

page == <<docs, mounted>>
vars == <<server, docs, mounted, upload, refreshes, notifications>>

Refreshes == Polls \cup Loads
Ids(rows) == {rows[i].id : i \in DOMAIN rows}
Idle(x) == refreshes[x].call = "idle"

TypeOK ==
    /\ server \in Seq(Rows) /\ IsInjective([i \in DOMAIN server |-> server[i].id])
    /\ docs \in Seq(Rows)
    /\ mounted \in BOOLEAN
    /\ upload.call \in {"idle", "sent", "ok", "failed", "unauthorized"}
    /\ \A x \in Refreshes : refreshes[x].call \in {"idle", "sent", "ok"}
    /\ \A x \in Refreshes : refreshes[x].data \in Seq(Rows)
    /\ notifications \in Seq(Notifications)
    /\ Len(notifications) <= MAX_NOTIFICATIONS

\* loadDocs
StartLoad(x) == refreshes' = [refreshes EXCEPT ![x].call = "sent"]

FirstLoad == CHOOSE l \in Loads : TRUE

Init ==
    /\ server = Stored
    /\ docs = << >> /\ mounted = TRUE
    /\ upload = NoUpload
    /\ notifications = << >>
    /\ refreshes = [x \in Refreshes |-> IF x = FirstLoad THEN [NoRefresh EXCEPT !.call = "sent"]
                                                         ELSE NoRefresh]

----------------------------------------------------------------------------
(* Notifications                                                           *)
Announcement(row) == [doc |-> row.id, status |-> row.status, read |-> FALSE]

\* Variant: the cut drops the new one.
addNotificationOldest(list, row) ==
    SubSeq(Append(list, Announcement(row)), 1, Min({MAX_NOTIFICATIONS, Len(list) + 1}))

addNotification(list, row) ==
    SubSeq(<<Announcement(row)>> \o list, 1, Min({MAX_NOTIFICATIONS, Len(list) + 1}))

markAllRead(list) == [i \in DOMAIN list |-> [list[i] EXCEPT !.read = TRUE]]

\* The status under which prev knows a document; of two rows the last counts.
prevById(prev, d) ==
    IF d \in Ids(prev) THEN prev[SelectLastInSeq(prev, LAMBDA row : row.id = d)].status ELSE "none"

\* Variant: any change of status is announced.
isNewsAny(prev, row) ==
    /\ prevById(prev, row.id) # "none"
    /\ prevById(prev, row.id) # row.status

isNews(prev, row) ==
    /\ prevById(prev, row.id) # "none"
    /\ prevById(prev, row.id) # row.status
    /\ row.status \in Decisions

\* The notifications after each of the fresh rows was looked at in turn.
told(list, prev, fresh) ==
    LET t[i \in 0..Len(fresh)] ==
          IF i = 0 THEN list
          ELSE IF isNews(prev, fresh[i]) THEN addNotification(t[i - 1], fresh[i])
          ELSE t[i - 1]
    IN t

tell(list, prev, fresh) == told(list, prev, fresh)[Len(fresh)]

\* The bell is opened.
handleOpen ==
    /\ \E i \in DOMAIN notifications : ~notifications[i].read
    /\ notifications' = markAllRead(notifications)
    /\ UNCHANGED <<server, page, upload, refreshes>>

----------------------------------------------------------------------------
(* The list                                                                *)
Tick(p) ==
    /\ mounted /\ p \in Polls /\ Idle(p)
    /\ refreshes' = [refreshes EXCEPT ![p].call = "sent"]
    /\ UNCHANGED <<server, page, upload, notifications>>

listMyDocuments(x) ==
    /\ refreshes[x].call = "sent"
    /\ refreshes' = [refreshes EXCEPT ![x] = [call |-> "ok", data |-> server]]
    /\ UNCHANGED <<server, page, upload, notifications>>

\* Variant: only rows that come or go are a change.
changedIds(fresh, prev) ==
    Len(fresh) # Len(prev) \/ \E i \in DOMAIN fresh : fresh[i].id # prev[i].id

changed(fresh, prev) ==
    Len(fresh) # Len(prev) \/ \E i \in DOMAIN fresh : fresh[i] # prev[i]

\* A poll's answer.  It compares with the list of the page it was sent from,
\* whether that is still shown or not.
Polled(p) ==
    /\ p \in Polls /\ refreshes[p].call = "ok"
    /\ LET fresh == refreshes[p].data IN
         IF changed(fresh, docs)
         THEN /\ notifications' = tell(notifications, docs, fresh)
              /\ docs' = IF mounted THEN fresh ELSE docs
         ELSE UNCHANGED <<docs, notifications>>
    /\ refreshes' = [refreshes EXCEPT ![p] = NoRefresh]
    /\ UNCHANGED <<server, mounted, upload>>

Loaded(l) ==
    /\ l \in Loads /\ refreshes[l].call = "ok"
    /\ docs' = refreshes[l].data
    /\ refreshes' = [refreshes EXCEPT ![l] = NoRefresh]
    /\ UNCHANGED <<server, mounted, upload, notifications>>

\* A missed poll is silent, a failed load leaves the list to the next poll.
\* Reading changes nothing, so an answer that is lost is a request that failed.
RefreshFails(x) ==
    /\ refreshes[x].call = "sent"
    /\ refreshes' = [refreshes EXCEPT ![x] = NoRefresh]
    /\ UNCHANGED <<server, page, upload, notifications>>

\* A 401, to a refresh or to an upload with a wrong PIN: axiosClient loads
\* /login, and whatever the browser tab held is gone.
EndSession ==
    /\ mounted' = FALSE /\ docs' = << >> /\ notifications' = << >>
    /\ refreshes' = [x \in Refreshes |-> NoRefresh]
    /\ upload' = NoUpload

Unauthorized(x) ==
    /\ refreshes[x].call = "sent"
    /\ EndSession
    /\ UNCHANGED server

----------------------------------------------------------------------------
(* Uploading                                                               *)
handleSubmit ==
    /\ mounted /\ upload = NoUpload
    /\ upload' = [call |-> "sent"]
    /\ UNCHANGED <<server, page, refreshes, notifications>>

Create(d) == /\ d \notin Ids(server)
             /\ server' = <<[id |-> d, status |-> "pending"]>> \o server

\* The server's side of an upload: it may refuse, and its answer may be lost
\* after the document was created.
uploadDocument ==
    /\ upload.call = "sent"
    /\ \/ \E d \in Docs : /\ Create(d)
                          /\ \/ upload' = [call |-> "ok", created |-> d]
                             \/ upload' = [call |-> "failed"]
       \/ \E answer \in {"failed", "unauthorized"} :
             upload' = [call |-> answer] /\ UNCHANGED server
    /\ UNCHANGED <<page, refreshes, notifications>>

\* handleUploaded
Uploaded ==
    /\ upload.call = "ok"
    /\ upload' = NoUpload
    /\ IF mounted
       THEN /\ docs' = <<[id |-> upload.created, status |-> "pending"]>> \o docs
            /\ \E l \in Loads : Idle(l)
            /\ StartLoad(CHOOSE l \in Loads : Idle(l))
       ELSE UNCHANGED <<docs, refreshes>>
    /\ UNCHANGED <<server, mounted, notifications>>

UploadFailed ==
    \/ /\ upload.call = "failed"
       /\ upload' = NoUpload
       /\ UNCHANGED <<server, page, refreshes, notifications>>
    \/ /\ upload.call = "unauthorized"
       /\ EndSession
       /\ UNCHANGED server

----------------------------------------------------------------------------
\* The customer goes to another page: the interval is cleared, nothing else.
\* The answer of a load reaches nothing then.
Leave ==
    /\ mounted
    /\ mounted' = FALSE
    /\ refreshes' = [x \in Refreshes |-> IF x \in Loads THEN NoRefresh ELSE refreshes[x]]
    /\ UNCHANGED <<server, docs, upload, notifications>>

\* A signer decides; the customer uploads from another device.
Others ==
    /\ \/ \E i \in DOMAIN server, decision \in Decisions :
            server[i].status = "pending" /\ server' = [server EXCEPT ![i].status = decision]
       \/ \E d \in Docs : Create(d)
    /\ UNCHANGED <<page, upload, refreshes, notifications>>

Answer(x) == listMyDocuments(x) \/ Polled(x) \/ Loaded(x)

Next ==
    \/ \E x \in Refreshes : Tick(x) \/ Answer(x) \/ RefreshFails(x) \/ Unauthorized(x)
    \/ handleSubmit \/ uploadDocument \/ Uploaded \/ UploadFailed
    \/ handleOpen \/ Leave \/ Others

Spec == Init /\ [][Next]_vars

\* The interval ticks and the server answers; not every poll fails.
\* Nothing is assumed of the customer, the signers, loads and uploads.
FairSpec ==
    /\ Spec
    /\ WF_vars(\E p \in Polls : Tick(p))
    /\ SF_vars(\E p \in Polls : listMyDocuments(p)) /\ WF_vars(\E p \in Polls : Polled(p))

----------------------------------------------------------------------------
(* Properties.                                                             *)
StatusOnServer(d) == prevById(server, d)

\* A notification states what happened: whatever order answers arrive in, none
\* announces a decision the server did not make.
NotificationsTrue ==
    /\ TypeOK
    /\ \A i \in DOMAIN notifications : notifications[i].status = StatusOnServer(notifications[i].doc)

\* A decision about a document the page shows as pending is announced by a
\* poll, and the bell counts it as unread.  What it takes to miss one: a
\* visible load that gets in between and updates the list silently, or a
\* stale answer without the document's row.
Announced ==
    \A d \in Docs :
        prevById(docs, d) = "pending" /\ StatusOnServer(d) \in Decisions ~>
            \/ \E i \in DOMAIN notifications : notifications[i].doc = d /\ ~notifications[i].read
            \/ ~mounted \/ d \notin Ids(docs) \/ \E l \in Loads : ~Idle(l)

\* Whatever stale answers, failed loads and optimistic rows did to it, the
\* list of a page that stays open becomes the server's.
ListConverges ==
    <>[](mounted /\ upload = NoUpload /\ \A l \in Loads : Idle(l)) => <>[](docs = server)
============================================================================
