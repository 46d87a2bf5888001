-------------------------- MODULE SignerDashboard --------------------------
(***************************************************************************)
(* The signer's page (SignerDashboard.jsx) against a server others use     *)
(* too: the list of pending documents with its background poll, the sign   *)
(* dialog, and the denial that waits in an undo window before it is sent.  *)
(* A request and its answer are two steps, so any answer may be stale when *)
(* it arrives.  The page is one visit: leaving it is final.                *)
(* The notifications a poll makes of new rows are left out: nothing here   *)
(* reads them, and UserDashboard models the same mechanism.                *)
(***************************************************************************)
EXTENDS UndoableAction, FiniteSets

CONSTANTS Docs,
          Denials,     \* denials confirmed on this page; a bound
          Polls        \* background refreshes that can be in flight; a bound

VARIABLES server,      \* MongoDB: absent, pending, or handled (approved or rejected)
          docs,        \* rows on the page
          mounted,
          selectedDoc, denyDoc,   \* the open dialog, if any
          hook,        \* useUndoableAction
          denials,     \* the confirmed denials and their requests
          signing,     \* the sign request
          polls        \* refreshes; "load" is the first one

page == <<docs, mounted, selectedDoc, denyDoc, hook>>
vars == <<server, docs, mounted, selectedDoc, denyDoc, hook, denials, signing, polls>>

Answers == {"ok", "failed", "unauthorized"}
Calls == {"idle", "sent"} \cup Answers
NoDenial == [doc |-> Nobody, undone |-> FALSE, sent |-> 0, call |-> "idle"]
Denial == [doc : Docs, undone : BOOLEAN, sent : 0..2, call : Calls]
Refreshes == Polls \cup {"load"}

TypeOK ==
    /\ server \in [Docs -> {"absent", "pending", "handled"}]
    /\ docs \subseteq Docs
    /\ mounted \in BOOLEAN
    /\ selectedDoc \in Docs \cup {Nobody} /\ denyDoc \in Docs \cup {Nobody}
    /\ hook \in [timers : 0..1, action : Denials \cup {Nobody},
                 pending : {"none", "waiting", "committing"}]
    /\ denials \in [Denials -> Denial \cup {NoDenial}]
    /\ signing \in [doc : Docs \cup {Nobody}, call : Calls]
    /\ polls \in [Refreshes -> [call : {"idle", "sent", "ok"}, seen : SUBSET Docs]]

NoRefresh == [call |-> "idle", seen |-> {}]
Init ==
    /\ server \in [Docs -> {"absent", "pending", "handled"}]
    /\ docs = {} /\ mounted = TRUE
    /\ selectedDoc = Nobody /\ denyDoc = Nobody
    /\ hook = InitHook
    /\ denials = [n \in Denials |-> NoDenial]
    /\ signing = [doc |-> Nobody, call |-> "idle"]
    /\ polls = [p \in Refreshes |-> IF p = "load" THEN [NoRefresh EXCEPT !.call = "sent"]
                                                  ELSE NoRefresh]

----------------------------------------------------------------------------
PendingOnServer == {d \in Docs : server[d] = "pending"}
NoDialog == selectedDoc = Nobody /\ denyDoc = Nobody

\* busyRef: the silent refresh pauses.
Busy == ~NoDialog \/ hook.pending # "none"

\* The list.
Tick(p) ==
    /\ mounted /\ p # "load" /\ ~Busy
    /\ polls[p].call = "idle"
    /\ polls' = [polls EXCEPT ![p].call = "sent"]
    /\ UNCHANGED <<server, page, denials, signing>>

pendingHandler(p) ==
    /\ polls[p].call = "sent"
    /\ polls' = [polls EXCEPT ![p] = [call |-> "ok", seen |-> PendingOnServer]]
    /\ UNCHANGED <<server, page, denials, signing>>

\* Variant: the refresh compares the lengths only.
changedLength(fresh) == Cardinality(fresh) # Cardinality(docs)

changed(fresh) == fresh # docs

\* The answer of the first load or of a refresh reaches the page.
Refreshed(p) ==
    /\ polls[p].call = "ok"
    /\ docs' = IF mounted /\ (p = "load" \/ changed(polls[p].seen)) THEN polls[p].seen ELSE docs
    /\ polls' = [polls EXCEPT ![p] = NoRefresh]
    /\ UNCHANGED <<server, mounted, selectedDoc, denyDoc, hook, denials, signing>>

\* The page unmounts and its state goes with it; the hook clears its timers.
Unmount ==
    /\ mounted' = FALSE
    /\ docs' = {} /\ selectedDoc' = Nobody /\ denyDoc' = Nobody
    /\ hook' = clearTimers(hook)

\* A missed refresh is silent and a failed load leaves the page without rows,
\* but axiosClient answers a 401 by ending the session and leaving for /login.
RefreshFails(p) ==
    /\ polls[p].call # "idle"
    /\ UNCHANGED page \/ Unmount
    /\ polls' = [polls EXCEPT ![p] = NoRefresh]
    /\ UNCHANGED <<server, denials, signing>>

----------------------------------------------------------------------------
(* Signing                                                                 *)
SelectSign(d) ==
    /\ mounted /\ NoDialog /\ d \in docs
    /\ selectedDoc' = d
    /\ UNCHANGED <<server, docs, mounted, denyDoc, hook, denials, signing, polls>>

handleConfirmSign ==
    /\ mounted /\ selectedDoc # Nobody /\ signing.call = "idle"
    /\ signing' = [doc |-> selectedDoc, call |-> "sent"]
    /\ UNCHANGED <<server, page, denials, polls>>

\* The server's side of a sign or reject request: the PIN may be wrong, the
\* document may be handled, the call may fail, and an answer may be lost after
\* the document was changed.
Serve(d, answer) ==
    \/ answer \in {"unauthorized", "failed"} /\ UNCHANGED server
    \/ /\ answer \in {"ok", "failed"}
       /\ server[d] = "pending"
       /\ server' = [server EXCEPT ![d] = "handled"]

ServeSign ==
    /\ signing.call = "sent"
    /\ \E answer \in Answers : /\ Serve(signing.doc, answer)
                               /\ signing' = [signing EXCEPT !.call = answer]
    /\ UNCHANGED <<page, denials, polls>>

SignAnswered ==
    /\ signing.call \in Answers
    /\ CASE ~mounted \/ signing.call = "failed" -> UNCHANGED page
         [] mounted /\ signing.call = "unauthorized" -> Unmount
         [] mounted /\ signing.call = "ok" -> /\ docs' = docs \ {signing.doc}
                                             /\ selectedDoc' = Nobody
                                             /\ UNCHANGED <<mounted, denyDoc, hook>>
    /\ signing' = [doc |-> Nobody, call |-> "idle"]
    /\ UNCHANGED <<server, denials, polls>>

----------------------------------------------------------------------------
(* Denying                                                                 *)
SelectDeny(d) ==
    /\ mounted /\ NoDialog /\ d \in docs
    /\ denyDoc' = d
    /\ UNCHANGED <<server, docs, mounted, selectedDoc, hook, denials, signing, polls>>

CloseDialog ==
    /\ mounted /\ ~NoDialog /\ signing.call = "idle"
    /\ selectedDoc' = Nobody /\ denyDoc' = Nobody
    /\ UNCHANGED <<server, docs, mounted, hook, denials, signing, polls>>

\* The row goes at once; the request waits for the window to close.
handleConfirmDeny(n) ==
    /\ mounted /\ denyDoc # Nobody
    /\ denials[n] = NoDenial
    /\ n = CHOOSE m \in Denials : denials[m] = NoDenial   \* the next unused
    /\ docs' = docs \ {denyDoc}
    /\ denyDoc' = Nobody
    /\ denials' = [denials EXCEPT ![n] = [NoDenial EXCEPT !.doc = denyDoc]]
    /\ hook' = trigger(hook, n)
    /\ UNCHANGED <<server, mounted, selectedDoc, signing, polls>>

restoreDoc(n) == docs' = docs \cup {denials[n].doc}

\* onUndo
UndoClicked ==
    /\ mounted /\ CanUndo(hook)
    /\ denials' = [denials EXCEPT ![hook.action].undone = TRUE]
    /\ restoreDoc(hook.action)
    /\ hook' = undo(hook)
    /\ UNCHANGED <<server, mounted, selectedDoc, denyDoc, signing, polls>>

\* onCommit
TimeIsUp ==
    /\ mounted /\ Expired(hook)
    /\ hook' = startCommit(hook)
    /\ denials' = [denials EXCEPT ![hook.action].call = "sent", ![hook.action].sent = @ + 1]
    /\ UNCHANGED <<server, docs, mounted, selectedDoc, denyDoc, signing, polls>>

ServeReject(n) ==
    /\ denials[n].call = "sent"
    /\ \E answer \in Answers : /\ Serve(denials[n].doc, answer)
                               /\ denials' = [denials EXCEPT ![n].call = answer]
    /\ UNCHANGED <<page, signing, polls>>

RejectAnswered(n) ==
    /\ denials[n].call \in Answers
    /\ CASE ~mounted -> UNCHANGED page
         [] mounted /\ denials[n].call = "unauthorized" -> Unmount
         [] mounted /\ denials[n].call \in {"ok", "failed"} ->
              /\ IF denials[n].call = "ok" THEN UNCHANGED docs ELSE restoreDoc(n)
              /\ hook' = endCommit(hook)
              /\ UNCHANGED <<mounted, selectedDoc, denyDoc>>
    /\ denials' = [denials EXCEPT ![n].call = "idle"]
    /\ UNCHANGED <<server, signing, polls>>

----------------------------------------------------------------------------
\* The signer goes to another page: the hook's timers are cleared.
Leave ==
    /\ mounted /\ NoDialog
    /\ Unmount
    /\ UNCHANGED <<server, denials, signing, polls>>

\* Other people: a customer uploads, another signer decides.
Others(d) ==
    /\ \/ server[d] = "absent" /\ server' = [server EXCEPT ![d] = "pending"]
       \/ server[d] = "pending" /\ server' = [server EXCEPT ![d] = "handled"]
    /\ UNCHANGED <<page, denials, signing, polls>>

Next ==
    \/ \E p \in Refreshes : Tick(p) \/ pendingHandler(p) \/ Refreshed(p) \/ RefreshFails(p)
    \/ \E d \in Docs : SelectSign(d) \/ SelectDeny(d) \/ Others(d)
    \/ handleConfirmSign \/ ServeSign \/ SignAnswered
    \/ \E n \in Denials : handleConfirmDeny(n) \/ ServeReject(n) \/ RejectAnswered(n)
    \/ CloseDialog \/ UndoClicked \/ TimeIsUp \/ Leave

Spec == Init /\ [][Next]_vars

\* Timers run out, requests are served and answered; refreshes do not fail
\* for ever.  Nothing is assumed of the signer or of other people.
FairSpec ==
    /\ Spec
    /\ WF_vars(TimeIsUp) /\ WF_vars(ServeSign) /\ WF_vars(SignAnswered)
    /\ \A n \in Denials : WF_vars(ServeReject(n)) /\ WF_vars(RejectAnswered(n))
    /\ \A p \in Refreshes : WF_vars(Tick(p)) /\ SF_vars(pendingHandler(p)) /\ SF_vars(Refreshed(p))

----------------------------------------------------------------------------
(* Properties.                                                             *)

UndoneNeverSent == \A n \in Denials : denials[n].undone => denials[n].sent = 0
CommitOnce == \A n \in Denials : denials[n].sent <= 1
HeldIsTimed ==
    mounted /\ hook.action # Nobody =>
        denials[hook.action].undone \/ denials[hook.action].sent > 0 \/ Expired(hook)

\* One confirmation sends at most one request, and one that was undone sends
\* none, whatever windows open and close around it.  The denial the hook holds
\* is never lost while the page is open: it was undone, it was sent, or its
\* timer runs, also when an earlier denial is answered, or fails, in the middle
\* of its window.
SentAsConfirmed == TypeOK /\ UndoneNeverSent /\ CommitOnce /\ HeldIsTimed

\* Whatever stale answers did to the list, once the page is left alone it
\* shows exactly the documents that are pending.
QueueConverges ==
    <>[](mounted /\ ~Busy) => <>[](\A d \in Docs : d \in docs <=> server[d] = "pending")

\* What the hook's header says: a denial that is not undone is sent when the
\* countdown ends.  While the page is open, its timer must be running.
ConfirmedIsCommitted ==
    mounted => \A n \in Denials :
        denials[n] # NoDenial /\ ~denials[n].undone /\ denials[n].sent = 0 =>
            Expired(hook) /\ hook.action = n
============================================================================
