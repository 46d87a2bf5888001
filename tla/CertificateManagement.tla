----------------------- MODULE CertificateManagement -----------------------
(***************************************************************************)
(* The regulator's certificate page (CertificateManagement.jsx): a list    *)
(* that is loaded once, a revocation that waits in an undo window with its *)
(* row on "Revoking...", and a reactivation that is sent at once.  Other   *)
(* regulators change certificates too, and answers may be lost.  The page  *)
(* is one visit.  Rows of regulators have no buttons and are left out.     *)
(***************************************************************************)
EXTENDS UndoableAction

CONSTANTS Users,
          Revocations    \* revocations confirmed on this page; a bound

ASSUME PageAssumption == Nobody \notin Users /\ Nobody \notin Revocations

VARIABLES server,        \* MongoDB: certificateStatus
          users,         \* the rows' certificateStatus
          mounted,
          pendingUser, reactivatingUser,   \* the open dialog, if any
          hook,          \* useUndoableAction
          load,          \* the request for the list
          revocations,   \* the confirmed revocations and their requests
          reactivation,  \* the reactivation request; busyUserId while it is out
          touched        \* users somebody else changed, or an answer was lost about

page == <<users, mounted, pendingUser, reactivatingUser, hook>>
requests == <<load, revocations, reactivation>>
vars == <<server, users, mounted, pendingUser, reactivatingUser, hook,
          load, revocations, reactivation, touched>>

Answers == {"ok", "failed", "unauthorized"}
Calls == {"idle", "sent"} \cup Answers
CertStatus == {"active", "revoked"}
NoCall == [user |-> Nobody, call |-> "idle"]
NoRevocation == [user |-> Nobody, undone |-> FALSE, sent |-> FALSE, call |-> "idle"]
Revocation == [user : Users, undone : BOOLEAN, sent : BOOLEAN, call : Calls]

TypeOK ==
    /\ server \in [Users -> CertStatus]
    /\ users \in [Users -> CertStatus \cup {"none", "revoking"}]
    /\ mounted \in BOOLEAN
    /\ pendingUser \in Users \cup {Nobody} /\ reactivatingUser \in Users \cup {Nobody}
    /\ hook \in [timers : 0..1, action : Revocations \cup {Nobody},
                 pending : {"none", "waiting", "committing"}]
    /\ load \in [call : {"idle", "sent", "ok"}, seen : [Users -> CertStatus \cup {"none"}]]
    /\ revocations \in [Revocations -> Revocation \cup {NoRevocation}]
    /\ reactivation = NoCall \/ reactivation \in [user : Users, call : Calls \ {"idle"}]
    /\ touched \subseteq Users

NoRows == [u \in Users |-> "none"]

Init ==
    /\ server \in [Users -> CertStatus]
    /\ users = NoRows /\ mounted = TRUE
    /\ pendingUser = Nobody /\ reactivatingUser = Nobody
    /\ hook = InitHook
    /\ load = [call |-> "sent", seen |-> NoRows]
    /\ revocations = [n \in Revocations |-> NoRevocation]
    /\ reactivation = NoCall
    /\ touched = {}

----------------------------------------------------------------------------
NoDialog == pendingUser = Nobody /\ reactivatingUser = Nobody

setUserStatus(u, status) == users' = [users EXCEPT ![u] = status]

\* Leaving, or a 401 that axiosClient answers with /login: the page's state
\* goes and the hook clears its timers.  Requests that are out stay out.
Unmount ==
    /\ mounted' = FALSE
    /\ users' = NoRows /\ pendingUser' = Nobody /\ reactivatingUser' = Nobody
    /\ hook' = clearTimers(hook)

Leave ==
    /\ mounted /\ NoDialog
    /\ Unmount
    /\ UNCHANGED <<server, requests, touched>>

listUsers ==
    /\ load.call = "sent"
    /\ load' = [call |-> "ok", seen |-> server]
    /\ UNCHANGED <<server, page, revocations, reactivation, touched>>

Loaded ==
    /\ load.call = "ok"
    /\ users' = IF mounted THEN load.seen ELSE users
    /\ load' = [call |-> "idle", seen |-> NoRows]
    /\ UNCHANGED <<server, mounted, pendingUser, reactivatingUser, hook,
                   revocations, reactivation, touched>>

\* The error takes the place of the table.
LoadFails ==
    /\ load.call = "sent"
    /\ load' = [call |-> "idle", seen |-> NoRows]
    /\ UNCHANGED page \/ Unmount
    /\ UNCHANGED <<server, revocations, reactivation, touched>>

----------------------------------------------------------------------------
(* The server's side of a revocation or a reactivation.                    *)
Serve(u, from, to, answer) ==
    \/ answer \in {"unauthorized", "failed"} /\ UNCHANGED <<server, touched>>
    \/ /\ answer \in {"ok", "failed"}
       /\ server[u] = from
       /\ server' = [server EXCEPT ![u] = to]
       /\ touched' = IF answer = "failed" THEN touched \cup {u} ELSE touched

----------------------------------------------------------------------------
(* Revoking                                                                *)
SelectRevoke(u) ==
    /\ mounted /\ NoDialog /\ users[u] = "active"
    /\ pendingUser' = u
    /\ UNCHANGED <<server, users, mounted, reactivatingUser, hook, requests, touched>>

CancelRevoke ==
    /\ pendingUser # Nobody
    /\ pendingUser' = Nobody
    /\ UNCHANGED <<server, users, mounted, reactivatingUser, hook, requests, touched>>

handleConfirmRevoke(n) ==
    /\ pendingUser # Nobody
    /\ revocations[n] = NoRevocation
    /\ n = CHOOSE m \in Revocations : revocations[m] = NoRevocation   \* the next unused
    /\ pendingUser' = Nobody
    /\ setUserStatus(pendingUser, "revoking")
    /\ revocations' = [revocations EXCEPT ![n] = [NoRevocation EXCEPT !.user = pendingUser]]
    /\ hook' = trigger(hook, n)
    /\ UNCHANGED <<server, mounted, reactivatingUser, load, reactivation, touched>>

\* onUndo
UndoClicked ==
    /\ mounted /\ CanUndo(hook)
    /\ revocations' = [revocations EXCEPT ![hook.action].undone = TRUE]
    /\ setUserStatus(revocations[hook.action].user, "active")
    /\ hook' = undo(hook)
    /\ UNCHANGED <<server, mounted, pendingUser, reactivatingUser, load, reactivation, touched>>

\* onCommit
TimeIsUp ==
    /\ mounted /\ Expired(hook)
    /\ hook' = startCommit(hook)
    /\ revocations' = [revocations EXCEPT ![hook.action].call = "sent", ![hook.action].sent = TRUE]
    /\ UNCHANGED <<server, users, mounted, pendingUser, reactivatingUser,
                   load, reactivation, touched>>

revokeCertificate(n) ==
    /\ revocations[n].call = "sent"
    /\ \E answer \in Answers :
         /\ Serve(revocations[n].user, "active", "revoked", answer)
         /\ revocations' = [revocations EXCEPT ![n].call = answer]
    /\ UNCHANGED <<page, load, reactivation>>

\* Variant: a failed revocation leaves the row as it is.
RowAfterRevokeKept(n) ==
    IF revocations[n].call = "ok" THEN setUserStatus(revocations[n].user, "revoked")
                                  ELSE UNCHANGED users

\* Variant: the row is revoked whatever the server answers.
RowAfterRevokeAlways(n) == setUserStatus(revocations[n].user, "revoked")

RowAfterRevoke(n) ==
    setUserStatus(revocations[n].user, IF revocations[n].call = "ok" THEN "revoked" ELSE "active")

RevokeAnswered(n) ==
    /\ revocations[n].call \in Answers
    /\ CASE ~mounted -> UNCHANGED page
         [] mounted /\ revocations[n].call = "unauthorized" -> Unmount
         [] mounted /\ revocations[n].call \in {"ok", "failed"} ->
              /\ RowAfterRevoke(n)
              /\ hook' = endCommit(hook)
              /\ UNCHANGED <<mounted, pendingUser, reactivatingUser>>
    /\ revocations' = [revocations EXCEPT ![n].call = "idle"]
    /\ UNCHANGED <<server, load, reactivation, touched>>

----------------------------------------------------------------------------
(* Reactivating                                                            *)
SelectReactivate(u) ==
    /\ mounted /\ NoDialog /\ users[u] = "revoked" /\ reactivation.user # u
    /\ reactivatingUser' = u
    /\ UNCHANGED <<server, users, mounted, pendingUser, hook, requests, touched>>

CancelReactivate ==
    /\ reactivatingUser # Nobody /\ reactivation = NoCall
    /\ reactivatingUser' = Nobody
    /\ UNCHANGED <<server, users, mounted, pendingUser, hook, requests, touched>>

handleConfirmReactivate ==
    /\ reactivatingUser # Nobody /\ reactivation = NoCall
    /\ reactivation' = [user |-> reactivatingUser, call |-> "sent"]
    /\ UNCHANGED <<server, page, load, revocations, touched>>

reactivateCertificate ==
    /\ reactivation.call = "sent"
    /\ \E answer \in Answers :
         /\ Serve(reactivation.user, "revoked", "active", answer)
         /\ reactivation' = [reactivation EXCEPT !.call = answer]
    /\ UNCHANGED <<page, load, revocations>>

\* A failure leaves the row and the dialog.
ReactivateAnswered ==
    /\ reactivation.call \in Answers
    /\ CASE ~mounted \/ reactivation.call = "failed" -> UNCHANGED page
         [] mounted /\ reactivation.call = "unauthorized" -> Unmount
         [] mounted /\ reactivation.call = "ok" ->
              /\ setUserStatus(reactivation.user, "active")
              /\ reactivatingUser' = Nobody
              /\ UNCHANGED <<mounted, pendingUser, hook>>
    /\ reactivation' = NoCall
    /\ UNCHANGED <<server, load, revocations, touched>>

----------------------------------------------------------------------------
\* Another regulator.
Others(u) ==
    /\ \E status \in CertStatus \ {server[u]} : server' = [server EXCEPT ![u] = status]
    /\ touched' = touched \cup {u}
    /\ UNCHANGED <<page, requests>>

Next ==
    \/ listUsers \/ Loaded \/ LoadFails \/ Leave
    \/ \E u \in Users : SelectRevoke(u) \/ SelectReactivate(u) \/ Others(u)
    \/ \E n \in Revocations : handleConfirmRevoke(n) \/ revokeCertificate(n) \/ RevokeAnswered(n)
    \/ CancelRevoke \/ UndoClicked \/ TimeIsUp
    \/ CancelReactivate \/ handleConfirmReactivate \/ reactivateCertificate \/ ReactivateAnswered

Spec == Init /\ [][Next]_vars

\* Timers run out, revocations are served and answered.
FairSpec ==
    /\ Spec
    /\ WF_vars(TimeIsUp)
    /\ \A n \in Revocations : WF_vars(revokeCertificate(n)) /\ WF_vars(RevokeAnswered(n))

----------------------------------------------------------------------------
(* Properties.                                                             *)
About(u) == {n \in Revocations : revocations[n].user = u}
Busy(u) == reactivation.user = u \/ \E n \in About(u) : revocations[n].call # "idle"

\* What the page shows, with "Revoking..." for a certificate still active.
Shown(u) == IF users[u] = "revoking" THEN "active" ELSE users[u]

\* As long as nobody else interferes and no answer is lost, the page never
\* shows a certificate it has finished with other than the server has it.
RowsAreRight ==
    \A u \in Users : users[u] # "none" /\ ~Busy(u) /\ u \notin touched => Shown(u) = server[u]

\* While a revocation is on its way the row says so, so that the regulator can
\* neither revoke the certificate again nor reactivate it; and what was undone
\* is never on its way.
RevokingIsShown ==
    \A n \in Revocations : revocations[n].call # "idle" =>
        ~revocations[n].undone /\ (mounted => users[revocations[n].user] = "revoking")

\* No row misleads the regulator, before, during and after a revocation.
RowsTrue == TypeOK /\ RowsAreRight /\ RevokingIsShown

\* A row does not stay on "Revoking..." for ever, unless a second revocation
\* took the undo window over before the first was sent.
RevokingEnds ==
    \A u \in Users :
        users[u] = "revoking" ~>
            \/ users[u] # "revoking"
            \/ \E n \in About(u) : /\ ~revocations[n].undone /\ ~revocations[n].sent
                                   /\ hook.action # n
============================================================================
