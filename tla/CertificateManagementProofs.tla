-------------------- MODULE CertificateManagementProofs --------------------
(***************************************************************************)
(* The regulator's certificate page, for any number of users and           *)
(* revocations: no row misleads.  A revocation is live while its timer     *)
(* runs or its request is out.  PInv: a live revocation has its row on     *)
(* "Revoking..." (OnItsWay) and the row to itself (Apart), so that neither *)
(* a dialog (Dialogs) nor a reactivation can be about it, and a row and    *)
(* the server differ only by the answer that is on its way (Agrees).       *)
(***************************************************************************)
EXTENDS CertificateManagement, TLAPS

Armed(n) == hook.timers = 1 /\ hook.action = n
LiveRev(n) == revocations[n].call # "idle" \/ Armed(n)

\* A page that was left shows nothing and commits nothing.
Gone == ~mounted => users = NoRows /\ NoDialog /\ hook.timers = 0

\* Before the list is there nothing can be done with it.
Loading == load.call # "idle" =>
    /\ users = NoRows /\ NoDialog /\ hook.timers = 0 /\ reactivation = NoCall
    /\ \A n \in Revocations : revocations[n] = NoRevocation
    /\ load.call = "ok" =>
         \A u \in Users : /\ load.seen[u] \in CertStatus
                          /\ u \notin touched => load.seen[u] = server[u]

\* A timer runs for one unsent revocation, and UNDO is there only while it does.
Window ==
    /\ hook.timers = 1 => /\ hook.action \in Revocations
                          /\ revocations[hook.action].call = "idle"
    /\ mounted /\ hook.pending = "waiting" => hook.timers = 1

OnItsWay == \A n \in Revocations : LiveRev(n) =>
    /\ revocations[n].user \in Users /\ ~revocations[n].undone
    /\ mounted => users[revocations[n].user] = "revoking"

Apart == mounted => \A n, m \in Revocations :
    LiveRev(n) /\ LiveRev(m) /\ revocations[n].user = revocations[m].user => n = m

Dialogs ==
    /\ pendingUser # Nobody => users[pendingUser] = "active" /\ reactivatingUser = Nobody
    /\ reactivatingUser # Nobody => users[reactivatingUser] = "revoked"
    /\ mounted /\ reactivation # NoCall => reactivatingUser = reactivation.user

\* What the server has, given the row and the answers that are on their way.
Revoked(u) == \E n \in Revocations : revocations[n].user = u /\ revocations[n].call = "ok"
Reactivated(u) == reactivation.user = u /\ reactivation.call = "ok"
Agrees == \A u \in Users : users[u] # "none" /\ u \notin touched =>
    server[u] = IF Revoked(u) \/ (users[u] = "revoked" /\ ~Reactivated(u)) THEN "revoked"
                ELSE "active"

PInv == /\ TypeOK /\ Gone /\ Loading /\ Window
        /\ OnItsWay /\ Apart /\ Dialogs /\ Agrees

\* Nothing has happened yet.
LEMMA PInit == Init => PInv
BY PageAssumption DEF Init, PInv, TypeOK, Gone, Loading, Window, OnItsWay, Apart, Dialogs, Agrees, LiveRev,
   Armed, InitHook, NoRows, NoDialog, NoRevocation, NoCall, CertStatus

\* What PInv says rules a misleading row out.
LEMMA PImplies == PInv => RowsTrue
<1> SUFFICES ASSUME PInv PROVE RowsTrue
  OBVIOUS
<1>1. RevokingIsShown
  BY DEF PInv, OnItsWay, LiveRev, RevokingIsShown
<1>2. RowsAreRight
  <2> SUFFICES ASSUME NEW u \in Users, users[u] # "none", ~Busy(u), u \notin touched
               PROVE  Shown(u) = server[u]
    BY DEF RowsAreRight
  <2>1. ~Revoked(u) /\ ~Reactivated(u)
    BY DEF Busy, About, Revoked, Reactivated
  <2>2. server[u] = IF users[u] = "revoked" THEN "revoked" ELSE "active"
    BY <2>1 DEF PInv, Agrees
  <2>3. users[u] \in {"active", "revoked", "revoking"}
    BY DEF PInv, TypeOK, CertStatus
  <2> QED BY <2>2, <2>3 DEF Shown
<1> QED BY <1>1, <1>2 DEF RowsTrue, PInv

----------------------------------------------------------------------------
(* The steps, by what they change.                                         *)

\* A dialog opens on a row that allows it, or closes.
LEMMA DialogStep ==
    ASSUME PInv, NEW u \in Users,
           SelectRevoke(u) \/ CancelRevoke \/ SelectReactivate(u) \/ CancelReactivate
    PROVE  PInv'
<1>1. /\ UNCHANGED <<server, users, mounted, hook, load, revocations, reactivation, touched>>
      /\ mounted
  BY DEF SelectRevoke, CancelRevoke, SelectReactivate, CancelReactivate, requests, PInv, Gone, NoDialog
<1>2. TypeOK'
  BY <1>1 DEF PInv, TypeOK, SelectRevoke, CancelRevoke, SelectReactivate, CancelReactivate
<1>3. Gone' /\ Window' /\ OnItsWay' /\ Apart' /\ Agrees'
  BY <1>1 DEF PInv, Gone, Window, OnItsWay, Apart, Agrees, LiveRev, Armed, Revoked, Reactivated, NoDialog
<1>4. Loading'
  BY <1>1 DEF PInv, Loading, NoDialog, NoRows, SelectRevoke, CancelRevoke, SelectReactivate, CancelReactivate
<1>5. Dialogs'
  <2>1. reactivation # NoCall => reactivation.user # Nobody
    BY PageAssumption DEF PInv, TypeOK
  <2>2. reactivation = NoCall \/ reactivatingUser # Nobody
    BY <1>1, <2>1 DEF PInv, Dialogs
  <2> QED BY <1>1, <2>2 DEF PInv, Dialogs, NoDialog, SelectRevoke, CancelRevoke, SelectReactivate,
             CancelReactivate
<1> QED BY <1>2, <1>3, <1>4, <1>5 DEF PInv

\* Somebody else changes a certificate.
LEMMA OthersStep ==
    ASSUME PInv, NEW u \in Users, Others(u)
    PROVE  PInv'
<1>1. UNCHANGED <<users, mounted, pendingUser, reactivatingUser, hook, load, revocations, reactivation>>
  BY DEF Others, page, requests
<1>2. PICK status \in CertStatus : server' = [server EXCEPT ![u] = status] /\ touched' = touched \cup {u}
  BY DEF Others
<1>3. TypeOK'
  BY <1>1, <1>2 DEF PInv, TypeOK
<1>4. Gone' /\ Window' /\ OnItsWay' /\ Apart' /\ Dialogs'
  BY <1>1 DEF PInv, Gone, Window, OnItsWay, Apart, Dialogs, LiveRev, Armed, NoDialog
<1>5. Loading' /\ Agrees'
  BY <1>1, <1>2 DEF PInv, TypeOK, Loading, Agrees, Revoked, Reactivated, NoDialog
<1> QED BY <1>3, <1>4, <1>5 DEF PInv

\* The page goes.
LEMMA UnmountStep ==
    ASSUME PInv, Unmount, server' = server, touched' = touched,
           load'.call = "idle" \/ load' = load, load'.call \in {"idle", "sent", "ok"},
           load'.seen \in [Users -> CertStatus \cup {"none"}],
           load' \in [call : {"idle", "sent", "ok"}, seen : [Users -> CertStatus \cup {"none"}]],
           revocations' \in [Revocations -> Revocation \cup {NoRevocation}],
           \A n \in Revocations : /\ revocations'[n].user = revocations[n].user
                                  /\ revocations'[n].undone = revocations[n].undone
                                  /\ revocations'[n].call \in {"idle", revocations[n].call}
                                  /\ revocations[n] = NoRevocation => revocations'[n] = NoRevocation,
           reactivation' \in {NoCall, reactivation}
    PROVE  PInv'
<1>1. /\ mounted' = FALSE /\ users' = NoRows /\ pendingUser' = Nobody /\ reactivatingUser' = Nobody
      /\ hook' = clearTimers(hook)
  BY DEF Unmount
<1>2. /\ hook' \in [timers : 0..1, action : Revocations \cup {Nobody},
                    pending : {"none", "waiting", "committing"}]
      /\ hook'.timers = 0
  BY <1>1 DEF clearTimers, PInv, TypeOK
<1>3. TypeOK'
  BY <1>1, <1>2 DEF PInv, TypeOK, NoRows
<1>4. Gone' /\ Window' /\ Apart' /\ Dialogs'
  BY <1>1, <1>2 DEF Gone, Window, Apart, Dialogs, NoDialog
<1>5. OnItsWay'
  BY <1>1, <1>2 DEF PInv, OnItsWay, LiveRev, Armed
<1>6. Loading'
  BY <1>1, <1>2 DEF PInv, Loading, NoDialog
<1>7. Agrees'
  BY <1>1 DEF Agrees, NoRows
<1> QED BY <1>3, <1>4, <1>5, <1>6, <1>7 DEF PInv

\* The list arrives, or does not.
LEMMA LoadStep ==
    ASSUME PInv, listUsers \/ Loaded \/ LoadFails
    PROVE  PInv'
<1>0. /\ UNCHANGED <<server, revocations, reactivation, touched>> /\ NoRows \in [Users -> {"none"}]
      /\ load.call # "idle"
  BY DEF listUsers, Loaded, LoadFails, NoRows
<1>1. CASE listUsers
  <2>1. /\ UNCHANGED <<users, mounted, pendingUser, reactivatingUser, hook>>
        /\ load' = [call |-> "ok", seen |-> server]
    BY <1>1 DEF listUsers, page
  <2>2. TypeOK'
    BY <1>0, <2>1 DEF PInv, TypeOK
  <2>3. Gone' /\ Window' /\ OnItsWay' /\ Apart' /\ Dialogs' /\ Agrees'
    BY <1>0, <2>1 DEF PInv, Gone, Window, OnItsWay, Apart, Dialogs, Agrees, LiveRev, Armed, NoDialog,
       Revoked, Reactivated
  <2>4. Loading'
    BY <1>0, <2>1 DEF PInv, TypeOK, Loading, NoDialog
  <2> QED BY <2>2, <2>3, <2>4 DEF PInv
<1>2. CASE Loaded
  <2>1. /\ UNCHANGED <<mounted, pendingUser, reactivatingUser, hook>>
        /\ load' = [call |-> "idle", seen |-> NoRows]
        /\ users' = IF mounted THEN load.seen ELSE users
        /\ load.call = "ok"
    BY <1>2 DEF Loaded
  <2>2. TypeOK'
    BY <1>0, <2>1 DEF PInv, TypeOK
  <2>3. Gone' /\ Window' /\ Loading'
    BY <1>0, <2>1 DEF PInv, Gone, Window, Loading, NoDialog
  <2>4. OnItsWay' /\ Apart' /\ Dialogs'
    BY <1>0, <2>1 DEF PInv, Loading, OnItsWay, Apart, Dialogs, LiveRev, Armed, NoDialog, NoRevocation
  <2>5. Agrees'
    <3>1. \A u \in Users : ~Revoked(u) /\ ~Reactivated(u)
      BY <2>1, PageAssumption DEF PInv, Loading, Revoked, Reactivated, NoRevocation, NoCall
    <3>2. CASE mounted
      BY <1>0, <2>1, <3>1, <3>2 DEF PInv, TypeOK, Loading, Agrees, Revoked, Reactivated, CertStatus
    <3>3. CASE ~mounted
      BY <1>0, <2>1, <3>3 DEF PInv, Gone, Agrees, NoRows
    <3> QED BY <3>2, <3>3 DEF PInv, TypeOK
  <2> QED BY <2>2, <2>3, <2>4, <2>5 DEF PInv
<1>3. CASE LoadFails
  <2>1. load' = [call |-> "idle", seen |-> NoRows]
    BY <1>3 DEF LoadFails
  <2>2. CASE Unmount
    BY <1>0, <2>1, <2>2, UnmountStep DEF PInv, TypeOK
  <2>3. CASE UNCHANGED page
    <3>1. UNCHANGED <<users, mounted, pendingUser, reactivatingUser, hook>>
      BY <2>3 DEF page
    <3>2. TypeOK'
      BY <1>0, <2>1, <3>1 DEF PInv, TypeOK
    <3>3. Gone' /\ Window' /\ OnItsWay' /\ Apart' /\ Dialogs' /\ Agrees' /\ Loading'
      BY <1>0, <2>1, <3>1 DEF PInv, Gone, Window, OnItsWay, Apart, Dialogs, Agrees, LiveRev, Armed, NoDialog,
         Revoked, Reactivated, Loading
    <3> QED BY <3>2, <3>3 DEF PInv
  <2> QED BY <1>3, <2>2, <2>3 DEF LoadFails
<1> QED BY <1>1, <1>2, <1>3

----------------------------------------------------------------------------
(* Revocations.                                                            *)

\* What setUserStatus leaves.
LEMMA RowSet ==
    ASSUME PInv, NEW u \in Users, NEW s \in CertStatus \cup {"revoking"}, setUserStatus(u, s)
    PROVE  /\ users' \in [Users -> CertStatus \cup {"none", "revoking"}]
           /\ users'[u] = s /\ \A v \in Users \ {u} : users'[v] = users[v]
BY DEF PInv, TypeOK, setUserStatus

\* The revocation behind a timer or a request is a confirmed one.
LEMMA LiveTyped ==
    ASSUME PInv, NEW n \in Revocations, LiveRev(n)
    PROVE  revocations[n] \in Revocation /\ revocations[n].user \in Users
<1>1. revocations[n].user \in Users
  BY DEF PInv, OnItsWay
<1> QED BY <1>1, PageAssumption DEF PInv, TypeOK, NoRevocation

\* With the list still out there is no timer, no dialog and no request.
LEMMA ListIsThere ==
    ASSUME PInv, \/ \E n \in Revocations : LiveRev(n)
                 \/ pendingUser # Nobody \/ reactivatingUser # Nobody \/ reactivation # NoCall
    PROVE  load.call = "idle"
BY DEF PInv, Loading, LiveRev, Armed, NoDialog, NoRevocation

\* The row shows "Revoking..." and the undo window opens; whatever it held is
\* given up.
LEMMA ConfirmRevokeStep ==
    ASSUME PInv, NEW n \in Revocations, handleConfirmRevoke(n)
    PROVE  PInv'
<1> DEFINE w == pendingUser
<1>1. /\ UNCHANGED <<server, mounted, reactivatingUser, load, reactivation, touched>>
      /\ revocations[n] = NoRevocation /\ pendingUser' = Nobody
      /\ setUserStatus(w, "revoking")
  BY DEF handleConfirmRevoke
<1>2. w \in Users /\ mounted /\ load.call = "idle" /\ users[w] = "active" /\ reactivatingUser = Nobody
  BY ListIsThere DEF handleConfirmRevoke, PInv, TypeOK, Gone, NoDialog, Dialogs
<1>3. /\ revocations' \in [Revocations -> Revocation \cup {NoRevocation}]
      /\ revocations'[n].user = w /\ revocations'[n].call = "idle" /\ ~revocations'[n].undone
      /\ \A m \in Revocations \ {n} : revocations'[m] = revocations[m]
  <2>1. NoRevocation \in [user : {Nobody}, undone : {FALSE}, sent : {FALSE}, call : {"idle"}]
    BY DEF NoRevocation
  <2>2. /\ [NoRevocation EXCEPT !.user = w] \in Revocation
        /\ [NoRevocation EXCEPT !.user = w].user = w
        /\ [NoRevocation EXCEPT !.user = w].call = "idle"
        /\ ~[NoRevocation EXCEPT !.user = w].undone
    BY <1>2, <2>1 DEF Revocation, Calls
  <2>3. revocations' = [revocations EXCEPT ![n] = [NoRevocation EXCEPT !.user = w]]
    BY DEF handleConfirmRevoke
  <2> QED BY <2>2, <2>3 DEF PInv, TypeOK
<1>4. hook' = [timers |-> 1, action |-> n, pending |-> "waiting"]
  BY DEF handleConfirmRevoke, trigger, clearTimers, PInv, TypeOK
<1>5. /\ users' \in [Users -> CertStatus \cup {"none", "revoking"}]
      /\ users'[w] = "revoking" /\ \A v \in Users \ {w} : users'[v] = users[v]
  BY <1>1, <1>2, RowSet
<1>6. revocations[n].call = "idle" /\ revocations[n].user = Nobody /\ ~LiveRev(n)
  BY <1>1, LiveTyped, PageAssumption DEF NoRevocation
<1>7. \A m \in Revocations : LiveRev(m)' => m = n \/ (m # n /\ LiveRev(m))
  BY <1>3, <1>4 DEF LiveRev, Armed
<1>8. \A m \in Revocations : LiveRev(m) => revocations[m].user # w
  BY <1>2 DEF PInv, OnItsWay
<1> HIDE DEF w
<1>9. TypeOK'
  BY <1>1, <1>3, <1>4, <1>5 DEF PInv, TypeOK
<1>10. Gone' /\ Loading' /\ Window'
  BY <1>1, <1>2, <1>3, <1>4 DEF PInv, Gone, Loading, Window
<1>11. OnItsWay'
  BY <1>2, <1>3, <1>5, <1>7, <1>8 DEF PInv, OnItsWay
<1>12. Apart'
  BY <1>2, <1>3, <1>7, <1>8 DEF PInv, Apart
<1>13. reactivation = NoCall
  BY <1>2, PageAssumption DEF PInv, Dialogs, TypeOK
<1>14. Dialogs'
  BY <1>1, <1>2, <1>13 DEF Dialogs
<1>15. Agrees'
  <2> SUFFICES ASSUME NEW u \in Users, users'[u] # "none", u \notin touched
               PROVE  server[u] = IF Revoked(u)' \/ (users'[u] = "revoked" /\ ~Reactivated(u)')
                                  THEN "revoked" ELSE "active"
    BY <1>1 DEF Agrees
  <2>1. Revoked(u)' <=> Revoked(u)
    BY <1>3, <1>6 DEF Revoked
  <2>2. Reactivated(u)' <=> Reactivated(u)
    BY <1>1 DEF Reactivated
  <2> QED BY <1>2, <1>5, <2>1, <2>2 DEF PInv, Agrees
<1> QED BY <1>9, <1>10, <1>11, <1>12, <1>14, <1>15 DEF PInv

\* Undone before it is sent: the row is active again, as the server has it.
LEMMA UndoStep ==
    ASSUME PInv, UndoClicked
    PROVE  PInv'
<1> DEFINE n == hook.action
           w == revocations[n].user
<1>1. /\ UNCHANGED <<server, mounted, pendingUser, reactivatingUser, load, reactivation, touched>>
      /\ setUserStatus(w, "active") /\ mounted
  BY DEF UndoClicked
<1>2. /\ hook.timers = 1 /\ n \in Revocations /\ LiveRev(n) /\ revocations[n].call = "idle"
  BY DEF UndoClicked, CanUndo, PInv, Window, LiveRev, Armed
<1>3. w \in Users /\ users[w] = "revoking" /\ load.call = "idle" /\ revocations[n] \in Revocation
  BY <1>1, <1>2, LiveTyped, ListIsThere DEF PInv, OnItsWay
<1>4. /\ revocations' \in [Revocations -> Revocation \cup {NoRevocation}]
      /\ revocations'[n].user = w /\ revocations'[n].call = "idle"
      /\ \A m \in Revocations \ {n} : revocations'[m] = revocations[m]
  <2>1. revocations' = [revocations EXCEPT ![n] = [revocations[n] EXCEPT !.undone = TRUE]]
    BY DEF UndoClicked
  <2>2. /\ [revocations[n] EXCEPT !.undone = TRUE] \in Revocation
        /\ [revocations[n] EXCEPT !.undone = TRUE].user = w
        /\ [revocations[n] EXCEPT !.undone = TRUE].call = "idle"
    BY <1>2, <1>3 DEF Revocation
  <2> QED BY <1>2, <2>1, <2>2 DEF PInv, TypeOK
<1>5. hook' = [timers |-> 0, action |-> Nobody, pending |-> "none"]
  BY DEF UndoClicked, undo, clearTimers, PInv, TypeOK
<1>6. /\ users' \in [Users -> CertStatus \cup {"none", "revoking"}]
      /\ users'[w] = "active" /\ \A v \in Users \ {w} : users'[v] = users[v]
  BY <1>1, <1>3, RowSet DEF CertStatus
<1>7. \A m \in Revocations : LiveRev(m)' => m # n /\ LiveRev(m)
  BY <1>2, <1>4, <1>5 DEF LiveRev, Armed
<1>8. \A m \in Revocations : m # n /\ LiveRev(m) => revocations[m].user # w
  BY <1>1, <1>2 DEF PInv, Apart
<1>9. TypeOK'
  BY <1>1, <1>4, <1>5, <1>6 DEF PInv, TypeOK
<1>10. Gone' /\ Loading' /\ Window'
  BY <1>1, <1>3, <1>5 DEF PInv, Gone, Loading, Window
<1>11. OnItsWay'
  BY <1>1, <1>4, <1>6, <1>7, <1>8 DEF PInv, OnItsWay
<1>12. Apart'
  BY <1>1, <1>4, <1>7 DEF PInv, Apart
<1>13. pendingUser # w /\ reactivatingUser # w
  BY <1>3, PageAssumption DEF PInv, Dialogs
<1>14. Dialogs'
  BY <1>1, <1>6, <1>13 DEF PInv, Dialogs, TypeOK
<1>15. Agrees'
  <2> SUFFICES ASSUME NEW u \in Users, users'[u] # "none", u \notin touched
               PROVE  server[u] = IF Revoked(u)' \/ (users'[u] = "revoked" /\ ~Reactivated(u)')
                                  THEN "revoked" ELSE "active"
    BY <1>1 DEF Agrees
  <2>1. Revoked(u)' <=> Revoked(u)
    BY <1>2, <1>4 DEF Revoked
  <2>2. Reactivated(u)' <=> Reactivated(u)
    BY <1>1 DEF Reactivated
  <2>3. ASSUME u = w PROVE ~Revoked(u)
    BY <1>2, <1>8, <2>3 DEF Revoked, LiveRev
  <2> QED BY <1>3, <1>6, <2>1, <2>2, <2>3 DEF PInv, Agrees
<1> QED BY <1>9, <1>10, <1>11, <1>12, <1>14, <1>15 DEF PInv

\* The timer's revocation is sent, with its row as it is.
LEMMA CommitStep ==
    ASSUME PInv, TimeIsUp
    PROVE  PInv'
<1> DEFINE n == hook.action
           r == [revocations[n] EXCEPT !.call = "sent", !.sent = TRUE]
<1>1. UNCHANGED <<server, users, mounted, pendingUser, reactivatingUser, load, reactivation, touched>>
      /\ mounted
  BY DEF TimeIsUp
<1>2. hook.timers = 1 /\ n \in Revocations /\ LiveRev(n) /\ revocations[n].call = "idle"
  BY DEF TimeIsUp, Expired, PInv, TypeOK, Window, LiveRev, Armed
<1>3. revocations[n] \in Revocation /\ load.call = "idle"
  BY <1>2, LiveTyped, ListIsThere
<1>4. r \in Revocation /\ r.user = revocations[n].user /\ r.undone = revocations[n].undone /\ r.call = "sent"
  BY <1>3 DEF Revocation, Calls
<1>5. revocations' = [revocations EXCEPT ![n] = r]
  BY DEF TimeIsUp
<1>6. hook'.timers = 0 /\ hook' \in [timers : 0..1, action : Revocations \cup {Nobody},
                                     pending : {"none", "waiting", "committing"}]
      /\ hook'.pending # "waiting"
  <2>1. hook' = [timers |-> 0, action |-> hook.action,
                 pending |-> IF hook.pending = "none" THEN "none" ELSE "committing"]
    <3>1. /\ hook = [timers |-> hook.timers, action |-> hook.action, pending |-> hook.pending]
          /\ hook.timers - 1 = 0
      BY <1>2 DEF PInv, TypeOK
    <3>2. hook' = [timers |-> hook.timers - 1, action |-> hook.action,
                   pending |-> IF hook.pending = "none" THEN "none" ELSE "committing"]
      BY <3>1 DEF TimeIsUp, startCommit
    <3> QED BY <3>1, <3>2
  <2> QED BY <2>1 DEF PInv, TypeOK
<1> HIDE DEF r
<1>7. /\ revocations' \in [Revocations -> Revocation \cup {NoRevocation}]
      /\ \A m \in Revocations : /\ revocations'[m].user = revocations[m].user
                                /\ revocations'[m].undone = revocations[m].undone
                                /\ revocations'[m].call = "ok" <=> revocations[m].call = "ok"
  BY <1>2, <1>4, <1>5 DEF PInv, TypeOK
<1>8. \A m \in Revocations : LiveRev(m)' => LiveRev(m)
  BY <1>2, <1>5, <1>6 DEF LiveRev, Armed, PInv, TypeOK
<1>9. TypeOK'
  BY <1>1, <1>6, <1>7 DEF PInv, TypeOK
<1>10. Gone' /\ Loading' /\ Window' /\ Dialogs'
  BY <1>1, <1>3, <1>6 DEF PInv, Gone, Loading, Window, Dialogs
<1>11. OnItsWay' /\ Apart'
  BY <1>1, <1>7, <1>8 DEF PInv, OnItsWay, Apart
<1>12. Agrees'
  BY <1>1, <1>7 DEF PInv, Agrees, Revoked, Reactivated
<1> QED BY <1>9, <1>10, <1>11, <1>12 DEF PInv

\* The answer to a revocation's request: the request goes on to the page.
LEMMA CallEffect ==
    ASSUME PInv, NEW n \in Revocations, NEW c \in Calls, revocations[n].call # "idle",
           revocations' = [revocations EXCEPT ![n].call = c]
    PROVE  /\ revocations' \in [Revocations -> Revocation \cup {NoRevocation}]
           /\ \A m \in Revocations : /\ revocations'[m].user = revocations[m].user
                                     /\ revocations'[m].undone = revocations[m].undone
                                     /\ m # n => revocations'[m] = revocations[m]
           /\ revocations'[n].call = c /\ revocations[n] # NoRevocation
           /\ revocations[n] \in Revocation /\ revocations[n].user \in Users /\ LiveRev(n)
           /\ load.call = "idle" /\ ~Armed(n)
<1>1. LiveRev(n) /\ revocations[n] \in Revocation /\ revocations[n].user \in Users
  BY LiveTyped DEF LiveRev
<1>2. revocations' = [revocations EXCEPT ![n] = [revocations[n] EXCEPT !.call = c]]
  OBVIOUS
<1>3. /\ [revocations[n] EXCEPT !.call = c] \in Revocation
      /\ [revocations[n] EXCEPT !.call = c].user = revocations[n].user
      /\ [revocations[n] EXCEPT !.call = c].undone = revocations[n].undone
      /\ [revocations[n] EXCEPT !.call = c].call = c
  BY <1>1 DEF Revocation
<1>4. load.call = "idle" /\ ~Armed(n)
  BY <1>1, ListIsThere DEF PInv, Window, Armed
<1>5. revocations[n] # NoRevocation
  BY DEF NoRevocation
<1> QED BY <1>1, <1>2, <1>3, <1>4, <1>5 DEF PInv, TypeOK

\* What the server may do with a request about a certificate of status from.
LEMMA ServeEffect ==
    ASSUME PInv, NEW w \in Users, NEW from \in CertStatus, NEW to \in CertStatus, NEW answer \in Answers,
           Serve(w, from, to, answer)
    PROVE  /\ server' \in [Users -> CertStatus] /\ touched' \subseteq Users /\ touched \subseteq touched'
           /\ \A u \in Users \ {w} : server'[u] = server[u]
           /\ w \notin touched' => server'[w] = IF answer = "ok" THEN to ELSE server[w]
BY DEF PInv, TypeOK, Serve, Answers

\* The server takes the certificate away, or does not; the row still says
\* "Revoking..." and the answer makes up the difference.
LEMMA RevokeStep ==
    ASSUME PInv, NEW n \in Revocations, revokeCertificate(n)
    PROVE  PInv'
<1>0. PICK w : w = revocations[n].user
  OBVIOUS
<1>1. UNCHANGED <<users, mounted, pendingUser, reactivatingUser, hook, load, reactivation>>
      /\ revocations[n].call = "sent"
  BY DEF revokeCertificate, page
<1>2. PICK answer \in Answers : /\ Serve(w, "active", "revoked", answer)
                                /\ revocations' = [revocations EXCEPT ![n].call = answer]
  BY <1>0 DEF revokeCertificate
<1>3. answer \in Calls /\ answer \in {"ok", "failed", "unauthorized"}
  BY DEF Answers, Calls
<1>4. /\ revocations' \in [Revocations -> Revocation \cup {NoRevocation}]
      /\ \A m \in Revocations : /\ revocations'[m].user = revocations[m].user
                                /\ revocations'[m].undone = revocations[m].undone
                                /\ m # n => revocations'[m] = revocations[m]
      /\ revocations'[n].call = answer
      /\ w \in Users /\ LiveRev(n) /\ load.call = "idle" /\ ~Armed(n)
  BY <1>0, <1>1, <1>2, <1>3, CallEffect
<1>5. /\ server' \in [Users -> CertStatus] /\ touched' \subseteq Users /\ touched \subseteq touched'
      /\ \A u \in Users \ {w} : server'[u] = server[u]
      /\ w \notin touched' => server'[w] = IF answer = "ok" THEN "revoked" ELSE server[w]
  BY <1>2, <1>4, ServeEffect DEF CertStatus
<1>6. \A m \in Revocations : LiveRev(m)' => LiveRev(m)
  BY <1>1, <1>4 DEF LiveRev, Armed
<1>7. TypeOK'
  BY <1>1, <1>4, <1>5 DEF PInv, TypeOK
<1>8. Gone' /\ Loading' /\ Dialogs'
  BY <1>1, <1>4 DEF PInv, Gone, Loading, Dialogs, NoDialog
<1>9. Window'
  BY <1>1, <1>4 DEF PInv, Window, Armed
<1>10. OnItsWay' /\ Apart'
  BY <1>1, <1>4, <1>6 DEF PInv, OnItsWay, Apart
<1>11. Agrees'
  <2> SUFFICES ASSUME NEW u \in Users, users[u] # "none", u \notin touched'
               PROVE  server'[u] = IF Revoked(u)' \/ (users[u] = "revoked" /\ ~Reactivated(u))
                                  THEN "revoked" ELSE "active"
    BY <1>1 DEF Agrees, Reactivated
  <2>0. server[u] = IF Revoked(u) \/ (users[u] = "revoked" /\ ~Reactivated(u)) THEN "revoked" ELSE "active"
    BY <1>5 DEF PInv, Agrees
  <2>1. CASE u # w
    <3>1. Revoked(u)' <=> Revoked(u)
      BY <1>0, <1>4, <2>1 DEF Revoked
    <3> QED BY <1>5, <2>0, <2>1, <3>1
  <2>2. CASE u = w
    <3>1. mounted
      BY DEF PInv, Gone, NoRows
    <3>2. users[w] = "revoking"
      BY <1>0, <1>4, <3>1 DEF PInv, OnItsWay
    <3>3. \A m \in Revocations : m # n /\ revocations[m].call = "ok" => revocations[m].user # w
      BY <1>0, <1>4, <3>1 DEF PInv, Apart, LiveRev
    <3>4. Revoked(w)' <=> answer = "ok"
      BY <1>0, <1>4, <3>3 DEF Revoked
    <3>5. ~Revoked(w)
      BY <1>0, <1>1, <3>3 DEF Revoked
    <3> QED BY <1>5, <2>0, <2>2, <3>2, <3>4, <3>5
  <2> QED BY <2>1, <2>2
<1> QED BY <1>7, <1>8, <1>9, <1>10, <1>11 DEF PInv

\* The answer reaches the row, or the page that was left.
LEMMA RevokeAnsweredStep ==
    ASSUME PInv, NEW n \in Revocations, RevokeAnswered(n)
    PROVE  PInv'
<1>0. PICK w, answer : w = revocations[n].user /\ answer = revocations[n].call
  OBVIOUS
<1>1. /\ UNCHANGED <<server, load, reactivation, touched>> /\ answer \in Answers /\ answer # "idle"
      /\ revocations' = [revocations EXCEPT ![n].call = "idle"]
  BY <1>0 DEF RevokeAnswered, Answers
<1>2. "idle" \in Calls
  BY DEF Calls
<1>3. /\ revocations' \in [Revocations -> Revocation \cup {NoRevocation}]
      /\ \A m \in Revocations : /\ revocations'[m].user = revocations[m].user
                                /\ revocations'[m].undone = revocations[m].undone
                                /\ m # n => revocations'[m] = revocations[m]
      /\ revocations'[n].call = "idle" /\ revocations[n] # NoRevocation
      /\ w \in Users /\ LiveRev(n) /\ load.call = "idle" /\ ~Armed(n)
  BY <1>0, <1>1, <1>2, CallEffect
<1>4. CASE ~mounted
  <2>1. UNCHANGED <<users, mounted, pendingUser, reactivatingUser, hook>>
    BY <1>4 DEF RevokeAnswered, page
  <2>2. TypeOK'
    BY <1>1, <1>3, <2>1 DEF PInv, TypeOK
  <2>3. Gone' /\ Loading' /\ Window' /\ Apart' /\ Dialogs'
    BY <1>1, <1>3, <1>4, <2>1 DEF PInv, Gone, Loading, Window, Apart, Dialogs, NoDialog
  <2>4. OnItsWay'
    BY <1>3, <1>4, <2>1 DEF PInv, Gone, OnItsWay, LiveRev, Armed
  <2>5. Agrees'
    BY <1>4, <2>1 DEF PInv, Gone, Agrees, NoRows
  <2> QED BY <2>2, <2>3, <2>4, <2>5 DEF PInv
<1>5. CASE mounted /\ answer = "unauthorized"
  <2>1. Unmount
    BY <1>0, <1>5 DEF RevokeAnswered
  <2>2. \A m \in Revocations : /\ revocations'[m].call \in {"idle", revocations[m].call}
                               /\ revocations[m] = NoRevocation => revocations'[m] = NoRevocation
    BY <1>3
  <2> QED BY <1>1, <1>3, <2>1, <2>2, UnmountStep DEF PInv, TypeOK
<1>6. CASE mounted /\ answer \in {"ok", "failed"}
  <2> DEFINE status == IF answer = "ok" THEN "revoked" ELSE "active"
  <2>1. /\ UNCHANGED <<mounted, pendingUser, reactivatingUser>> /\ hook' = endCommit(hook)
        /\ setUserStatus(w, status) /\ status \in CertStatus
    BY <1>0, <1>6 DEF RevokeAnswered, RowAfterRevoke, CertStatus
  <2>2. hook' = [timers |-> hook.timers, action |-> hook.action, pending |-> "none"]
    BY <2>1 DEF endCommit, PInv, TypeOK
  <2> HIDE DEF status
  <2>3. /\ users' \in [Users -> CertStatus \cup {"none", "revoking"}]
        /\ users'[w] = status /\ \A v \in Users \ {w} : users'[v] = users[v]
    BY <1>3, <2>1, RowSet
  <2>4. users[w] = "revoking" /\ pendingUser # w /\ reactivatingUser # w
    BY <1>0, <1>3, <1>6, PageAssumption DEF PInv, OnItsWay, Dialogs
  <2>5. \A m \in Revocations : LiveRev(m)' => LiveRev(m) /\ m # n
    BY <1>3, <2>2 DEF LiveRev, Armed
  <2>6. \A m \in Revocations : LiveRev(m) /\ m # n => revocations[m].user # w
    BY <1>0, <1>3, <1>6 DEF PInv, Apart
  <2>7. TypeOK'
    BY <1>1, <1>3, <2>1, <2>2, <2>3 DEF PInv, TypeOK
  <2>8. Gone' /\ Loading' /\ Window'
    BY <1>1, <1>3, <1>6, <2>1, <2>2 DEF PInv, Gone, Loading, Window
  <2>9. OnItsWay'
    BY <1>3, <2>1, <2>3, <2>5, <2>6 DEF PInv, OnItsWay
  <2>10. Apart'
    BY <1>3, <2>1, <2>5 DEF PInv, Apart
  <2>11. Dialogs'
    BY <1>1, <2>1, <2>3, <2>4 DEF PInv, Dialogs, TypeOK
  <2>12. Agrees'
    <3> SUFFICES ASSUME NEW u \in Users, users'[u] # "none", u \notin touched
                 PROVE  server[u] = IF Revoked(u)' \/ (users'[u] = "revoked" /\ ~Reactivated(u))
                                    THEN "revoked" ELSE "active"
      BY <1>1 DEF Agrees, Reactivated
    <3>1. CASE u # w
      <4>1. Revoked(u)' <=> Revoked(u)
        BY <1>0, <1>3, <3>1 DEF Revoked
      <4> QED BY <2>3, <3>1, <4>1 DEF PInv, Agrees
    <3>2. CASE u = w
      <4>1. ~Revoked(w)'
        BY <1>3, <2>6 DEF Revoked, LiveRev
      <4>2. Revoked(w) <=> answer = "ok"
        BY <1>0, <2>6 DEF Revoked, LiveRev
      <4>3. ~Reactivated(w)
        BY <1>3, <1>6, <2>4, PageAssumption DEF PInv, Dialogs, Reactivated, NoCall
      <4>4. server[w] = IF Revoked(w) THEN "revoked" ELSE "active"
        BY <1>3, <2>4, <3>2 DEF PInv, Agrees
      <4> QED BY <2>3, <3>2, <4>1, <4>2, <4>3, <4>4 DEF status
    <3> QED BY <3>1, <3>2
  <2> QED BY <2>7, <2>8, <2>9, <2>10, <2>11, <2>12 DEF PInv
<1> QED BY <1>1, <1>4, <1>5, <1>6 DEF Answers

----------------------------------------------------------------------------
(* Reactivations.                                                          *)

\* Nothing of a revocation depends on the reactivation.
LEMMA RevocationsKept ==
    ASSUME PInv, UNCHANGED <<users, mounted, hook, revocations>>
    PROVE  Window' /\ OnItsWay' /\ Apart'
BY DEF PInv, Window, OnItsWay, Apart, LiveRev, Armed

\* The request goes out; the row is still revoked, as the server has it.
LEMMA ConfirmReactivateStep ==
    ASSUME PInv, handleConfirmReactivate
    PROVE  PInv'
<1>1. /\ UNCHANGED <<server, users, mounted, pendingUser, reactivatingUser, hook, load, revocations, touched>>
      /\ reactivatingUser \in Users /\ reactivation = NoCall
      /\ reactivation' = [user |-> reactivatingUser, call |-> "sent"]
  BY DEF handleConfirmReactivate, page, PInv, TypeOK
<1>2. load.call = "idle"
  BY <1>1, PageAssumption, ListIsThere
<1>3. TypeOK'
  BY <1>1 DEF PInv, TypeOK, Calls
<1>4. Gone' /\ Loading' /\ Dialogs'
  BY <1>1, <1>2 DEF PInv, Gone, Loading, Dialogs, NoDialog
<1>5. \A u \in Users : ~Reactivated(u) /\ ~Reactivated(u)'
  BY <1>1 DEF Reactivated, NoCall
<1>6. Agrees'
  BY <1>1, <1>5 DEF PInv, Agrees, Revoked
<1> QED BY <1>1, <1>3, <1>4, <1>6, RevocationsKept DEF PInv

\* The server gives the certificate back, or does not; the row is still
\* revoked and the answer makes up the difference.
LEMMA ReactivateStep ==
    ASSUME PInv, reactivateCertificate
    PROVE  PInv'
<1>0. PICK w : w = reactivation.user
  OBVIOUS
<1>1. UNCHANGED <<users, mounted, pendingUser, reactivatingUser, hook, load, revocations>>
      /\ reactivation.call = "sent"
  BY DEF reactivateCertificate, page
<1>2. PICK answer \in Answers : /\ Serve(w, "revoked", "active", answer)
                                /\ reactivation' = [reactivation EXCEPT !.call = answer]
  BY <1>0 DEF reactivateCertificate
<1>3. reactivation # NoCall /\ w \in Users /\ reactivation \in [user : Users, call : Calls \ {"idle"}]
  BY <1>0, <1>1 DEF PInv, TypeOK, NoCall
<1>4. /\ reactivation' \in [user : Users, call : Calls \ {"idle"}] /\ reactivation' # NoCall
      /\ reactivation'.user = w /\ reactivation'.call = answer
  BY <1>0, <1>2, <1>3 DEF Answers, Calls, NoCall
<1>5. /\ server' \in [Users -> CertStatus] /\ touched' \subseteq Users /\ touched \subseteq touched'
      /\ \A u \in Users \ {w} : server'[u] = server[u]
      /\ w \notin touched' => server'[w] = IF answer = "ok" THEN "active" ELSE server[w]
  BY <1>2, <1>3, ServeEffect DEF CertStatus
<1>6. load.call = "idle"
  BY <1>3, ListIsThere
<1>7. TypeOK'
  BY <1>1, <1>4, <1>5 DEF PInv, TypeOK
<1>8. Gone' /\ Loading' /\ Dialogs'
  BY <1>0, <1>1, <1>3, <1>4, <1>6 DEF PInv, Gone, Loading, Dialogs, NoDialog
<1>9. Agrees'
  <2> SUFFICES ASSUME NEW u \in Users, users[u] # "none", u \notin touched'
               PROVE  server'[u] = IF Revoked(u) \/ (users[u] = "revoked" /\ ~Reactivated(u)')
                                  THEN "revoked" ELSE "active"
    BY <1>1 DEF Agrees, Revoked
  <2>0. server[u] = IF Revoked(u) \/ (users[u] = "revoked" /\ ~Reactivated(u)) THEN "revoked" ELSE "active"
    BY <1>5 DEF PInv, Agrees
  <2>1. CASE u # w
    BY <1>0, <1>4, <1>5, <2>0, <2>1 DEF Reactivated
  <2>2. CASE u = w
    <3>1. mounted
      BY DEF PInv, Gone, NoRows
    <3>2. users[w] = "revoked"
      BY <1>0, <1>3, <3>1, PageAssumption DEF PInv, Dialogs
    <3>3. ~Revoked(w)
      BY <3>1, <3>2 DEF PInv, OnItsWay, LiveRev, Revoked
    <3>4. ~Reactivated(w) /\ (Reactivated(w)' <=> answer = "ok")
      BY <1>1, <1>4 DEF Reactivated
    <3> QED BY <1>5, <2>0, <2>2, <3>2, <3>3, <3>4
  <2> QED BY <2>1, <2>2
<1> QED BY <1>1, <1>7, <1>8, <1>9, RevocationsKept DEF PInv

\* The answer reaches the row, or leaves it with a dialog that is still open.
LEMMA ReactivateAnsweredStep ==
    ASSUME PInv, ReactivateAnswered
    PROVE  PInv'
<1>0. PICK w, answer : w = reactivation.user /\ answer = reactivation.call
  OBVIOUS
<1>1. /\ UNCHANGED <<server, load, revocations, touched>> /\ reactivation' = NoCall
      /\ answer \in {"ok", "failed", "unauthorized"}
  BY <1>0 DEF ReactivateAnswered, Answers
<1>2. reactivation # NoCall /\ w \in Users /\ load.call = "idle"
  <2>1. reactivation # NoCall
    BY <1>0, <1>1 DEF NoCall
  <2> QED BY <1>0, <2>1, ListIsThere DEF PInv, TypeOK
<1>3. \A u \in Users : ~Reactivated(u)'
  BY <1>1 DEF Reactivated, NoCall
<1>4. CASE ~mounted \/ answer = "failed"
  <2>1. UNCHANGED <<users, mounted, pendingUser, reactivatingUser, hook>>
    BY <1>0, <1>4 DEF ReactivateAnswered, page
  <2>2. TypeOK'
    BY <1>1, <2>1 DEF PInv, TypeOK
  <2>3. Gone' /\ Loading' /\ Dialogs'
    BY <1>1, <1>2, <2>1 DEF PInv, Gone, Loading, Dialogs, NoDialog
  <2>4. Agrees'
    <3>1. CASE ~mounted
      BY <2>1, <3>1 DEF PInv, Gone, Agrees, NoRows
    <3>2. CASE answer = "failed"
      <4>1. \A u \in Users : ~Reactivated(u)
        BY <1>0, <3>2 DEF Reactivated
      <4> QED BY <1>1, <1>3, <2>1, <4>1 DEF PInv, Agrees, Revoked
    <3> QED BY <1>4, <3>1, <3>2
  <2> QED BY <1>1, <2>1, <2>2, <2>3, <2>4, RevocationsKept DEF PInv
<1>5. CASE mounted /\ answer = "unauthorized"
  <2>1. Unmount
    BY <1>0, <1>5 DEF ReactivateAnswered
  <2> QED BY <1>1, <2>1, UnmountStep DEF PInv, TypeOK
<1>6. CASE mounted /\ answer = "ok"
  <2>1. /\ UNCHANGED <<mounted, pendingUser, hook>> /\ reactivatingUser' = Nobody
        /\ setUserStatus(w, "active")
    BY <1>0, <1>6 DEF ReactivateAnswered
  <2>2. /\ users' \in [Users -> CertStatus \cup {"none", "revoking"}]
        /\ users'[w] = "active" /\ \A v \in Users \ {w} : users'[v] = users[v]
    BY <1>2, <2>1, RowSet DEF CertStatus
  <2>3. reactivatingUser = w /\ users[w] = "revoked" /\ pendingUser = Nobody
    BY <1>0, <1>2, <1>6, PageAssumption DEF PInv, Dialogs
  <2>4. \A n \in Revocations : LiveRev(n) => revocations[n].user # w
    BY <1>6, <2>3 DEF PInv, OnItsWay
  <2>5. \A n \in Revocations : LiveRev(n)' <=> LiveRev(n)
    BY <1>1, <2>1 DEF LiveRev, Armed
  <2>6. TypeOK'
    BY <1>1, <2>1, <2>2 DEF PInv, TypeOK
  <2>7. Gone' /\ Loading' /\ Window' /\ Apart'
    BY <1>1, <1>2, <1>6, <2>1, <2>5 DEF PInv, Gone, Loading, Window, Apart
  <2>8. OnItsWay'
    BY <1>1, <2>1, <2>2, <2>4, <2>5 DEF PInv, OnItsWay
  <2>9. Dialogs'
    BY <1>1, <2>1, <2>3 DEF Dialogs
  <2>10. Agrees'
    <3> SUFFICES ASSUME NEW u \in Users, users'[u] # "none", u \notin touched
                 PROVE  server[u] = IF Revoked(u) \/ users'[u] = "revoked" THEN "revoked" ELSE "active"
      BY <1>1, <1>3 DEF Agrees, Revoked
    <3>1. CASE u # w
      BY <1>0, <2>2, <3>1 DEF PInv, Agrees, Reactivated
    <3>2. CASE u = w
      <4>1. ~Revoked(w) /\ Reactivated(w)
        BY <1>0, <1>6, <2>4 DEF Revoked, LiveRev, Reactivated
      <4> QED BY <1>2, <2>2, <2>3, <3>2, <4>1 DEF PInv, Agrees
    <3> QED BY <3>1, <3>2
  <2> QED BY <2>6, <2>7, <2>8, <2>9, <2>10 DEF PInv
<1> QED BY <1>1, <1>4, <1>5, <1>6

\* The page is left.
LEMMA LeaveStep ==
    ASSUME PInv, Leave
    PROVE  PInv'
<1>1. Unmount /\ UNCHANGED <<server, load, revocations, reactivation, touched>>
  BY DEF Leave, requests
<1> QED BY <1>1, UnmountStep DEF PInv, TypeOK

\* PInv is inductive.
LEMMA PStep == PInv /\ [Next]_vars => PInv'
<1> SUFFICES ASSUME PInv, [Next]_vars PROVE PInv'
  OBVIOUS
<1>1. CASE listUsers \/ Loaded \/ LoadFails
  BY <1>1, LoadStep
<1>2. CASE Leave
  BY <1>2, LeaveStep
<1>3. ASSUME NEW u \in Users, SelectRevoke(u) \/ SelectReactivate(u) PROVE PInv'
  BY <1>3, DialogStep
<1>4. CASE CancelRevoke \/ CancelReactivate
  <2>1. \E u \in Users : TRUE
    BY <1>4 DEF CancelRevoke, CancelReactivate, PInv, TypeOK
  <2> QED BY <1>4, <2>1, DialogStep
<1>5. ASSUME NEW u \in Users, Others(u) PROVE PInv'
  BY <1>5, OthersStep
<1>6. ASSUME NEW n \in Revocations, handleConfirmRevoke(n) \/ revokeCertificate(n) \/ RevokeAnswered(n)
      PROVE  PInv'
  BY <1>6, ConfirmRevokeStep, RevokeStep, RevokeAnsweredStep
<1>7. CASE UndoClicked \/ TimeIsUp
  BY <1>7, UndoStep, CommitStep
<1>8. CASE handleConfirmReactivate \/ reactivateCertificate \/ ReactivateAnswered
  BY <1>8, ConfirmReactivateStep, ReactivateStep, ReactivateAnsweredStep
<1>9. CASE UNCHANGED vars
  BY <1>9 DEF vars, PInv, TypeOK, Gone, Loading, Window, OnItsWay, Apart, Dialogs, Agrees, LiveRev, Armed,
     Revoked, Reactivated, NoDialog
<1> QED BY <1>1, <1>2, <1>3, <1>4, <1>5, <1>6, <1>7, <1>8, <1>9 DEF Next

\* No row misleads the regulator: what the page has finished with is as the
\* server has it, and what it has not finished with says so.
THEOREM RowsAreTrue == Spec => []RowsTrue
<1> QED BY PInit, PStep, PImplies, PTL DEF Spec
=============================================================================
