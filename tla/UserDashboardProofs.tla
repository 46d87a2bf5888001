------------------------ MODULE UserDashboardProofs ------------------------
(***************************************************************************)
(* The customer's notifications, for any number of documents, polls and    *)
(* loads: what they announce happened.  A notification is made from an     *)
(* answer that may be older than the page, so NInv speaks of every answer  *)
(* on its way: a decided row in it is one the server has decided           *)
(* (AnswersHappened), and stays so, since decisions stay (DecisionsStay).  *)
(* That the recursion over an answer's rows only adds such notifications   *)
(* (Told, TellKeeps) is an induction, which lemma Least allows.            *)
(***************************************************************************)
EXTENDS UserDashboard, WellFoundedInduction, TLAPS

USE UserAssumption DEF UserAssumption

----------------------------------------------------------------------------
(* Induction, from the fact that < is well founded.                        *)

\* A nonempty set of natural numbers has a least one.
LEMMA Least ==
    ASSUME NEW T, T \subseteq Nat, T # {}
    PROVE  \E x \in T : \A y \in T : x <= y
  <1>1. PICK R : R = OpToRel(<, Nat)
    BY Zenon
  <1>2. IsWellFoundedOn(R, Nat)
    BY ONLY <1>1, NatLessThanWellFounded, Zenon
  <1>3. PICK x \in T : \A y \in T : <<y, x>> \notin R
    BY <1>2, WFMin
  <1>4. \A a, b \in Nat : a < b => <<a, b>> \in R
    BY <1>1 DEF OpToRel
  <1>5. SUFFICES ASSUME NEW y \in T PROVE x <= y
    OBVIOUS
  <1>6. x \in Nat /\ y \in Nat /\ <<y, x>> \notin R
    BY <1>3
  <1>7. ~ (y < x)
    BY <1>4, <1>6
  <1> QED BY <1>6, <1>7

\* g lists what becomes of s when F[1], F[2], ... are applied to it in turn.
Iterates(g, s, n, F) == g[0] = s /\ \A i \in 1..n : g[i] = F[i][g[i - 1]]

Turns(n) == 0..n
Maps(n, S) == [1..n -> [S -> S]]

LEMMA Iterated ==
    ASSUME NEW S, NEW s \in S, NEW n \in Nat, NEW F \in Maps(n, S)
    PROVE  \E g \in [Turns(n) -> S] : Iterates(g, s, n, F)
  <1> DEFINE Runs(k) == \E g \in [0..k -> S] :
                           g = [i \in 0..k |-> IF i = 0 THEN s ELSE F[i][g[i - 1]]]
             T == {k \in 0..n : ~Runs(k)}
  <1>0. F \in [1..n -> [S -> S]]
    BY DEF Maps
  <1>1. SUFFICES T = {}
    <2>1. n \in 0..n
      OBVIOUS
    <2>2. Runs(n)
      BY <1>1, <2>1
    <2>3. PICK g \in [0..n -> S] : g = [i \in 0..n |-> IF i = 0 THEN s ELSE F[i][g[i - 1]]]
      BY <2>2
    <2>4. \A i \in 1..n : i \in 0..n /\ i # 0
      OBVIOUS
    <2>5. 0 \in 0..n
      OBVIOUS
    <2> QED BY <2>3, <2>4, <2>5 DEF Iterates, Turns
  <1>2. SUFFICES ASSUME T # {} PROVE FALSE
    OBVIOUS
  <1>3. PICK m \in T : \A y \in T : m <= y
    <2>1. T \subseteq Nat
      OBVIOUS
    <2> HIDE DEF T
    <2> QED BY <1>2, <2>1, Least
  <1>4. m \in 0..n /\ ~Runs(m)
    BY <1>3
  <1>5. m # 0
    <2>1. Runs(0)
      <3>1. PICK g : g = [i \in 0..0 |-> s]
        OBVIOUS
      <3>2. g \in [0..0 -> S]
        BY <3>1
      <3>3. g = [i \in 0..0 |-> IF i = 0 THEN s ELSE F[i][g[i - 1]]]
        BY <3>1
      <3> QED BY <3>2, <3>3
    <2> QED BY <2>1, <1>4
  <1>6. PICK g \in [0..m - 1 -> S] :
          g = [i \in 0..m - 1 |-> IF i = 0 THEN s ELSE F[i][g[i - 1]]]
    <2>1. m - 1 \in 0..n /\ ~(m <= m - 1)
      BY <1>4, <1>5
    <2>2. m - 1 \notin T
      BY <1>3, <2>1
    <2>3. Runs(m - 1)
      BY <2>1, <2>2
    <2> QED BY <2>3
  <1>7. PICK h : h = [i \in 0..m |-> IF i < m THEN g[i] ELSE F[m][g[m - 1]]]
    OBVIOUS
  <1>8. m \in 1..n /\ m - 1 \in 0..m - 1
    BY <1>4, <1>5
  <1>9. \A i \in 0..m : h[i] = IF i = 0 THEN s ELSE F[i][h[i - 1]]
    <2>1. SUFFICES ASSUME NEW i \in 0..m PROVE h[i] = IF i = 0 THEN s ELSE F[i][h[i - 1]]
      OBVIOUS
    <2>2. CASE i < m
      <3>1. i \in 0..m - 1 /\ (i # 0 => i - 1 \in 0..m /\ i - 1 < m)
        BY <2>2, <1>8
      <3>2. g[i] = IF i = 0 THEN s ELSE F[i][g[i - 1]]
        BY <1>6, <3>1
      <3>3. h[i] = g[i] /\ (i # 0 => h[i - 1] = g[i - 1])
        BY <1>7, <2>2, <3>1
      <3> QED BY <3>2, <3>3
    <2>3. CASE i = m
      <3>1. h[i] = F[m][g[m - 1]]
        BY <1>7, <2>3
      <3>2. h[m - 1] = g[m - 1]
        BY <1>7, <1>8
      <3> QED BY <3>1, <3>2, <2>3, <1>5
    <2> QED BY <2>2, <2>3, <1>8
  <1>10. h \in [0..m -> S]
    <2>1. \A i \in 0..m : h[i] \in S
      <3>1. F[m] \in [S -> S] /\ g[m - 1] \in S
        BY <1>0, <1>8
      <3>2. \A i \in 0..m : i < m => i \in 0..m - 1
        BY <1>8
      <3> QED BY <1>7, <3>1, <3>2
    <2> QED BY <1>7, <2>1
  <1>11. h = [i \in 0..m |-> IF i = 0 THEN s ELSE F[i][h[i - 1]]]
    <2>1. DOMAIN h = 0..m
      BY <1>10
    <2> QED BY <1>7, <1>9, <2>1
  <1>12. Runs(m)
    BY <1>10, <1>11
  <1> QED BY <1>4, <1>12

----------------------------------------------------------------------------
(* The list of notifications                                               *)
LEMMA MinOfTwo ==
    ASSUME NEW a \in Nat, NEW b \in Nat
    PROVE  Min({a, b}) \in Nat /\ Min({a, b}) <= a /\ Min({a, b}) <= b
  <1>1. \E x \in {a, b} : \A y \in {a, b} : x <= y
    <2>1. CASE a <= b
      BY <2>1
    <2>2. CASE ~(a <= b)
      BY <2>2
    <2> QED BY <2>1, <2>2
  <1> QED BY <1>1 DEF Min

\* A new notification is put on the list, which stays within its bound.
LEMMA Added ==
    ASSUME NEW H, NEW list \in Seq(H), NEW row, Announcement(row) \in H
    PROVE  /\ addNotification(list, row) \in Seq(H)
           /\ Len(addNotification(list, row)) <= MAX_NOTIFICATIONS
  <1> DEFINE long == <<Announcement(row)>> \o list
             k == Min({MAX_NOTIFICATIONS, Len(list) + 1})
  <1>1. long \in Seq(H) /\ Len(long) = Len(list) + 1
    OBVIOUS
  <1>2. k \in Nat /\ k <= MAX_NOTIFICATIONS /\ k <= Len(long)
    BY <1>1, MinOfTwo
  <1> HIDE DEF long, k
  <1>3. SubSeq(long, 1, k) \in Seq(H) /\ Len(SubSeq(long, 1, k)) = k
    BY <1>1, <1>2
  <1> QED BY <1>2, <1>3 DEF addNotification, long, k

\* The recursion over the rows is well defined.
LEMMA Told ==
    ASSUME NEW H, NEW list \in Seq(H), Len(list) <= MAX_NOTIFICATIONS,
           NEW prev, NEW fresh, Len(fresh) \in Nat,
           \A i \in 1..Len(fresh) : isNews(prev, fresh[i]) => Announcement(fresh[i]) \in H
    PROVE  told(list, prev, fresh) =
             [i \in 0..Len(fresh) |->
                IF i = 0 THEN list
                ELSE IF isNews(prev, fresh[i])
                     THEN addNotification(told(list, prev, fresh)[i - 1], fresh[i])
                     ELSE told(list, prev, fresh)[i - 1]]
  <1>1. PICK n : n = Len(fresh)
    OBVIOUS
  <1>2. PICK S : S = {l \in Seq(H) : Len(l) <= MAX_NOTIFICATIONS}
    OBVIOUS
  <1>3. PICK F : F = [i \in 1..n |-> [l \in S |-> IF isNews(prev, fresh[i])
                                                   THEN addNotification(l, fresh[i]) ELSE l]]
    OBVIOUS
  <1>4. F \in [1..n -> [S -> S]]
    <2>1. ASSUME NEW i \in 1..n, NEW l \in S, isNews(prev, fresh[i])
          PROVE  addNotification(l, fresh[i]) \in S
      <3>1. Announcement(fresh[i]) \in H /\ l \in Seq(H)
        BY <2>1, <1>1, <1>2
      <3> QED BY <3>1, <1>2, Added
    <2> QED BY <1>3, <2>1
  <1>5. n \in Nat /\ list \in S
    BY <1>1, <1>2
  <1>6. PICK g \in [0..n -> S] : g[0] = list /\ \A i \in 1..n : g[i] = F[i][g[i - 1]]
    <2>1. list \in S /\ n \in Nat /\ F \in Maps(n, S)
      BY <1>4, <1>5 DEF Maps
    <2>2. \E g \in [Turns(n) -> S] : Iterates(g, list, n, F)
      BY <2>1, Iterated
    <2> QED BY <2>2 DEF Iterates, Turns
  <1>7. \A i \in 1..n : F[i][g[i - 1]] = IF isNews(prev, fresh[i])
                                          THEN addNotification(g[i - 1], fresh[i]) ELSE g[i - 1]
    <2>1. \A i \in 1..n : g[i - 1] \in S
      BY <1>5
    <2> QED BY <1>3, <2>1
  <1>8. g = [i \in 0..n |-> IF i = 0 THEN list
                            ELSE IF isNews(prev, fresh[i])
                                 THEN addNotification(g[i - 1], fresh[i])
                                 ELSE g[i - 1]]
    <2>1. \A i \in 0..n : i # 0 => i \in 1..n
      BY <1>5
    <2>2. DOMAIN g = 0..n
      OBVIOUS
    <2> QED BY <1>6, <1>7, <2>1, <2>2
  <1> QED BY <1>1, <1>8, Zenon DEF told

\* A poll's notifications are about rows of its answer that are news.
LEMMA TellKeeps ==
    ASSUME NEW H, NEW list \in Seq(H), Len(list) <= MAX_NOTIFICATIONS,
           NEW prev, NEW fresh, Len(fresh) \in Nat,
           \A i \in 1..Len(fresh) : isNews(prev, fresh[i]) => Announcement(fresh[i]) \in H
    PROVE  /\ tell(list, prev, fresh) \in Seq(H)
           /\ Len(tell(list, prev, fresh)) <= MAX_NOTIFICATIONS
  <1>1. PICK n, t : n = Len(fresh) /\ t = told(list, prev, fresh)
    OBVIOUS
  <1>2. t = [i \in 0..n |-> IF i = 0 THEN list
                            ELSE IF isNews(prev, fresh[i])
                                 THEN addNotification(t[i - 1], fresh[i])
                                 ELSE t[i - 1]]
    BY <1>1, Told
  <1> DEFINE Bad == {k \in 0..n : ~(t[k] \in Seq(H) /\ Len(t[k]) <= MAX_NOTIFICATIONS)}
  <1>3. SUFFICES Bad = {}
    <2>1. n \in 0..n
      BY <1>1
    <2> QED BY <1>1, <2>1 DEF tell
  <1>4. SUFFICES ASSUME Bad # {} PROVE FALSE
    OBVIOUS
  <1>5. PICK k \in Bad : \A j \in Bad : k <= j
    <2>1. Bad \subseteq Nat
      BY <1>1
    <2> HIDE DEF Bad
    <2> QED BY <1>4, <2>1, Least
  <1>6. k \in 0..n /\ n \in Nat /\ ~(t[k] \in Seq(H) /\ Len(t[k]) <= MAX_NOTIFICATIONS)
    BY <1>1, <1>5
  <1>7. k # 0
    <2>1. CASE k = 0
      <3>1. t[0] = list
        BY <1>2, <1>6, <2>1
      <3> QED BY <3>1, <1>6, <2>1
    <2> QED BY <2>1
  <1>8. k \in 1..n /\ t[k - 1] \in Seq(H) /\ Len(t[k - 1]) <= MAX_NOTIFICATIONS
    <2>1. k \in 1..n /\ k - 1 \in 0..n /\ ~(k <= k - 1)
      BY <1>6, <1>7
    <2>2. k - 1 \notin Bad
      BY <1>5, <2>1
    <2> QED BY <2>1, <2>2
  <1>9. t[k] = IF isNews(prev, fresh[k]) THEN addNotification(t[k - 1], fresh[k]) ELSE t[k - 1]
    BY <1>2, <1>6, <1>7
  <1>10. CASE isNews(prev, fresh[k])
    <2>1. Announcement(fresh[k]) \in H
      BY <1>1, <1>8, <1>10
    <2>2. PICK l \in Seq(H) : l = t[k - 1]
      BY <1>8
    <2>3. addNotification(l, fresh[k]) \in Seq(H) /\ Len(addNotification(l, fresh[k])) <= MAX_NOTIFICATIONS
      BY <2>1, Added
    <2> QED BY <1>6, <1>9, <1>10, <2>2, <2>3
  <1>11. CASE ~isNews(prev, fresh[k])
    BY <1>6, <1>8, <1>9, <1>11
  <1> QED BY <1>10, <1>11

LEMMA MarkKeeps ==
    ASSUME NEW list \in Seq(Notifications)
    PROVE  /\ markAllRead(list) \in Seq(Notifications) /\ Len(markAllRead(list)) = Len(list)
           /\ \A i \in DOMAIN list : /\ markAllRead(list)[i].doc = list[i].doc
                                     /\ markAllRead(list)[i].status = list[i].status
  <1>1. \A i \in 1..Len(list) : list[i] \in Notifications
    OBVIOUS
  <1>2. \A i \in 1..Len(list) :
           /\ [list[i] EXCEPT !.read = TRUE] \in Notifications
           /\ [list[i] EXCEPT !.read = TRUE].doc = list[i].doc
           /\ [list[i] EXCEPT !.read = TRUE].status = list[i].status
    BY <1>1 DEF Notifications
  <1>3. DOMAIN list = 1..Len(list) /\ Len(list) \in Nat
    OBVIOUS
  <1>4. markAllRead(list) = [i \in 1..Len(list) |-> [list[i] EXCEPT !.read = TRUE]]
    BY <1>3 DEF markAllRead
  <1>5. markAllRead(list) \in Seq(Notifications) /\ Len(markAllRead(list)) = Len(list)
    BY <1>2, <1>3, <1>4
  <1> QED BY <1>2, <1>3, <1>4, <1>5

----------------------------------------------------------------------------
(* What the server holds                                                   *)

\* prevById finds the one row of a document.
LEMMA OneRow ==
    ASSUME NEW rows \in Seq(Rows), IsInjective([i \in DOMAIN rows |-> rows[i].id]),
           NEW k \in DOMAIN rows
    PROVE  prevById(rows, rows[k].id) = rows[k].status
  <1> DEFINE I == {i \in 1..Len(rows) : rows[i].id = rows[k].id}
  <1>1. DOMAIN rows = 1..Len(rows) /\ Len(rows) \in Nat
    OBVIOUS
  <1>2. I = {k}
    BY <1>1 DEF IsInjective
  <1>3. Max(I) = k
    <2>1. k \in Int
      BY <1>1
    <2> QED BY <1>2, <2>1 DEF Max
  <1>4. SelectLastInSeq(rows, LAMBDA row : row.id = rows[k].id) = k
    BY <1>2, <1>3 DEF SelectLastInSeq
  <1>5. rows[k].id \in Ids(rows)
    BY DEF Ids
  <1> QED BY <1>4, <1>5 DEF prevById

\* The server decided so about document d.
Happened(rows, d, decision) ==
    \E i \in DOMAIN rows : rows[i] = [id |-> d, status |-> decision]

\* What a poll or a load was told of decisions.
DecidedRows(rows, known) ==
    \A i \in DOMAIN known : known[i].status \in Decisions =>
                              Happened(rows, known[i].id, known[i].status)

UniqueIds(rows) == IsInjective([i \in DOMAIN rows |-> rows[i].id])

LEMMA Snapshot ==
    ASSUME NEW rows \in Seq(Rows)
    PROVE  DecidedRows(rows, rows)
  <1>1. ASSUME NEW i \in DOMAIN rows PROVE rows[i] = [id |-> rows[i].id, status |-> rows[i].status]
    <2>1. rows[i] \in Rows
      OBVIOUS
    <2> QED BY <2>1 DEF Rows
  <1> QED BY <1>1 DEF DecidedRows, Happened

\* Decisions are final: what happened in rows happened in new.
DecisionsStay(rows, new) ==
    \A d \in Docs, decision \in Decisions : Happened(rows, d, decision) => Happened(new, d, decision)

LEMMA CreateKeeps ==
    ASSUME NEW rows \in Seq(Rows), UniqueIds(rows), NEW d \in Docs, d \notin Ids(rows),
           NEW new, new = <<[id |-> d, status |-> "pending"]>> \o rows
    PROVE  new \in Seq(Rows) /\ UniqueIds(new) /\ DecisionsStay(rows, new)
  <1>1. PICK row \in Rows : row = [id |-> d, status |-> "pending"]
    BY DEF Rows
  <1>2. new = <<row>> \o rows /\ Len(rows) \in Nat /\ DOMAIN rows = 1..Len(rows)
    BY <1>1
  <1>3. /\ new \in Seq(Rows) /\ Len(new) = Len(rows) + 1 /\ DOMAIN new = 1..Len(rows) + 1
        /\ new[1] = row /\ \A i \in 2..Len(rows) + 1 : new[i] = rows[i - 1]
    BY <1>2
  <1>4. UniqueIds(new)
    <2>1. SUFFICES ASSUME NEW i \in DOMAIN new, NEW j \in DOMAIN new, new[i].id = new[j].id
                   PROVE  i = j
      BY DEF UniqueIds, IsInjective
    <2>2. \A k \in DOMAIN rows : rows[k].id # d
      BY DEF Ids
    <2>3. \A k, l \in DOMAIN rows : rows[k].id = rows[l].id => k = l
      BY DEF UniqueIds, IsInjective
    <2>4. new[1].id = d
      BY <1>1, <1>3
    <2>5. \A k \in DOMAIN new : k = 1 \/ (k \in 2..Len(rows) + 1 /\ k - 1 \in DOMAIN rows)
      BY <1>2, <1>3
    <2>6. CASE i = 1 /\ j # 1
      BY <2>1, <2>2, <2>4, <2>5, <2>6, <1>3
    <2>7. CASE j = 1 /\ i # 1
      BY <2>1, <2>2, <2>4, <2>5, <2>7, <1>3
    <2>8. CASE i # 1 /\ j # 1
      <3>1. rows[i - 1].id = rows[j - 1].id /\ i - 1 \in DOMAIN rows /\ j - 1 \in DOMAIN rows
        BY <2>1, <2>5, <2>8, <1>3
      <3>2. i - 1 = j - 1 /\ i \in Int /\ j \in Int
        BY <3>1, <2>3, <1>2, <1>3
      <3> QED BY <3>2
    <2> QED BY <2>6, <2>7, <2>8
  <1>5. \A k \in DOMAIN rows : k + 1 \in DOMAIN new /\ new[k + 1] = rows[k]
    BY <1>2, <1>3
  <1>6. DecisionsStay(rows, new)
    BY <1>5 DEF DecisionsStay, Happened
  <1> QED BY <1>3, <1>4, <1>6

LEMMA DecisionKeeps ==
    ASSUME NEW rows \in Seq(Rows), UniqueIds(rows), NEW i \in DOMAIN rows, rows[i].status = "pending",
           NEW decision \in Decisions, NEW new, new = [rows EXCEPT ![i].status = decision]
    PROVE  new \in Seq(Rows) /\ UniqueIds(new) /\ DecisionsStay(rows, new)
  <1>1. Len(rows) \in Nat /\ DOMAIN rows = 1..Len(rows) /\ \A k \in DOMAIN rows : rows[k] \in Rows
    OBVIOUS
  <1>2. PICK row : row = [rows[i] EXCEPT !.status = decision]
    OBVIOUS
  <1>3. row \in Rows /\ row.id = rows[i].id
    BY <1>1, <1>2 DEF Rows
  <1>4. new = [rows EXCEPT ![i] = row]
    BY <1>2
  <1>5. /\ new \in Seq(Rows) /\ DOMAIN new = DOMAIN rows
        /\ \A k \in DOMAIN rows : new[k] = IF k = i THEN row ELSE rows[k]
    <2>1. DOMAIN new = DOMAIN rows /\ \A k \in DOMAIN rows : new[k] = IF k = i THEN row ELSE rows[k]
      BY <1>4
    <2>2. new = [k \in 1..Len(rows) |-> IF k = i THEN row ELSE rows[k]]
      BY <1>1, <1>4
    <2>3. \A k \in 1..Len(rows) : (IF k = i THEN row ELSE rows[k]) \in Rows
      BY <1>1, <1>3
    <2>4. new \in [1..Len(rows) -> Rows]
      BY <2>2, <2>3
    <2>5. new \in Seq(Rows)
      BY <1>1, <2>4
    <2> QED BY <2>1, <2>5
  <1>6. \A k \in DOMAIN rows : new[k].id = rows[k].id
    BY <1>3, <1>5
  <1>7. UniqueIds(new)
    BY <1>5, <1>6 DEF UniqueIds, IsInjective
  <1>8. \A k \in DOMAIN rows : rows[k].status \in Decisions => new[k] = rows[k]
    BY <1>5
  <1>9. DecisionsStay(rows, new)
    BY <1>5, <1>8 DEF DecisionsStay, Happened
  <1> QED BY <1>5, <1>7, <1>9

----------------------------------------------------------------------------
(* The inductive invariant.  A decided row that travels to the page, and a  *)
(* notification, states a decision that is final on the server.  It need    *)
(* not be said of the rows the page shows: they only serve to tell what is  *)
(* news.                                                                    *)
RefreshesOK ==
    refreshes \in [Refreshes -> [call : {"idle", "sent", "ok"}, data : Seq(Rows)]]

UploadOK ==
    /\ upload.call \in {"idle", "sent", "ok", "failed", "unauthorized"}
    /\ upload.call = "ok" => upload.created \in Docs

AnswersHappened == \A x \in Refreshes : DecidedRows(server, refreshes[x].data)

\* The notifications that are true.
TrueNotifications(rows) == {n \in Notifications : n.status \in Decisions /\ Happened(rows, n.doc, n.status)}

NInv ==
    /\ server \in Seq(Rows) /\ UniqueIds(server)
    /\ docs \in Seq(Rows)
    /\ mounted \in BOOLEAN
    /\ UploadOK
    /\ RefreshesOK /\ AnswersHappened
    /\ notifications \in Seq(TrueNotifications(server)) /\ Len(notifications) <= MAX_NOTIFICATIONS

LEMMA NInvImplies ==
    ASSUME NInv
    PROVE  NotificationsTrue
  <1>1. TypeOK
    <2>1. \A x \in Refreshes : refreshes[x].call \in {"idle", "sent", "ok"} /\ refreshes[x].data \in Seq(Rows)
      BY DEF NInv, RefreshesOK
    <2>2. notifications \in Seq(Notifications)
      <3>1. TrueNotifications(server) \subseteq Notifications
        BY DEF TrueNotifications
      <3>2. notifications \in Seq(TrueNotifications(server))
        BY DEF NInv
      <3> HIDE DEF Notifications
      <3> QED BY <3>1, <3>2
    <2> QED BY <2>1, <2>2 DEF NInv, TypeOK, UniqueIds, UploadOK
  <1>2. ASSUME NEW i \in DOMAIN notifications
        PROVE  notifications[i].status = StatusOnServer(notifications[i].doc)
    <2>1. notifications[i] \in TrueNotifications(server)
      BY DEF NInv
    <2>2. PICK n : n = notifications[i]
      OBVIOUS
    <2>3. PICK k \in DOMAIN server : server[k] = [id |-> n.doc, status |-> n.status]
      BY <2>1, <2>2 DEF TrueNotifications, Happened
    <2>4. prevById(server, server[k].id) = server[k].status
      BY OneRow DEF NInv, UniqueIds
    <2> QED BY <2>2, <2>3, <2>4 DEF StatusOnServer
  <1> QED BY <1>1, <1>2 DEF NotificationsTrue

LEMMA EmptyIsTyped ==
    /\ << >> \in Seq(Rows)
    /\ \A rows : DecidedRows(rows, << >>)
    /\ \A H : << >> \in Seq(H)
    /\ Len(<< >>) <= MAX_NOTIFICATIONS
    /\ NoRefresh \in [call : {"idle", "sent", "ok"}, data : Seq(Rows)]
    /\ NoRefresh.data = << >> /\ [NoRefresh EXCEPT !.call = "sent"].data = << >>
    /\ [NoRefresh EXCEPT !.call = "sent"] \in [call : {"idle", "sent", "ok"}, data : Seq(Rows)]
    /\ NoUpload.call = "idle"
  <1>1. << >> \in Seq(Rows) /\ Len(<< >>) <= MAX_NOTIFICATIONS
    OBVIOUS
  <1>2. \A H : << >> \in Seq(H)
    OBVIOUS
  <1>3. \A rows : DecidedRows(rows, << >>)
    <2>1. DOMAIN << >> = {}
      OBVIOUS
    <2> QED BY <2>1 DEF DecidedRows
  <1>4. NoRefresh \in [call : {"idle", "sent", "ok"}, data : Seq(Rows)] /\ NoRefresh.data = << >>
    BY <1>1 DEF NoRefresh
  <1>5. [NoRefresh EXCEPT !.call = "sent"] = [call |-> "sent", data |-> << >>]
    BY DEF NoRefresh
  <1>6. NoUpload.call = "idle"
    BY DEF NoUpload
  <1> QED BY <1>1, <1>2, <1>3, <1>4, <1>5, <1>6

LEMMA NInit ==
    ASSUME Init
    PROVE  NInv
  <1>1. server \in Seq(Rows) /\ UniqueIds(server)
    BY DEF Init, UniqueIds
  <1>2. RefreshesOK /\ AnswersHappened
    BY EmptyIsTyped DEF Init, RefreshesOK, AnswersHappened
  <1> QED BY <1>1, <1>2, EmptyIsTyped DEF Init, NInv, UploadOK

\* A change of the server that is final leaves true what was true.
LEMMA FinalKeeps ==
    ASSUME NEW rows \in Seq(Rows), NEW new \in Seq(Rows), DecisionsStay(rows, new)
    PROVE  /\ TrueNotifications(rows) \subseteq TrueNotifications(new)
           /\ \A known \in Seq(Rows) : DecidedRows(rows, known) => DecidedRows(new, known)
  <1>1. TrueNotifications(rows) \subseteq TrueNotifications(new)
    BY DEF TrueNotifications, Notifications, DecisionsStay
  <1>2. ASSUME NEW known \in Seq(Rows), DecidedRows(rows, known), NEW i \in DOMAIN known,
               known[i].status \in Decisions
        PROVE  Happened(new, known[i].id, known[i].status)
    <2>1. known[i] \in Rows
      OBVIOUS
    <2>2. known[i].id \in Docs
      BY <2>1 DEF Rows
    <2> QED BY <1>2, <2>2 DEF DecidedRows, DecisionsStay
  <1> QED BY <1>1, <1>2 DEF DecidedRows

\* The server's part of the invariant, when another row is created or decided.
LEMMA ServerMoves ==
    ASSUME NInv, NEW new \in Seq(Rows), UniqueIds(new), DecisionsStay(server, new), server' = new,
           UNCHANGED <<docs, mounted, refreshes, notifications>>, UploadOK'
    PROVE  NInv'
  <1>1. /\ TrueNotifications(server) \subseteq TrueNotifications(new)
        /\ \A known \in Seq(Rows) : DecidedRows(server, known) => DecidedRows(new, known)
    BY FinalKeeps DEF NInv
  <1>2. notifications' \in Seq(TrueNotifications(new))
    BY <1>1 DEF NInv
  <1>3. \A x \in Refreshes : refreshes[x].data \in Seq(Rows)
    BY DEF NInv, RefreshesOK
  <1>4. \A x \in Refreshes : DecidedRows(new, refreshes[x].data)
    BY <1>1, <1>3 DEF NInv, AnswersHappened
  <1>5. AnswersHappened'
    BY <1>4 DEF AnswersHappened
  <1>6. notifications' \in Seq(TrueNotifications(server'))
    BY <1>2
  <1>7. UniqueIds(server')
    OBVIOUS
  <1> QED BY <1>5, <1>6, <1>7 DEF NInv, RefreshesOK

----------------------------------------------------------------------------
(* The steps                                                               *)

\* The refreshes' part, when one of them is set to value.
LEMMA RefreshMoves ==
    ASSUME NInv, NEW x \in Refreshes,
           NEW value \in [call : {"idle", "sent", "ok"}, data : Seq(Rows)],
           DecidedRows(server, value.data),
           refreshes' = [refreshes EXCEPT ![x] = value], server' = server
    PROVE  RefreshesOK' /\ AnswersHappened'
  <1>1. RefreshesOK'
    BY DEF NInv, RefreshesOK
  <1>2. \A y \in Refreshes : refreshes'[y] = IF y = x THEN value ELSE refreshes[y]
    BY DEF NInv, RefreshesOK
  <1>3. \A y \in Refreshes : DecidedRows(server, refreshes'[y].data)
    BY <1>2 DEF NInv, AnswersHappened
  <1>4. AnswersHappened'
    BY <1>3 DEF AnswersHappened
  <1> QED BY <1>1, <1>4

LEMMA StartLoadMoves ==
    ASSUME NInv, NEW x \in Refreshes, StartLoad(x), server' = server
    PROVE  RefreshesOK' /\ AnswersHappened'
  <1>1. PICK value : value = [refreshes[x] EXCEPT !.call = "sent"]
    OBVIOUS
  <1>2. refreshes[x] \in [call : {"idle", "sent", "ok"}, data : Seq(Rows)] /\ DecidedRows(server, refreshes[x].data)
    BY DEF NInv, RefreshesOK, AnswersHappened
  <1>3. value \in [call : {"idle", "sent", "ok"}, data : Seq(Rows)] /\ value.data = refreshes[x].data
    BY <1>1, <1>2
  <1>4. refreshes' = [refreshes EXCEPT ![x] = value]
    BY <1>1 DEF StartLoad
  <1> QED BY <1>2, <1>3, <1>4, RefreshMoves

\* The rest of the invariant, by what a step leaves alone.
Rest == <<server, docs, mounted, upload, notifications>>

LEMMA OnlyRefreshes ==
    ASSUME NInv, UNCHANGED Rest, RefreshesOK', AnswersHappened'
    PROVE  NInv'
  <1>1. notifications' \in Seq(TrueNotifications(server'))
    BY DEF NInv, Rest
  <1> QED BY <1>1 DEF NInv, Rest, UploadOK, UniqueIds

LEMMA TickStep ==
    ASSUME NInv, NEW p \in Refreshes, Tick(p)
    PROVE  NInv'
  <1>1. RefreshesOK' /\ AnswersHappened'
    BY StartLoadMoves DEF Tick, StartLoad
  <1> QED BY <1>1, OnlyRefreshes DEF Tick, page, Rest

LEMMA ListStep ==
    ASSUME NInv, NEW x \in Refreshes, listMyDocuments(x)
    PROVE  NInv'
  <1>1. PICK value : value = [call |-> "ok", data |-> server]
    OBVIOUS
  <1>2. value \in [call : {"idle", "sent", "ok"}, data : Seq(Rows)] /\ value.data = server
    BY <1>1 DEF NInv
  <1>3. DecidedRows(server, value.data)
    BY <1>2, Snapshot DEF NInv
  <1>4. RefreshesOK' /\ AnswersHappened'
    BY <1>1, <1>2, <1>3, RefreshMoves DEF listMyDocuments
  <1> QED BY <1>4, OnlyRefreshes DEF listMyDocuments, page, Rest

LEMMA Reset ==
    ASSUME NInv, NEW x \in Refreshes, refreshes' = [refreshes EXCEPT ![x] = NoRefresh], server' = server
    PROVE  RefreshesOK' /\ AnswersHappened'
  BY EmptyIsTyped, RefreshMoves

LEMMA FailsStep ==
    ASSUME NInv, NEW x \in Refreshes, RefreshFails(x)
    PROVE  NInv'
  <1>1. RefreshesOK' /\ AnswersHappened'
    BY Reset DEF RefreshFails
  <1> QED BY <1>1, OnlyRefreshes DEF RefreshFails, page, Rest

\* A poll announces rows of its answer, and only those the server decided.
LEMMA PolledStep ==
    ASSUME NInv, NEW p \in Refreshes, Polled(p)
    PROVE  NInv'
  <1>1. RefreshesOK' /\ AnswersHappened'
    BY Reset DEF Polled
  <1>2. PICK fresh \in Seq(Rows) : fresh = refreshes[p].data
    BY DEF NInv, RefreshesOK
  <1>3. DecidedRows(server, fresh)
    BY <1>2 DEF NInv, AnswersHappened
  <1>4. \A i \in 1..Len(fresh) : isNews(docs, fresh[i]) => Announcement(fresh[i]) \in TrueNotifications(server)
    <2>1. SUFFICES ASSUME NEW i \in 1..Len(fresh), isNews(docs, fresh[i])
                   PROVE  Announcement(fresh[i]) \in TrueNotifications(server)
      OBVIOUS
    <2>2. fresh[i] \in Rows /\ fresh[i].status \in Decisions
      BY <2>1 DEF isNews
    <2>3. Happened(server, fresh[i].id, fresh[i].status)
      BY <1>3, <2>2 DEF DecidedRows
    <2> QED BY <2>2, <2>3 DEF Announcement, TrueNotifications, Notifications, Rows
  <1>5. PICK H : H = TrueNotifications(server)
    OBVIOUS
  <1>6. /\ tell(notifications, docs, fresh) \in Seq(H)
        /\ Len(tell(notifications, docs, fresh)) <= MAX_NOTIFICATIONS
    BY <1>4, <1>5, TellKeeps DEF NInv
  <1>7. server' = server /\ mounted' = mounted /\ upload' = upload
    BY DEF Polled
  <1>8. /\ docs' \in Seq(Rows)
        /\ notifications' \in Seq(H) /\ Len(notifications') <= MAX_NOTIFICATIONS
    <2>1. CASE changed(fresh, docs)
      BY <1>2, <1>6, <2>1 DEF Polled, NInv
    <2>2. CASE ~changed(fresh, docs)
      BY <1>2, <1>5, <2>2 DEF Polled, NInv
    <2> QED BY <2>1, <2>2
  <1>9. notifications' \in Seq(TrueNotifications(server'))
    BY <1>5, <1>7, <1>8
  <1> QED BY <1>1, <1>7, <1>8, <1>9 DEF NInv, UploadOK, UniqueIds

LEMMA LoadedStep ==
    ASSUME NInv, NEW l \in Refreshes, Loaded(l)
    PROVE  NInv'
  <1>1. RefreshesOK' /\ AnswersHappened'
    BY Reset DEF Loaded
  <1>2. docs' \in Seq(Rows)
    BY DEF Loaded, NInv, RefreshesOK
  <1>3. notifications' \in Seq(TrueNotifications(server'))
    BY DEF Loaded, NInv
  <1> QED BY <1>1, <1>2, <1>3 DEF NInv, Loaded, UploadOK, UniqueIds

LEMMA EndStep ==
    ASSUME NInv, EndSession, server' = server
    PROVE  NInv'
  <1>1. RefreshesOK' /\ AnswersHappened'
    BY EmptyIsTyped DEF EndSession, RefreshesOK, AnswersHappened
  <1>2. notifications' \in Seq(TrueNotifications(server')) /\ docs' \in Seq(Rows) /\ Len(notifications') <= MAX_NOTIFICATIONS
    BY EmptyIsTyped DEF EndSession
  <1>3. UploadOK'
    BY EmptyIsTyped DEF EndSession, UploadOK
  <1> QED BY <1>1, <1>2, <1>3 DEF NInv, EndSession, UniqueIds

LEMMA CreateStep ==
    ASSUME NInv, NEW d \in Docs, Create(d), UNCHANGED <<docs, mounted, refreshes, notifications>>, UploadOK'
    PROVE  NInv'
  <1>1. PICK new : new = <<[id |-> d, status |-> "pending"]>> \o server
    OBVIOUS
  <1>2. server' = new /\ d \notin Ids(server)
    BY <1>1 DEF Create
  <1>3. new \in Seq(Rows) /\ UniqueIds(new) /\ DecisionsStay(server, new)
    BY <1>1, <1>2, CreateKeeps DEF NInv
  <1> QED BY <1>2, <1>3, ServerMoves

LEMMA UploadsStep ==
    ASSUME NInv, handleSubmit \/ uploadDocument
    PROVE  NInv'
  <1>1. CASE UNCHANGED server
    <2>1. UploadOK'
      <3>1. CASE handleSubmit
        BY <3>1 DEF handleSubmit, UploadOK
      <3>2. CASE uploadDocument
        <4>1. server' = server => ~ \E d \in Docs : Create(d)
          <5>1. SUFFICES ASSUME NEW d \in Docs, Create(d), server' = server PROVE FALSE
            OBVIOUS
          <5>2. PICK row \in Rows : row = [id |-> d, status |-> "pending"]
            BY DEF Rows
          <5>3. server = <<row>> \o server
            BY <5>1, <5>2 DEF Create
          <5> QED BY <5>3 DEF NInv
        <4> QED BY <1>1, <3>2, <4>1 DEF uploadDocument, UploadOK
      <3> QED BY <3>1, <3>2
    <2>2. UNCHANGED <<docs, mounted, refreshes, notifications>>
      BY DEF handleSubmit, uploadDocument, page
    <2>3. DecisionsStay(server, server)
      BY DEF DecisionsStay
    <2> QED BY <1>1, <2>1, <2>2, <2>3, ServerMoves DEF NInv
  <1>2. CASE server' # server
    <2>1. PICK d \in Docs : /\ Create(d)
                            /\ \/ upload' = [call |-> "ok", created |-> d]
                               \/ upload' = [call |-> "failed"]
      BY <1>2 DEF handleSubmit, uploadDocument
    <2>2. UploadOK'
      BY <2>1 DEF UploadOK
    <2>3. UNCHANGED <<docs, mounted, refreshes, notifications>>
      BY <1>2 DEF handleSubmit, uploadDocument, page
    <2> QED BY <2>1, <2>2, <2>3, CreateStep
  <1> QED BY <1>1, <1>2

\* The created document is put on the list and a load is started.
LEMMA UploadedStep ==
    ASSUME NInv, Uploaded
    PROVE  NInv'
  <1>1. PICK row : row = [id |-> upload.created, status |-> "pending"]
    OBVIOUS
  <1>2. row \in Rows
    BY <1>1 DEF Uploaded, NInv, UploadOK, Rows
  <1>3. server' = server /\ mounted' = mounted /\ notifications' = notifications /\ UploadOK'
    BY EmptyIsTyped DEF Uploaded, UploadOK
  <1>4. docs' \in Seq(Rows) /\ RefreshesOK' /\ AnswersHappened'
    <2>1. CASE mounted
      <3>1. PICK k : k = (CHOOSE l \in Loads : Idle(l))
        OBVIOUS
      <3>2. k \in Refreshes /\ StartLoad(k)
        BY <2>1, <3>1 DEF Uploaded, Refreshes
      <3>3. docs' = <<row>> \o docs
        BY <1>1, <2>1 DEF Uploaded
      <3>4. docs' \in Seq(Rows)
        BY <1>2, <3>3 DEF NInv
      <3> QED BY <1>3, <3>2, <3>4, StartLoadMoves
    <2>2. CASE ~mounted
      <3>1. docs' = docs /\ refreshes' = refreshes
        BY <2>2 DEF Uploaded
      <3> QED BY <1>3, <3>1 DEF NInv, RefreshesOK, AnswersHappened
    <2> QED BY <2>1, <2>2
  <1>5. notifications' \in Seq(TrueNotifications(server'))
    BY <1>3 DEF NInv
  <1> QED BY <1>3, <1>4, <1>5 DEF NInv, UniqueIds

LEMMA UploadFailedStep ==
    ASSUME NInv, UploadFailed
    PROVE  NInv'
  <1>1. CASE EndSession /\ UNCHANGED server
    BY <1>1, EndStep
  <1>2. CASE upload' = NoUpload /\ UNCHANGED <<server, page, refreshes, notifications>>
    <2>1. UploadOK'
      BY <1>2, EmptyIsTyped DEF UploadOK
    <2>2. RefreshesOK' /\ AnswersHappened' /\ notifications' \in Seq(TrueNotifications(server'))
      BY <1>2 DEF NInv, RefreshesOK, AnswersHappened
    <2> QED BY <1>2, <2>1, <2>2 DEF NInv, page, UniqueIds
  <1> QED BY <1>1, <1>2 DEF UploadFailed

LEMMA OpenStep ==
    ASSUME NInv, handleOpen
    PROVE  NInv'
  <1>1. PICK list \in Seq(TrueNotifications(server)) : list = notifications
    BY DEF NInv
  <1>2. list \in Seq(Notifications)
    <2>1. TrueNotifications(server) \subseteq Notifications
      BY DEF TrueNotifications
    <2> QED BY <2>1, <1>1
  <1>3. PICK new \in Seq(Notifications) : new = markAllRead(list)
    BY <1>2, MarkKeeps
  <1>4. /\ Len(new) = Len(list)
        /\ \A i \in DOMAIN list : new[i].doc = list[i].doc /\ new[i].status = list[i].status
    BY <1>2, <1>3, MarkKeeps
  <1>5. \A i \in 1..Len(new) : new[i] \in TrueNotifications(server)
    <2>1. SUFFICES ASSUME NEW i \in 1..Len(new) PROVE new[i] \in TrueNotifications(server)
      OBVIOUS
    <2>2. i \in DOMAIN list /\ list[i] \in TrueNotifications(server) /\ new[i] \in Notifications
      BY <1>1, <1>3, <1>4
    <2> QED BY <1>4, <2>2 DEF TrueNotifications
  <1>6. new \in Seq(TrueNotifications(server))
    BY <1>3, <1>5
  <1>7. /\ UNCHANGED <<server, docs, mounted, upload, refreshes>>
        /\ notifications' = new
    BY <1>1, <1>3 DEF handleOpen, page
  <1>8. notifications' \in Seq(TrueNotifications(server')) /\ Len(notifications') <= MAX_NOTIFICATIONS
    BY <1>1, <1>4, <1>6, <1>7 DEF NInv
  <1>9. RefreshesOK' /\ AnswersHappened' /\ UploadOK' /\ UniqueIds(server')
    BY <1>7 DEF NInv, RefreshesOK, AnswersHappened, UploadOK
  <1> QED BY <1>7, <1>8, <1>9 DEF NInv

LEMMA LeaveStep ==
    ASSUME NInv, Leave
    PROVE  NInv'
  <1>1. UNCHANGED <<server, docs, upload, notifications>> /\ mounted' = FALSE
    BY DEF Leave
  <1>2. RefreshesOK' /\ AnswersHappened'
    <2>1. \A x \in Refreshes : refreshes'[x] \in {NoRefresh, refreshes[x]}
      BY DEF Leave
    <2>2. refreshes' \in [Refreshes -> [call : {"idle", "sent", "ok"}, data : Seq(Rows)]]
      BY <2>1, EmptyIsTyped DEF Leave, NInv, RefreshesOK
    <2>3. \A x \in Refreshes : DecidedRows(server, refreshes'[x].data)
      BY <2>1, EmptyIsTyped DEF NInv, AnswersHappened
    <2> QED BY <1>1, <2>2, <2>3 DEF RefreshesOK, AnswersHappened
  <1>3. notifications' \in Seq(TrueNotifications(server')) /\ UploadOK' /\ UniqueIds(server')
    BY <1>1 DEF NInv, UploadOK
  <1> QED BY <1>1, <1>2, <1>3 DEF NInv

LEMMA OthersStep ==
    ASSUME NInv, Others
    PROVE  NInv'
  <1>1. UNCHANGED <<docs, mounted, refreshes, notifications>> /\ upload' = upload
    BY DEF Others, page
  <1>2. UploadOK'
    BY <1>1 DEF NInv, UploadOK
  <1>3. CASE \E d \in Docs : Create(d)
    BY <1>1, <1>2, <1>3, CreateStep
  <1>4. CASE \E i \in DOMAIN server, decision \in Decisions :
               server[i].status = "pending" /\ server' = [server EXCEPT ![i].status = decision]
    <2>1. PICK i \in DOMAIN server, decision \in Decisions :
               server[i].status = "pending" /\ server' = [server EXCEPT ![i].status = decision]
      BY <1>4
    <2>2. PICK new : new = [server EXCEPT ![i].status = decision]
      OBVIOUS
    <2>3. new \in Seq(Rows) /\ UniqueIds(new) /\ DecisionsStay(server, new)
      BY <2>1, <2>2, DecisionKeeps DEF NInv
    <2> QED BY <1>1, <1>2, <2>1, <2>2, <2>3, ServerMoves
  <1> QED BY <1>3, <1>4 DEF Others

LEMMA NStep ==
    ASSUME NInv, [Next]_vars
    PROVE  NInv'
  <1>1. CASE UNCHANGED vars
    BY <1>1 DEF vars, NInv, RefreshesOK, AnswersHappened, UploadOK, UniqueIds
  <1>2. CASE \E x \in Refreshes : Tick(x) \/ Answer(x) \/ RefreshFails(x) \/ Unauthorized(x)
    <2>1. PICK x \in Refreshes : Tick(x) \/ Answer(x) \/ RefreshFails(x) \/ Unauthorized(x)
      BY <1>2
    <2> QED BY <2>1, TickStep, ListStep, PolledStep, LoadedStep, FailsStep, EndStep DEF Answer, Unauthorized
  <1>3. CASE handleSubmit \/ uploadDocument \/ Uploaded \/ UploadFailed
    BY <1>3, UploadsStep, UploadedStep, UploadFailedStep
  <1>4. CASE handleOpen \/ Leave \/ Others
    BY <1>4, OpenStep, LeaveStep, OthersStep
  <1> QED BY <1>1, <1>2, <1>3, <1>4 DEF Next

\* NotificationsTrue for any documents, polls, loads and bound on the list:
\* whatever order the answers arrive in, a notification of the page states a
\* decision that the server made.
THEOREM NotificationsAreTrue == Spec => []NotificationsTrue
  <1>1. Init => NInv
    BY NInit
  <1>2. NInv /\ [Next]_vars => NInv'
    BY NStep
  <1>3. NInv => NotificationsTrue
    BY NInvImplies
  <1> QED BY <1>1, <1>2, <1>3, PTL DEF Spec

----------------------------------------------------------------------------
(* The customer's server is the API: what others do to it in UserDashboard *)
(* covers all that the API's documents may do (DocumentService), as long   *)
(* as decisions are final, which they are with a live ledger.              *)
VARIABLE status

Service == INSTANCE DocumentService WITH Final <- TRUE

\* The list holds each document that there is, with its status.
Shows(rows, st) ==
    /\ \A d \in Docs : d \in Ids(rows) <=> st[d] # "none"
    /\ \A i \in DOMAIN rows : rows[i].status = st[rows[i].id]

\* A new document is put first.
LEMMA CreateShows ==
    ASSUME NEW rows \in Seq(Rows), NEW st \in [Docs -> Service!Statuses], Shows(rows, st),
           NEW d \in Docs, st[d] = "none",
           NEW new, new = <<[id |-> d, status |-> "pending"]>> \o rows
    PROVE  d \notin Ids(rows) /\ new \in Seq(Rows) /\ Shows(new, [st EXCEPT ![d] = "pending"])
  <1>1. PICK row \in Rows : row = [id |-> d, status |-> "pending"]
    BY DEF Rows
  <1>2. new = <<row>> \o rows /\ Len(rows) \in Nat /\ DOMAIN rows = 1..Len(rows)
    BY <1>1
  <1>3. /\ new \in Seq(Rows) /\ Len(new) = Len(rows) + 1 /\ DOMAIN new = 1..Len(rows) + 1
        /\ new[1] = row /\ \A i \in 2..Len(rows) + 1 : i - 1 \in DOMAIN rows /\ new[i] = rows[i - 1]
        /\ \A i \in DOMAIN rows : i + 1 \in DOMAIN new /\ new[i + 1] = rows[i]
    BY <1>2
  <1>4. \A i \in DOMAIN new : i = 1 \/ i \in 2..Len(rows) + 1
    BY <1>2, <1>3
  <1>5. Ids(new) = Ids(rows) \cup {d}
    <2>1. ASSUME NEW e \in Ids(rows) PROVE e \in Ids(new)
      <3>1. PICK k \in DOMAIN rows : e = rows[k].id
        BY DEF Ids
      <3>2. k + 1 \in DOMAIN new /\ new[k + 1].id = e
        BY <1>3, <3>1
      <3> QED BY <3>2 DEF Ids
    <2>2. d \in Ids(new)
      <3>1. 1 \in DOMAIN new /\ new[1].id = d
        BY <1>1, <1>2, <1>3
      <3> QED BY <3>1 DEF Ids
    <2>3. ASSUME NEW i \in DOMAIN new PROVE new[i].id \in Ids(rows) \cup {d}
      BY <1>1, <1>3, <1>4 DEF Ids
    <2> QED BY <2>1, <2>2, <2>3 DEF Ids
  <1>6. d \notin Ids(rows)
    BY DEF Shows
  <1>7. ASSUME NEW i \in DOMAIN new
        PROVE  new[i].status = [st EXCEPT ![d] = "pending"][new[i].id]
    <2>1. CASE i = 1
      BY <1>1, <1>3, <2>1
    <2>2. CASE i # 1
      <3>1. PICK j \in DOMAIN rows : new[i] = rows[j]
        BY <1>3, <1>4, <2>2
      <3>2. rows[j] \in Rows /\ rows[j].id \in Ids(rows)
        BY <1>2 DEF Ids
      <3>3. rows[j].id \in Docs /\ rows[j].id # d /\ rows[j].status = st[rows[j].id]
        BY <1>6, <3>2 DEF Rows, Shows
      <3> QED BY <3>1, <3>3
    <2> QED BY <2>1, <2>2
  <1> QED BY <1>3, <1>5, <1>6, <1>7 DEF Shows

\* A decision changes the document's one row.
LEMMA DecideShows ==
    ASSUME NEW rows \in Seq(Rows), UniqueIds(rows), NEW st \in [Docs -> Service!Statuses], Shows(rows, st),
           NEW i \in DOMAIN rows, rows[i].status = "pending", NEW decision \in Decisions,
           NEW new, new = [rows EXCEPT ![i].status = decision]
    PROVE  new \in Seq(Rows) /\ Shows(new, [st EXCEPT ![rows[i].id] = decision])
  <1>1. new \in Seq(Rows)
    BY DecisionKeeps
  <1>2. Len(rows) \in Nat /\ DOMAIN rows = 1..Len(rows) /\ \A k \in DOMAIN rows : rows[k] \in Rows
    OBVIOUS
  <1>3. PICK row : row = [rows[i] EXCEPT !.status = decision]
    OBVIOUS
  <1>4. row.id = rows[i].id /\ row.status = decision
    BY <1>2, <1>3 DEF Rows
  <1>5. new = [rows EXCEPT ![i] = row]
    BY <1>3
  <1>6. DOMAIN new = DOMAIN rows /\ \A k \in DOMAIN rows : new[k] = IF k = i THEN row ELSE rows[k]
    BY <1>5
  <1>7. \A k \in DOMAIN rows : new[k].id = rows[k].id /\ rows[k].id \in Docs
    BY <1>2, <1>4, <1>6 DEF Rows
  <1>8. Ids(new) = Ids(rows)
    BY <1>6, <1>7 DEF Ids
  <1>9. decision # "none" /\ rows[i].id \in Ids(rows)
    BY DEF Ids
  <1>10. ASSUME NEW k \in DOMAIN rows, k # i PROVE rows[k].id # rows[i].id
    BY <1>10 DEF UniqueIds, IsInjective
  <1>11. \A k \in DOMAIN new : new[k].status = [st EXCEPT ![rows[i].id] = decision][new[k].id]
    BY <1>4, <1>6, <1>7, <1>10 DEF Shows
  <1>12. \A e \in Docs : e \in Ids(new) <=> [st EXCEPT ![rows[i].id] = decision][e] # "none"
    BY <1>8, <1>9 DEF Shows
  <1> QED BY <1>1, <1>11, <1>12 DEF Shows

\* Whatever the API's documents do, there is a list that shows it, and to
\* which Others takes the server: a document is put first, or a pending one
\* is decided.
THEOREM OthersCoverTheService ==
    ASSUME NInv, status \in [Docs -> Service!Statuses], Shows(server, status), Service!Next
    PROVE  \E rows \in Seq(Rows) :
              /\ Shows(rows, status')
              /\ server' = rows /\ UNCHANGED <<page, upload, refreshes, notifications>> => Others
  <1>1. server \in Seq(Rows) /\ UniqueIds(server)
    BY DEF NInv
  <1>2. ASSUME NEW d \in Docs, Service!Create(d)
        PROVE  \E rows \in Seq(Rows) :
                  /\ Shows(rows, status')
                  /\ server' = rows /\ UNCHANGED <<page, upload, refreshes, notifications>> => Others
    <2>1. PICK rows : rows = <<[id |-> d, status |-> "pending"]>> \o server
      OBVIOUS
    <2>2. status[d] = "none" /\ status' = [status EXCEPT ![d] = "pending"]
      BY <1>2 DEF Service!Create
    <2>3. d \notin Ids(server) /\ rows \in Seq(Rows) /\ Shows(rows, status')
      BY <1>1, <2>1, <2>2, CreateShows
    <2> QED BY <2>1, <2>3 DEF Others, Create
  <1>3. ASSUME NEW d \in Docs, NEW decision \in Decisions, Service!Decide(d, decision)
        PROVE  \E rows \in Seq(Rows) :
                  /\ Shows(rows, status')
                  /\ server' = rows /\ UNCHANGED <<page, upload, refreshes, notifications>> => Others
    <2>1. status[d] = "pending" /\ status' = [status EXCEPT ![d] = decision]
      BY <1>3 DEF Service!Decide
    <2>2. PICK i \in DOMAIN server : server[i].id = d /\ server[i].status = "pending"
      BY <2>1 DEF Shows, Ids
    <2>3. PICK rows : rows = [server EXCEPT ![i].status = decision]
      OBVIOUS
    <2>4. rows \in Seq(Rows) /\ Shows(rows, status')
      BY <1>1, <2>1, <2>2, <2>3, DecideShows
    <2> QED BY <2>2, <2>3, <2>4 DEF Others
  <1> QED BY <1>2, <1>3 DEF Service!Next
=============================================================================
