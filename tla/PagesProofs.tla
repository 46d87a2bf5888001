---------------------------- MODULE PagesProofs ----------------------------
(***************************************************************************)
(* The pages, for any number of documents, denials, refreshes, requests    *)
(* and searches: what the signer's page sends is what was confirmed, a     *)
(* table shows each row on one page, and what the reading pages show under *)
(* a name is about it.                                                     *)
(***************************************************************************)
EXTENDS SignerDashboard, ReadingPages, FiniteSetTheorems, TLAPS

(* The undo window of the signer's page. *)

\* A running timer belongs to a denial that is neither undone nor sent, and
\* the UNDO button is there only while it runs.
Window ==
    /\ Expired(hook) => /\ hook.action \in Denials /\ denials[hook.action] \in Denial
                        /\ ~denials[hook.action].undone /\ denials[hook.action].sent = 0
    /\ mounted /\ CanUndo(hook) => Expired(hook)

UInv == TypeOK /\ UndoneNeverSent /\ CommitOnce /\ Window /\ HeldIsTimed

LEMMA UInit == Init => UInv
BY DEF Init, UInv, TypeOK, UndoneNeverSent, CommitOnce, Window, HeldIsTimed, InitHook, NoDenial,
   NoRefresh, Refreshes, Expired, CanUndo, Calls

\* What the invariant says of the hook's operations.
LEMMA HookTyped ==
    ASSUME UInv
    PROVE  /\ hook = [timers |-> hook.timers, action |-> hook.action, pending |-> hook.pending]
           /\ hook.timers \in 0..1 /\ hook.action \in Denials \cup {Nobody}
           /\ hook.pending \in {"none", "waiting", "committing"}
BY DEF UInv, TypeOK

\* A denial's request goes on; nothing else about the denial changes.
LEMMA CallKeeps ==
    ASSUME UInv, NEW n \in Denials, NEW c \in Calls, denials[n].call # "idle",
           denials' = [denials EXCEPT ![n].call = c]
    PROVE  /\ denials' \in [Denials -> Denial \cup {NoDenial}]
           /\ \A m \in Denials : /\ denials'[m].undone = denials[m].undone
                                 /\ denials'[m].sent = denials[m].sent
                                 /\ denials[m] \in Denial => denials'[m] \in Denial
<1>1. denials[n] \in Denial
  BY DEF UInv, TypeOK, NoDenial
<1>2. denials' = [denials EXCEPT ![n] = [denials[n] EXCEPT !.call = c]]
  OBVIOUS
<1>3. [denials[n] EXCEPT !.call = c] \in Denial
  BY <1>1 DEF Denial
<1> QED BY <1>1, <1>2, <1>3 DEF UInv, TypeOK, Denial

\* The page goes and takes its timers along.
LEMMA UnmountKeeps ==
    ASSUME UInv, Unmount
    PROVE  /\ docs' \subseteq Docs /\ mounted' \in BOOLEAN
           /\ selectedDoc' \in Docs \cup {Nobody} /\ denyDoc' \in Docs \cup {Nobody}
           /\ hook' \in [timers : 0..1, action : Denials \cup {Nobody},
                         pending : {"none", "waiting", "committing"}]
           /\ ~mounted' /\ ~Expired(hook')
<1>1. hook' = [timers |-> 0, action |-> hook.action, pending |-> hook.pending]
  BY HookTyped DEF Unmount, clearTimers
<1>2. hook' \in [timers : 0..1, action : Denials \cup {Nobody},
                 pending : {"none", "waiting", "committing"}]
  BY <1>1, HookTyped
<1>3. ~Expired(hook')
  BY <1>1 DEF Expired
<1>4. docs' = {} /\ mounted' = FALSE /\ selectedDoc' = Nobody /\ denyDoc' = Nobody
  BY DEF Unmount
<1> QED BY <1>2, <1>3, <1>4

\* The variables of the page are well-formed.
PageTyped ==
    /\ docs \subseteq Docs /\ mounted \in BOOLEAN
    /\ selectedDoc \in Docs \cup {Nobody} /\ denyDoc \in Docs \cup {Nobody}
    /\ hook \in [timers : 0..1, action : Denials \cup {Nobody},
                 pending : {"none", "waiting", "committing"}]
RestTyped ==
    /\ server \in [Docs -> {"absent", "pending", "handled"}]
    /\ signing \in [doc : Docs \cup {Nobody}, call : Calls]
    /\ polls \in [Refreshes -> [call : {"idle", "sent", "ok"}, seen : SUBSET Docs]]

\* A step preserves the invariant that starts no timer and neither sends nor
\* undoes a denial, if it leaves the page or keeps the hook's timer.
LEMMA OtherKeeps ==
    ASSUME UInv, PageTyped', RestTyped',
           denials' \in [Denials -> Denial \cup {NoDenial}],
           \A m \in Denials : /\ denials'[m].undone = denials[m].undone
                              /\ denials'[m].sent = denials[m].sent
                              /\ denials[m] \in Denial => denials'[m] \in Denial,
           \/ ~mounted' /\ ~Expired(hook')
           \/ /\ mounted' = mounted /\ hook'.timers = hook.timers /\ hook'.action = hook.action
              /\ hook'.pending \in {hook.pending, "none"}
    PROVE  UInv'
<1>1. TypeOK'
  BY DEF TypeOK, PageTyped, RestTyped
<1>2. UndoneNeverSent' /\ CommitOnce'
  BY DEF UInv, UndoneNeverSent, CommitOnce
<1>3. Window'
  BY DEF UInv, Window, Expired, CanUndo
<1>4. HeldIsTimed'
  BY DEF UInv, HeldIsTimed, Expired, PageTyped
<1> QED BY <1>1, <1>2, <1>3, <1>4 DEF UInv

LEMMA SameDenials ==
    ASSUME UInv, denials' = denials
    PROVE  /\ denials' \in [Denials -> Denial \cup {NoDenial}]
           /\ \A m \in Denials : /\ denials'[m].undone = denials[m].undone
                                 /\ denials'[m].sent = denials[m].sent
                                 /\ denials[m] \in Denial => denials'[m] \in Denial
BY DEF UInv, TypeOK

----------------------------------------------------------------------------
LEMMA RefreshKeeps ==
    ASSUME UInv, NEW p \in Refreshes, Tick(p) \/ pendingHandler(p) \/ Refreshed(p) \/ RefreshFails(p)
    PROVE  UInv'
<1>0. PageTyped /\ RestTyped /\ denials' = denials /\ server' = server /\ signing' = signing
  BY DEF UInv, TypeOK, PageTyped, RestTyped, Tick, pendingHandler, Refreshed, RefreshFails
<1>1. RestTyped'
  <2>1. polls' \in [Refreshes -> [call : {"idle", "sent", "ok"}, seen : SUBSET Docs]]
    BY <1>0 DEF RestTyped, Tick, pendingHandler, Refreshed, RefreshFails, PendingOnServer, NoRefresh
  <2> QED BY <1>0, <2>1 DEF RestTyped
<1>2. CASE Unmount
  BY <1>0, <1>1, <1>2, UnmountKeeps, SameDenials, OtherKeeps DEF PageTyped
<1>3. CASE ~Unmount
  <2>1. UNCHANGED <<mounted, selectedDoc, denyDoc, hook>> /\ docs' \subseteq Docs
    BY <1>0, <1>3 DEF Tick, pendingHandler, Refreshed, RefreshFails, page, RestTyped, PageTyped
  <2>2. PageTyped'
    BY <1>0, <2>1 DEF PageTyped
  <2> QED BY <1>0, <1>1, <2>1, <2>2, SameDenials, OtherKeeps
<1> QED BY <1>2, <1>3

\* Dialogs, signing and other people leave the denials alone.
LEMMA SigningKeeps ==
    ASSUME UInv,
           \/ \E d \in Docs : SelectSign(d) \/ SelectDeny(d) \/ Others(d)
           \/ handleConfirmSign \/ ServeSign \/ SignAnswered \/ CloseDialog \/ Leave
    PROVE  UInv'
<1>0. PageTyped /\ RestTyped /\ denials' = denials /\ polls' = polls
  BY DEF UInv, TypeOK, PageTyped, RestTyped, SelectSign, SelectDeny, Others, handleConfirmSign,
     ServeSign, SignAnswered, CloseDialog, Leave
<1>1. RestTyped'
  <2>1. server' \in [Docs -> {"absent", "pending", "handled"}]
    BY <1>0 DEF RestTyped, SelectSign, SelectDeny, Others, handleConfirmSign,
       ServeSign, Serve, SignAnswered, CloseDialog, Leave
  <2>2. signing' \in [doc : Docs \cup {Nobody}, call : Calls]
    <3>1. CASE handleConfirmSign \/ SignAnswered
      <4>1. "idle" \in Calls /\ "sent" \in Calls
        BY DEF Calls
      <4>2. \E d \in Docs \cup {Nobody}, c \in Calls : signing' = [doc |-> d, call |-> c]
        BY <1>0, <3>1, <4>1 DEF PageTyped, handleConfirmSign, SignAnswered
      <4> QED BY <4>2
    <3>2. CASE ServeSign
      <4>1. PICK c \in Calls : signing' = [signing EXCEPT !.call = c]
        BY <3>2 DEF ServeSign, Calls
      <4> QED BY <1>0, <4>1 DEF RestTyped
    <3>3. CASE signing' = signing
      BY <1>0, <3>3 DEF RestTyped
    <3> QED BY <3>1, <3>2, <3>3 DEF SelectSign, SelectDeny, Others, CloseDialog, Leave, page
  <2> QED BY <1>0, <2>1, <2>2 DEF RestTyped
<1>2. CASE Unmount
  BY <1>0, <1>1, <1>2, UnmountKeeps, SameDenials, OtherKeeps DEF PageTyped
<1>3. CASE ~Unmount
  <2>1. /\ UNCHANGED <<mounted, hook>> /\ docs' \subseteq Docs
        /\ selectedDoc' \in Docs \cup {Nobody} /\ denyDoc' \in Docs \cup {Nobody}
    BY <1>0, <1>3 DEF SelectSign, SelectDeny, Others, handleConfirmSign, ServeSign, SignAnswered,
       CloseDialog, Leave, page, PageTyped, Answers
  <2>2. PageTyped'
    BY <1>0, <2>1 DEF PageTyped
  <2> QED BY <1>0, <1>1, <2>1, <2>2, SameDenials, OtherKeeps
<1> QED BY <1>2, <1>3

\* A confirmed denial takes the window over.
LEMMA ConfirmKeeps ==
    ASSUME UInv, NEW n \in Denials, handleConfirmDeny(n)
    PROVE  UInv'
<1>0. /\ PageTyped /\ RestTyped /\ mounted' = mounted
      /\ UNCHANGED <<server, signing, polls, selectedDoc>>
  BY DEF UInv, TypeOK, PageTyped, RestTyped, handleConfirmDeny
<1> DEFINE new == [NoDenial EXCEPT !.doc = denyDoc]
<1>1. /\ denials' = [denials EXCEPT ![n] = new]
      /\ new \in Denial /\ new.sent = 0 /\ new.undone = FALSE
  <2>1. denyDoc \in Docs
    BY <1>0 DEF handleConfirmDeny, PageTyped
  <2>2. "idle" \in Calls /\ 0 \in 0..2 /\ FALSE \in BOOLEAN
    BY DEF Calls
  <2>3. new \in Denial /\ new.sent = 0 /\ new.undone = FALSE
    BY <2>1, <2>2 DEF Denial, NoDenial
  <2> QED BY <2>3 DEF handleConfirmDeny
<1> HIDE DEF new
<1>2. hook' = [timers |-> 1, action |-> n, pending |-> "waiting"]
  BY HookTyped DEF handleConfirmDeny, trigger, clearTimers
<1>3. denials' \in [Denials -> Denial \cup {NoDenial}] /\ denials'[n] = new
      /\ \A m \in Denials : m # n => denials'[m] = denials[m]
  BY <1>1 DEF UInv, TypeOK
<1>4. TypeOK'
  BY <1>0, <1>2, <1>3 DEF handleConfirmDeny, TypeOK, PageTyped, RestTyped
<1>5. UndoneNeverSent' /\ CommitOnce'
  BY <1>1, <1>3 DEF UInv, UndoneNeverSent, CommitOnce
<1>6. Window' /\ HeldIsTimed'
  BY <1>1, <1>2, <1>3 DEF Window, HeldIsTimed, Expired, CanUndo
<1> QED BY <1>4, <1>5, <1>6 DEF UInv

\* The denial that is undone has not been sent, and its timer is cleared.
LEMMA UndoKeeps ==
    ASSUME UInv, UndoClicked
    PROVE  UInv'
<1>0. PageTyped /\ RestTyped /\ UNCHANGED <<server, mounted, selectedDoc, denyDoc, signing, polls>>
  BY DEF UInv, TypeOK, PageTyped, RestTyped, UndoClicked
<1> DEFINE n == hook.action
           new == [denials[n] EXCEPT !.undone = TRUE]
<1>1. n \in Denials /\ denials[n] \in Denial /\ denials[n].sent = 0
  BY DEF UInv, Window, UndoClicked
<1>2. new \in Denial /\ new.sent = 0
  BY <1>1 DEF Denial
<1>3. denials' = [denials EXCEPT ![n] = new] /\ docs' = docs \cup {denials[n].doc}
  BY DEF UndoClicked, restoreDoc
<1> HIDE DEF new
<1>4. denials' \in [Denials -> Denial \cup {NoDenial}] /\ denials'[n] = new
      /\ \A m \in Denials : m # n => denials'[m] = denials[m]
  BY <1>1, <1>2, <1>3 DEF UInv, TypeOK
<1>5. hook' = [timers |-> 0, action |-> Nobody, pending |-> "none"]
  BY HookTyped DEF UndoClicked, undo, clearTimers
<1>6. TypeOK'
  BY <1>0, <1>1, <1>3, <1>4, <1>5 DEF TypeOK, PageTyped, RestTyped, Denial
<1>7. UndoneNeverSent' /\ CommitOnce'
  BY <1>2, <1>4 DEF UInv, UndoneNeverSent, CommitOnce
<1>8. Window' /\ HeldIsTimed'
  BY <1>5 DEF Window, HeldIsTimed, Expired, CanUndo
<1> QED BY <1>6, <1>7, <1>8 DEF UInv

\* What the timer commits has been neither undone nor sent.
LEMMA CommitKeeps ==
    ASSUME UInv, TimeIsUp
    PROVE  UInv'
<1>0. PageTyped /\ RestTyped /\ UNCHANGED <<server, docs, mounted, selectedDoc, denyDoc, signing, polls>>
  BY DEF UInv, TypeOK, PageTyped, RestTyped, TimeIsUp
<1> DEFINE n == hook.action
           new == [denials[n] EXCEPT !.call = "sent", !.sent = 1]
<1>1. n \in Denials /\ denials[n] \in Denial /\ denials[n].sent = 0 /\ ~denials[n].undone
  BY DEF UInv, Window, TimeIsUp
<1>2. new \in Denial /\ new.sent = 1 /\ new.undone = denials[n].undone
  <2>1. "sent" \in Calls /\ 1 \in 0..2
    BY DEF Calls
  <2> QED BY <1>1, <2>1 DEF Denial
<1>3. denials' = [denials EXCEPT ![n] = new]
  <2>1. denials' = [denials EXCEPT ![n] = [denials[n] EXCEPT !.call = "sent", !.sent = denials[n].sent + 1]]
    BY DEF TimeIsUp
  <2> QED BY <1>1, <2>1
<1> HIDE DEF new
<1>4. denials' \in [Denials -> Denial \cup {NoDenial}] /\ denials'[n] = new
      /\ \A m \in Denials : m # n => denials'[m] = denials[m]
  BY <1>1, <1>2, <1>3 DEF UInv, TypeOK
<1>5. hook' = [timers |-> 0, action |-> n,
               pending |-> IF hook.pending = "none" THEN "none" ELSE "committing"]
  <2>1. hook.timers = 1
    BY HookTyped DEF TimeIsUp, Expired
  <2>2. hook' = [hook EXCEPT !.timers = 0,
                             !.pending = IF hook.pending = "none" THEN "none" ELSE "committing"]
    BY <2>1 DEF TimeIsUp, startCommit
  <2> QED BY <2>2, HookTyped
<1>6. TypeOK'
  BY <1>0, <1>1, <1>4, <1>5 DEF TypeOK, PageTyped, RestTyped
<1>7. UndoneNeverSent' /\ CommitOnce'
  BY <1>1, <1>2, <1>4 DEF UInv, UndoneNeverSent, CommitOnce
<1>8. Window' /\ HeldIsTimed'
  BY <1>1, <1>2, <1>4, <1>5 DEF Window, HeldIsTimed, Expired, CanUndo
<1> QED BY <1>6, <1>7, <1>8 DEF UInv

LEMMA RejectKeeps ==
    ASSUME UInv, NEW n \in Denials, ServeReject(n) \/ RejectAnswered(n)
    PROVE  UInv'
<1>0. PageTyped /\ RestTyped /\ UNCHANGED <<signing, polls>>
  BY DEF UInv, TypeOK, PageTyped, RestTyped, ServeReject, RejectAnswered
<1>1. \E c \in Calls : denials[n].call # "idle" /\ denials' = [denials EXCEPT ![n].call = c]
  BY DEF ServeReject, RejectAnswered, Calls, Answers
<1>2. RestTyped'
  <2>1. server' \in [Docs -> {"absent", "pending", "handled"}]
    BY <1>0 DEF RestTyped, ServeReject, RejectAnswered, Serve
  <2> QED BY <1>0, <2>1 DEF RestTyped
<1>3. denials[n] \in Denial
  BY <1>1 DEF UInv, TypeOK, NoDenial
<1>4. CASE Unmount
  BY <1>0, <1>1, <1>2, <1>4, UnmountKeeps, CallKeeps, OtherKeeps DEF PageTyped
<1>5. CASE ~Unmount
  <2>1. /\ UNCHANGED <<mounted, selectedDoc, denyDoc>> /\ docs' \subseteq Docs
        /\ hook' = hook \/ hook' = endCommit(hook)
    BY <1>0, <1>3, <1>5 DEF ServeReject, RejectAnswered, restoreDoc, page, Answers, PageTyped, Denial
  <2>2. /\ hook'.timers = hook.timers /\ hook'.action = hook.action
        /\ hook'.pending \in {hook.pending, "none"}
        /\ hook' \in [timers : 0..1, action : Denials \cup {Nobody},
                      pending : {"none", "waiting", "committing"}]
    BY <1>0, <2>1 DEF endCommit, PageTyped
  <2>3. PageTyped'
    BY <1>0, <2>1, <2>2 DEF PageTyped
  <2> QED BY <1>0, <1>1, <1>2, <2>1, <2>2, <2>3, CallKeeps, OtherKeeps
<1> QED BY <1>4, <1>5

LEMMA UStep == UInv /\ [Next]_vars => UInv'
<1> SUFFICES ASSUME UInv, [Next]_vars PROVE UInv'
  OBVIOUS
<1>1. CASE UNCHANGED vars
  BY <1>1 DEF vars, UInv, TypeOK, UndoneNeverSent, CommitOnce, Window, HeldIsTimed
<1>2. CASE Next
  BY <1>2, RefreshKeeps, SigningKeeps, ConfirmKeeps, UndoKeeps, CommitKeeps, RejectKeeps DEF Next
<1> QED BY <1>1, <1>2

\* A confirmation sends at most one request, and none when it was undone; the
\* denial in the window is undone, sent, or has its timer, whatever windows
\* open, and earlier ones are answered, around it (useUndoableAction.js).
THEOREM DenialsAreSentAsConfirmed == Spec => []SentAsConfirmed
<1>1. UInv => SentAsConfirmed
  BY DEF UInv, SentAsConfirmed
<1> QED BY <1>1, UInit, UStep, PTL DEF Spec

----------------------------------------------------------------------------
(* The signer's server is the API: what others do to it in SignerDashboard *)
(* covers all that the API's documents may do (DocumentService), whether   *)
(* decisions are final or not.                                             *)
CONSTANT final
VARIABLE status

Service == INSTANCE DocumentService WITH Decisions <- {"signed", "rejected"}, Final <- final

\* The page tells decided documents from pending ones only.
Seen(s) == CASE s = "none" -> "absent" [] s = "pending" -> "pending" [] OTHER -> "handled"

ServerShows ==
    /\ status \in [Docs -> Service!Statuses]
    /\ server = [d \in Docs |-> Seen(status[d])]

\* Whatever the API's documents do while the page waits is something Others
\* does: a document appears or is decided, or one decision replaces another,
\* which the page cannot see.
THEOREM OthersCoverTheService ==
    ASSUME ServerShows, ServerShows', [Service!Next]_status,
           UNCHANGED <<page, denials, signing, polls>>
    PROVE  [\E d \in Docs : Others(d)]_vars
<1>1. CASE UNCHANGED status
  <2>1. server' = server
    BY <1>1 DEF ServerShows
  <2> QED BY <2>1 DEF vars, page
<1>2. ASSUME NEW d \in Docs, Service!Create(d) PROVE Others(d)
  <2>1. server[d] = "absent" /\ server' = [server EXCEPT ![d] = "pending"]
    BY <1>2 DEF ServerShows, Service!Create, Seen
  <2> QED BY <2>1 DEF Others
<1>3. ASSUME NEW d \in Docs, NEW decision \in {"signed", "rejected"}, Service!Decide(d, decision)
      PROVE  [Others(d)]_vars
  <2>1. server[d] \in {"pending", "handled"} /\ server' = [server EXCEPT ![d] = "handled"]
    BY <1>3 DEF ServerShows, Service!Decide, Seen
  <2>2. CASE server[d] = "pending"
    BY <2>1, <2>2 DEF Others
  <2>3. CASE server[d] = "handled"
    <3>1. server' = server
      BY <2>1, <2>3 DEF ServerShows
    <3> QED BY <3>1 DEF vars, page
  <2> QED BY <2>1, <2>2, <2>3
<1> QED BY <1>1, <1>2, <1>3 DEF Service!Next

----------------------------------------------------------------------------
(* The table: places and pages. *)

\* The rows before one, in the order the table is sorted by.
Before(S, up, d) == {e \in S : IF up THEN e < d ELSE e > d}

\* Of the rows in order, each has a place of its own, and no place is empty.
LEMMA Places ==
    ASSUME NEW S, S \subseteq Int, IsFiniteSet(S), NEW up \in BOOLEAN
    PROVE  /\ \A d \in S : Cardinality(Before(S, up, d)) \in 0 .. Cardinality(S) - 1
           /\ \A i \in 0 .. Cardinality(S) - 1 : \E d \in S : Cardinality(Before(S, up, d)) = i
<1> DEFINE n == Cardinality(S)
           T == 0 .. n - 1
           f == [d \in S |-> Cardinality(Before(S, up, d))]
<1>0. n \in Nat
  BY FS_CardinalityType
<1>1. ASSUME NEW d \in S
      PROVE  IsFiniteSet(Before(S, up, d)) /\ Cardinality(Before(S, up, d)) \in T
  <2>1. Before(S, up, d) \in SUBSET S /\ d \notin Before(S, up, d)
    BY DEF Before
  <2>2. Before(S, up, d) # S
    BY <2>1
  <2>3. IsFiniteSet(Before(S, up, d)) /\ Cardinality(Before(S, up, d)) <= n
        /\ Cardinality(Before(S, up, d)) # n
    BY <2>1, <2>2, FS_Subset
  <2>4. Cardinality(Before(S, up, d)) \in Nat
    BY <2>3, FS_CardinalityType
  <2> QED BY <1>0, <2>3, <2>4
<1>2. ASSUME NEW d \in S, NEW e \in S, IF up THEN d < e ELSE d > e
      PROVE  f[d] # f[e]
  <2>1. Before(S, up, d) \in SUBSET Before(S, up, e)
        /\ d \in Before(S, up, e) /\ d \notin Before(S, up, d)
    <3>1. ASSUME NEW x \in S, IF up THEN x < d ELSE x > d
          PROVE  IF up THEN x < e ELSE x > e
      <4>1. d \in Int /\ e \in Int /\ x \in Int
        OBVIOUS
      <4> QED BY <1>2, <3>1, <4>1
    <3>2. ~(IF up THEN d < d ELSE d > d)
      <4>1. d \in Int
        OBVIOUS
      <4> QED BY <4>1
    <3> QED BY <1>2, <3>1, <3>2, Zenon DEF Before
  <2> QED BY <1>1, <2>1, FS_Subset
<1>3. ASSUME NEW d \in S, NEW e \in S, d # e
      PROVE  f[d] # f[e]
  <2>1. d \in Int /\ e \in Int
    OBVIOUS
  <2>2. (IF up THEN d < e ELSE d > e) \/ (IF up THEN e < d ELSE e > d)
    BY <1>3, <2>1
  <2> HIDE DEF f
  <2> QED BY <1>2, <2>2
<1>4. IsFiniteSet(T) /\ Cardinality(T) = n
  <2>1. 0 \in Int /\ n - 1 \in Int
    BY <1>0
  <2>2. IsFiniteSet(T) /\ Cardinality(T) = IF 0 > n - 1 THEN 0 ELSE (n - 1) - 0 + 1
    BY <2>1, FS_Interval
  <2> QED BY <1>0, <2>2
<1>5. f \in [S -> T]
  BY <1>1
<1> HIDE DEF f
<1>6. f \in Injection(S, T)
  BY <1>3, <1>5 DEF Injection, IsInjective
<1>7. f \in Surjection(S, T)
  BY <1>4, <1>6, FS_Injection
<1>8. \A i \in T : \E d \in S : f[d] = i
  BY <1>7 DEF Surjection
<1> QED BY <1>1, <1>8 DEF f


\* The instance of FiniteSets in the table's module is the library's.
LEMMA TableCardinality == \A S : Table!Cardinality(S) = Cardinality(S)
BY DEF Table!Cardinality, Cardinality

\* The rows that match are finitely many, and one of them makes a page.
LEMMA Filtered ==
    ASSUME NEW r, NEW m \in Searches
    PROVE  /\ Table!filtered(r, m) \subseteq Int
           /\ IsFiniteSet(Table!filtered(r, m))
           /\ Cardinality(Table!filtered(r, m)) \in 0 .. Cardinality(Uploads)
           /\ Table!filtered(r, m) # {} => Cardinality(Table!filtered(r, m)) > 0
<1> DEFINE S == Table!filtered(r, m)
<1>1. S \in SUBSET Uploads
  BY PagesAssumption DEF PagesAssumption, Table!filtered
<1>2. Uploads \subseteq Int /\ IsFiniteSet(Uploads) /\ Cardinality(Uploads) \in Nat
  BY PagesAssumption, FS_CardinalityType DEF PagesAssumption
<1> HIDE DEF S
<1>3. IsFiniteSet(S) /\ Cardinality(S) <= Cardinality(Uploads)
  BY <1>1, <1>2, FS_Subset
<1>4. Cardinality(S) \in Nat /\ (Cardinality(S) = 0 <=> S = {})
  BY <1>3, FS_CardinalityType, FS_EmptySet
<1>5. S \subseteq Int /\ Cardinality(S) \in 0 .. Cardinality(Uploads)
  BY <1>1, <1>2, <1>3, <1>4
<1> QED BY <1>3, <1>4, <1>5 DEF S

\* What is on a page, by the places of the rows.
LEMMA OnPage ==
    ASSUME NEW r, NEW m, NEW up, NEW p, NEW size, NEW d \in Table!filtered(r, m)
    PROVE  d \in Table!pageItems(r, m, up, p, size) <=>
             Cardinality(Before(Table!filtered(r, m), up, d)) \in p * size .. p * size + size - 1
<1>1. Table!Place(r, m, up, d) = Cardinality(Before(Table!filtered(r, m), up, d))
  BY TableCardinality, Zenon DEF Table!Place, Before
<1> QED BY <1>1 DEF Table!pageItems

\* A page that begins before the end of the rows is not empty.
LEMMA PageHasRows ==
    ASSUME NEW r, NEW m \in Searches, NEW up \in BOOLEAN, NEW p \in Nat, NEW size \in Nat \ {0},
           p * size < Cardinality(Table!filtered(r, m))
    PROVE  Table!pageItems(r, m, up, p, size) # {}
<1> DEFINE S == Table!filtered(r, m)
<1>1. p * size \in Nat
  OBVIOUS
<1>2. p * size \in 0 .. Cardinality(S) - 1
  BY <1>1, Filtered
<1>3. PICK d \in S : Cardinality(Before(S, up, d)) = p * size
  BY <1>2, Filtered, Places
<1>4. p * size \in p * size .. p * size + size - 1
  BY <1>1
<1>5. d \in Table!pageItems(r, m, up, p, size)
  BY <1>3, <1>4, OnPage
<1> QED BY <1>5

\* A place is on one page, the quotient.
LEMMA Quotient ==
    ASSUME NEW i \in Nat, NEW size \in Nat \ {0}
    PROVE  \E p \in 0..i : \A q \in Nat : i \in q * size .. q * size + size - 1 <=> q = p
<1> DEFINE p == i \div size
<1>1. p \in Nat /\ p <= i
  BY SMTT(30)
<1>2. i = p * size + (i % size) /\ 0 <= i % size /\ i % size < size
  BY SMTT(30)
<1>3. p * size \in Nat /\ p * size <= i /\ i < p * size + size
  BY <1>1, <1>2
<1> HIDE DEF p
<1>4. ASSUME NEW q \in Nat, i \in q * size .. q * size + size - 1
      PROVE  q = p
  <2>1. q * size \in Nat
    OBVIOUS
  <2>2. CASE q < p
    <3>1. PICK k \in Nat : p = q + 1 + k
      BY <1>1, <2>2, p - q - 1 \in Nat
    <3>2. p * size = q * size + size + k * size /\ k * size \in Nat
      BY <3>1
    <3> QED BY <1>3, <1>4, <2>1, <3>2
  <2>3. CASE p < q
    <3>1. PICK k \in Nat : q = p + 1 + k
      BY <1>1, <2>3, q - p - 1 \in Nat
    <3>2. q * size = p * size + size + k * size /\ k * size \in Nat
      BY <1>1, <3>1
    <3> QED BY <1>3, <1>4, <3>2
  <2> QED BY <1>1, <2>2, <2>3
<1>5. i \in p * size .. p * size + size - 1
  BY <1>3
<1>6. \A q \in Nat : i \in q * size .. q * size + size - 1 <=> q = p
  BY <1>4, <1>5, Zenon
<1>7. p \in 0..i
  BY <1>1
<1> QED BY <1>6, <1>7, Zenon

\* Every row is on exactly one of the pages there are.
LEMMA OnePage ==
    ASSUME NEW r, NEW m \in Searches, NEW up \in BOOLEAN, NEW size \in Nat \ {0},
           NEW d \in Table!filtered(r, m)
    PROVE  \E p \in 0 .. Cardinality(Uploads) :
               /\ p * size < Cardinality(Table!filtered(r, m))
               /\ \A q \in 0 .. Cardinality(Uploads) :
                      d \in Table!pageItems(r, m, up, q, size) <=> q = p
<1> DEFINE S == Table!filtered(r, m)
           i == Cardinality(Before(S, up, d))
<1>1. i \in 0 .. Cardinality(S) - 1 /\ Cardinality(S) \in 0 .. Cardinality(Uploads)
  BY Filtered, Places
<1>2. Cardinality(Uploads) \in Nat
  BY PagesAssumption, FS_CardinalityType DEF PagesAssumption
<1>3. \A q \in Nat : d \in Table!pageItems(r, m, up, q, size)
                       <=> i \in q * size .. q * size + size - 1
  BY OnPage
<1> HIDE DEF i, S
<1>4. i \in Nat
  BY <1>1
<1>5. PICK p \in 0..i : \A q \in Nat : i \in q * size .. q * size + size - 1 <=> q = p
  BY <1>4, Quotient
<1>6. p \in 0 .. Cardinality(Uploads) /\ p \in Nat
  BY <1>1, <1>2, <1>5
<1>7. p * size < Cardinality(S)
  <2>1. i \in p * size .. p * size + size - 1 /\ p * size \in Nat
    BY <1>5, <1>6
  <2> QED BY <1>1, <1>2, <2>1
<1>8. \A q \in 0 .. Cardinality(Uploads) : d \in Table!pageItems(r, m, up, q, size) <=> q = p
  BY <1>2, <1>3, <1>5
<1> QED BY <1>6, <1>7, <1>8 DEF S

----------------------------------------------------------------------------
(* The table. *)

\* The page on screen begins before the end of the rows, if there are any.
PageFits ==
    Table!filtered(rows, match) # {} =>
        pageNo * rowsPerPage < Cardinality(Table!filtered(rows, match))

\* The table's inductive invariant.
TInv == Table!TypeOK /\ Table!RowsMirrorDocs /\ PageFits

\* The documents whose rows can be signed or denied.
Live(r) == {d \in Uploads : r[d] \in {"new", "shown"}}

\* A page that fits has rows, and the pages share the rows out.
LEMMA TablePromises == TInv => TableTrue
<1> SUFFICES ASSUME TInv PROVE TableTrue
  OBVIOUS
<1>1. /\ match \in Searches /\ ascending \in BOOLEAN /\ pageNo \in Nat
      /\ rowsPerPage \in Nat \ {0}
  <2>1. Cardinality(Uploads) \in Nat
    BY PagesAssumption, FS_CardinalityType DEF PagesAssumption
  <2> QED BY <2>1, PagesAssumption, TableCardinality DEF TInv, Table!TypeOK, PagesAssumption
<1>2. Table!PageNotEmpty
  <2> SUFFICES ASSUME Table!TableShown, Table!filtered(rows, match) # {} PROVE Table!Rendered # {}
    BY DEF Table!PageNotEmpty
  <2>1. Table!Rendered = Table!pageItems(rows, match, ascending, pageNo, rowsPerPage)
    BY DEF Table!Rendered, Table!TableShown
  <2> QED BY <1>1, <2>1, PageHasRows DEF TInv, PageFits
<1>3. Table!EachOnOnePage
  BY <1>1, OnePage, TableCardinality DEF Table!EachOnOnePage
<1> QED BY <1>2, <1>3 DEF TInv, TableTrue

\* An empty table fits.
LEMMA TableInit == Table!Init => TInv
<1> SUFFICES ASSUME Table!Init PROVE TInv
  OBVIOUS
<1>1. Table!TypeOK
  <2>1. Cardinality(Uploads) \in Nat
    BY PagesAssumption, FS_CardinalityType DEF PagesAssumption
  <2>2. 0 \in 0 .. Table!Cardinality(Uploads)
    BY <2>1, TableCardinality
  <2>3. Uploads \in Searches
    BY PagesAssumption DEF PagesAssumption
  <2> QED BY <2>2, <2>3 DEF Table!Init, Table!TypeOK, Table!RowStates
<1>2. Table!RowsMirrorDocs
  BY DEF Table!Init, Table!RowsMirrorDocs
<1>3. PageFits
  BY DEF Table!Init, PageFits, Table!filtered
<1> QED BY <1>1, <1>2, <1>3 DEF TInv

\* The rows change: the page is the old one or the first.
LEMMA RenderKeeps ==
    ASSUME TInv, NEW r \in [Uploads -> Table!RowStates], NEW m \in Searches, Table!Render(r, m)
    PROVE  /\ rows' \in [Uploads -> Table!RowStates] /\ match' \in Searches
           /\ pageNo' \in 0 .. Cardinality(Uploads)
           /\ UNCHANGED <<ascending, rowsPerPage>>
           /\ Live(rows') = Live(r)
           /\ PageFits'
<1>1. /\ match' = m /\ UNCHANGED <<ascending, rowsPerPage>>
      /\ pageNo' = Table!resetPage(r, m)
  BY DEF Table!Render
<1>2. /\ rows' \in [Uploads -> Table!RowStates]
      /\ \A d \in Uploads : rows'[d] = r[d] \/ (r[d] = "fading" /\ rows'[d] = "stuck")
  <2>1. "stuck" \in Table!RowStates
    BY DEF Table!RowStates
  <2> QED BY <2>1 DEF Table!Render
<1>3. Live(rows') = Live(r)
  BY <1>2 DEF Live
<1>4. Table!filtered(rows', match') = Table!filtered(r, m)
  <2>1. m \subseteq Uploads
    BY PagesAssumption DEF PagesAssumption
  <2> QED BY <1>1, <1>2, <2>1 DEF Table!filtered
<1>5. \/ pageNo' = 0
      \/ /\ pageNo' = pageNo
         /\ Cardinality(Table!filtered(r, m)) = Cardinality(Table!filtered(rows, match))
  BY <1>1, TableCardinality DEF Table!resetPage
<1>6. /\ rowsPerPage \in Nat \ {0} /\ match \in Searches /\ pageNo \in 0 .. Cardinality(Uploads)
      /\ Cardinality(Uploads) \in Nat
  BY PagesAssumption, FS_CardinalityType, TableCardinality DEF TInv, Table!TypeOK, PagesAssumption
<1>7. PageFits'
  <2> SUFFICES ASSUME Table!filtered(r, m) # {}
               PROVE  pageNo' * rowsPerPage < Cardinality(Table!filtered(r, m))
    BY <1>1, <1>4 DEF PageFits
  <2>1. Cardinality(Table!filtered(r, m)) \in Nat /\ Cardinality(Table!filtered(r, m)) > 0
    BY Filtered, <1>6
  <2>2. CASE pageNo' = 0
    BY <1>6, <2>1, <2>2
  <2>3. CASE pageNo' = pageNo /\ Cardinality(Table!filtered(r, m)) = Cardinality(Table!filtered(rows, match))
    <3>1. Table!filtered(rows, match) # {}
      BY <1>6, <2>1, <2>3, FS_EmptySet
    <3> QED BY <2>3, <3>1 DEF TInv, PageFits
  <2> QED BY <1>5, <2>2, <2>3
<1>8. pageNo' \in 0 .. Cardinality(Uploads)
  BY <1>5, <1>6
<1> QED BY <1>1, <1>2, <1>3, <1>7, <1>8

\* The rows stay: the new page begins before their end, too.
LEMMA TurnKeeps ==
    ASSUME TInv, NEW up \in BOOLEAN, NEW p \in 0 .. Cardinality(Uploads), NEW size \in Sizes,
           Table!filtered(rows, match) # {} =>
               p * size < Cardinality(Table!filtered(rows, match)),
           Table!Turn(up, p, size)
    PROVE  /\ rows' \in [Uploads -> Table!RowStates] /\ match' = match
           /\ pageNo' = p /\ ascending' = up /\ rowsPerPage' = size
           /\ Live(rows') = Live(rows)
           /\ PageFits'
<1>1. match' = match /\ pageNo' = p /\ ascending' = up /\ rowsPerPage' = size
  BY DEF Table!Turn
<1>2. /\ rows' \in [Uploads -> Table!RowStates]
      /\ \A d \in Uploads : rows'[d] = rows[d] \/ (rows[d] = "fading" /\ rows'[d] = "stuck")
  <2>1. "stuck" \in Table!RowStates
    BY DEF Table!RowStates
  <2> QED BY <2>1 DEF Table!Turn, TInv, Table!TypeOK
<1>3. Live(rows') = Live(rows)
  BY <1>2 DEF Live
<1>4. Table!filtered(rows', match') = Table!filtered(rows, match)
  <2>1. match \subseteq Uploads
    BY PagesAssumption DEF PagesAssumption, TInv, Table!TypeOK
  <2> QED BY <1>1, <1>2, <2>1 DEF Table!filtered
<1>5. PageFits'
  BY <1>1, <1>4 DEF PageFits
<1> QED BY <1>1, <1>2, <1>3, <1>5

\* The list changes: the rows that can be handled are those of the new list.
LEMMA IncomingKeeps ==
    ASSUME TInv, NEW D \in SUBSET Uploads, Table!Incoming(D)
    PROVE  /\ rows' \in [Uploads -> Table!RowStates] /\ match' \in Searches
           /\ pageNo' \in 0 .. Cardinality(Uploads)
           /\ UNCHANGED <<ascending, rowsPerPage>>
           /\ listed' = D /\ Live(rows') = D
           /\ PageFits'
<1> DEFINE r == [d \in Uploads |-> Table!nextRow(d, D)]
<1>1. listed' = D /\ Table!Render(r, match)
  BY DEF Table!Incoming
<1>2. ASSUME NEW d \in Uploads
      PROVE  /\ Table!nextRow(d, D) \in Table!RowStates
             /\ Table!nextRow(d, D) \in {"new", "shown"} <=> d \in D
  <2>1. rows[d] \in {"none", "new", "shown", "fading", "stuck"}
    BY DEF TInv, Table!TypeOK, Table!RowStates
  <2>2. CASE d \in D
    BY <2>1, <2>2 DEF Table!nextRow, Table!RowStates
  <2>3. CASE d \notin D
    BY <2>1, <2>3 DEF Table!nextRow, Table!RowStates
  <2> QED BY <2>2, <2>3
<1>3. r \in [Uploads -> Table!RowStates] /\ Live(r) = D
  BY <1>2 DEF Live
<1>4. match \in Searches
  BY DEF TInv, Table!TypeOK
<1> HIDE DEF r
<1> QED BY <1>1, <1>3, <1>4, RenderKeeps

\* What makes the invariant in the next state.
LEMMA TableKeeps ==
    ASSUME listed' \subseteq Uploads, tableLoading' \in BOOLEAN, tableError' \in BOOLEAN,
           rows' \in [Uploads -> Table!RowStates], match' \in Searches, ascending' \in BOOLEAN,
           visible' \in BOOLEAN, pageNo' \in 0 .. Cardinality(Uploads), rowsPerPage' \in Sizes,
           Live(rows') = listed', PageFits'
    PROVE  TInv'
<1>1. Table!TypeOK'
  BY TableCardinality DEF Table!TypeOK
<1>2. Table!RowsMirrorDocs'
  BY DEF Table!RowsMirrorDocs, Live
<1> QED BY <1>1, <1>2 DEF TInv

\* Lists, rows and the signer's choices keep the table true.
LEMMA TableStep == TInv /\ Table!Next => TInv'
<1> SUFFICES ASSUME TInv, Table!Next PROVE TInv'
  OBVIOUS
<1>0. /\ listed \subseteq Uploads /\ tableLoading \in BOOLEAN /\ tableError \in BOOLEAN
      /\ rows \in [Uploads -> Table!RowStates] /\ match \in Searches /\ ascending \in BOOLEAN
      /\ visible \in BOOLEAN /\ pageNo \in 0 .. Cardinality(Uploads) /\ rowsPerPage \in Sizes
      /\ Live(rows) = listed
  BY TableCardinality DEF TInv, Table!TypeOK, Table!RowsMirrorDocs, Live
<1>1. ASSUME NEW D \in SUBSET Uploads, Table!SetDocs(D) \/ Table!Load(D)
      PROVE  TInv'
  <2>1. Table!Incoming(D) /\ tableLoading' \in BOOLEAN /\ tableError' = tableError /\ visible' = visible
    BY <1>0, <1>1 DEF Table!SetDocs, Table!Load
  <2> QED BY <1>0, <2>1, IncomingKeeps, TableKeeps
<1>2. CASE Table!LoadFails \/ Table!SwitchTab
  <2>1. /\ UNCHANGED <<listed, rows, match, ascending, pageNo, rowsPerPage>>
        /\ tableLoading' \in BOOLEAN /\ tableError' \in BOOLEAN /\ visible' \in BOOLEAN
    BY <1>0, <1>2 DEF Table!LoadFails, Table!SwitchTab, Table!list, Table!view
  <2>2. PageFits'
    BY <2>1 DEF PageFits, TInv
  <2> QED BY <1>0, <2>1, <2>2, TableKeeps
<1>3. CASE Table!Frame
  <2>1. /\ UNCHANGED <<listed, tableLoading, tableError, match, ascending, pageNo, rowsPerPage, visible>>
        /\ rows' = [d \in Uploads |-> IF rows[d] = "new" THEN "shown" ELSE rows[d]]
    BY <1>3 DEF Table!Frame, Table!list, Table!view
  <2>2. rows' \in [Uploads -> Table!RowStates] /\ Live(rows') = Live(rows)
    BY <1>0, <2>1 DEF Table!RowStates, Live
  <2>3. Table!filtered(rows', match') = Table!filtered(rows, match)
    <3>1. match \subseteq Uploads
      BY <1>0, PagesAssumption DEF PagesAssumption
    <3> QED BY <2>1, <3>1 DEF Table!filtered
  <2>4. PageFits'
    BY <2>1, <2>3 DEF PageFits, TInv
  <2> QED BY <1>0, <2>1, <2>2, <2>4, TableKeeps
<1>4. CASE Table!ToggleSort
  <2>1. /\ Table!Turn(~ascending, pageNo, rowsPerPage)
        /\ UNCHANGED <<listed, tableLoading, tableError, visible>>
    BY <1>4 DEF Table!ToggleSort, Table!list
  <2>2. (~ascending) \in BOOLEAN
    OBVIOUS
  <2>3. /\ rows' \in [Uploads -> Table!RowStates] /\ match' = match /\ pageNo' = pageNo
        /\ ascending' = ~ascending /\ rowsPerPage' = rowsPerPage /\ Live(rows') = Live(rows) /\ PageFits'
    BY <1>0, <2>1, <2>2, TurnKeeps DEF TInv, PageFits
  <2> QED BY <1>0, <2>1, <2>2, <2>3, TableKeeps
<1>5. ASSUME NEW d \in Uploads, Table!FadeEnds(d) \/ Table!Hover(d)
      PROVE  TInv'
  <2>1. /\ Table!Render(Table!handleExited(d), match) /\ rows[d] \in {"fading", "stuck"}
        /\ UNCHANGED <<listed, tableLoading, tableError, visible>>
    BY <1>5 DEF Table!FadeEnds, Table!Hover, Table!list
  <2>2. Table!handleExited(d) \in [Uploads -> Table!RowStates] /\ Live(Table!handleExited(d)) = Live(rows)
    BY <1>0, <2>1 DEF Table!handleExited, Table!RowStates, Live
  <2> QED BY <1>0, <2>1, <2>2, RenderKeeps, TableKeeps
<1>6. ASSUME NEW m \in Searches, Table!Search(m)
      PROVE  TInv'
  <2>1. Table!Render(rows, m) /\ UNCHANGED <<listed, tableLoading, tableError, visible>>
    BY <1>6 DEF Table!Search, Table!list
  <2> QED BY <1>0, <2>1, RenderKeeps, TableKeeps
<1>7. ASSUME NEW p \in 0 .. Cardinality(Uploads), Table!ChangePage(p)
      PROVE  TInv'
  <2>1. /\ Table!Turn(ascending, p, rowsPerPage)
        /\ p * rowsPerPage < Cardinality(Table!filtered(rows, match))
        /\ UNCHANGED <<listed, tableLoading, tableError, visible>>
    BY <1>7, TableCardinality DEF Table!ChangePage, Table!list
  <2>2. /\ rows' \in [Uploads -> Table!RowStates] /\ match' = match /\ pageNo' = p
        /\ ascending' = ascending /\ rowsPerPage' = rowsPerPage /\ Live(rows') = Live(rows) /\ PageFits'
    BY <1>0, <2>1, TurnKeeps
  <2> QED BY <1>0, <2>1, <2>2, TableKeeps
<1>8. ASSUME NEW size \in Sizes, Table!handleChangeRowsPerPage(size)
      PROVE  TInv'
  <2>1. /\ Table!Turn(ascending, 0, size) /\ Table!filtered(rows, match) # {}
        /\ UNCHANGED <<listed, tableLoading, tableError, visible>>
    BY <1>8 DEF Table!handleChangeRowsPerPage, Table!list
  <2>2. 0 \in 0 .. Cardinality(Uploads) /\ size \in Nat \ {0}
    BY PagesAssumption, FS_CardinalityType DEF PagesAssumption
  <2>3. 0 * size < Cardinality(Table!filtered(rows, match))
    BY <1>0, <2>1, <2>2, Filtered
  <2>4. /\ rows' \in [Uploads -> Table!RowStates] /\ match' = match /\ pageNo' = 0
        /\ ascending' = ascending /\ rowsPerPage' = size /\ Live(rows') = Live(rows) /\ PageFits'
    BY <1>0, <2>1, <2>2, <2>3, TurnKeeps
  <2> QED BY <1>0, <2>1, <2>2, <2>4, TableKeeps
<1> QED BY <1>1, <1>2, <1>3, <1>4, <1>5, <1>6, <1>7, <1>8, TableCardinality DEF Table!Next

----------------------------------------------------------------------------
(* The lookups. *)

\* The latest request is about whom the page asks for.
LatestAsked ==
    \A c \in calls : c.id <= asks /\ (c.id = asks => subject \in {c.about, Nothing})

\* What has arrived, unless something was superseded, is that.
Current ==
    open /\ subject # Nothing /\ ~loading /\ ~error /\ ~superseded => shown = subject

\* Files are fetched by two of the pages, and for whom the page is about.
OwnFiles ==
    /\ view \notin {"review", "table"} => fetches = {} /\ file = Nothing
    /\ open /\ ~carried =>
         /\ subject = Nothing => fetches = {} /\ file = Nothing
         /\ subject # Nothing /\ ~superseded =>
              /\ \A c \in fetches : c.about = subject
              /\ file # Nothing => file.about = subject

\* Without an overlap nothing is shown while a file is on its way.
OneFetch ==
    open /\ ~overlapped => fetches = {} \/ (file = Nothing /\ \E c \in fetches : fetches = {c})

\* The inductive invariant of the lookups.
LInv == Lookup!TypeOK /\ LatestAsked /\ Current /\ OwnFiles /\ OneFetch /\ Lookup!UrlsReleased

\* What the invariant means on screen.
LEMMA LookupPromises ==
    LInv => Lookup!TypeOK /\ Lookup!ShownIsAsked /\ Lookup!PreviewIsOurs /\ Lookup!UrlsReleased
BY DEF LInv, Current, OwnFiles, Lookup!ShownIsAsked, Lookup!PreviewIsOurs,
       Lookup!ContentShown, Lookup!PreviewOpen

\* A page begins with one request, a dialog with none.
LEMMA LookupInit == Lookup!Init => LInv
<1> SUFFICES ASSUME Lookup!Init PROVE LInv
  OBVIOUS
<1>1. [id |-> 1, about |-> All] \in Lookup!Calls /\ 0 \in 0..MaxAsks /\ 1 \in 0..MaxAsks
      /\ 0 \in 0..MaxPreviews
  BY PagesAssumption DEF PagesAssumption, Lookup!Calls
<1>2. Lookup!TypeOK
  BY <1>1 DEF Lookup!Init, Lookup!TypeOK, Lookup!Targets
<1>3. LatestAsked
  BY DEF Lookup!Init, LatestAsked
<1>4. Current /\ OwnFiles /\ OneFetch /\ Lookup!UrlsReleased
  BY DEF Lookup!Init, Current, OwnFiles, OneFetch, Lookup!UrlsReleased, Lookup!Dialogs
<1> QED BY <1>2, <1>3, <1>4 DEF LInv

\* Asking: by a dialog that is opened, or by the audit trail, which has no previews.
LEMMA AskKeeps ==
    ASSUME LInv, NEW s \in Subjects \cup {All}, asks < MaxAsks, Lookup!load(s),
           UNCHANGED <<view, open>>, UNCHANGED Lookup!preview,
           open, subject = Nothing \/ view = "audit"
    PROVE  LInv'
<1>0. UNCHANGED <<view, open, shown, file, previewingId, fetches, fetched, urls, overlapped, carried>>
  BY DEF Lookup!preview, Lookup!load
<1>1. /\ subject' = s /\ loading' = TRUE /\ error' = FALSE /\ superseded' = FALSE
      /\ asks' = asks + 1 /\ calls' = calls \cup {[id |-> asks + 1, about |-> s]}
  BY DEF Lookup!load
<1>2. s # Nothing
  BY PagesAssumption DEF PagesAssumption
<1>3. asks \in Nat /\ asks + 1 \in 1..MaxAsks /\ asks + 1 \in 0..MaxAsks
  BY PagesAssumption DEF PagesAssumption, LInv, Lookup!TypeOK
<1>4. Lookup!TypeOK'
  <2>1. [id |-> asks + 1, about |-> s] \in Lookup!Calls
    BY <1>3 DEF Lookup!Calls
  <2> QED BY <1>0, <1>1, <1>3, <2>1 DEF LInv, Lookup!TypeOK, Lookup!Targets
<1>5. LatestAsked'
  <2>1. \A c \in calls : c.id \in Nat /\ c.id <= asks
    BY DEF LInv, LatestAsked, Lookup!TypeOK, Lookup!Calls
  <2> QED BY <1>1, <1>3, <2>1 DEF LatestAsked
<1>6. Current'
  BY <1>1 DEF Current
<1>7. (fetches = {} /\ file = Nothing) \/ carried
  BY DEF LInv, OwnFiles
<1>8. OwnFiles'
  BY <1>0, <1>1, <1>2, <1>7 DEF LInv, OwnFiles
<1>9. OneFetch' /\ Lookup!UrlsReleased'
  BY <1>0 DEF LInv, OneFetch, Lookup!UrlsReleased
<1> QED BY <1>4, <1>5, <1>6, <1>8, <1>9 DEF LInv

\* Closing a dialog leaves it with what it fetched.
LEMMA CloseKeeps == LInv /\ Lookup!Close => LInv'
<1> SUFFICES ASSUME LInv, Lookup!Close PROVE LInv'
  OBVIOUS
<1>0. /\ open /\ subject # Nothing /\ file = Nothing
      /\ subject' = Nothing /\ carried' = (carried \/ fetches # {})
      /\ UNCHANGED <<view, open, shown, loading, error, asks, calls, superseded,
                     file, previewingId, fetches, fetched, urls, overlapped>>
  BY DEF Lookup!Close, Lookup!PreviewOpen
<1>1. Lookup!TypeOK'
  BY <1>0 DEF LInv, Lookup!TypeOK, Lookup!Targets
<1>2. LatestAsked' /\ Current'
  BY <1>0 DEF LInv, LatestAsked, Current
<1>3. OwnFiles' /\ OneFetch' /\ Lookup!UrlsReleased'
  BY <1>0 DEF LInv, OwnFiles, OneFetch, Lookup!UrlsReleased
<1> QED BY <1>1, <1>2, <1>3 DEF LInv

\* An answer that is not the latest one's supersedes, and says so.
LEMMA AnswerKeeps ==
    ASSUME LInv, NEW c \in calls, Lookup!Answered(c) \/ Lookup!CallFails(c)
    PROVE  LInv'
<1>0. /\ open /\ calls' = calls \ {c} /\ loading' = FALSE
      /\ superseded' = (superseded \/ Lookup!Late(c))
      /\ UNCHANGED <<view, open, subject, asks, file, previewingId, fetches, fetched, urls,
                     overlapped, carried>>
      /\ \/ shown' = c.about /\ error' = error
         \/ shown' = shown /\ error' = TRUE
  BY DEF Lookup!Answered, Lookup!CallFails, Lookup!preview
<1>1. c \in Lookup!Calls /\ c.about \in Subjects \cup {All}
  BY DEF LInv, Lookup!TypeOK, Lookup!Calls
<1>2. Lookup!TypeOK'
  BY <1>0, <1>1 DEF LInv, Lookup!TypeOK, Lookup!Targets, Lookup!Late
<1>3. LatestAsked'
  BY <1>0 DEF LInv, LatestAsked
<1>4. Current'
  BY <1>0 DEF LInv, LatestAsked, Current, Lookup!Late
<1>5. OwnFiles' /\ OneFetch' /\ Lookup!UrlsReleased'
  BY <1>0 DEF LInv, OwnFiles, OneFetch, Lookup!UrlsReleased
<1> QED BY <1>2, <1>3, <1>4, <1>5 DEF LInv

\* A file is asked for about what is on screen.
LEMMA PreviewKeeps ==
    ASSUME LInv, NEW f \in Files, Lookup!handlePreview(f)
    PROVE  LInv'
<1> DEFINE c == [id |-> fetched + 1, of |-> f, about |-> shown]
<1>0. /\ open /\ subject # Nothing /\ ~loading /\ ~error /\ shown # Nothing
      /\ view \in {"review", "table"} /\ file = Nothing /\ fetched < MaxPreviews
      /\ previewingId' = f /\ fetched' = fetched + 1 /\ fetches' = fetches \cup {c}
      /\ overlapped' = (overlapped \/ fetches # {})
      /\ UNCHANGED <<view, open, subject, shown, loading, error, asks, calls, superseded,
                     file, urls, carried>>
  BY DEF Lookup!handlePreview, Lookup!ContentShown, Lookup!PreviewOpen, Lookup!lookup
<1>1. c \in Lookup!Fetches /\ fetched + 1 \in 0..MaxPreviews
  BY <1>0, PagesAssumption
     DEF PagesAssumption, LInv, Lookup!TypeOK, Lookup!Fetches, Lookup!Targets
<1>2. c.about = shown
  OBVIOUS
<1> HIDE DEF c
<1>3. Lookup!TypeOK'
  BY <1>0, <1>1 DEF LInv, Lookup!TypeOK
<1>4. LatestAsked' /\ Current'
  BY <1>0 DEF LInv, LatestAsked, Current
<1>5. OwnFiles'
  BY <1>0, <1>2 DEF LInv, Current, OwnFiles
<1>6. OneFetch' /\ Lookup!UrlsReleased'
  BY <1>0 DEF LInv, OneFetch, Lookup!UrlsReleased
<1> QED BY <1>3, <1>4, <1>5, <1>6 DEF LInv

\* A file that arrives on time is the only one on its way.
LEMMA FileKeeps ==
    ASSUME LInv, NEW c \in fetches, Lookup!FileArrives(c) \/ Lookup!FileFails(c)
    PROVE  LInv'
<1>0. /\ fetches' = fetches \ {c} /\ previewingId' = Nothing
      /\ UNCHANGED <<view, open, subject, shown, loading, error, asks, calls, superseded,
                     fetched, overlapped, carried>>
      /\ \/ urls' = urls \cup {c.id} /\ file' = IF open THEN c ELSE file
         \/ UNCHANGED <<urls, file>>
  BY DEF Lookup!FileArrives, Lookup!FileFails, Lookup!lookup
<1>1. c \in Lookup!Fetches /\ c.id \in 1..MaxPreviews /\ c # Nothing
  BY PagesAssumption DEF PagesAssumption, LInv, Lookup!TypeOK, Lookup!Fetches
<1>2. Lookup!TypeOK'
  BY <1>0, <1>1 DEF LInv, Lookup!TypeOK
<1>3. LatestAsked' /\ Current'
  BY <1>0 DEF LInv, LatestAsked, Current
<1>4. OwnFiles'
  BY <1>0 DEF LInv, OwnFiles
<1>5. OneFetch' /\ Lookup!UrlsReleased'
  <2> SUFFICES ASSUME open, ~overlapped PROVE OneFetch' /\ Lookup!UrlsReleased'
    BY <1>0 DEF OneFetch, Lookup!UrlsReleased
  <2>1. fetches = {c} /\ file = Nothing /\ urls = {}
    BY DEF LInv, OneFetch, Lookup!UrlsReleased
  <2> QED BY <1>0, <1>1, <2>1 DEF OneFetch, Lookup!UrlsReleased
<1> QED BY <1>2, <1>3, <1>4, <1>5 DEF LInv

\* Closing a preview releases its URL.
LEMMA ClosePreviewKeeps == LInv /\ Lookup!closePreview => LInv'
<1> SUFFICES ASSUME LInv, Lookup!closePreview PROVE LInv'
  OBVIOUS
<1>0. /\ open /\ file # Nothing /\ urls' = urls \ {file.id} /\ file' = Nothing
      /\ UNCHANGED <<view, open, subject, shown, loading, error, asks, calls, superseded,
                     previewingId, fetches, fetched, overlapped, carried>>
  BY DEF Lookup!closePreview, Lookup!PreviewOpen, Lookup!lookup
<1>1. Lookup!TypeOK'
  BY <1>0 DEF LInv, Lookup!TypeOK
<1>2. LatestAsked' /\ Current'
  BY <1>0 DEF LInv, LatestAsked, Current
<1>3. OwnFiles' /\ OneFetch' /\ Lookup!UrlsReleased'
  BY <1>0 DEF LInv, OwnFiles, OneFetch, Lookup!UrlsReleased
<1> QED BY <1>1, <1>2, <1>3 DEF LInv

\* A page that is gone shows nothing.
LEMMA LeaveKeeps == LInv /\ Lookup!Leave => LInv'
<1> SUFFICES ASSUME LInv, Lookup!Leave PROVE LInv'
  OBVIOUS
<1>0. /\ open' = FALSE /\ file' = Nothing /\ calls' = {} /\ loading' = FALSE
      /\ UNCHANGED <<view, subject, shown, error, asks, superseded,
                     previewingId, fetches, fetched, urls, overlapped, carried>>
  BY DEF Lookup!Leave
<1>1. Lookup!TypeOK'
  BY <1>0 DEF LInv, Lookup!TypeOK
<1>2. LatestAsked' /\ Current'
  BY <1>0 DEF LatestAsked, Current
<1>3. OwnFiles' /\ OneFetch' /\ Lookup!UrlsReleased'
  BY <1>0 DEF LInv, OwnFiles, OneFetch, Lookup!UrlsReleased
<1> QED BY <1>1, <1>2, <1>3 DEF LInv

\* Every step of a lookup.
LEMMA LookupStep == LInv /\ Lookup!Next => LInv'
<1> SUFFICES ASSUME LInv, Lookup!Next PROVE LInv'
  OBVIOUS
<1>1. ASSUME NEW s \in Subjects, Lookup!Open(s) \/ Lookup!handleFilter(s) PROVE LInv'
  BY <1>1, AskKeeps DEF Lookup!Open, Lookup!handleFilter
<1>2. CASE Lookup!clearFilter
  BY <1>2, AskKeeps DEF Lookup!clearFilter
<1> QED BY <1>1, <1>2, CloseKeeps, AnswerKeeps, PreviewKeeps, FileKeeps, ClosePreviewKeeps,
           LeaveKeeps DEF Lookup!Next

----------------------------------------------------------------------------
(* The overview. *)

\* The page is without statistics after its first load only when that failed.
EmptyFailed == ~statsLoading /\ stats = Null => failed

\* The overview's inductive invariant.
SInv == Stats!TypeOK /\ Stats!BreaksOnlyEmpty /\ EmptyFailed

\* The overview begins without statistics, loading.
LEMMA StatsInit == Stats!Init => SInv
<1> SUFFICES ASSUME Stats!Init PROVE SInv
  OBVIOUS
<1>1. 0 \in Stats!Versions
  BY PagesAssumption DEF PagesAssumption, Stats!Versions
<1>2. Stats!TypeOK
  BY <1>1 DEF Stats!Init, Stats!TypeOK, Stats!Sent, Stats!Idle
<1> QED BY <1>2 DEF Stats!Init, SInv, Stats!BreaksOnlyEmpty, EmptyFailed

\* Every step of the overview.
LEMMA StatsStep == SInv /\ Stats!Next => SInv'
<1> SUFFICES ASSUME SInv, Stats!Next PROVE SInv'
  OBVIOUS
<1>0. /\ version \in Stats!Versions /\ stats \in {Null} \cup Stats!Versions
      /\ statsLoading \in BOOLEAN /\ statsError \in BOOLEAN /\ crashed \in BOOLEAN /\ failed \in BOOLEAN
      /\ statsCalls \in [Loads -> [sent : BOOLEAN, data : {Null} \cup Stats!Versions]]
  BY DEF SInv, Stats!TypeOK
<1>1. CASE Stats!Others
  <2>1. version + 1 \in Stats!Versions
    BY <1>0, <1>1, PagesAssumption DEF PagesAssumption, Stats!Others, Stats!Versions
  <2> QED BY <1>0, <1>1, <2>1 DEF SInv, Stats!TypeOK, Stats!BreaksOnlyEmpty, EmptyFailed, Stats!Others
<1>2. ASSUME NEW l \in Loads, Stats!Tick(l) PROVE SInv'
  <2>1. /\ stats' = stats /\ statsLoading' = statsLoading /\ statsError' = FALSE
        /\ crashed' = (~statsLoading /\ stats = Null)
        /\ UNCHANGED <<version, failed>>
        /\ statsCalls' = [statsCalls EXCEPT ![l] = Stats!Sent]
    BY <1>2 DEF Stats!Tick, Stats!clear, Stats!Render
  <2>2. Stats!TypeOK'
    BY <1>0, <2>1 DEF Stats!TypeOK, Stats!Sent
  <2> QED BY <2>1, <2>2 DEF SInv, Stats!BreaksOnlyEmpty, EmptyFailed
<1>3. ASSUME NEW l \in Loads, Stats!Serve(l) PROVE SInv'
  <2>1. /\ UNCHANGED <<version, stats, statsLoading, statsError, crashed, failed>>
        /\ statsCalls' = [statsCalls EXCEPT ![l].data = version]
    BY <1>3 DEF Stats!Serve
  <2>2. Stats!TypeOK'
    BY <1>0, <2>1 DEF Stats!TypeOK
  <2> QED BY <2>1, <2>2 DEF SInv, Stats!BreaksOnlyEmpty, EmptyFailed
<1>4. ASSUME NEW l \in Loads, Stats!Loaded(l) PROVE SInv'
  <2>1. /\ stats' = statsCalls[l].data /\ stats' \in Stats!Versions /\ stats' # Null
        /\ statsLoading' = FALSE /\ statsError' = statsError /\ crashed' = FALSE
        /\ UNCHANGED <<version, failed>>
        /\ statsCalls' = [statsCalls EXCEPT ![l] = Stats!Idle]
    BY <1>0, <1>4 DEF Stats!Loaded, Stats!Render
  <2>2. Stats!TypeOK'
    BY <1>0, <2>1 DEF Stats!TypeOK, Stats!Idle
  <2> QED BY <2>1, <2>2 DEF SInv, Stats!BreaksOnlyEmpty, EmptyFailed
<1>5. ASSUME NEW l \in Loads, Stats!LoadFails(l) PROVE SInv'
  <2>1. /\ stats' = stats /\ statsLoading' = FALSE /\ statsError' = TRUE /\ crashed' = FALSE
        /\ failed' = TRUE /\ version' = version
        /\ statsCalls' = [statsCalls EXCEPT ![l] = Stats!Idle]
    BY <1>5 DEF Stats!LoadFails, Stats!Render
  <2>2. Stats!TypeOK'
    BY <1>0, <2>1 DEF Stats!TypeOK, Stats!Idle
  <2> QED BY <2>1, <2>2 DEF SInv, Stats!BreaksOnlyEmpty, EmptyFailed
<1> QED BY <1>1, <1>2, <1>3, <1>4, <1>5 DEF Stats!Next

----------------------------------------------------------------------------
(* One page at a time. *)
\* All three pages' invariants, whichever is shown.
PInv == TInv /\ LInv /\ SInv

\* The page that is shown moves, the others stay.
LEMMA PagesStep == PInv /\ [PagesNext]_pagesVars => PInv'
<1> SUFFICES ASSUME PInv, [PagesNext]_pagesVars PROVE PInv'
  OBVIOUS
<1>1. ASSUME UNCHANGED tableVars PROVE TInv'
  BY <1>1 DEF PInv, TInv, tableVars, PageFits, Table!TypeOK, Table!RowsMirrorDocs, Table!filtered
<1>2. ASSUME UNCHANGED lookupVars PROVE LInv'
  BY <1>2 DEF PInv, LInv, lookupVars, LatestAsked, Current, OwnFiles, OneFetch, Lookup!TypeOK,
     Lookup!UrlsReleased
<1>3. ASSUME UNCHANGED statsVars PROVE SInv'
  BY <1>3 DEF PInv, SInv, statsVars, EmptyFailed, Stats!TypeOK, Stats!BreaksOnlyEmpty
<1> QED BY <1>1, <1>2, <1>3, TableStep, LookupStep, StatsStep DEF PInv, PagesNext, pagesVars

\* The invariant holds throughout.
LEMMA PagesInvariant == PagesSpec => []PInv
<1>1. PagesInit => PInv
  BY TableInit, LookupInit, StatsInit DEF PagesInit, PInv
<1> QED BY <1>1, PagesStep, PTL DEF PagesSpec

\* The signer's table (PendingDocuments.jsx, usePagination.js) shows the rows
\* of the list, each on one page, and no empty page, for any documents,
\* searches and page sizes.
THEOREM TablesAreTrue == PagesSpec => []TableTrue
<1>1. PInv => TableTrue
  BY TablePromises DEF PInv
<1> QED BY <1>1, PagesInvariant, PTL

\* What the reading pages show under a name is about it (ReviewUser.jsx,
\* AuditTrail.jsx and others), and the overview breaks down only empty
\* (Overview.jsx), however answers overtake each other.
THEOREM LookupsAreTrue == PagesSpec => []LookupTrue
<1>1. PInv => LookupTrue
  BY LookupPromises DEF PInv, SInv, LookupTrue
<1> QED BY <1>1, PagesInvariant, PTL
============================================================================
