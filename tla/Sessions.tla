------------------------------ MODULE Sessions -----------------------------
(***************************************************************************)
(* A signed-in user of the frontends: AuthContext.jsx, axiosClient.js, the *)
(* routes that guard pages, and the forms that sign in or call for an      *)
(* account.  The signer frontend keeps its session in sessionStorage, one  *)
(* per browser tab; the regulator's console in localStorage, shared by all *)
(* tabs, which hear nothing of each other.                                 *)
(*                                                                         *)
(* A tab is its React state and the path it is at; a request carries the   *)
(* token that is stored when it is sent, and leaving a page of the         *)
(* single-page app does not abort it.  A page load does.  The pages that   *)
(* are open to everybody send no token, and are left out.                  *)
(***************************************************************************)
EXTENDS Naturals, FiniteSets

CONSTANTS Apps,             \* which of "signer" and "regulator" are considered
          Tabs(_),          \* the tabs of an app
          Accounts, Role(_),
          Shared,           \* the storage of the regulator's tabs
          None, Garbage,
          MongoFails,              \* may the server's database fail?
          MaxTokens, MaxCalls      \* bounds

ASSUME SessionsAssumption ==
    /\ Apps \subseteq {"signer", "regulator"}
    /\ None \notin Accounts /\ Garbage \notin Accounts \cup {None}
    /\ MongoFails \in BOOLEAN
    /\ MaxTokens \in Nat \ {0} /\ MaxCalls \in Nat

VARIABLES app,
          store,      \* per storage: the token and the user entries
          tab,        \* per tab: user, loading, path, and the token it set a timer for
          calls,      \* requests in flight
          owner,      \* per token: the account it was issued to
          ending,     \* tokens less than WARN_BEFORE_MS before their end, or past it
          expired,    \* tokens the server takes no more
          mixed,      \* tabs whose user and token were not set together
          crossed     \* storages whose entries were not

server == <<owner, ending, expired>>
vars == <<app, store, tab, calls, owner, ending, expired, mixed, crossed>>

Tokens == 1..MaxTokens
AllTabs == UNION {Tabs(a) : a \in Apps}
Stores == AllTabs \cup {Shared}
StoreOf(t) == IF app = "signer" THEN t ELSE Shared
Stored(t) == store[StoreOf(t)]
Empty == [token |-> None, user |-> None]

Kinds == {"login", "form", "get", "pin", "profile"}
Calls == [from : AllTabs, kind : Kinds, token : Tokens \cup {None}, who : Accounts \cup {None}]

TypeOK ==
    /\ app \in Apps
    /\ store \in [Stores -> [token : Tokens \cup {None}, user : Accounts \cup {None, Garbage}]]
    /\ tab \in [AllTabs -> [user : Accounts \cup {None}, at : {"login", "form", "in"},
                            loading : BOOLEAN, watch : Tokens \cup {None}]]
    /\ calls \subseteq Calls /\ Cardinality(calls) <= MaxCalls
    /\ owner \in [Tokens -> Accounts \cup {None}]
    /\ expired \subseteq ending /\ ending \subseteq Tokens
    /\ mixed \subseteq AllTabs /\ crossed \subseteq Stores

\* Pages for guests send a user on, pages for users send a guest to /login.
Route(at, user) ==
    CASE at \in {"login", "form"} /\ user # None -> "in"
      [] at = "in" /\ user = None                -> "login"
      [] OTHER                                   -> at

\* SessionExpiryWatcher looks at the token when the user changes, and sets no
\* timer once the moment to warn has passed.
Watched(user, token) == IF user = None \/ token \in ending THEN None ELSE token

\* A tab is opened on entries of an earlier visit: none, or corrupted ones.
loadStoredUser(entries) == IF entries.user = Garbage THEN None ELSE entries.user

NewTab == [user |-> None, at |-> "login", loading |-> FALSE, watch |-> None]

Init ==
    /\ app \in Apps
    /\ \E e \in {Empty, [token |-> 1, user |-> Garbage]} :
          store = [s \in Stores |-> IF app = "regulator" /\ s = Shared THEN e ELSE Empty]
    /\ tab = [t \in AllTabs |-> NewTab]
    /\ calls = {} /\ mixed = {} /\ crossed = {}
    /\ \E a \in Accounts :
          owner = [n \in Tokens |-> IF n = store[Shared].token THEN a ELSE None]
    /\ ending = {} /\ expired = {}

Open(t) == t \in Tabs(app)

----------------------------------------------------------------------------
(* Requests                                                                *)
\* A request that is repeated with the same token counts once.
send(t, kind, who) ==
    /\ Cardinality(calls) < MaxCalls
    /\ calls' = calls \cup {[from |-> t, kind |-> kind, token |-> Stored(t).token, who |-> who]}

\* Login.jsx
SubmitLogin(t, a) ==
    /\ Open(t) /\ tab[t].at = "login" /\ ~tab[t].loading
    /\ send(t, "login", a)
    /\ tab' = [tab EXCEPT ![t].loading = TRUE]
    /\ UNCHANGED <<app, store, server, mixed, crossed>>

\* Register.jsx, ForgotPassword.jsx, ResetPassword.jsx: no answer is a 401.
\* Register shares the loading flag of the login form.  The console has no
\* Register, and its two other forms leave the session alone.
SubmitForm(t) ==
    /\ Open(t) /\ app = "signer" /\ tab[t].at = "form" /\ ~tab[t].loading
    /\ send(t, "form", None)
    /\ \E busy \in BOOLEAN : tab' = [tab EXCEPT ![t].loading = busy]
    /\ UNCHANGED <<app, store, server, mixed, crossed>>

\* Polls, loads, and what needs a PIN or the current password.
Request(t, kind) ==
    /\ Open(t) /\ tab[t].user # None /\ tab[t].at = "in"
    /\ kind \in {"get", "pin", "profile"}
    /\ send(t, kind, None)
    /\ UNCHANGED <<app, store, tab, server, mixed, crossed>>

Usable(c) == c.token # None /\ c.token \notin expired

----------------------------------------------------------------------------
(* Answers                                                                 *)
\* Variant: the user's entry is written by the page that opens next.
SignInTokenOnly(t, n, a) ==
    /\ store' = [store EXCEPT ![StoreOf(t)].token = n]
    /\ tab' = [tab EXCEPT ![t] = [user |-> a, at |-> "in", loading |-> FALSE,
                                  watch |-> Watched(a, n)]]
    /\ mixed' = (mixed \cup {u \in Tabs(app) : StoreOf(u) = StoreOf(t)}) \ {t}
    /\ crossed' = crossed \ {StoreOf(t)}

\* Variant: the user is set before the entries are written.
SignInUserFirst(t, n, a) ==
    /\ store' = [store EXCEPT ![StoreOf(t)] = [token |-> n, user |-> a]]
    /\ tab' = [tab EXCEPT ![t] = [user |-> a, at |-> "in", loading |-> FALSE,
                                  watch |-> Watched(a, Stored(t).token)]]
    /\ mixed' = (mixed \cup {u \in Tabs(app) : StoreOf(u) = StoreOf(t)}) \ {t}
    /\ crossed' = crossed \ {StoreOf(t)}

\* Writing both entries: the tab's own user is set with them, another tab that
\* shows somebody keeps whom it shows.
SignIn(t, n, a) ==
    /\ store' = [store EXCEPT ![StoreOf(t)] = [token |-> n, user |-> a]]
    /\ tab' = [tab EXCEPT ![t] = [user |-> a, at |-> "in", loading |-> FALSE,
                                  watch |-> Watched(a, n)]]
    /\ mixed' = (mixed \cup {u \in Tabs(app) : StoreOf(u) = StoreOf(t)}) \ {t}
    /\ crossed' = crossed \ {StoreOf(t)}

\* Variant: the console does not ask for the role.
MaySignInAnyone(a) == TRUE

MaySignIn(a) == app = "regulator" => Role(a) = "regulator"

LoginOK(c) ==
    /\ c \in calls /\ c.kind = "login" /\ calls' = calls \ {c}
    /\ \E n \in Tokens :
         /\ owner[n] = None /\ \A k \in 1..n - 1 : owner[k] # None
         /\ owner' = [owner EXCEPT ![n] = c.who]
         /\ IF MaySignIn(c.who) THEN SignIn(c.from, n, c.who)
            ELSE /\ tab' = [tab EXCEPT ![c.from].loading = FALSE]
                 /\ UNCHANGED <<store, mixed, crossed>>
    /\ UNCHANGED <<app, ending, expired>>

\* The guest goes on to /login, or stays on the form.
FormOK(c) ==
    /\ c \in calls /\ c.kind = "form" /\ calls' = calls \ {c}
    /\ \E at \in {tab[c.from].at, IF tab[c.from].at = "form" THEN "login" ELSE tab[c.from].at} :
          tab' = [tab EXCEPT ![c.from].loading = FALSE, ![c.from].at = at]
    /\ UNCHANGED <<app, store, server, mixed, crossed>>

\* updateProfile: the user the token belongs to, whoever is here by now.
ProfileOK(c) ==
    /\ c \in calls /\ c.kind = "profile" /\ c.token # None /\ calls' = calls \ {c}
    /\ LET t == c.from  s == StoreOf(t)  a == owner[c.token]  late == c.token # store[s].token IN
         /\ store' = [store EXCEPT ![s].user = a]
         /\ tab' = [tab EXCEPT ![t].user = a, ![t].at = Route(tab[t].at, a),
                               ![t].watch = Watched(a, store[s].token)]
         /\ mixed' = IF late THEN mixed \cup {t} ELSE mixed \ {t}
         /\ crossed' = IF late THEN crossed \cup {s} ELSE crossed \ {s}
    /\ UNCHANGED <<app, server>>

RequestOK(c) ==
    /\ c \in calls /\ c.kind \in {"get", "pin"} /\ c.token # None /\ calls' = calls \ {c}
    /\ UNCHANGED <<app, store, tab, server, mixed, crossed>>

\* Variant: the storage is emptied before the status is looked at.
CallFailsWipes(c) ==
    /\ c \in calls /\ calls' = calls \ {c}
    /\ store' = [store EXCEPT ![StoreOf(c.from)] = Empty]
    /\ tab' = [tab EXCEPT ![c.from].loading = @ /\ c.kind \notin {"login", "form"}]
    /\ crossed' = crossed \ {StoreOf(c.from)}
    /\ UNCHANGED <<app, server, mixed>>

\* A request fails some other way, or times out.
CallFails(c) ==
    /\ c \in calls /\ calls' = calls \ {c}
    /\ tab' = [tab EXCEPT ![c.from].loading = @ /\ c.kind \notin {"login", "form"}]
    /\ UNCHANGED <<app, store, server, mixed, crossed>>

\* A page is loaded: what was in the tab is gone, also its requests.
LoadPage(t, at, entries) ==
    LET user == loadStoredUser(entries) IN
      tab' = [tab EXCEPT ![t] = [user |-> user, at |-> Route(at, user), loading |-> FALSE,
                                 watch |-> Watched(user, entries.token)]]

Aborted(t) == {c \in calls : c.from = t}

\* A 401: no usable token, a wrong PIN or password, or a failed login; and
\* requireAuth answers 401 to whatever goes wrong with the token or in the
\* database (nobody deletes accounts).
Refusable(c) == ~Usable(c) \/ c.kind \in {"login", "pin"} \/ MongoFails

\* Variant: the page is left to notice by itself.
UnauthorizedStays(c) ==
    /\ c \in calls /\ c.kind # "form" /\ Refusable(c)
    /\ store' = [store EXCEPT ![StoreOf(c.from)] = Empty]
    /\ crossed' = crossed \ {StoreOf(c.from)}
    /\ tab' = [tab EXCEPT ![c.from].loading = FALSE]
    /\ calls' = calls \ {c} /\ UNCHANGED mixed
    /\ UNCHANGED <<app, server>>

\* At /login the answer only empties the storage, anywhere else it loads /login.
Unauthorized(c) ==
    /\ c \in calls /\ c.kind # "form" /\ Refusable(c)
    /\ store' = [store EXCEPT ![StoreOf(c.from)] = Empty]
    /\ crossed' = crossed \ {StoreOf(c.from)}
    /\ IF tab[c.from].at = "login"
       THEN /\ tab' = [tab EXCEPT ![c.from].loading = @ /\ c.kind # "login"]
            /\ calls' = calls \ {c} /\ UNCHANGED mixed
       ELSE /\ LoadPage(c.from, "login", Empty)
            /\ calls' = calls \ Aborted(c.from) /\ mixed' = mixed \ {c.from}
    /\ UNCHANGED <<app, server>>

----------------------------------------------------------------------------
(* The user                                                                *)
\* Variant: the user's entry is forgotten.
logoutKeepsUser(t) ==
    /\ Open(t) /\ tab[t].user # None
    /\ store' = [store EXCEPT ![StoreOf(t)].token = None]
    /\ tab' = [tab EXCEPT ![t].user = None, ![t].at = "login", ![t].watch = None]
    /\ mixed' = mixed \ {t} /\ crossed' = crossed \ {StoreOf(t)}
    /\ UNCHANGED <<app, calls, server>>

\* handleLogout.  Nothing is aborted.
logout(t) ==
    /\ Open(t) /\ tab[t].user # None
    /\ store' = [store EXCEPT ![StoreOf(t)] = Empty]
    /\ tab' = [tab EXCEPT ![t].user = None, ![t].at = "login", ![t].watch = None]
    /\ mixed' = mixed \ {t} /\ crossed' = crossed \ {StoreOf(t)}
    /\ UNCHANGED <<app, calls, server>>

\* A link, the back button, or the address of a page of the app.
Visit(t, at) ==
    /\ Open(t) /\ at # tab[t].at
    /\ tab' = [tab EXCEPT ![t].at = Route(at, tab[t].user)]
    /\ UNCHANGED <<app, store, calls, server, mixed, crossed>>

\* The signer's AuthProvider removes a corrupted entry, the regulator's does not.
Reload(t) ==
    /\ Open(t)
    /\ LoadPage(t, tab[t].at, Stored(t))
    /\ store' = IF app = "signer" /\ Stored(t).user = Garbage
                THEN [store EXCEPT ![t] = Empty] ELSE store
    /\ mixed' = IF StoreOf(t) \in crossed THEN mixed \cup {t} ELSE mixed \ {t}
    /\ calls' = calls \ Aborted(t)
    /\ UNCHANGED <<app, server, crossed>>

\* The timers set for this token fire.  It lived longer than that (8h).
EndSoon(n) ==
    /\ owner[n] # None /\ n \notin ending
    /\ ending' = ending \cup {n}
    /\ UNCHANGED <<app, store, tab, calls, owner, expired, mixed, crossed>>

Expire(n) ==
    /\ n \in ending \ expired
    /\ expired' = expired \cup {n}
    /\ UNCHANGED <<app, store, tab, calls, owner, ending, mixed, crossed>>

\* Navbar.jsx: the badge of a signer is polled on every page.
SignerShown(t) == app = "signer" /\ tab[t].user # None /\ Role(tab[t].user) = "signer"
Poll(t) == SignerShown(t) /\ Request(t, "get")

Answer(c) == LoginOK(c) \/ FormOK(c) \/ ProfileOK(c) \/ RequestOK(c) \/ CallFails(c) \/ Unauthorized(c)

Next ==
    \/ \E t \in AllTabs :
          \/ \E a \in Accounts : SubmitLogin(t, a)
          \/ SubmitForm(t) \/ logout(t) \/ Reload(t)
          \/ \E kind \in {"get", "pin", "profile"} : Request(t, kind)
          \/ \E at \in {"login", "form", "in"} : Visit(t, at)
    \/ \E c \in calls : Answer(c)
    \/ \E n \in Tokens : EndSoon(n) \/ Expire(n)

Spec == Init /\ [][Next]_vars

\* The badge's interval ticks, requests are answered or time out, and the
\* refusals the server owes come through now and then.
FairSpec ==
    /\ Spec
    /\ \A t \in Tabs("signer") :
         /\ SF_vars(Poll(t))
         /\ SF_vars(app = "signer" /\ \E c \in calls : c.from = t /\ c.kind = "get" /\ ~Usable(c) /\ Unauthorized(c))
         /\ WF_vars(app = "signer" /\ \E c \in calls : c.from = t /\ c.kind = "get" /\ Answer(c))
         /\ WF_vars(app = "signer" /\ \E c \in calls : c.from = t /\ c.kind # "get" /\ Answer(c))

----------------------------------------------------------------------------
(* Properties.                                                             *)
Dead(t) == Stored(t).token = None \/ Stored(t).token \in expired

Consistent(user, token) == user \in {None, Garbage} \/ token = None \/ owner[token] = user

\* Whoever is shown as signed in is the one the tab's requests act for, unless
\* another tab of the console signed somebody in since, or the answer to an
\* older session's profile update came late.
ActsAsShown ==
    /\ \A t \in Tabs(app) : t \in mixed \/ Consistent(tab[t].user, Stored(t).token)
    /\ \A s \in Stores : s \in crossed \/ Consistent(store[s].user, store[s].token)

\* The console only ever shows regulators, whatever accounts try to sign in
\* and whatever an answer or a reload brings back.
ConsoleForRegulators ==
    app = "regulator" => \A t \in Tabs(app) : tab[t].user # None => Role(tab[t].user) = "regulator"

\* In the signer frontend a reload changes nothing about who is signed in: the
\* entry of the storage and the page agree after every answer and every 401.
ReloadKeepsUser == app = "signer" => \A t \in Tabs(app) : store[t].user = tab[t].user

\* Whoever is signed in has a timer set for the token in use, and no other's,
\* until the moment to warn: the watcher reads the storage when the user
\* changes, so both entries must be written before.  A reload, a login or a
\* profile update in the last two minutes sets none, and none is claimed.
WatchesItsToken ==
    \A t \in Tabs(app) \ mixed :
       tab[t].user # None /\ ~Dead(t) /\ Stored(t).token \notin ending
         => tab[t].watch = Stored(t).token

\* A session is ended by its user, or by the refusal of a request in flight
\* that is not its own: a login, a wrong PIN, a token from before.  As long as
\* only its usable requests are on their way, nothing but a failing database can
\* end it, which requireAuth answers as it answers a bad token: a lost answer,
\* an error of the server, or what happens in another storage does not.
SessionKept ==
    [][\A s \in Stores :
         LET mine == {c \in calls : StoreOf(c.from) = s} IN
           store[s].token # None /\ store[s].token \notin expired
             /\ (\A c \in mine : c.kind \in {"get", "profile", "form"} /\ c.token = store[s].token)
           => \/ store'[s].token = store[s].token
              \/ \E t \in Tabs(app) : StoreOf(t) = s /\ (logout(t) \/ Reload(t))
              \/ MongoFails /\ \E c \in mine : Unauthorized(c)]_vars

\* A signer whose token is gone or expired does not stay signed in on screen:
\* the next poll of the badge is refused.
DeadSessionEnds ==
    \A t \in Tabs("signer") : SignerShown(t) /\ Dead(t) ~> ~(SignerShown(t) /\ Dead(t))

\* Page, storage, token and watcher are in step, whatever is in flight.
InStep == TypeOK /\ ActsAsShown /\ ConsoleForRegulators /\ ReloadKeepsUser /\ WatchesItsToken
============================================================================
