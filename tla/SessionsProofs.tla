--------------------------- MODULE SessionsProofs --------------------------
(***************************************************************************)
(* A signed-in user of the frontends, for every set of tabs, accounts,     *)
(* tokens and requests.  InStep is not inductive.  A 401 that reaches a    *)
(* tab at /login empties the storage and leaves the tab: that is harmless  *)
(* because the routes keep every user off /login (Routed).  The answer to  *)
(* a profile update shows whom its token was issued to: that is somebody   *)
(* (Issued), and at the console a regulator (ByRegulators), because nobody *)
(* sends one over a corrupted entry, whose token may be anybody's          *)
(* (CorruptedIdle).                                                        *)
(***************************************************************************)
EXTENDS Sessions, FiniteSetTheorems, TLAPS

TabStates == [user : Accounts \cup {None}, at : {"login", "form", "in"},
              loading : BOOLEAN, watch : Tokens \cup {None}]

Entries == [token : Tokens \cup {None}, user : Accounts \cup {None, Garbage}]

Typed ==
    /\ app \in Apps
    /\ store \in [Stores -> Entries]
    /\ tab \in [AllTabs -> TabStates]
    /\ calls \subseteq Calls
    /\ owner \in [Tokens -> Accounts \cup {None}]
    /\ expired \subseteq ending /\ ending \subseteq Tokens
    /\ mixed \subseteq AllTabs /\ crossed \subseteq Stores

Bounded == IsFiniteSet(calls) /\ Cardinality(calls) <= MaxCalls

Issued ==
    /\ \A s \in Stores : store[s].token # None => owner[store[s].token] # None
    /\ \A c \in calls : /\ c.token # None => owner[c.token] # None
                        /\ c.kind = "login" => c.who # None

Routed == \A t \in AllTabs : tab[t].at = "in" <=> tab[t].user # None

CorruptedIdle ==
    \A t \in Tabs(app) : Stored(t).user = Garbage =>
        tab[t].user = None /\ \A c \in calls : c.from = t => c.kind # "profile"

OfRegulator(n) == n # None => Role(owner[n]) = "regulator"

ByRegulators ==
    app = "regulator" =>
        /\ \A t \in Tabs(app) : /\ Stored(t).user # Garbage => OfRegulator(Stored(t).token)
                                /\ Stored(t).user \in Accounts => Role(Stored(t).user) = "regulator"
        /\ \A c \in calls : c.kind = "profile" => OfRegulator(c.token)

FromOpenTabs == \A c \in calls : c.from \in Tabs(app)

Base == Typed /\ Bounded /\ Issued /\ Routed /\ FromOpenTabs
SInv == Base /\ CorruptedIdle /\ ByRegulators
             /\ ActsAsShown /\ ConsoleForRegulators /\ ReloadKeepsUser /\ WatchesItsToken

LEMMA StoresOfTabs == Typed => \A t \in Tabs(app) : t \in AllTabs /\ StoreOf(t) \in Stores
  BY DEF Typed, AllTabs, Stores, StoreOf

\* A tab is opened on nothing, or on a corrupted entry.
LEMMA SInit == Init => SInv
<1> SUFFICES ASSUME Init PROVE SInv
  OBVIOUS
<1>1. 1 \in Tokens
  BY SessionsAssumption DEF Tokens
<1>2. Typed
  BY <1>1, SessionsAssumption DEF Init, Typed, TabStates, Entries, NewTab, Empty
<1>3. Bounded
  BY FS_EmptySet, SessionsAssumption DEF Init, Bounded
<1>4. Issued /\ Routed /\ FromOpenTabs
  BY <1>1, SessionsAssumption DEF Init, Issued, Routed, FromOpenTabs, NewTab, Empty
<1>5. CorruptedIdle /\ ByRegulators
  BY <1>1, StoresOfTabs, <1>2, SessionsAssumption
     DEF Init, CorruptedIdle, ByRegulators, OfRegulator, NewTab, Empty, Stored, AllTabs
<1>6. ActsAsShown /\ ConsoleForRegulators /\ ReloadKeepsUser /\ WatchesItsToken
  BY <1>1, StoresOfTabs, <1>2, SessionsAssumption
     DEF Init, ActsAsShown, Consistent, ConsoleForRegulators, ReloadKeepsUser, WatchesItsToken,
         NewTab, Empty, Stored, AllTabs, Stores
<1> QED BY <1>2, <1>3, <1>4, <1>5, <1>6 DEF SInv, Base

----------------------------------------------------------------------------
(* Steps that leave who is signed in, and the storages, alone.             *)
\* A tab's user, the storages and the tokens decide the properties.
LEMMA Unchanged ==
    ASSUME SInv, Base', UNCHANGED <<app, store, server, mixed, crossed>>,
           \A t \in AllTabs : tab'[t].user = tab[t].user /\ tab'[t].watch = tab[t].watch,
           \A c \in calls' : c \in calls \/ (c.kind = "profile" => tab[c.from].user # None
                                                   /\ c.token = Stored(c.from).token)
    PROVE  SInv'
<1>0. \A t \in Tabs(app) : t \in AllTabs /\ StoreOf(t) \in Stores /\ StoreOf(t)' = StoreOf(t)
  BY StoresOfTabs DEF SInv, Base, StoreOf, server
<1>1. CorruptedIdle'
  BY <1>0 DEF SInv, CorruptedIdle, Stored
<1>2. ByRegulators'
  <2>1. ASSUME app = "regulator", NEW c \in calls', c.kind = "profile"
        PROVE  OfRegulator(c.token)
    <3>1. CASE c \in calls
      BY <2>1, <3>1 DEF SInv, ByRegulators
    <3>2. CASE c \notin calls
      <4>1. c.from \in Tabs(app)
        BY DEF Base, FromOpenTabs
      <4>2. Stored(c.from).user # Garbage
        BY <2>1, <3>2, <4>1 DEF SInv, CorruptedIdle
      <4> QED BY <2>1, <3>2, <4>1, <4>2 DEF SInv, ByRegulators
    <3> QED BY <3>1, <3>2
  <2> QED BY <1>0, <2>1 DEF SInv, ByRegulators, OfRegulator, Stored, server
<1>3. ActsAsShown' /\ ConsoleForRegulators' /\ ReloadKeepsUser' /\ WatchesItsToken'
  BY <1>0 DEF SInv, ActsAsShown, Consistent, ConsoleForRegulators, ReloadKeepsUser,
     WatchesItsToken, Dead, Stored, server
<1> QED BY <1>1, <1>2, <1>3 DEF SInv

LEMMA Added ==
    ASSUME Bounded, NEW c, Cardinality(calls) < MaxCalls
    PROVE  IsFiniteSet(calls \cup {c}) /\ Cardinality(calls \cup {c}) <= MaxCalls
<1>1. IsFiniteSet(calls \cup {c}) /\ Cardinality(calls) \in Nat
  BY FS_AddElement, FS_CardinalityType DEF Bounded
<1>2. CASE c \in calls
  <2>1. calls \cup {c} = calls
    BY <1>2
  <2> QED BY <1>1, <2>1 DEF Bounded
<1>3. CASE c \notin calls
  <2>1. Cardinality(calls \cup {c}) = Cardinality(calls) + 1
    BY <1>3, FS_AddElement DEF Bounded
  <2> QED BY <1>1, <2>1, SessionsAssumption
<1> QED BY <1>2, <1>3

LEMMA Dropped ==
    ASSUME Bounded, NEW S \in SUBSET calls
    PROVE  IsFiniteSet(calls \ S) /\ Cardinality(calls \ S) <= MaxCalls
<1>1. IsFiniteSet(calls \ S) /\ Cardinality(calls \ S) <= Cardinality(calls)
  BY FS_Subset DEF Bounded
<1> QED BY <1>1, FS_CardinalityType, SessionsAssumption DEF Bounded

\* A request carries the stored token.
LEMMA SendKeeps ==
    ASSUME SInv, NEW t \in AllTabs, NEW kind \in Kinds, NEW who \in Accounts \cup {None},
           Open(t), send(t, kind, who), UNCHANGED <<app, store, server, mixed, crossed>>,
           tab' = tab \/ \E b \in BOOLEAN : tab' = [tab EXCEPT ![t].loading = b],
           kind = "profile" => tab[t].user # None, kind = "login" => who # None
    PROVE  SInv'
<1> DEFINE c == [from |-> t, kind |-> kind, token |-> Stored(t).token, who |-> who]
<1>0. t \in Tabs(app) /\ StoreOf(t) \in Stores
  BY StoresOfTabs DEF Open, SInv, Base
<1>1. c \in Calls /\ calls' = calls \cup {c}
  BY <1>0 DEF SInv, Base, Typed, Entries, send, Calls, Stored
<1>2. Typed'
  BY <1>1 DEF SInv, Base, Typed, TabStates, server
<1>3. Bounded'
  <2>1. Cardinality(calls) < MaxCalls /\ Bounded
    BY DEF send, SInv, Base
  <2>2. IsFiniteSet(calls \cup {c}) /\ Cardinality(calls \cup {c}) <= MaxCalls
    BY <2>1, Added
  <2> QED BY <1>1, <2>2 DEF Bounded
<1>4. Issued'
  BY <1>0, <1>1 DEF SInv, Base, Issued, server, Stored
<1>5. Routed' /\ FromOpenTabs'
  BY <1>0, <1>1 DEF SInv, Base, Typed, TabStates, Routed, FromOpenTabs
<1>6. Base'
  BY <1>2, <1>3, <1>4, <1>5 DEF Base
<1>7. \A u \in AllTabs : tab'[u].user = tab[u].user /\ tab'[u].watch = tab[u].watch
  BY DEF SInv, Base, Typed, TabStates
<1>8. \A d \in calls' : d \in calls \/ (d.kind = "profile" => tab[d.from].user # None
                                              /\ d.token = Stored(d.from).token)
  BY <1>1
<1> QED BY <1>6, <1>7, <1>8, Unchanged

\* A request is settled without a change of session, or an address is visited.
LEMMA QuietKeeps ==
    ASSUME SInv, UNCHANGED <<app, store, server, mixed, crossed>>, NEW t \in AllTabs,
           NEW S \in SUBSET calls, calls' = calls \ S,
           \E b \in BOOLEAN, at \in {"login", "form", "in"} :
             /\ tab' = [tab EXCEPT ![t].loading = b, ![t].at = at]
             /\ at = "in" <=> tab[t].user # None
    PROVE  SInv'
<1>1. PICK b \in BOOLEAN, at \in {"login", "form", "in"} :
             /\ tab' = [tab EXCEPT ![t].loading = b, ![t].at = at]
             /\ at = "in" <=> tab[t].user # None
  OBVIOUS
<1> DEFINE row == [tab[t] EXCEPT !.loading = b, !.at = at]
<1>5. Typed'
  <2>1. tab \in [AllTabs -> TabStates] /\ row \in TabStates
    BY DEF SInv, Base, Typed, TabStates
  <2>2. tab' = [tab EXCEPT ![t] = row]
    BY <1>1, <2>1 DEF TabStates
  <2> HIDE DEF row
  <2>3. tab' \in [AllTabs -> TabStates]
    BY <2>1, <2>2
  <2> QED BY <2>3 DEF SInv, Base, Typed, server, TabStates
<1>6. Issued' /\ FromOpenTabs'
  BY DEF SInv, Base, Issued, FromOpenTabs, server
<1>7. Routed'
  BY <1>1 DEF SInv, Base, Typed, TabStates, Routed
<1>2. Bounded'
  BY Dropped DEF SInv, Base, Bounded
<1>3. Base'
  BY <1>2, <1>5, <1>6, <1>7 DEF Base
<1>4. \A u \in AllTabs : tab'[u].user = tab[u].user /\ tab'[u].watch = tab[u].watch
  BY <1>1 DEF SInv, Base, Typed, TabStates
<1> QED BY <1>3, <1>4, Unchanged

----------------------------------------------------------------------------
(* Steps that change who is signed in, at one tab and in its storage.      *)
\* What is known of a request in flight, and of the tab it came from.
LEMMA InFlight ==
    ASSUME SInv, NEW c \in calls
    PROVE  /\ c \in Calls /\ c.from \in Tabs(app) /\ c.from \in AllTabs /\ Open(c.from)
           /\ StoreOf(c.from) \in Stores /\ Stored(c.from) \in Entries /\ tab[c.from] \in TabStates
           /\ c.token \in Tokens \cup {None} /\ c.who \in Accounts \cup {None}
           /\ c.token # None => owner[c.token] \in Accounts
           /\ c.kind = "login" => c.who \in Accounts
           /\ app = "regulator" /\ c.kind = "profile" => OfRegulator(c.token)
<1>1. c \in Calls /\ c.from \in Tabs(app)
  BY DEF SInv, Base, Typed, FromOpenTabs
<1>2. c.from \in AllTabs /\ StoreOf(c.from) \in Stores
  BY <1>1, StoresOfTabs DEF SInv, Base
<1>3. c.token \in Tokens \cup {None} /\ c.who \in Accounts \cup {None}
  BY <1>1 DEF Calls
<1>4. (c.token # None => owner[c.token] # None) /\ (c.kind = "login" => c.who # None)
  BY DEF SInv, Base, Issued
<1>5. owner \in [Tokens -> Accounts \cup {None}]
  BY DEF SInv, Base, Typed
<1>6. app = "regulator" /\ c.kind = "profile" => OfRegulator(c.token)
  BY DEF SInv, ByRegulators
<1>7. Stored(c.from) \in Entries /\ tab[c.from] \in TabStates
  BY <1>2 DEF SInv, Base, Typed, Stored
<1> QED BY <1>1, <1>2, <1>3, <1>4, <1>5, <1>6, <1>7 DEF Open

LEMMA TabRow ==
    ASSUME NEW r \in TabStates, NEW user, NEW at, NEW watch
    PROVE  [r EXCEPT !.user = user, !.at = at, !.watch = watch]
              = [user |-> user, at |-> at, loading |-> r.loading, watch |-> watch]
<1> DEFINE fields == {"user", "at", "loading", "watch"}
           f == [r EXCEPT !.user = user, !.at = at, !.watch = watch]
           g == [user |-> user, at |-> at, loading |-> r.loading, watch |-> watch]
<1>1. DOMAIN r = fields
  BY DEF TabStates
<1>2. f = [x \in fields |-> f[x]] /\ g = [x \in fields |-> g[x]]
  BY <1>1
<1>3. f.user = g.user /\ f.at = g.at /\ f.loading = g.loading /\ f.watch = g.watch
  BY <1>1
<1> HIDE DEF f, g
<1>4. f = g
  BY <1>2, <1>3
<1> QED BY <1>4 DEF f, g

LEMMA Entry ==
    ASSUME NEW e \in Entries, NEW user
    PROVE  [e EXCEPT !.user = user] = [token |-> e.token, user |-> user]
  BY DEF Entries

\* A token that was issued stays the account's.
Kept == \A n \in Tokens : owner[n] # None => owner'[n] = owner[n]

\* Who a token was issued to.
Matches(user, n, of) == user \in {None, Garbage} \/ n = None \/ of[n] = user
ByRegulator(n, of) == n # None => Role(of[n]) = "regulator"

LEMMA SessionKeeps ==
    ASSUME SInv, NEW t \in AllTabs, Open(t), NEW row \in TabStates, NEW e \in Entries,
           NEW S \in SUBSET calls, calls' = calls \ S, UNCHANGED <<app, ending, expired>>,
           tab' = [tab EXCEPT ![t] = row], store' = [store EXCEPT ![StoreOf(t)] = e],
           owner' \in [Tokens -> Accounts \cup {None}], Kept,
           mixed' \subseteq AllTabs, crossed' \subseteq Stores,
           row.at = "in" <=> row.user # None,
           e.token # None => owner'[e.token] # None,
           e.user = Garbage => e = Stored(t) /\ row.user = None,
           app = "signer" => e.user = row.user,
           app = "regulator" =>
               /\ row.user # None => Role(row.user) = "regulator"
               /\ e.user # Garbage => ByRegulator(e.token, owner')
               /\ e.user \in Accounts => Role(e.user) = "regulator",
           mixed \ {t} \subseteq mixed', crossed \ {StoreOf(t)} \subseteq crossed',
           t \in mixed' \/ Matches(row.user, e.token, owner'),
           StoreOf(t) \in crossed' \/ Matches(e.user, e.token, owner'),
           \/ t \in mixed' \/ row.user = None \/ row.watch = e.token
           \/ e.token = None \/ e.token \in ending,
           \A u \in Tabs(app) \ {t} : StoreOf(u) = StoreOf(t) =>
               u \in mixed' \/ e.token \in {None, Stored(t).token}
    PROVE  SInv'
<1> DEFINE s == StoreOf(t)
<1>0. /\ \A u \in Tabs(app) : u \in AllTabs /\ StoreOf(u) \in Stores /\ StoreOf(u)' = StoreOf(u)
      /\ t \in Tabs(app) /\ s \in Stores /\ Tabs(app)' = Tabs(app)
  BY StoresOfTabs DEF SInv, Base, StoreOf, Open
<1>1. Typed
  BY DEF SInv, Base
<1>2. /\ \A u \in AllTabs : tab'[u] = IF u = t THEN row ELSE tab[u]
      /\ \A r \in Stores : store'[r] = IF r = s THEN e ELSE store[r]
  BY <1>0, <1>1 DEF Typed
<1>3. Typed'
  BY <1>0, <1>1 DEF Typed
<1>10. \A c \in calls : c.token \in Tokens \cup {None}
  BY <1>1 DEF Typed, Calls
<1>4. Issued'
  <2>1. \A r \in Stores : store'[r].token # None => owner'[store'[r].token] # None
    BY <1>0, <1>1, <1>2 DEF SInv, Base, Issued, Typed, Entries, Kept
  <2>2. \A c \in calls' : (c.token # None => owner'[c.token] # None) /\ (c.kind = "login" => c.who # None)
    <3> SUFFICES ASSUME NEW c \in calls
                 PROVE  (c.token # None => owner'[c.token] # None) /\ (c.kind = "login" => c.who # None)
      OBVIOUS
    <3>1. (c.token # None => owner[c.token] # None) /\ (c.kind = "login" => c.who # None)
      BY InFlight, SessionsAssumption
    <3>2. c.token \in Tokens \cup {None}
      BY <1>10
    <3> QED BY <3>1, <3>2 DEF Kept
  <2> QED BY <2>1, <2>2 DEF Issued
<1>5. Routed' /\ FromOpenTabs'
  BY <1>2, <1>0 DEF SInv, Base, Routed, FromOpenTabs
<1>6. Base'
  <2>1. Bounded'
    BY Dropped DEF SInv, Base, Bounded
  <2> QED BY <1>3, <1>4, <1>5, <2>1 DEF Base
<1>7. CorruptedIdle'
  BY <1>0, <1>2 DEF SInv, CorruptedIdle, Stored
<1>8. ByRegulators'
  <2> SUFFICES ASSUME app = "regulator" PROVE ByRegulators'
    BY DEF ByRegulators
  <2>1. ASSUME NEW n \in Tokens \cup {None}, OfRegulator(n), n # None => owner[n] # None
        PROVE  OfRegulator(n)'
    BY <2>1 DEF OfRegulator, Kept
  <2>2. \A c \in calls' : c.kind = "profile" => OfRegulator(c.token)'
    <3> SUFFICES ASSUME NEW c \in calls, c.kind = "profile"
                 PROVE  OfRegulator(c.token)'
      OBVIOUS
    <3>1. c.token \in Tokens \cup {None} /\ (c.token # None => owner[c.token] # None)
      BY InFlight, SessionsAssumption
    <3>2. OfRegulator(c.token)
      BY InFlight
    <3> QED BY <2>1, <3>1, <3>2
  <2>3. ASSUME NEW u \in Tabs(app)
        PROVE  /\ (Stored(u).user # Garbage => OfRegulator(Stored(u).token))'
               /\ Stored(u)'.user \in Accounts => Role(Stored(u)'.user) = "regulator"
    <3>1. CASE StoreOf(u) = s
      BY <3>1, <1>0, <1>2 DEF Stored, OfRegulator, ByRegulator
    <3>2. CASE StoreOf(u) # s
      <4>1. Stored(u)' = Stored(u) /\ Stored(u).token \in Tokens \cup {None}
        BY <3>2, <1>0, <1>1, <1>2 DEF Stored, Typed, Entries
      <4>2. Stored(u).token # None => owner[Stored(u).token] # None
        BY <1>0 DEF SInv, Base, Issued, Stored
      <4>3. OfRegulator(Stored(u).token) => OfRegulator(Stored(u).token)'
        BY <2>1, <4>1, <4>2
      <4> QED BY <4>1, <4>3 DEF SInv, ByRegulators
    <3> QED BY <3>1, <3>2
  <2> QED BY <1>0, <2>2, <2>3 DEF ByRegulators
<1>9. ConsoleForRegulators' /\ ReloadKeepsUser'
  BY <1>0, <1>2 DEF SInv, ConsoleForRegulators, ReloadKeepsUser, StoreOf, Stored, AllTabs
<1>11. ActsAsShown'
  <2>1. ASSUME NEW u \in Tabs(app), u \notin mixed'
        PROVE  Consistent(tab[u].user, Stored(u).token)'
    <3>1. CASE u = t
      BY <2>1, <3>1, <1>0, <1>2 DEF Stored, Consistent, Matches
    <3>2. CASE u # t /\ Stored(u)'.token = Stored(u).token
      <4>1. Consistent(tab[u].user, Stored(u).token) /\ tab'[u] = tab[u]
        BY <2>1, <3>2, <1>0, <1>2 DEF SInv, ActsAsShown
      <4>2. Stored(u).token \in Tokens \cup {None}
            /\ (Stored(u).token # None => owner[Stored(u).token] # None)
        BY <1>0, <1>1 DEF SInv, Base, Issued, Stored, Typed, Entries
      <4>3. Consistent(tab[u].user, Stored(u).token)'
        BY <3>2, <4>1, <4>2 DEF Consistent, Kept
      <4> QED BY <4>3
    <3>3. CASE u # t /\ Stored(u)'.token # Stored(u).token
      BY <2>1, <3>3, <1>0, <1>2 DEF Stored, Consistent
    <3> QED BY <3>1, <3>2, <3>3
  <2>2. ASSUME NEW r \in Stores, r \notin crossed'
        PROVE  Consistent(store[r].user, store[r].token)'
    <3>1. CASE r = s
      BY <2>2, <3>1, <1>0, <1>2 DEF Consistent, Matches
    <3>2. CASE r # s
      <4>1. Consistent(store[r].user, store[r].token) /\ store'[r] = store[r]
        BY <2>2, <3>2, <1>0, <1>2 DEF SInv, ActsAsShown
      <4>2. store[r].token \in Tokens \cup {None} /\ (store[r].token # None => owner[store[r].token] # None)
        BY <1>1 DEF SInv, Base, Issued, Typed, Entries
      <4> QED BY <4>1, <4>2 DEF Consistent, Kept
    <3> QED BY <3>1, <3>2
  <2> QED BY <1>0, <2>1, <2>2 DEF ActsAsShown
<1>12. WatchesItsToken'
  <2> SUFFICES ASSUME NEW u \in Tabs(app), u \notin mixed', tab'[u].user # None, ~Dead(u)',
                      Stored(u)'.token \notin ending
               PROVE  tab'[u].watch = Stored(u)'.token
    BY <1>0 DEF WatchesItsToken
  <2>1. CASE u = t
    BY <2>1, <1>0, <1>2 DEF Stored, Dead
  <2>2. CASE u # t /\ Stored(u)'.token = Stored(u).token
    <3>1. tab'[u] = tab[u] /\ u \notin mixed /\ ~Dead(u)
      BY <2>2, <1>0, <1>2 DEF Dead
    <3> QED BY <2>2, <3>1 DEF SInv, WatchesItsToken
  <2>3. CASE u # t /\ Stored(u)'.token # Stored(u).token
    BY <2>3, <1>0, <1>2 DEF Stored, Dead
  <2> QED BY <2>1, <2>2, <2>3
<1> QED BY <1>6, <1>7, <1>8, <1>9, <1>11, <1>12 DEF SInv
----------------------------------------------------------------------------
(* One step of each action.                                                *)
LEMMA SubmitLoginKeeps == ASSUME SInv, NEW t \in AllTabs, NEW a \in Accounts, SubmitLogin(t, a) PROVE SInv'
<1>1. Open(t) /\ send(t, "login", a) /\ UNCHANGED <<app, store, server, mixed, crossed>>
      /\ tab' = [tab EXCEPT ![t].loading = TRUE] /\ a # None
  BY SessionsAssumption DEF SubmitLogin
<1> QED BY <1>1, SendKeeps DEF Kinds

LEMMA SubmitFormKeeps == ASSUME SInv, NEW t \in AllTabs, SubmitForm(t) PROVE SInv'
  BY SendKeeps DEF SubmitForm, Kinds

LEMMA RequestKeeps ==
    ASSUME SInv, NEW t \in AllTabs, NEW kind \in {"get", "pin", "profile"}, Request(t, kind)
    PROVE  SInv'
<1>1. kind \in Kinds /\ kind # "login" /\ tab[t].user # None
      /\ Open(t) /\ send(t, kind, None) /\ UNCHANGED <<app, store, server, mixed, crossed>> /\ tab' = tab
  BY DEF Request, Kinds
<1> QED BY <1>1, SendKeeps

LEMMA RequestOKKeeps == ASSUME SInv, NEW c \in calls, RequestOK(c) PROVE SInv'
<1>1. Base'
  <2>1. Bounded'
    BY Dropped DEF SInv, Base, Bounded, RequestOK
  <2> QED BY <2>1 DEF SInv, Base, Typed, Issued, Routed, FromOpenTabs, RequestOK, server
<1> QED BY <1>1, Unchanged DEF RequestOK

LEMMA CallFailsKeeps == ASSUME SInv, NEW c \in calls, CallFails(c) PROVE SInv'
<1> DEFINE t == c.from
           b == tab[t].loading /\ c.kind \notin {"login", "form"}
<1>1. t \in AllTabs /\ tab \in [AllTabs -> TabStates] /\ tab[t] \in TabStates /\ b \in BOOLEAN
  BY InFlight DEF SInv, Base, Typed
<1>2. tab[t].at \in {"login", "form", "in"} /\ (tab[t].at = "in" <=> tab[t].user # None)
  BY <1>1 DEF TabStates, SInv, Base, Routed
<1>3. [tab[t] EXCEPT !.loading = b] = [tab[t] EXCEPT !.loading = b, !.at = tab[t].at]
  BY <1>1 DEF TabStates
<1>4. tab' = [tab EXCEPT ![t] = [tab[t] EXCEPT !.loading = b]]
  BY <1>1 DEF CallFails
<1>5. tab' = [tab EXCEPT ![t].loading = b, ![t].at = tab[t].at]
  BY <1>1, <1>3, <1>4
<1>6. calls' = calls \ {c} /\ {c} \in SUBSET calls /\ UNCHANGED <<app, store, server, mixed, crossed>>
  BY DEF CallFails
<1> HIDE DEF t, b
<1> QED BY <1>1, <1>2, <1>5, <1>6, QuietKeeps

LEMMA FormOKKeeps == ASSUME SInv, NEW c \in calls, FormOK(c) PROVE SInv'
<1> DEFINE t == c.from
<1>1. PICK at \in {tab[t].at, IF tab[t].at = "form" THEN "login" ELSE tab[t].at} :
        tab' = [tab EXCEPT ![t].loading = FALSE, ![t].at = at]
  BY DEF FormOK
<1>2. t \in AllTabs /\ tab[t] \in TabStates
  BY InFlight
<1>3. at \in {"login", "form", "in"} /\ (at = "in" <=> tab[t].user # None)
  BY <1>1, <1>2 DEF TabStates, SInv, Base, Routed
<1>4. calls' = calls \ {c} /\ {c} \in SUBSET calls /\ UNCHANGED <<app, store, server, mixed, crossed>>
  BY DEF FormOK
<1> HIDE DEF t
<1> QED BY <1>1, <1>2, <1>3, <1>4, QuietKeeps

LEMMA VisitKeeps ==
    ASSUME SInv, NEW t \in AllTabs, NEW at \in {"login", "form", "in"}, Visit(t, at)
    PROVE  SInv'
<1> DEFINE to == Route(at, tab[t].user)
<1>1. tab \in [AllTabs -> TabStates] /\ tab[t] \in TabStates
  BY DEF SInv, Base, Typed
<1>2. to \in {"login", "form", "in"} /\ (to = "in" <=> tab[t].user # None)
  BY DEF Route
<1>3. [tab[t] EXCEPT !.at = to] = [tab[t] EXCEPT !.loading = tab[t].loading, !.at = to]
      /\ tab[t].loading \in BOOLEAN
  BY <1>1 DEF TabStates
<1>4. tab' = [tab EXCEPT ![t].at = to] /\ UNCHANGED <<app, store, server, mixed, crossed>>
      /\ calls' = calls \ {} /\ {} \in SUBSET calls
  BY DEF Visit
<1> HIDE DEF to
<1>5. tab' = [tab EXCEPT ![t].loading = tab[t].loading, ![t].at = to]
  BY <1>1, <1>3, <1>4
<1> QED BY <1>2, <1>3, <1>4, <1>5, QuietKeeps
\* updateProfile: the token's account is somebody, and at the console a regulator.
LEMMA ProfileOKKeeps == ASSUME SInv, NEW c \in calls, ProfileOK(c) PROVE SInv'
<1> DEFINE t == c.from  s == StoreOf(t)  a == owner[c.token]  old == Stored(t)
           e == [token |-> old.token, user |-> a]
           row == [user |-> a, at |-> Route(tab[t].at, a), loading |-> tab[t].loading,
                   watch |-> Watched(a, old.token)]
<1>1. /\ t \in AllTabs /\ Open(t) /\ t \in Tabs(app) /\ s \in Stores
      /\ old \in Entries /\ tab[t] \in TabStates /\ c.token \in Tokens
  BY InFlight DEF ProfileOK
<1>2. tab \in [AllTabs -> TabStates] /\ store \in [Stores -> Entries]
      /\ owner \in [Tokens -> Accounts \cup {None}]
  BY DEF SInv, Base, Typed
<1>3. a # None /\ a \in Accounts /\ a # Garbage
  BY InFlight, SessionsAssumption DEF ProfileOK
<1>4. row \in TabStates /\ row.at = "in" /\ row.user = a
      /\ (row.watch = old.token \/ old.token = None \/ old.token \in ending)
  <2>1. Route(tab[t].at, a) = "in" /\ Watched(a, old.token) \in Tokens \cup {None}
       /\ (Watched(a, old.token) = old.token \/ old.token \in ending)
    BY <1>1, <1>3 DEF TabStates, Entries, Route, Watched
  <2> QED BY <2>1, <1>1, <1>3 DEF TabStates
<1>5. e \in Entries /\ e.user = a /\ e.token = old.token
  BY <1>1, <1>3 DEF Entries
<1>6. tab' = [tab EXCEPT ![t] = row] /\ store' = [store EXCEPT ![s] = e]
  <2>1. row = [tab[t] EXCEPT !.user = a, !.at = Route(tab[t].at, a), !.watch = Watched(a, old.token)]
    <3>1. \A x, y, z : [tab[t] EXCEPT !.user = x, !.at = y, !.watch = z]
                          = [user |-> x, at |-> y, loading |-> tab[t].loading, watch |-> z]
      BY <1>1, TabRow
    <3> QED BY ONLY <3>1
  <2>2. /\ store' = [store EXCEPT ![s].user = a]
        /\ tab' = [tab EXCEPT ![t].user = a, ![t].at = Route(tab[t].at, a),
                             ![t].watch = Watched(a, store[s].token)]
    BY DEF ProfileOK
  <2>3. tab' = [tab EXCEPT ![t] = [tab[t] EXCEPT !.user = a, !.at = Route(tab[t].at, a), !.watch = Watched(a, old.token)]]
    BY <2>2, <1>1, <1>2 DEF Stored
  <2>4. store' = [store EXCEPT ![s] = [old EXCEPT !.user = a]]
    BY <2>2, <1>1, <1>2 DEF Stored
  <2>5. e = [old EXCEPT !.user = a]
    BY <1>1, Entry
  <2> QED BY <2>1, <2>3, <2>4, <2>5
<1>7. /\ UNCHANGED <<app, ending, expired, owner>> /\ calls' = calls \ {c} /\ {c} \in SUBSET calls
      /\ mixed' = IF c.token # old.token THEN mixed \cup {t} ELSE mixed \ {t}
      /\ crossed' = IF c.token # old.token THEN crossed \cup {s} ELSE crossed \ {s}
  BY DEF ProfileOK, Stored, server
<1>8. app = "regulator" => Role(a) = "regulator" /\ ByRegulator(old.token, owner')
  <2>1. ASSUME app = "regulator" PROVE Role(a) = "regulator" /\ OfRegulator(old.token)
    <3>1. OfRegulator(c.token) /\ old.user # Garbage
      BY <2>1, <1>1 DEF SInv, ByRegulators, CorruptedIdle, ProfileOK
    <3> QED BY <3>1, <2>1, <1>1, SessionsAssumption DEF SInv, ByRegulators, OfRegulator, ProfileOK
  <2>2. OfRegulator(old.token) => ByRegulator(old.token, owner')
    BY <1>7 DEF OfRegulator, ByRegulator
  <2> QED BY <2>1, <2>2
<1>9. old.token # None => owner'[old.token] # None
  BY <1>1, <1>7 DEF SInv, Base, Issued, Stored
<1>10. mixed' \subseteq AllTabs /\ crossed' \subseteq Stores /\ Kept
       /\ mixed \ {t} \subseteq mixed' /\ crossed \ {s} \subseteq crossed'
  BY <1>1, <1>7 DEF SInv, Base, Typed, Kept
<1>11. (t \in mixed' \/ Matches(a, old.token, owner')) /\ (s \in crossed' \/ Matches(a, old.token, owner'))
  BY <1>7 DEF Matches
<1> HIDE DEF t, s, a, old, e, row
<1>12. \A u \in Tabs(app) \ {t} : StoreOf(u) = s => u \in mixed' \/ e.token \in {None, Stored(t).token}
  BY <1>5 DEF old
<1> QED
  <2> USE DEF s, old
  <2> QED BY <1>1, <1>2, <1>3, <1>4, <1>5, <1>6, <1>7, <1>8, <1>9, <1>10, <1>11, <1>12, SessionKeeps

\* handleLogout
LEMMA logoutKeeps == ASSUME SInv, NEW t \in AllTabs, logout(t) PROVE SInv'
<1> DEFINE s == StoreOf(t)
           row == [user |-> None, at |-> "login", loading |-> tab[t].loading, watch |-> None]
<1>1. /\ Open(t) /\ t \in Tabs(app) /\ s \in Stores /\ tab[t] \in TabStates
      /\ tab \in [AllTabs -> TabStates] /\ owner \in [Tokens -> Accounts \cup {None}]
  BY StoresOfTabs DEF SInv, Base, Typed, logout, Open
<1>2. row \in TabStates /\ row.at = "login" /\ row.user = None
  BY <1>1 DEF TabStates
<1>3. Empty \in Entries /\ Empty.token = None /\ Empty.user = None
  BY DEF Empty, Entries
<1>4. tab' = [tab EXCEPT ![t] = row]
  <2>1. row = [tab[t] EXCEPT !.user = None, !.at = "login", !.watch = None]
    BY <1>1, TabRow
  <2>2. tab' = [tab EXCEPT ![t] = [tab[t] EXCEPT !.user = None, !.at = "login", !.watch = None]]
    BY <1>1 DEF logout
  <2> QED BY <2>1, <2>2
<1>5. tab' = [tab EXCEPT ![t] = row] /\ store' = [store EXCEPT ![s] = Empty]
      /\ UNCHANGED <<app, ending, expired, owner>> /\ calls' = calls \ {} /\ {} \in SUBSET calls
      /\ mixed' = mixed \ {t} /\ crossed' = crossed \ {s}
  BY <1>1, <1>4 DEF logout, server
<1>6. Empty.user \notin Accounts /\ Empty.user # Garbage
  BY <1>3, SessionsAssumption
<1>7. mixed' \subseteq AllTabs /\ crossed' \subseteq Stores /\ Kept
  BY <1>1, <1>5 DEF SInv, Base, Typed, Kept
<1>8. ByRegulator(Empty.token, owner') /\ Matches(None, Empty.token, owner')
  BY <1>3 DEF ByRegulator, Matches
<1> HIDE DEF row
<1> QED
  BY <1>1, <1>2, <1>3, <1>5, <1>6, <1>7, <1>8, SessionKeeps
\* A 401 empties the storage.  At /login nobody is shown, elsewhere the page goes.
LEMMA UnauthorizedKeeps == ASSUME SInv, NEW c \in calls, Unauthorized(c) PROVE SInv'
<1> DEFINE t == c.from  s == StoreOf(t)
<1>1. /\ t \in AllTabs /\ Open(t) /\ t \in Tabs(app) /\ s \in Stores /\ tab[t] \in TabStates
      /\ tab \in [AllTabs -> TabStates] /\ owner \in [Tokens -> Accounts \cup {None}]
  BY InFlight DEF SInv, Base, Typed
<1>2. Empty \in Entries /\ Empty.token = None /\ Empty.user = None
  BY DEF Empty, Entries
<1>3. Empty.user \notin Accounts /\ Empty.user # Garbage
  BY <1>2, SessionsAssumption
<1>4. store' = [store EXCEPT ![s] = Empty] /\ UNCHANGED <<app, ending, expired, owner>>
      /\ crossed' = crossed \ {s} /\ mixed' \subseteq mixed /\ mixed \ {t} \subseteq mixed'
  BY DEF Unauthorized, server
<1>5. mixed' \subseteq AllTabs /\ crossed' \subseteq Stores /\ Kept /\ s \in Stores
  BY <1>1, <1>4 DEF SInv, Base, Typed, Kept
<1>6. \A user : ByRegulator(Empty.token, owner') /\ Matches(user, Empty.token, owner')
  BY <1>2 DEF ByRegulator, Matches
<1>7. \E row \in TabStates, S \in SUBSET calls :
         /\ row.user = None /\ row.at # "in"
         /\ tab' = [tab EXCEPT ![t] = row] /\ calls' = calls \ S
  <2>1. CASE tab[t].at = "login"
    <3> DEFINE row == [tab[t] EXCEPT !.loading = @ /\ c.kind # "login"]
    <3>1. row \in TabStates /\ row.user = tab[t].user /\ row.at = "login"
      BY <1>1, <2>1 DEF TabStates
    <3>2. tab[t].user = None
      BY <1>1, <2>1 DEF SInv, Base, Routed
    <3>3. tab' = [tab EXCEPT ![t] = row] /\ calls' = calls \ {c}
      BY <1>1, <2>1 DEF Unauthorized
    <3> HIDE DEF row
    <3> QED BY <3>1, <3>2, <3>3
  <2>2. CASE tab[t].at # "login"
    <3> DEFINE row == [user |-> None, at |-> "login", loading |-> FALSE, watch |-> None]
    <3>1. row \in TabStates /\ row.user = None /\ row.at # "in"
      BY DEF TabStates
    <3>2. loadStoredUser(Empty) = None /\ Route("login", None) = "login" /\ Watched(None, None) = None
      BY <1>2, SessionsAssumption DEF loadStoredUser, Route, Watched
    <3>3. tab' = [tab EXCEPT ![t] = row] /\ calls' = calls \ Aborted(t)
      BY <1>2, <2>2, <3>2 DEF Unauthorized, LoadPage
    <3> HIDE DEF row
    <3> QED BY <3>1, <3>3 DEF Aborted
  <2> QED BY <2>1, <2>2
<1>8. PICK row \in TabStates, S \in SUBSET calls :
         /\ row.user = None /\ row.at # "in"
         /\ tab' = [tab EXCEPT ![t] = row] /\ calls' = calls \ S
  BY <1>7
<1> HIDE DEF t
<1> QED BY <1>1, <1>2, <1>3, <1>4, <1>5, <1>6, <1>8, SessionKeeps

\* A page is loaded from what is stored.
LEMMA ReloadKeeps == ASSUME SInv, NEW t \in AllTabs, Reload(t) PROVE SInv'
<1> DEFINE s == StoreOf(t)  old == Stored(t)  user == loadStoredUser(old)
           broken == app = "signer" /\ old.user = Garbage
           e == IF broken THEN Empty ELSE old
           row == [user |-> user, at |-> Route(tab[t].at, user), loading |-> FALSE,
                   watch |-> Watched(user, old.token)]
<1>1. /\ Open(t) /\ t \in Tabs(app) /\ s \in Stores /\ tab[t] \in TabStates /\ old \in Entries
      /\ owner \in [Tokens -> Accounts \cup {None}] /\ store \in [Stores -> Entries]
      /\ app = "signer" => s = t
  BY StoresOfTabs DEF SInv, Base, Typed, Reload, Open, Stored, StoreOf
<1>2. Empty \in Entries /\ Empty.token = None /\ Empty.user = None
  BY DEF Empty, Entries
<1>3. user \in Accounts \cup {None} /\ user = IF old.user = Garbage THEN None ELSE old.user
  BY <1>1, SessionsAssumption DEF loadStoredUser, Entries
<1>4. row \in TabStates /\ (row.at = "in" <=> row.user # None) /\ row.user = user
      /\ (user = None \/ old.token = None \/ old.token \in ending \/ row.watch = old.token)
  <2>1. Route(tab[t].at, user) \in {"login", "form", "in"} /\ (Route(tab[t].at, user) = "in" <=> user # None)
    BY <1>1 DEF Route, TabStates
  <2>2. Watched(user, old.token) \in Tokens \cup {None}
        /\ (user = None \/ old.token \in ending \/ Watched(user, old.token) = old.token)
    BY <1>1 DEF Entries, Watched
  <2> HIDE DEF user, old
  <2> QED BY <1>3, <2>1, <2>2 DEF TabStates
<1>5. /\ e \in Entries /\ e.token \in {None, old.token}
      /\ e.token # None => old.user # Garbage \/ app # "signer"
      /\ broken \/ e = old
  BY <1>1, <1>2
<1>6. tab' = [tab EXCEPT ![t] = row] /\ store' = [store EXCEPT ![s] = e]
  BY <1>1 DEF Reload, LoadPage, Stored
<1>7. /\ UNCHANGED <<app, ending, expired, owner, crossed>> /\ calls' = calls \ Aborted(t) /\ Aborted(t) \in SUBSET calls
      /\ mixed' = IF s \in crossed THEN mixed \cup {t} ELSE mixed \ {t}
  BY DEF Reload, server, Aborted
<1>8. app = "regulator" => /\ user # None => Role(user) = "regulator"
                           /\ old.user # Garbage => ByRegulator(old.token, owner')
  BY <1>1, <1>3, <1>7 DEF SInv, ByRegulators, OfRegulator, ByRegulator
<1>9. old.token # None => owner'[old.token] # None
  BY <1>1, <1>7 DEF SInv, Base, Issued, Stored
<1>10. s \in crossed' \/ Matches(old.user, old.token, owner')
  BY <1>1, <1>7 DEF SInv, ActsAsShown, Consistent, Matches, Stored
<1>11. (t \in mixed' \/ Matches(user, e.token, owner')) /\ (s \in crossed' \/ Matches(e.user, e.token, owner'))
  BY <1>2, <1>3, <1>5, <1>7, <1>10 DEF Matches
<1>12. mixed' \subseteq AllTabs /\ crossed' \subseteq Stores /\ Kept
       /\ mixed \ {t} \subseteq mixed' /\ crossed \ {s} \subseteq crossed'
  BY <1>7 DEF SInv, Base, Typed, Kept
<1>13. e.user = Garbage => e = old /\ user = None
  BY <1>2, <1>3, <1>5, SessionsAssumption
<1>14. app = "signer" => e.user = user
  BY <1>2, <1>3, <1>5
<1>15. app = "regulator" => /\ e.user # Garbage => ByRegulator(e.token, owner')
                            /\ e.user \in Accounts => Role(e.user) = "regulator"
  BY <1>1, <1>3, <1>5, <1>8, SessionsAssumption
<1>16. e.token # None => owner'[e.token] # None
  BY <1>5, <1>9
<1> HIDE DEF user, e, row
<1> QED
  BY <1>1, <1>4, <1>5, <1>6, <1>7, <1>8, <1>11, <1>12, <1>13, <1>14, <1>15, <1>16, SessionKeeps

\* A token's last two minutes begin.
LEMMA EndSoonKeeps == ASSUME SInv, NEW n \in Tokens, EndSoon(n) PROVE SInv'
<1>1. UNCHANGED <<app, store, tab, calls, owner, expired, mixed, crossed>> /\ ending' = ending \cup {n}
  BY DEF EndSoon
<1>2. \A u : StoreOf(u)' = StoreOf(u) /\ Stored(u)' = Stored(u)
  BY <1>1 DEF StoreOf, Stored
<1>3. Base'
  BY <1>1 DEF SInv, Base, Typed, Bounded, Issued, Routed, FromOpenTabs
<1>4. CorruptedIdle' /\ ByRegulators' /\ ConsoleForRegulators' /\ ReloadKeepsUser' /\ ActsAsShown'
  BY <1>1, <1>2 DEF SInv, CorruptedIdle, ByRegulators, OfRegulator, ConsoleForRegulators,
     ReloadKeepsUser, ActsAsShown, Consistent
<1>5. WatchesItsToken'
  BY <1>1, <1>2 DEF SInv, WatchesItsToken, Dead
<1> QED BY <1>3, <1>4, <1>5 DEF SInv

\* A token runs out.
LEMMA ExpireKeeps == ASSUME SInv, NEW n \in Tokens, Expire(n) PROVE SInv'
<1>1. n \in ending /\ UNCHANGED <<app, store, tab, calls, owner, ending, mixed, crossed>> /\ expired' = expired \cup {n}
  BY DEF Expire
<1>2. \A u : StoreOf(u)' = StoreOf(u) /\ Stored(u)' = Stored(u)
  BY <1>1 DEF StoreOf, Stored
<1>3. Base'
  BY <1>1 DEF SInv, Base, Typed, Bounded, Issued, Routed, FromOpenTabs
<1>4. CorruptedIdle' /\ ByRegulators' /\ ConsoleForRegulators' /\ ReloadKeepsUser' /\ ActsAsShown'
  BY <1>1, <1>2 DEF SInv, CorruptedIdle, ByRegulators, OfRegulator, ConsoleForRegulators,
     ReloadKeepsUser, ActsAsShown, Consistent
<1>5. WatchesItsToken'
  BY <1>1, <1>2 DEF SInv, WatchesItsToken, Dead
<1> QED BY <1>3, <1>4, <1>5 DEF SInv

\* A login: a token that nobody holds yet.  An account without a place at the
\* console gets its token, and nothing is stored.
LEMMA LoginOKKeeps == ASSUME SInv, NEW c \in calls, LoginOK(c) PROVE SInv'
<1> DEFINE t == c.from  s == StoreOf(t)  a == c.who  old == Stored(t)
<1>1. /\ t \in AllTabs /\ Open(t) /\ t \in Tabs(app) /\ s \in Stores /\ tab[t] \in TabStates
      /\ old \in Entries /\ a \in Accounts /\ store[s] = old
      /\ tab \in [AllTabs -> TabStates] /\ owner \in [Tokens -> Accounts \cup {None}]
      /\ store \in [Stores -> Entries] /\ mixed \subseteq AllTabs /\ crossed \subseteq Stores
  BY InFlight DEF SInv, Base, Typed, LoginOK, Stored
<1>2. PICK n \in Tokens :
         /\ owner[n] = None /\ owner' = [owner EXCEPT ![n] = a]
         /\ IF MaySignIn(a) THEN SignIn(t, n, a)
            ELSE tab' = [tab EXCEPT ![t].loading = FALSE] /\ UNCHANGED <<store, mixed, crossed>>
  BY DEF LoginOK
<1>3. UNCHANGED <<app, ending, expired>> /\ calls' = calls \ {c} /\ {c} \in SUBSET calls
  BY DEF LoginOK
<1>4. owner' \in [Tokens -> Accounts \cup {None}] /\ Kept /\ owner'[n] = a
  BY <1>1, <1>2 DEF Kept
<1>5. a # None /\ a # Garbage
  BY <1>1, SessionsAssumption
<1>6. CASE MaySignIn(a)
  <2> DEFINE row == [user |-> a, at |-> "in", loading |-> FALSE, watch |-> Watched(a, n)]
             e == [token |-> n, user |-> a]
  <2>1. row \in TabStates /\ row.at = "in" /\ row.user = a /\ (row.watch = n \/ n \in ending)
    BY <1>1, <1>5 DEF TabStates, Watched
  <2>2. e \in Entries /\ e.token = n /\ e.user = a
    BY <1>1 DEF Entries
  <2>3. /\ tab' = [tab EXCEPT ![t] = row] /\ store' = [store EXCEPT ![s] = e]
        /\ mixed' = (mixed \cup {u \in Tabs(app) : StoreOf(u) = s}) \ {t}
        /\ crossed' = crossed \ {s}
    BY <1>2, <1>6 DEF SignIn
  <2>4. app = "regulator" => Role(a) = "regulator" /\ ByRegulator(n, owner')
    BY <1>4, <1>6 DEF MaySignIn, ByRegulator
  <2>5. Matches(a, n, owner')
    BY <1>4 DEF Matches
  <2>6. mixed' \subseteq AllTabs /\ crossed' \subseteq Stores
        /\ mixed \ {t} \subseteq mixed' /\ crossed \ {s} \subseteq crossed'
    BY <1>1, <2>3, StoresOfTabs DEF SInv, Base
  <2>7. \A u \in Tabs(app) \ {t} : StoreOf(u) = s => u \in mixed'
    BY <2>3
  <2> HIDE DEF row, e, t, a
  <2> QED BY <1>1, <1>3, <1>4, <1>5, <2>1, <2>2, <2>3, <2>4, <2>5, <2>6, <2>7, SessionKeeps
<1>7. CASE ~MaySignIn(a)
  <2> DEFINE row == [tab[t] EXCEPT !.loading = FALSE]
  <2>1. row \in TabStates /\ row.at = tab[t].at /\ row.user = tab[t].user /\ row.watch = tab[t].watch
    BY <1>1 DEF TabStates
  <2>2. tab' = [tab EXCEPT ![t] = row] /\ store' = [store EXCEPT ![s] = old] /\ UNCHANGED <<mixed, crossed>>
    BY <1>1, <1>2, <1>7
  <2>3. app = "regulator"
    BY <1>7 DEF MaySignIn
  <2>4. (row.at = "in" <=> row.user # None) /\ (row.user # None => Role(row.user) = "regulator")
    BY <1>1, <2>1, <2>3 DEF SInv, Base, Routed, ConsoleForRegulators
  <2>5. old.user = Garbage => row.user = None
    BY <1>1, <2>1 DEF SInv, CorruptedIdle
  <2>6. old.token \in Tokens \cup {None} /\ (old.token # None => owner[old.token] # None)
    BY <1>1 DEF Entries, SInv, Base, Issued
  <2>7. old.token # None => owner'[old.token] = owner[old.token]
    BY <1>4, <2>6 DEF Kept
  <2>8. /\ old.user # Garbage => ByRegulator(old.token, owner')
        /\ old.user \in Accounts => Role(old.user) = "regulator"
    BY <1>1, <2>3, <2>7 DEF SInv, ByRegulators, OfRegulator, ByRegulator
  <2>9. t \in mixed' \/ Matches(row.user, old.token, owner')
    BY <1>1, <2>1, <2>2, <2>7 DEF SInv, ActsAsShown, Consistent, Matches
  <2>10. s \in crossed' \/ Matches(old.user, old.token, owner')
    BY <1>1, <2>2, <2>7 DEF SInv, ActsAsShown, Consistent, Matches
  <2>11. t \in mixed' \/ row.user = None \/ row.watch = old.token \/ old.token = None \/ old.token \in ending
    BY <1>1, <2>1, <2>2 DEF SInv, Base, Typed, WatchesItsToken, Dead
  <2>12. app # "signer"
    BY <2>3
  <2>13. mixed' \subseteq AllTabs /\ crossed' \subseteq Stores
         /\ mixed \ {t} \subseteq mixed' /\ crossed \ {s} \subseteq crossed'
    BY <1>1, <2>2
  <2>14. old.token # None => owner'[old.token] # None
    BY <2>6, <2>7
  <2> HIDE DEF row, t, a
  <2> QED BY <1>1, <1>3, <1>4, <2>1, <2>2, <2>4, <2>5, <2>8, <2>9, <2>10, <2>11, <2>12, <2>13, <2>14, SessionKeeps
<1> QED BY <1>6, <1>7

LEMMA SStep == SInv /\ [Next]_vars => SInv'
<1> SUFFICES ASSUME SInv, [Next]_vars PROVE SInv'
  OBVIOUS
<1>1. ASSUME NEW t \in AllTabs, NEW a \in Accounts, SubmitLogin(t, a) PROVE SInv'
  BY <1>1, SubmitLoginKeeps
<1>2. ASSUME NEW t \in AllTabs, SubmitForm(t) \/ logout(t) \/ Reload(t) PROVE SInv'
  BY <1>2, SubmitFormKeeps, logoutKeeps, ReloadKeeps
<1>3. ASSUME NEW t \in AllTabs, NEW kind \in {"get", "pin", "profile"}, Request(t, kind) PROVE SInv'
  BY <1>3, RequestKeeps
<1>4. ASSUME NEW t \in AllTabs, NEW at \in {"login", "form", "in"}, Visit(t, at) PROVE SInv'
  BY <1>4, VisitKeeps
<1>5. ASSUME NEW c \in calls, Answer(c) PROVE SInv'
  BY <1>5, LoginOKKeeps, FormOKKeeps, ProfileOKKeeps, RequestOKKeeps, CallFailsKeeps, UnauthorizedKeeps
     DEF Answer
<1>6. ASSUME NEW n \in Tokens, EndSoon(n) \/ Expire(n) PROVE SInv'
  BY <1>6, EndSoonKeeps, ExpireKeeps
<1>7. CASE UNCHANGED vars
  <2>1. \A u : StoreOf(u)' = StoreOf(u) /\ Stored(u)' = Stored(u)
    BY <1>7 DEF vars, StoreOf, Stored
  <2>2. Base'
    BY <1>7 DEF SInv, Base, Typed, Bounded, Issued, Routed, FromOpenTabs, vars, server
  <2>3. \A u \in AllTabs : tab'[u].user = tab[u].user /\ tab'[u].watch = tab[u].watch
    BY <1>7 DEF vars
  <2>4. UNCHANGED <<app, store, server, mixed, crossed>> /\ \A c \in calls' : c \in calls
    BY <1>7 DEF vars, server
  <2> QED BY <2>2, <2>3, <2>4, Unchanged
<1> QED BY <1>1, <1>2, <1>3, <1>4, <1>5, <1>6, <1>7 DEF Next

----------------------------------------------------------------------------
(* Theorems.                                                               *)
\* Page, storage, token and watcher are in step, whatever is in flight: who is
\* shown is whom the requests act for, the console shows regulators only, a
\* reload of the signer's app keeps the user, and until the moment to warn a
\* timer is set for the token in use.
THEOREM SessionInStep == Spec => []InStep
<1>1. SInv => InStep
  BY DEF SInv, Base, Typed, Bounded, TabStates, Entries, InStep, TypeOK
<1> QED BY SInit, SStep, <1>1, PTL DEF Spec

\* As long as only a session's own usable requests are on their way, it stays,
\* unless its user ends it or the database fails under one of them: no other
\* answer empties or replaces the storage.
THEOREM SessionStays == Spec => SessionKept
<1> DEFINE Mine(s) == {c \in calls : StoreOf(c.from) = s}
           Calm(s) == /\ store[s].token # None /\ store[s].token \notin expired
                      /\ \A c \in Mine(s) : c.kind \in {"get", "profile", "form"} /\ c.token = store[s].token
           Ended(s) == \/ \E t \in Tabs(app) : StoreOf(t) = s /\ (logout(t) \/ Reload(t))
                       \/ MongoFails /\ \E c \in Mine(s) : Unauthorized(c)
<1>1. ASSUME SInv, [Next]_vars, NEW s \in Stores, Calm(s), ~Ended(s)
      PROVE  store'[s].token = store[s].token
  <2>1. store \in [Stores -> Entries] /\ \A t \in Tabs(app) : StoreOf(t) \in Stores
    BY <1>1, StoresOfTabs DEF SInv, Base, Typed
  <2>2. ASSUME NEW c \in calls, Answer(c) PROVE store'[s].token = store[s].token
    <3>1. CASE StoreOf(c.from) = s
      <4>1. c.kind \in {"get", "profile", "form"} /\ Usable(c) /\ c \in Mine(s)
        BY <1>1, <3>1 DEF Usable
      <4>2. ~LoginOK(c)
        BY <4>1 DEF LoginOK
      <4>3. ~Unauthorized(c)
        <5>1. CASE MongoFails
          BY <1>1, <4>1, <5>1
        <5>2. CASE ~MongoFails
          BY <4>1, <5>2 DEF Unauthorized, Refusable
        <5> QED BY <5>1, <5>2
      <4> QED BY <2>1, <2>2, <4>2, <4>3 DEF Answer, FormOK, ProfileOK, RequestOK, CallFails, Entries
    <3>2. CASE StoreOf(c.from) # s
      BY <2>1, <2>2, <3>2 DEF Answer, LoginOK, SignIn, FormOK, ProfileOK, RequestOK, CallFails, Unauthorized
    <3> QED BY <3>1, <3>2
  <2>3. ASSUME NEW t \in AllTabs, logout(t) \/ Reload(t) PROVE store'[s].token = store[s].token
    <3>1. t \in Tabs(app) /\ StoreOf(t) # s
      BY <1>1, <2>3 DEF logout, Reload, Open
    <3> QED BY <2>1, <2>3, <3>1 DEF logout, Reload, StoreOf
  <2> QED BY <1>1, <2>2, <2>3 DEF Next, vars, SubmitLogin, SubmitForm, Request, Visit, EndSoon, Expire
<1>2. SInv /\ [Next]_vars =>
        [\A s \in Stores : LET mine == {c \in calls : StoreOf(c.from) = s} IN
           store[s].token # None /\ store[s].token \notin expired
             /\ (\A c \in mine : c.kind \in {"get", "profile", "form"} /\ c.token = store[s].token)
           => \/ store'[s].token = store[s].token
              \/ \E t \in Tabs(app) : StoreOf(t) = s /\ (logout(t) \/ Reload(t))
              \/ MongoFails /\ \E c \in mine : Unauthorized(c)]_vars
  BY <1>1
<1> QED BY SInit, SStep, <1>2, PTL DEF Spec, SessionKept
============================================================================
