----------------------------- MODULE Accounts ------------------------------
(***************************************************************************)
(* Accounts of the API: registration with its enrolment into the Fabric    *)
(* wallet, login, the profile, password changes, the reset-token flow, and *)
(* the regulator's writes to the same MongoDB records.  Every request is a *)
(* process: it loads a user document, awaits (bcrypt, the wallet), and     *)
(* saves.  save() writes the paths the handler modified, unconditionally.  *)
(*                                                                         *)
(* A reset token is the request that made it; a wallet entry is the        *)
(* cryptogen identity it was copied from.                                  *)
(***************************************************************************)
EXTENDS Naturals, FiniteSets

CONSTANTS Emails, Passwords, Reqs,
          Arrivals,     \* the requests clients may send
          Registered,   \* accounts from before, by email, with a session each
          Modes,        \* the values Live may have
          Faults,       \* calls may fail, the server may crash
          Absent, NoOne

UserRoles == {"user", "signer"}
Request ==
       [op : {"register"}, email : Emails, role : UserRoles, password : Passwords]
  \cup [op : {"login"}, email : Emails, password : Passwords]
  \cup [op : {"profile", "forgot", "revoke", "reactivate"}, email : Emails]
  \cup [op : {"change"}, email : Emails, password : Passwords, new : Passwords]
  \cup [op : {"reset"}, email : Emails, token : Reqs \cup {NoOne}, new : Passwords]

\* fabricEnrollmentId: the email, or an id with the prefix mock- or fallback-.
User == [role : UserRoles, password : Passwords, name : Reqs \cup {NoOne},
         certificateStatus : {"active", "revoked"},
         fabricEnrollmentId : {"email", "made-up"},
         resetToken : Reqs \cup {NoOne}, expired : BOOLEAN]

ASSUME AccountsAssumption ==
    /\ Arrivals \subseteq Request
    /\ Registered \in [Emails -> User \cup {Absent}]
    /\ \A e \in Emails : Registered[e] # Absent =>
          Registered[e].resetToken = NoOne /\ ~Registered[e].expired
    /\ Modes \subseteq BOOLEAN /\ Faults \in BOOLEAN
    /\ NoOne \notin Reqs /\ Absent \notin User

VARIABLES Live,       \* FABRIC_MOCK = false; read once when the server starts
          users,      \* MongoDB: the user of each email; the index on email is unique
          wallet,     \* Fabric wallet: the identity under each email
          sessions,   \* emails with an unexpired JWT
          reqs

vars == <<Live, users, wallet, sessions, reqs>>

Identities == {"none", "User1@banka", "Admin@banka"}
Idle == [pc |-> "idle", res |-> "none", mod |-> NoOne]
Results == {"ok", "badRequest", "denied", "notFound", "conflict", "error", "lost"}
Steps == {"find", "enroll", "put", "save"}

\* The fields a handler has assigned when it calls save().
Mods == {NoOne} \cup User \cup [name : Reqs] \cup [password : Passwords]
        \cup [certificateStatus : {"active", "revoked"}]
        \cup [resetToken : Reqs, expired : {FALSE}]
        \cup [password : Passwords, resetToken : {NoOne}, expired : {FALSE}]
Job == [pc : Steps, res : {"none"}, mod : Mods, arr : Arrivals]
       \cup [pc : {"done"}, res : Results, mod : Mods, arr : Arrivals]

TypeOK ==
    /\ Live \in Modes
    /\ users \in [Emails -> User \cup {Absent}]
    /\ \A e \in Emails : users[e] # Absent /\ users[e].resetToken = NoOne => ~users[e].expired
    /\ wallet \in [Emails -> Identities]
    /\ sessions \subseteq Emails
    /\ reqs \in [Reqs -> {Idle} \cup Job]

Init ==
    /\ Live \in Modes
    /\ users = Registered
    /\ wallet = [e \in Emails |->
                   IF Registered[e] = Absent \/ Registered[e].fabricEnrollmentId # "email" THEN "none"
                   ELSE IF Registered[e].role = "signer" THEN "Admin@banka" ELSE "User1@banka"]
    /\ sessions = {e \in Emails : Registered[e] # Absent}
    /\ reqs = [r \in Reqs |-> Idle]

----------------------------------------------------------------------------
At(r, step) == reqs[r].pc = step
Op(r) == reqs[r].arr.op
Email(r) == reqs[r].arr.email
Doc(r) == users[Email(r)]
InFlight(r) == reqs[r].pc \in Steps

Goto(r, step) == reqs' = [reqs EXCEPT ![r].pc = step]
Reply(r, res) == reqs' = [reqs EXCEPT ![r].pc = "done", ![r].res = res]
\* The handler assigned the fields of mod and calls save() next.
Modify(r, mod) == reqs' = [reqs EXCEPT ![r].pc = "save", ![r].mod = mod]

requireAuth(e) == e \in sessions /\ users[e] # Absent /\ users[e].certificateStatus # "revoked"

\* A client can only send back a token it was given.
TokenKnown(a) ==
    a.op = "reset" /\ a.token # NoOne =>
        At(a.token, "done") /\ reqs[a.token].res = "ok" /\ Op(a.token) = "forgot"

\* Routing: the caller's own routes ask for a session, then the body is
\* checked.  updateProfile works on the document requireAuth has loaded.
Arrive(r, a) ==
    /\ reqs[r] = Idle
    /\ TokenKnown(a)
    /\ LET own == a.op \in {"profile", "change"}
           job(step, res, mod) == reqs' = [reqs EXCEPT ![r] =
             [pc |-> step, res |-> res, mod |-> mod, arr |-> a]]
       IN \/ own /\ ~requireAuth(a.email) /\ job("done", "denied", NoOne)
          \/ /\ own => requireAuth(a.email)
             /\ \/ a.op \notin {"revoke", "reactivate"} /\ job("done", "badRequest", NoOne)
                \/ a.op = "profile" /\ job("save", "none", [name |-> r])
                \/ a.op # "profile" /\ job("find", "none", NoOne)
    /\ UNCHANGED <<Live, users, wallet, sessions>>

----------------------------------------------------------------------------
(* register                                                                *)
FindExisting(r) ==
    /\ At(r, "find") /\ Op(r) = "register"
    /\ \/ Doc(r) # Absent /\ Reply(r, "conflict")
       \/ Doc(r) = Absent /\ Goto(r, IF Live THEN "enroll" ELSE "save")
    /\ UNCHANGED <<Live, users, wallet, sessions>>

NewUser(r, enrollment) ==
    [role |-> reqs[r].arr.role, password |-> reqs[r].arr.password, name |-> NoOne,
     certificateStatus |-> "active", fabricEnrollmentId |-> enrollment,
     resetToken |-> NoOne, expired |-> FALSE]

CryptogenIdentity(role) == IF role = "signer" THEN "Admin@banka" ELSE "User1@banka"

\* Variant: an enrolment that failed is noted like one that succeeded.
enrollUserOptimistic(r) ==
    /\ At(r, "enroll")
    /\ \/ wallet[Email(r)] # "none" /\ Modify(r, NewUser(r, "email"))
       \/ wallet[Email(r)] = "none" /\ Goto(r, "put")
       \/ Modify(r, NewUser(r, "email"))
    /\ UNCHANGED <<Live, users, wallet, sessions>>

\* enrollUser looks the email up in the wallet and keeps what it finds; with
\* no certificate on disk, or when anything throws, it makes up an id.
enrollUser(r) ==
    /\ At(r, "enroll")
    /\ \/ wallet[Email(r)] # "none" /\ Modify(r, NewUser(r, "email"))
       \/ wallet[Email(r)] = "none" /\ Goto(r, "put")
       \/ Modify(r, NewUser(r, "made-up"))
    /\ UNCHANGED <<Live, users, wallet, sessions>>

putIdentity(r) ==
    /\ At(r, "put")
    /\ \/ /\ wallet' = [wallet EXCEPT ![Email(r)] = CryptogenIdentity(reqs[r].arr.role)]
          /\ Modify(r, NewUser(r, "email"))
       \/ /\ Modify(r, NewUser(r, "made-up"))
          /\ UNCHANGED wallet
    /\ UNCHANGED <<Live, users, sessions>>

\* The unique index refuses a second user of one email (E11000, answered as a
\* server error).
Created(r) == IF reqs[r].mod = NoOne THEN NewUser(r, "made-up") ELSE reqs[r].mod

\* Variant: the record is written whether or not one exists.
InsertUserUnchecked(r) ==
    /\ At(r, "save") /\ Op(r) = "register"
    /\ users' = [users EXCEPT ![Email(r)] = Created(r)]
    /\ Reply(r, "ok")
    /\ UNCHANGED <<Live, wallet, sessions>>

InsertUser(r) ==
    /\ At(r, "save") /\ Op(r) = "register"
    /\ \/ /\ Doc(r) = Absent
          /\ users' = [users EXCEPT ![Email(r)] = Created(r)]
          /\ Reply(r, "ok")
       \/ /\ Doc(r) # Absent
          /\ Reply(r, "error")
          /\ UNCHANGED users
    /\ UNCHANGED <<Live, wallet, sessions>>

----------------------------------------------------------------------------
(* The requests about an existing user.                                    *)

\* login's answer depends on the document it loaded only.
login(r) ==
    /\ At(r, "find") /\ Op(r) = "login"
    /\ LET known == Doc(r) # Absent /\ Doc(r).password = reqs[r].arr.password
           active == known /\ Doc(r).certificateStatus # "revoked"
       IN /\ Reply(r, IF active THEN "ok" ELSE "denied")
          /\ sessions' = IF active THEN sessions \cup {Email(r)} ELSE sessions
    /\ UNCHANGED <<Live, users, wallet>>

changePassword(r) ==
    /\ At(r, "find") /\ Op(r) = "change"
    /\ IF Doc(r).password = reqs[r].arr.password
       THEN Modify(r, [password |-> reqs[r].arr.new])
       ELSE Reply(r, "denied")
    /\ UNCHANGED <<Live, users, wallet, sessions>>

\* An unknown email is answered like a known one, without a token.
forgotPassword(r) ==
    /\ At(r, "find") /\ Op(r) = "forgot"
    /\ IF Doc(r) = Absent THEN Reply(r, "ok")
       ELSE Modify(r, [resetToken |-> r, expired |-> FALSE])
    /\ UNCHANGED <<Live, users, wallet, sessions>>

\* Variant: the token is not compared with the stored one.
TokenValidAny(r) ==
    /\ Doc(r) # Absent /\ Doc(r).resetToken # NoOne /\ ~Doc(r).expired

TokenValid(r) ==
    /\ Doc(r) # Absent /\ Doc(r).resetToken # NoOne /\ ~Doc(r).expired
    /\ Doc(r).resetToken = reqs[r].arr.token

\* Variant: the used token is left in place.
ResetFieldsKept(r) == [password |-> reqs[r].arr.new]

ResetFields(r) == [password |-> reqs[r].arr.new, resetToken |-> NoOne, expired |-> FALSE]

resetPassword(r) ==
    /\ At(r, "find") /\ Op(r) = "reset"
    /\ IF TokenValid(r) THEN Modify(r, ResetFields(r)) ELSE Reply(r, "badRequest")
    /\ UNCHANGED <<Live, users, wallet, sessions>>

\* revokeCertificate and reactivateCertificate of the regulator.  A live
\* ledger knows no credential under the user's id and refuses a revocation.
SetCertificate(r) ==
    /\ At(r, "find") /\ Op(r) \in {"revoke", "reactivate"}
    /\ LET target == IF Op(r) = "revoke" THEN "revoked" ELSE "active" IN
         \/ Doc(r) = Absent /\ Reply(r, "notFound")
         \/ Doc(r) # Absent /\ Doc(r).certificateStatus = target /\ Reply(r, "conflict")
         \/ /\ Doc(r) # Absent /\ Doc(r).certificateStatus # target
            /\ Live /\ Op(r) = "revoke" /\ Reply(r, "error")
         \/ /\ Doc(r) # Absent /\ Doc(r).certificateStatus # target
            /\ ~Live \/ Op(r) = "reactivate"
            /\ Modify(r, [certificateStatus |-> target])
    /\ UNCHANGED <<Live, users, wallet, sessions>>

Merge(doc, mod) == [f \in DOMAIN doc |-> IF f \in DOMAIN mod THEN mod[f] ELSE doc[f]]

\* Variant: the certificate is written back as it was when the session began.
SaveUserWhole(r) ==
    /\ At(r, "save") /\ Op(r) # "register"
    /\ users' = [users EXCEPT ![Email(r)] = Merge(@, reqs[r].mod),
                              ![Email(r)].certificateStatus =
                                 IF Op(r) \in {"revoke", "reactivate"}
                                 THEN reqs[r].mod.certificateStatus ELSE "active"]
    /\ Reply(r, "ok")
    /\ UNCHANGED <<Live, wallet, sessions>>

SaveUser(r) ==
    /\ At(r, "save") /\ Op(r) # "register"
    /\ users' = [users EXCEPT ![Email(r)] = Merge(@, reqs[r].mod)]
    /\ Reply(r, "ok")
    /\ UNCHANGED <<Live, wallet, sessions>>

----------------------------------------------------------------------------
(* Time and failures.                                                      *)
TokenExpires(e) ==
    /\ users[e] # Absent /\ users[e].resetToken # NoOne /\ ~users[e].expired
    /\ users' = [users EXCEPT ![e].expired = TRUE]
    /\ UNCHANGED <<Live, wallet, sessions, reqs>>

SessionExpires(e) ==
    /\ e \in sessions
    /\ sessions' = sessions \ {e}
    /\ UNCHANGED <<Live, users, wallet, reqs>>

CallFails(r) ==
    /\ Faults
    /\ InFlight(r)
    /\ Reply(r, "error")
    /\ UNCHANGED <<Live, users, wallet, sessions>>

Crash ==
    /\ Faults
    /\ \E r \in Reqs : InFlight(r)
    /\ reqs' = [r \in Reqs |-> IF InFlight(r) THEN [reqs[r] EXCEPT !.pc = "done", !.res = "lost"]
                               ELSE reqs[r]]
    /\ UNCHANGED <<Live, users, wallet, sessions>>

Step(r) ==
    \/ FindExisting(r) \/ enrollUser(r) \/ putIdentity(r) \/ InsertUser(r)
    \/ login(r) \/ changePassword(r) \/ forgotPassword(r) \/ resetPassword(r)
    \/ SetCertificate(r) \/ SaveUser(r)

Next ==
    \/ \E r \in Reqs : (\E a \in Arrivals : Arrive(r, a)) \/ Step(r) \/ CallFails(r)
    \/ \E e \in Emails : TokenExpires(e) \/ SessionExpires(e)
    \/ Crash

Spec == Init /\ [][Next]_vars

----------------------------------------------------------------------------
(* fabric.service.js: the identity a user's transactions are signed with.  *)
(* setupWallet.js has put the shared identities into the wallet.           *)
LedgerIdentity(e) ==
    IF users[e].fabricEnrollmentId = "email"
    THEN IF wallet[e] # "none" THEN wallet[e] ELSE "Admin@banka"
    ELSE CryptogenIdentity(users[e].role)

----------------------------------------------------------------------------
(* Properties.                                                             *)
Ok(r) == At(r, "done") /\ reqs[r].res = "ok"

\* Of the registrations of one email at most one is ever answered with
\* success, and the account is the one it asked for.
OneAccountPerEmail ==
    \A r \in Reqs : Ok(r) /\ Op(r) = "register" =>
        /\ Doc(r).role = reqs[r].arr.role
        /\ \A q \in Reqs : Ok(q) /\ Op(q) = "register" /\ Email(q) = Email(r) => q = r

\* Only the regulator changes a certificate: a profile or password update that
\* loaded the user before a revocation does not undo it.
RegulatorDecidesCertificate ==
    [][\A e \in Emails :
         users[e] # Absent /\ users'[e].certificateStatus # users[e].certificateStatus =>
            \E r \in Reqs : /\ At(r, "save") /\ Ok(r)'
                            /\ Op(r) \in {"revoke", "reactivate"} /\ Email(r) = e]_users

\* An account that counts as enrolled has an identity of its own in the
\* wallet, so its transactions never go out under the shared fallback of
\* another role.  Registrations of one email with two roles are left out: the
\* first to reach the wallet decides for both.
LedgerRoleMatches ==
    \A e \in Emails :
        /\ users[e] # Absent
        /\ \A r \in Reqs : reqs[r] # Idle /\ Op(r) = "register" /\ Email(r) = e =>
             reqs[r].arr.role = users[e].role
        => LedgerIdentity(e) = CryptogenIdentity(users[e].role)

\* A password reset succeeds only for the account the token was made for.
ResetProvesToken ==
    \A r \in Reqs : Ok(r) /\ Op(r) = "reset" =>
        /\ reqs[r].arr.token \in Reqs
        /\ Op(reqs[r].arr.token) = "forgot" /\ Email(reqs[r].arr.token) = Email(r)

\* A token that has been used is not accepted again from then on: once a reset
\* was answered, the account no longer holds its token.
UsedTokenGone ==
    \A r \in Reqs : Ok(r) /\ Op(r) = "reset" => Doc(r).resetToken # reqs[r].arr.token

\* A reset token is used once.  Two resets that both load the user before either
\* saves are both answered with success: the save does not ask for the token.
TokenUsedOnce ==
    \A q, r \in Reqs :
        /\ Ok(q) /\ Op(q) = "reset" /\ Ok(r) /\ Op(r) = "reset"
        /\ reqs[q].arr.token = reqs[r].arr.token
        => q = r

\* The user records are well-formed, whatever requests ran into each other: an
\* email has one account, and a reset token worked for its own account only and
\* is not left behind.
AccountsSound == TypeOK /\ OneAccountPerEmail /\ ResetProvesToken /\ UsedTokenGone
============================================================================
