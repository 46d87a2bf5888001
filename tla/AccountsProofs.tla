--------------------------- MODULE AccountsProofs --------------------------
(***************************************************************************)
(* Safety of the accounts for any number of emails and requests, with      *)
(* failing calls and crashes.                                              *)
(*                                                                         *)
(* What a handler has assigned (Assigned) and that its user exists when it *)
(* saves (Loaded) say what a save can write.  A stored token is that of an *)
(* answered request for the same account (Issued), and a reset that got    *)
(* past its check has such a token (Proven), which no later save can put   *)
(* back: only the request that made a token ever writes it.                *)
(***************************************************************************)
EXTENDS Accounts, TLAPS

\* The save of an existing user has one to save to.
Loaded == \A r \in Reqs :
    /\ At(r, "save") /\ Op(r) # "register" => Doc(r) # Absent
    /\ At(r, "find") /\ Op(r) = "change" => Doc(r) # Absent
    /\ At(r, "enroll") \/ At(r, "put") => Op(r) = "register"

\* What each handler has assigned when it saves.
AssignedBy(r) ==
    \/ Op(r) = "register" /\ reqs[r].mod \in {NoOne, NewUser(r, "email"), NewUser(r, "made-up")}
    \/ Op(r) = "profile"  /\ reqs[r].mod = [name |-> r]
    \/ Op(r) = "change"   /\ reqs[r].mod = [password |-> reqs[r].arr.new]
    \/ Op(r) = "forgot"   /\ reqs[r].mod = [resetToken |-> r, expired |-> FALSE]
    \/ Op(r) = "reset"    /\ reqs[r].mod = ResetFields(r)
    \/ /\ Op(r) \in {"revoke", "reactivate"}
       /\ reqs[r].mod \in {[certificateStatus |-> c] : c \in {"active", "revoked"}}
Assigned == \A r \in Reqs : At(r, "save") => AssignedBy(r)
Unassigned == \A r \in Reqs : At(r, "find") => reqs[r].mod = NoOne

\* A token t that is valid for the account e.
TokenOf(t, e) == t \in Reqs /\ Ok(t) /\ Op(t) = "forgot" /\ Email(t) = e

Issued == \A e \in Emails :
    users[e] # Absent /\ users[e].resetToken # NoOne => TokenOf(users[e].resetToken, e)

Proven == \A r \in Reqs :
    (At(r, "save") \/ Ok(r)) /\ Op(r) = "reset" => TokenOf(reqs[r].arr.token, Email(r))

Spent == \A r \in Reqs :
    Ok(r) /\ Op(r) = "reset" => Doc(r) # Absent /\ Doc(r).resetToken # reqs[r].arr.token

Registration == \A r \in Reqs :
    Ok(r) /\ Op(r) = "register" => Doc(r) # Absent /\ Doc(r).role = reqs[r].arr.role

OneRegistration == \A r, q \in Reqs :
    /\ Ok(r) /\ Op(r) = "register" /\ Ok(q) /\ Op(q) = "register" /\ Email(q) = Email(r)
    => q = r

AInv == /\ TypeOK /\ Loaded /\ Assigned /\ Unassigned /\ Issued /\ Proven /\ Spent
        /\ Registration /\ OneRegistration

----------------------------------------------------------------------------
\* The invariant holds more than the run checks.
LEMMA AInvSuffices == AInv => AccountsSound
BY DEF AInv, AccountsSound, OneAccountPerEmail, ResetProvesToken, UsedTokenGone,
   Proven, Spent, Registration, OneRegistration, TokenOf, Ok, At

LEMMA AInit == Init => AInv
<1> SUFFICES ASSUME Init PROVE AInv
  OBVIOUS
<1>1. reqs \in [Reqs -> {Idle} \cup Job] /\ \A r \in Reqs : reqs[r].pc = "idle"
  BY DEF Init, Idle
<1>2. TypeOK /\ Issued
  <2>1. wallet \in [Emails -> Identities]
    BY DEF Init, Identities
  <2>2. \A e \in Emails : users[e] # Absent => users[e].resetToken = NoOne /\ ~users[e].expired
    BY AccountsAssumption DEF Init
  <2> QED BY <1>1, <2>1, <2>2, AccountsAssumption DEF Init, TypeOK, Issued
<1> QED BY <1>1, <1>2
        DEF AInv, Loaded, Assigned, Unassigned, Proven, Spent, Registration, OneRegistration, Ok, At

----------------------------------------------------------------------------
(* Requests                                                                *)
\* A request that has arrived is a well-formed one.
LEMMA RequestTyped ==
    ASSUME TypeOK, NEW r \in Reqs, reqs[r].pc # "idle"
    PROVE  /\ reqs[r] \in Job /\ reqs[r].arr \in Arrivals /\ Email(r) \in Emails
           /\ Op(r) \in {"register", "login", "profile", "forgot", "revoke", "reactivate",
                         "change", "reset"}
           /\ Op(r) = "register" => reqs[r].arr.role \in UserRoles /\ reqs[r].arr.password \in Passwords
           /\ Op(r) \in {"change", "reset"} => reqs[r].arr.new \in Passwords
<1>1. reqs[r] \in Job
  BY DEF TypeOK, Idle
<1>2. reqs[r].arr \in Request
  BY <1>1, AccountsAssumption DEF Job
<1> QED BY <1>1, <1>2 DEF Job, Request, Op, Email

\* The request r goes on, and no other.
Moves(r) ==
    /\ reqs' \in [Reqs -> {Idle} \cup Job]
    /\ \A q \in Reqs \ {r} : reqs'[q] = reqs[q]
    /\ reqs[r].pc \in Steps /\ reqs'[r].arr = reqs[r].arr

LEMMA GotoMoves ==
    ASSUME TypeOK, NEW r \in Reqs, reqs[r].pc \in Steps, NEW step \in Steps, Goto(r, step)
    PROVE  Moves(r) /\ reqs'[r].pc = step /\ reqs'[r].mod = reqs[r].mod
<1>1. reqs[r] \in [pc : Steps, res : {"none"}, mod : Mods, arr : Arrivals]
  BY RequestTyped DEF Job, Steps
<1>2. reqs'[r] = [reqs[r] EXCEPT !.pc = step] /\ \A q \in Reqs \ {r} : reqs'[q] = reqs[q]
  BY DEF Goto, TypeOK
<1>3. /\ reqs'[r] \in [pc : Steps, res : {"none"}, mod : Mods, arr : Arrivals]
      /\ reqs'[r].pc = step /\ reqs'[r].mod = reqs[r].mod /\ reqs'[r].arr = reqs[r].arr
  BY <1>1, <1>2
<1> QED BY <1>2, <1>3 DEF Goto, TypeOK, Job, Moves

LEMMA ModifyMoves ==
    ASSUME TypeOK, NEW r \in Reqs, reqs[r].pc \in Steps, NEW mod \in Mods, Modify(r, mod)
    PROVE  Moves(r) /\ reqs'[r].pc = "save" /\ reqs'[r].mod = mod
<1>1. reqs[r] \in [pc : Steps, res : {"none"}, mod : Mods, arr : Arrivals]
  BY RequestTyped DEF Job, Steps
<1>2. reqs'[r] = [reqs[r] EXCEPT !.pc = "save", !.mod = mod] /\ \A q \in Reqs \ {r} : reqs'[q] = reqs[q]
  BY DEF Modify, TypeOK
<1>3. /\ reqs'[r] \in [pc : Steps, res : {"none"}, mod : Mods, arr : Arrivals]
      /\ reqs'[r].pc = "save" /\ reqs'[r].mod = mod /\ reqs'[r].arr = reqs[r].arr
  BY <1>1, <1>2 DEF Steps
<1> QED BY <1>2, <1>3 DEF Modify, TypeOK, Job, Moves

LEMMA ReplyMoves ==
    ASSUME TypeOK, NEW r \in Reqs, reqs[r].pc \in Steps, NEW res \in Results, Reply(r, res)
    PROVE  Moves(r) /\ reqs'[r].pc = "done" /\ reqs'[r].res = res
<1>1. reqs[r] \in [pc : Steps, res : {"none"}, mod : Mods, arr : Arrivals]
  BY RequestTyped DEF Job, Steps
<1>2. reqs'[r] = [reqs[r] EXCEPT !.pc = "done", !.res = res] /\ \A q \in Reqs \ {r} : reqs'[q] = reqs[q]
  BY DEF Reply, TypeOK
<1>3. /\ reqs'[r] \in [pc : {"done"}, res : Results, mod : Mods, arr : Arrivals]
      /\ reqs'[r].pc = "done" /\ reqs'[r].res = res /\ reqs'[r].arr = reqs[r].arr
  BY <1>1, <1>2
<1> QED BY <1>2, <1>3 DEF Reply, TypeOK, Job, Moves

LEMMA NeverIdleAgain ==
    ASSUME TypeOK, NEW r \in Reqs, reqs[r].pc \in Steps, NEW x,
           (\E step \in Steps : Goto(r, step)) \/ Reply(r, x) \/ Modify(r, x)
    PROVE  reqs'[r].pc # "idle"
<1>1. reqs[r] \in [pc : Steps, res : {"none"}, mod : Mods, arr : Arrivals]
  BY RequestTyped DEF Job, Steps
<1>2. CASE \E step \in Steps : Goto(r, step)
  BY <1>1, <1>2 DEF Goto, TypeOK, Steps
<1>3. CASE Reply(r, x)
  BY <1>1, <1>3 DEF Reply, TypeOK
<1>4. CASE Modify(r, x)
  BY <1>1, <1>4 DEF Modify, TypeOK
<1> QED BY <1>2, <1>3, <1>4

----------------------------------------------------------------------------
(* Steps that leave the users alone.                                       *)
\* Where a request may get to by such a step.
Quiet(r) ==
    /\ Moves(r) /\ users' = users
    /\ At(r, "save")' => /\ AssignedBy(r)'
                         /\ Op(r) # "register" => Doc(r) # Absent
                         /\ Op(r) = "reset" => TokenOf(reqs[r].arr.token, Email(r))
    /\ (At(r, "enroll") \/ At(r, "put"))' => Op(r) = "register"
    /\ ~At(r, "find")'
    /\ Ok(r)' => Op(r) \notin {"register", "reset"}

Others == /\ Live' \in Modes /\ wallet' \in [Emails -> Identities] /\ sessions' \subseteq Emails

LEMMA QuietKeeps ==
    ASSUME AInv, NEW r \in Reqs, Quiet(r), Others
    PROVE  AInv'
<1> USE DEF Quiet
<1>1. \A t, e : TokenOf(t, e) => TokenOf(t, e)'
  <2> SUFFICES ASSUME NEW t, NEW e, TokenOf(t, e) PROVE TokenOf(t, e)'
    OBVIOUS
  <2>1. t # r
    BY DEF TokenOf, Ok, At, Moves, Steps
  <2> QED BY <2>1 DEF TokenOf, Ok, At, Op, Email, Moves
<1>2. \A q \in Reqs : Op(q)' = Op(q) /\ Email(q)' = Email(q) /\ Doc(q)' = Doc(q)
                      /\ reqs'[q].arr = reqs[q].arr
  BY DEF Moves, Op, Email, Doc
<1>3. \A q \in Reqs : q # r => reqs'[q] = reqs[q] /\ Ok(q)' = Ok(q)
  BY DEF Moves, Ok, At
<1>4. TypeOK'
  BY DEF AInv, TypeOK, Others, Moves
<1>5. Loaded'
  BY <1>2, <1>3 DEF AInv, Loaded, At
<1>6. Assigned'
  <2> SUFFICES ASSUME NEW q \in Reqs, At(q, "save")' PROVE AssignedBy(q)'
    BY DEF Assigned
  <2>1. CASE q = r
    BY <2>1
  <2>2. CASE q # r
    <3>1. AssignedBy(q)
      BY <1>3, <2>2 DEF AInv, Assigned, At
    <3> QED BY <1>2, <1>3, <2>2, <3>1 DEF AssignedBy, NewUser, ResetFields
  <2> QED BY <2>1, <2>2
<1>6a. Unassigned'
  BY <1>3 DEF AInv, Unassigned, At
<1>7. Issued'
  BY <1>1 DEF AInv, Issued
<1>8. Proven'
  BY <1>1, <1>2, <1>3 DEF AInv, Proven, At
<1>9. \A q \in Reqs : Ok(q)' /\ Op(q)' \in {"register", "reset"} => Ok(q)
  BY <1>2, <1>3
<1>10. Spent'
  BY <1>2, <1>9 DEF AInv, Spent
<1>11. Registration' /\ OneRegistration'
  BY <1>2, <1>9 DEF AInv, Registration, OneRegistration
<1> QED BY <1>4, <1>5, <1>6, <1>6a, <1>7, <1>8, <1>10, <1>11 DEF AInv

\* A registration's record is a user of the role it asked for.
LEMMA NewUserTyped ==
    ASSUME TypeOK, NEW r \in Reqs, reqs[r].pc # "idle", Op(r) = "register",
           NEW e \in {"email", "made-up"}
    PROVE  NewUser(r, e) \in User /\ NewUser(r, e).role = reqs[r].arr.role
                                 /\ NewUser(r, e).resetToken = NoOne /\ ~NewUser(r, e).expired
BY RequestTyped DEF NewUser, User

\* Every step of a handler before its save is a quiet one.
LEMMA HandlerQuiet ==
    ASSUME AInv, NEW r \in Reqs,
           \/ FindExisting(r) \/ enrollUser(r) \/ putIdentity(r) \/ login(r)
           \/ changePassword(r) \/ forgotPassword(r) \/ resetPassword(r) \/ SetCertificate(r)
    PROVE  Quiet(r) /\ Others
<1> USE DEF Quiet, Others, At
<1>0. TypeOK /\ Steps = {"find", "enroll", "put", "save"}
  BY DEF AInv, Steps
<1>0a. Live \in Modes /\ wallet \in [Emails -> Identities] /\ sessions \subseteq Emails
  BY DEF AInv, TypeOK
<1>0b. \A q \in Reqs : reqs'[q].arr = reqs[q].arr => Op(q)' = Op(q) /\ Email(q)' = Email(q)
  BY DEF Op, Email
<1>1. CASE FindExisting(r)
  <2> USE DEF FindExisting
  <2>1. CASE Reply(r, "conflict")
    BY <1>0, <1>0a, <1>1, <2>1, ReplyMoves DEF Results, Ok
  <2>2. CASE Goto(r, "enroll")
    BY <1>0, <1>0a, <1>0b, <1>1, <2>2, GotoMoves DEF Ok, Moves
  <2>3. CASE Goto(r, "save")
    BY <1>0, <1>0a, <1>0b, <1>1, <2>3, GotoMoves DEF AInv, Unassigned, AssignedBy, Ok, Moves
  <2> QED BY <1>1, <2>1, <2>2, <2>3
<1>2. CASE enrollUser(r)
  <2> USE DEF enrollUser
  <2>0. Op(r) = "register"
    BY <1>2 DEF AInv, Loaded
  <2>1. CASE Goto(r, "put")
    BY <1>0, <1>0a, <1>0b, <1>2, <2>0, <2>1, GotoMoves DEF Ok, Moves
  <2>2. ASSUME NEW e \in {"email", "made-up"}, Modify(r, NewUser(r, e)) PROVE Quiet(r)
    <3>1. NewUser(r, e) \in Mods
      BY <1>0, <1>2, <2>0, NewUserTyped DEF Mods
    <3>2. Moves(r) /\ reqs'[r].pc = "save" /\ reqs'[r].mod = NewUser(r, e)
      BY <1>0, <1>2, <2>2, <3>1, ModifyMoves
    <3>3. NewUser(r, e)' = NewUser(r, e) /\ AssignedBy(r)'
      BY <1>0b, <2>0, <3>2 DEF NewUser, Moves, AssignedBy
    <3> QED BY <1>2, <2>0, <3>2, <3>3 DEF Ok
  <2> QED BY <1>0a, <1>2, <2>1, <2>2
<1>3. CASE putIdentity(r)
  <2> USE DEF putIdentity
  <2>0. Op(r) = "register"
    BY <1>3 DEF AInv, Loaded
  <2>2. ASSUME NEW e \in {"email", "made-up"}, Modify(r, NewUser(r, e)) PROVE Quiet(r)
    <3>1. NewUser(r, e) \in Mods
      BY <1>0, <1>3, <2>0, NewUserTyped DEF Mods
    <3>2. Moves(r) /\ reqs'[r].pc = "save" /\ reqs'[r].mod = NewUser(r, e)
      BY <1>0, <1>3, <2>2, <3>1, ModifyMoves
    <3>3. NewUser(r, e)' = NewUser(r, e) /\ AssignedBy(r)'
      BY <1>0b, <2>0, <3>2 DEF NewUser, Moves, AssignedBy
    <3> QED BY <1>3, <2>0, <3>2, <3>3 DEF Ok
  <2>3. Others
    BY <1>0a, <1>3 DEF CryptogenIdentity, Identities
  <2> QED BY <1>3, <2>2, <2>3
<1>4. CASE login(r)
  <2> USE DEF login
  <2>1. Email(r) \in Emails /\ Op(r) = "login"
    BY <1>0, <1>4, RequestTyped
  <2>2. PICK res \in {"ok", "denied"} : Reply(r, res)
    BY <1>4
  <2>3. Moves(r) /\ reqs'[r].pc = "done"
    BY <1>0, <1>4, <2>2, ReplyMoves DEF Results
  <2> QED BY <1>0a, <1>4, <2>1, <2>3 DEF Ok
<1>5. CASE changePassword(r)
  <2> USE DEF changePassword
  <2>1. CASE Reply(r, "denied")
    BY <1>0, <1>0a, <1>5, <2>1, ReplyMoves DEF Results, Ok
  <2>2. CASE Modify(r, [password |-> reqs[r].arr.new])
    <3>1. [password |-> reqs[r].arr.new] \in Mods
      BY <1>0, <1>5, RequestTyped DEF Mods
    <3>2. Moves(r) /\ reqs'[r].pc = "save" /\ reqs'[r].mod = [password |-> reqs[r].arr.new]
      BY <1>0, <1>5, <2>2, <3>1, ModifyMoves
    <3>3. AssignedBy(r)' /\ Doc(r) # Absent
      BY <1>0b, <1>5, <3>2 DEF Moves, AssignedBy, AInv, Loaded
    <3> QED BY <1>0a, <1>5, <3>2, <3>3 DEF Ok
  <2> QED BY <1>5, <2>1, <2>2
<1>6. CASE forgotPassword(r)
  <2> USE DEF forgotPassword
  <2>1. CASE Reply(r, "ok")
    BY <1>0, <1>0a, <1>6, <2>1, ReplyMoves DEF Results, Ok
  <2>2. CASE Modify(r, [resetToken |-> r, expired |-> FALSE]) /\ Doc(r) # Absent
    <3>1. [resetToken |-> r, expired |-> FALSE] \in Mods
      BY DEF Mods
    <3>2. Moves(r) /\ reqs'[r].pc = "save" /\ reqs'[r].mod = [resetToken |-> r, expired |-> FALSE]
      BY <1>0, <1>6, <2>2, <3>1, ModifyMoves
    <3>3. AssignedBy(r)'
      BY <1>0b, <1>6, <3>2 DEF Moves, AssignedBy
    <3> QED BY <1>0a, <1>6, <2>2, <3>2, <3>3 DEF Ok
  <2> QED BY <1>6, <2>1, <2>2
<1>7. CASE resetPassword(r)
  <2> USE DEF resetPassword
  <2>1. CASE Reply(r, "badRequest")
    BY <1>0, <1>0a, <1>7, <2>1, ReplyMoves DEF Results, Ok
  <2>2. CASE Modify(r, ResetFields(r)) /\ TokenValid(r)
    <3>1. ResetFields(r) \in Mods
      BY <1>0, <1>7, RequestTyped DEF Mods, ResetFields
    <3>2. Moves(r) /\ reqs'[r].pc = "save" /\ reqs'[r].mod = ResetFields(r)
      BY <1>0, <1>7, <2>2, <3>1, ModifyMoves
    <3>3. AssignedBy(r)'
      BY <1>0b, <1>7, <3>2 DEF Moves, AssignedBy, ResetFields
    <3>4. Email(r) \in Emails /\ Doc(r) # Absent /\ TokenOf(reqs[r].arr.token, Email(r))
      BY <1>0, <1>7, <2>2, RequestTyped DEF TokenValid, AInv, Issued, Doc
    <3> QED BY <1>0a, <1>7, <2>2, <3>2, <3>3, <3>4 DEF Ok
  <2> QED BY <1>7, <2>1, <2>2
<1>8. CASE SetCertificate(r)
  <2> USE DEF SetCertificate
  <2>1. ASSUME NEW res \in {"notFound", "conflict", "error"}, Reply(r, res) PROVE Quiet(r)
    BY <1>0, <1>8, <2>1, ReplyMoves DEF Results, Ok
  <2>2. ASSUME NEW c \in {"active", "revoked"}, Modify(r, [certificateStatus |-> c]), Doc(r) # Absent
        PROVE  Quiet(r)
    <3>1. [certificateStatus |-> c] \in Mods
      BY DEF Mods
    <3>2. Moves(r) /\ reqs'[r].pc = "save" /\ reqs'[r].mod = [certificateStatus |-> c]
      BY <1>0, <1>8, <2>2, <3>1, ModifyMoves
    <3>3. AssignedBy(r)'
      BY <1>0b, <1>8, <3>2 DEF Moves, AssignedBy
    <3> QED BY <1>8, <2>2, <3>2, <3>3 DEF Ok
  <2> QED BY <1>0a, <1>8, <2>1, <2>2
<1> QED BY <1>1, <1>2, <1>3, <1>4, <1>5, <1>6, <1>7, <1>8

----------------------------------------------------------------------------
(* Steps that write a user.                                                *)
\* Saving the fields of a handler leaves a well-formed user of the same role,
\* and only a forgotten password writes a token.
LEMMA MergeTyped ==
    ASSUME TypeOK, NEW r \in Reqs, reqs[r].pc # "idle", Op(r) # "register", AssignedBy(r),
           NEW doc \in User, doc.resetToken = NoOne => ~doc.expired
    PROVE  LET new == Merge(doc, reqs[r].mod) IN
             /\ new \in User /\ new.role = doc.role
             /\ new.resetToken = NoOne => ~new.expired
             /\ new.resetToken = IF Op(r) = "forgot" THEN r
                                 ELSE IF Op(r) = "reset" THEN NoOne ELSE doc.resetToken
             /\ Op(r) \notin {"revoke", "reactivate"} => new.certificateStatus = doc.certificateStatus
             /\ new.fabricEnrollmentId = doc.fabricEnrollmentId
<1> DEFINE new == Merge(doc, reqs[r].mod)
<1>0. /\ doc.role \in UserRoles /\ doc.password \in Passwords /\ doc.name \in Reqs \cup {NoOne}
      /\ doc.certificateStatus \in {"active", "revoked"}
      /\ doc.fabricEnrollmentId \in {"email", "made-up"}
      /\ doc.resetToken \in Reqs \cup {NoOne} /\ doc.expired \in BOOLEAN
      /\ DOMAIN doc = {"role", "password", "name", "certificateStatus", "fabricEnrollmentId",
                       "resetToken", "expired"}
  BY DEF User
<1>0a. /\ new = [f \in DOMAIN doc |-> new[f]]
       /\ \A f \in DOMAIN doc : new[f] = IF f \in DOMAIN reqs[r].mod THEN reqs[r].mod[f] ELSE doc[f]
  BY DEF Merge
<1>1. CASE Op(r) = "profile"
  <2>1. new = [doc EXCEPT !.name = r]
    BY <1>0, <1>1 DEF AssignedBy, Merge, User
  <2> QED BY <1>0, <1>1, <2>1 DEF User
<1>2. CASE Op(r) = "change"
  <2>1. new = [doc EXCEPT !.password = reqs[r].arr.new]
    BY <1>0, <1>2 DEF AssignedBy, Merge, User
  <2>2. reqs[r].arr.new \in Passwords
    BY <1>2, RequestTyped
  <2> QED BY <1>0, <1>2, <2>1, <2>2 DEF User
<1>3. CASE Op(r) = "forgot"
  <2>1. reqs[r].mod = [resetToken |-> r, expired |-> FALSE]
    BY <1>3 DEF AssignedBy
  <2>2. DOMAIN reqs[r].mod = {"resetToken", "expired"}
    BY <2>1
  <2> HIDE DEF new
  <2>3. new.resetToken = r
    BY <1>0, <1>0a, <2>1, <2>2
  <2>4. new.expired = FALSE
    <3>1. "expired" \in DOMAIN doc /\ "expired" \in DOMAIN reqs[r].mod
      BY <1>0, <2>2
    <3>2. new["expired"] = reqs[r].mod["expired"]
      BY <1>0a, <3>1
    <3>3. reqs[r].mod.expired = FALSE
      BY <2>1
    <3> QED BY <3>2, <3>3
  <2>5. /\ new.role = doc.role /\ new.password = doc.password /\ new.name = doc.name
        /\ new.certificateStatus = doc.certificateStatus
        /\ new.fabricEnrollmentId = doc.fabricEnrollmentId
    BY <1>0, <1>0a, <2>2
  <2>6. new \in User
    BY <1>0, <1>0a, <2>3, <2>4, <2>5 DEF User
  <2>7. ~new.expired
    BY <2>4
  <2> QED BY <1>3, <2>3, <2>5, <2>6, <2>7 DEF new
<1>4. CASE Op(r) = "reset"
  <2>1. reqs[r].mod = [password |-> reqs[r].arr.new, resetToken |-> NoOne, expired |-> FALSE]
    BY <1>4 DEF AssignedBy, ResetFields
  <2>2. reqs[r].arr.new \in Passwords
    BY <1>4, RequestTyped
  <2>3. DOMAIN reqs[r].mod = {"password", "resetToken", "expired"}
    BY <2>1
  <2> HIDE DEF new
  <2>4. new.resetToken = NoOne /\ new.password \in Passwords
    BY <1>0, <1>0a, <2>1, <2>2, <2>3
  <2>5. new.expired = FALSE
    <3>1. "expired" \in DOMAIN doc /\ "expired" \in DOMAIN reqs[r].mod
      BY <1>0, <2>3
    <3>2. new["expired"] = reqs[r].mod["expired"]
      BY <1>0a, <3>1
    <3>3. reqs[r].mod.expired = FALSE
      BY <2>1
    <3> QED BY <3>2, <3>3
  <2>6. /\ new.role = doc.role /\ new.name = doc.name
        /\ new.certificateStatus = doc.certificateStatus
        /\ new.fabricEnrollmentId = doc.fabricEnrollmentId
    BY <1>0, <1>0a, <2>3
  <2>7. new \in User
    BY <1>0, <1>0a, <2>4, <2>5, <2>6 DEF User
  <2>8. ~new.expired
    BY <2>5
  <2> QED BY <1>4, <2>4, <2>6, <2>7, <2>8 DEF new
<1>5. CASE Op(r) \in {"revoke", "reactivate"}
  <2>0. PICK c \in {"active", "revoked"} : reqs[r].mod = [certificateStatus |-> c]
    BY <1>5 DEF AssignedBy
  <2>1. new = [doc EXCEPT !.certificateStatus = c]
    BY <1>0, <2>0 DEF Merge, User
  <2> QED BY <1>0, <1>5, <2>1 DEF User
<1> HIDE DEF new
<1> QED BY <1>1, <1>2, <1>3, <1>4, <1>5 DEF AssignedBy, new

\* A save writes one user and is answered.
LEMMA SaveEffect ==
    ASSUME AInv, NEW r \in Reqs, SaveUser(r)
    PROVE  \E new \in User :
             /\ users' = [users EXCEPT ![Email(r)] = new]
             /\ Email(r) \in Emails /\ Doc(r) # Absent
             /\ new.role = Doc(r).role
             /\ new.resetToken = NoOne => ~new.expired
             /\ new.resetToken = IF Op(r) = "forgot" THEN r
                                 ELSE IF Op(r) = "reset" THEN NoOne ELSE Doc(r).resetToken
             /\ Op(r) \notin {"revoke", "reactivate"} => new.certificateStatus = Doc(r).certificateStatus
             /\ new.fabricEnrollmentId = Doc(r).fabricEnrollmentId
<1>1. TypeOK /\ At(r, "save") /\ Op(r) # "register" /\ AssignedBy(r) /\ Doc(r) # Absent
  BY DEF AInv, SaveUser, Assigned, Loaded
<1>2. Email(r) \in Emails /\ reqs[r].pc # "idle"
  BY <1>1, RequestTyped DEF At
<1>3. Doc(r) \in User /\ (Doc(r).resetToken = NoOne => ~Doc(r).expired)
  BY <1>1, <1>2 DEF TypeOK, Doc
<1>4. users' = [users EXCEPT ![Email(r)] = Merge(Doc(r), reqs[r].mod)]
  BY DEF SaveUser, Doc
<1> QED BY <1>1, <1>2, <1>3, <1>4, MergeTyped

\* A save preserves the invariant: of the requests that have been answered none
\* made the token that a forgotten password writes.
LEMMA SaveKeeps ==
    ASSUME AInv, NEW r \in Reqs, SaveUser(r)
    PROVE  AInv'
<1>0. TypeOK /\ At(r, "save") /\ Op(r) # "register" /\ reqs[r].pc \in Steps
  BY DEF AInv, SaveUser, At, Steps
<1>1. Moves(r) /\ reqs'[r].pc = "done" /\ reqs'[r].res = "ok"
  BY <1>0, ReplyMoves DEF SaveUser, Results
<1>2. PICK new \in User :
             /\ users' = [users EXCEPT ![Email(r)] = new]
             /\ Email(r) \in Emails /\ Doc(r) # Absent
             /\ new.role = Doc(r).role
             /\ new.resetToken = NoOne => ~new.expired
             /\ new.resetToken = IF Op(r) = "forgot" THEN r
                                 ELSE IF Op(r) = "reset" THEN NoOne ELSE Doc(r).resetToken
  BY SaveEffect
<1>3. \A q \in Reqs : /\ Op(q)' = Op(q) /\ Email(q)' = Email(q) /\ reqs'[q].arr = reqs[q].arr
                      /\ q # r => reqs'[q] = reqs[q] /\ Ok(q)' = Ok(q)
                      /\ Ok(q) => q # r
  BY <1>0, <1>1 DEF Moves, Op, Email, Ok, At
<1>4. Ok(r)'
  BY <1>1 DEF Ok, At
<1>5. \A e \in Emails : users'[e] = IF e = Email(r) THEN new ELSE users[e]
  BY <1>0, <1>2 DEF TypeOK
<1>6. new # Absent
  BY AccountsAssumption
<1>7. \A t, e : TokenOf(t, e) => TokenOf(t, e)'
  BY <1>3 DEF TokenOf
<1>8. \A q \in Reqs : reqs[q].pc # "idle" => Email(q) \in Emails
  BY <1>0, RequestTyped
<1>9. TypeOK'
  <2>1. users' \in [Emails -> User \cup {Absent}]
    BY <1>0, <1>2 DEF TypeOK
  <2> QED BY <1>0, <1>1, <1>2, <1>5, <2>1 DEF TypeOK, SaveUser, Moves
<1>10. Loaded' /\ Unassigned'
  BY <1>1, <1>3, <1>5, <1>6, <1>8 DEF AInv, Loaded, Unassigned, At, Doc
<1>11. Assigned'
  <2> SUFFICES ASSUME NEW q \in Reqs, At(q, "save")' PROVE AssignedBy(q)'
    BY DEF Assigned
  <2>1. q # r
    BY <1>1 DEF At
  <2>2. AssignedBy(q)
    BY <1>3, <2>1 DEF AInv, Assigned, At
  <2> QED BY <1>3, <2>1, <2>2 DEF AssignedBy, NewUser, ResetFields
<1>12. Issued'
  <2> SUFFICES ASSUME NEW e \in Emails, users'[e] # Absent, users'[e].resetToken # NoOne
               PROVE  TokenOf(users[e].resetToken, e)'
    BY DEF Issued
  <2>1. CASE e = Email(r) /\ Op(r) = "forgot"
    BY <1>2, <1>3, <1>4, <1>5, <2>1 DEF TokenOf
  <2>2. CASE e = Email(r) /\ Op(r) # "forgot"
    BY <1>2, <1>5, <1>7, <2>2 DEF AInv, Issued, Doc
  <2>3. CASE e # Email(r)
    BY <1>5, <1>7, <2>3 DEF AInv, Issued
  <2> QED BY <2>1, <2>2, <2>3
<1>13. Proven'
  BY <1>0, <1>1, <1>3, <1>7 DEF AInv, Proven, At
<1>14. Spent'
  <2> SUFFICES ASSUME NEW q \in Reqs, Ok(q)', Op(q) = "reset"
               PROVE  users'[Email(q)] # Absent /\ users'[Email(q)].resetToken # reqs[q].arr.token
    BY <1>3 DEF Spent, Doc
  <2>1. TokenOf(reqs[q].arr.token, Email(q))
    BY <1>0, <1>3 DEF AInv, Proven, Ok, At
  <2>2. reqs[q].arr.token # NoOne /\ reqs[q].arr.token # r /\ Email(q) \in Emails
    <3>1. reqs[q].pc # "idle"
      BY <1>0, <1>3 DEF Ok, At
    <3> QED BY <1>3, <1>8, <2>1, <3>1, AccountsAssumption DEF TokenOf
  <2>3. CASE q = r
    BY <1>2, <1>5, <1>6, <2>2, <2>3
  <2>4. CASE q # r
    <3>1. Ok(q) /\ Doc(q) # Absent /\ Doc(q).resetToken # reqs[q].arr.token
      BY <1>3, <2>4 DEF AInv, Spent
    <3>2. CASE Email(q) = Email(r)
      BY <1>2, <1>5, <1>6, <2>2, <3>1, <3>2 DEF Doc
    <3>3. CASE Email(q) # Email(r)
      BY <1>5, <2>2, <3>1, <3>3 DEF Doc
    <3> QED BY <3>2, <3>3
  <2> QED BY <2>3, <2>4
<1>15. \A q \in Reqs : Ok(q)' /\ Op(q)' = "register" => Ok(q) /\ Op(q) = "register"
  BY <1>0, <1>3
<1>16. Registration'
  <2> SUFFICES ASSUME NEW q \in Reqs, Ok(q)', Op(q)' = "register"
               PROVE  Doc(q)' # Absent /\ Doc(q)'.role = reqs[q].arr.role
    BY <1>3 DEF Registration
  <2>1. Ok(q) /\ Doc(q) # Absent /\ Doc(q).role = reqs[q].arr.role
    BY <1>15 DEF AInv, Registration
  <2>2. Email(q) \in Emails /\ Email(q)' = Email(q)
    BY <1>3, <1>8, <2>1 DEF Ok, At
  <2> QED BY <1>2, <1>5, <1>6, <2>1, <2>2 DEF Doc
<1>17. OneRegistration'
  BY <1>3, <1>15 DEF AInv, OneRegistration
<1> QED BY <1>9, <1>10, <1>11, <1>12, <1>13, <1>14, <1>16, <1>17 DEF AInv

\* A registration that is saved makes a well-formed user of the role it asked for.
LEMMA CreatedTyped ==
    ASSUME AInv, NEW r \in Reqs, At(r, "save"), Op(r) = "register"
    PROVE  /\ Created(r) \in User /\ Created(r) # Absent /\ Created(r).role = reqs[r].arr.role
           /\ Created(r).resetToken = NoOne /\ ~Created(r).expired
           /\ Email(r) \in Emails
<1>1. TypeOK /\ reqs[r].pc # "idle"
  BY DEF AInv, At
<1>2. Created(r) \in {NewUser(r, "email"), NewUser(r, "made-up")}
  BY DEF AInv, Assigned, AssignedBy, Created
<1> QED BY <1>1, <1>2, NewUserTyped, RequestTyped, AccountsAssumption

\* The index refuses a second user of an email, so the registration that is
\* answered with success is the first.
LEMMA InsertKeeps ==
    ASSUME AInv, NEW r \in Reqs, InsertUser(r), users' = [users EXCEPT ![Email(r)] = Created(r)],
           Doc(r) = Absent, Reply(r, "ok")
    PROVE  AInv'
<1>0. TypeOK /\ At(r, "save") /\ Op(r) = "register" /\ reqs[r].pc \in Steps
  BY DEF AInv, InsertUser, At, Steps
<1>1. Moves(r) /\ reqs'[r].pc = "done" /\ reqs'[r].res = "ok"
  BY <1>0, ReplyMoves DEF Results
<1>2. /\ Created(r) \in User /\ Created(r) # Absent /\ Created(r).role = reqs[r].arr.role
      /\ Created(r).resetToken = NoOne /\ ~Created(r).expired /\ Email(r) \in Emails
  BY <1>0, CreatedTyped
<1>3. \A q \in Reqs : /\ Op(q)' = Op(q) /\ Email(q)' = Email(q) /\ reqs'[q].arr = reqs[q].arr
                      /\ q # r => reqs'[q] = reqs[q] /\ Ok(q)' = Ok(q)
                      /\ Ok(q) => q # r
  BY <1>0, <1>1 DEF Moves, Op, Email, Ok, At
<1>5. \A e \in Emails : users'[e] = IF e = Email(r) THEN Created(r) ELSE users[e]
  BY <1>0, <1>2 DEF TypeOK
<1>7. \A t, e : TokenOf(t, e) => TokenOf(t, e)'
  BY <1>3 DEF TokenOf
<1>8. \A q \in Reqs : reqs[q].pc # "idle" => Email(q) \in Emails
  BY <1>0, RequestTyped
<1>9. TypeOK'
  <2>1. users' \in [Emails -> User \cup {Absent}]
    BY <1>0, <1>2 DEF TypeOK
  <2>2. \A e \in Emails : users'[e] # Absent /\ users'[e].resetToken = NoOne => ~users'[e].expired
    BY <1>0, <1>2, <1>5 DEF TypeOK
  <2> QED BY <1>0, <1>1, <2>1, <2>2 DEF TypeOK, InsertUser, Moves
<1>10. Loaded' /\ Unassigned'
  BY <1>1, <1>2, <1>3, <1>5, <1>8 DEF AInv, Loaded, Unassigned, At, Doc
<1>11. Assigned'
  <2> SUFFICES ASSUME NEW q \in Reqs, At(q, "save")' PROVE AssignedBy(q)'
    BY DEF Assigned
  <2>1. q # r
    BY <1>1 DEF At
  <2>2. AssignedBy(q)
    BY <1>3, <2>1 DEF AInv, Assigned, At
  <2> QED BY <1>3, <2>1, <2>2 DEF AssignedBy, NewUser, ResetFields
<1>12. Issued'
  BY <1>2, <1>5, <1>7 DEF AInv, Issued
<1>13. Proven'
  BY <1>0, <1>1, <1>3, <1>7 DEF AInv, Proven, At
<1>14. \A q \in Reqs : Ok(q) /\ Op(q) \in {"register", "reset"} =>
          Doc(q) # Absent /\ Email(q) # Email(r) /\ Email(q) \in Emails
  <2>1. \A q \in Reqs : Ok(q) => Email(q) \in Emails
    BY <1>8 DEF Ok, At
  <2> QED BY <2>1 DEF AInv, Spent, Registration, Doc
<1>15. Spent'
  <2> SUFFICES ASSUME NEW q \in Reqs, Ok(q)', Op(q)' = "reset"
               PROVE  Doc(q)' # Absent /\ Doc(q)'.resetToken # reqs[q].arr.token
    BY <1>3 DEF Spent
  <2>1. Ok(q) /\ Op(q) = "reset"
    BY <1>0, <1>3
  <2>2. Doc(q)' = Doc(q)
    BY <1>3, <1>5, <1>14, <2>1 DEF Doc
  <2> QED BY <2>1, <2>2 DEF AInv, Spent
<1>16. Registration'
  <2> SUFFICES ASSUME NEW q \in Reqs, Ok(q)', Op(q)' = "register"
               PROVE  Doc(q)' # Absent /\ Doc(q)'.role = reqs[q].arr.role
    BY <1>3 DEF Registration
  <2>1. CASE q = r
    BY <1>2, <1>3, <1>5, <2>1 DEF Doc
  <2>2. CASE q # r
    <3>1. Ok(q) /\ Op(q) = "register"
      BY <1>3, <2>2
    <3>2. Doc(q)' = Doc(q)
      BY <1>3, <1>5, <1>14, <3>1 DEF Doc
    <3> QED BY <3>1, <3>2 DEF AInv, Registration
  <2> QED BY <2>1, <2>2
<1>17. OneRegistration'
  <2> SUFFICES ASSUME NEW p \in Reqs, NEW q \in Reqs, Ok(p)', Ok(q)', Email(q) = Email(p),
                      Op(p) = "register", Op(q) = "register"
               PROVE  q = p
    BY <1>3 DEF OneRegistration
  <2>1. CASE p # r /\ q # r
    BY <1>3, <2>1 DEF AInv, OneRegistration
  <2>2. CASE p = r \/ q = r
    BY <1>3, <1>14, <2>2
  <2> QED BY <2>1, <2>2
<1> QED BY <1>9, <1>10, <1>11, <1>12, <1>13, <1>15, <1>16, <1>17 DEF AInv

\* An expired token is the same token.
LEMMA ExpiryKeeps ==
    ASSUME AInv, NEW e \in Emails, TokenExpires(e)
    PROVE  AInv'
<1>0. TypeOK /\ users[e] \in User /\ users[e] # Absent /\ users[e].resetToken # NoOne
  BY DEF AInv, TypeOK, TokenExpires
<1>1. /\ users' = [users EXCEPT ![e] = [users[e] EXCEPT !.expired = TRUE]]
      /\ UNCHANGED <<Live, wallet, sessions, reqs>>
  BY DEF TokenExpires
<1> DEFINE new == [users[e] EXCEPT !.expired = TRUE]
<1>2. /\ new \in User /\ new.resetToken = users[e].resetToken /\ new.role = users[e].role
  BY <1>0 DEF User
<1> HIDE DEF new
<1>3. \A f \in Emails : users'[f] = IF f = e THEN new ELSE users[f]
  BY <1>0, <1>1 DEF TypeOK, new
<1>4. new # Absent
  BY <1>2, AccountsAssumption
<1>5. \A q \in Reqs : reqs[q].pc # "idle" => Email(q) \in Emails
  BY <1>0, RequestTyped
<1>6. \A f \in Emails : /\ users'[f] # Absent <=> users[f] # Absent
                         /\ users'[f].resetToken = users[f].resetToken
                         /\ users'[f].role = users[f].role
  BY <1>0, <1>2, <1>3, <1>4
<1>7. \A t, f : TokenOf(t, f)' = TokenOf(t, f)
  BY <1>1 DEF TokenOf, Ok, At, Op, Email
<1>8. TypeOK'
  <2>1. users' \in [Emails -> User \cup {Absent}]
    BY <1>0, <1>1, <1>2 DEF TypeOK, new
  <2>2. \A f \in Emails : users'[f] # Absent /\ users'[f].resetToken = NoOne => ~users'[f].expired
    BY <1>0, <1>2, <1>3 DEF TypeOK
  <2> QED BY <1>0, <1>1, <2>1, <2>2 DEF TypeOK
<1>9. Loaded' /\ Unassigned'
  BY <1>1, <1>5, <1>6 DEF AInv, Loaded, Unassigned, At, Doc, Op, Email
<1>10. Assigned'
  BY <1>1 DEF AInv, Assigned, AssignedBy, At, Op, NewUser, ResetFields
<1>11. Issued'
  BY <1>6, <1>7 DEF AInv, Issued
<1>12. Proven'
  BY <1>1, <1>7 DEF AInv, Proven, Ok, At, Op, Email
<1>13. \A q \in Reqs : Ok(q) => Doc(q)' # Absent <=> Doc(q) # Absent
  BY <1>1, <1>5, <1>6 DEF Ok, At, Doc, Email
<1>14. \A q \in Reqs : Ok(q) => /\ Doc(q)'.role = Doc(q).role
                               /\ Doc(q)'.resetToken = Doc(q).resetToken
  BY <1>1, <1>5, <1>6 DEF Ok, At, Doc, Email
<1>15. \A q \in Reqs : Ok(q)' = Ok(q) /\ Op(q)' = Op(q) /\ reqs'[q].arr = reqs[q].arr /\ Email(q)' = Email(q)
  BY <1>1 DEF Ok, At, Op, Email
<1>16. Spent' /\ Registration' /\ OneRegistration'
  BY <1>13, <1>14, <1>15 DEF AInv, Spent, Registration, OneRegistration
<1> QED BY <1>8, <1>9, <1>10, <1>11, <1>12, <1>16 DEF AInv

----------------------------------------------------------------------------
(* Arrivals, failures and time.                                            *)
\* A request that has just arrived has asked for nothing yet, or is a profile
\* update of a user whose session was checked.
LEMMA ArriveKeeps ==
    ASSUME AInv, NEW r \in Reqs, NEW a \in Arrivals, Arrive(r, a)
    PROVE  AInv'
<1>0. TypeOK /\ reqs[r] = Idle /\ reqs[r].pc = "idle" /\ UNCHANGED <<Live, users, wallet, sessions>>
  BY DEF AInv, Arrive, Idle
<1>1. a \in Request /\ a.email \in Emails
  <2>1. a \in Request
    BY AccountsAssumption
  <2> QED BY <2>1 DEF Request
<1>2. PICK j : /\ reqs' = [reqs EXCEPT ![r] = j]
               /\ \/ j \in [pc : {"done"}, res : {"denied", "badRequest"}, mod : {NoOne}, arr : {a}]
                  \/ /\ a.op = "profile" /\ users[a.email] # Absent
                     /\ j = [pc |-> "save", res |-> "none", mod |-> [name |-> r], arr |-> a]
                  \/ /\ a.op = "change" => users[a.email] # Absent
                     /\ j = [pc |-> "find", res |-> "none", mod |-> NoOne, arr |-> a]
  <2> DEFINE job(step, res, mod) == [pc |-> step, res |-> res, mod |-> mod, arr |-> a]
             Becomes(j) == reqs' = [reqs EXCEPT ![r] = j]
  <2>1. \/ Becomes(job("done", "denied", NoOne)) \/ Becomes(job("done", "badRequest", NoOne))
        \/ a.op = "profile" /\ users[a.email] # Absent /\ Becomes(job("save", "none", [name |-> r]))
        \/ (a.op = "change" => users[a.email] # Absent) /\ Becomes(job("find", "none", NoOne))
    BY DEF Arrive, requireAuth
  <2>2. \A res \in {"denied", "badRequest"} :
          job("done", res, NoOne)
            \in [pc : {"done"}, res : {"denied", "badRequest"}, mod : {NoOne}, arr : {a}]
    OBVIOUS
  <2> HIDE DEF Becomes
  <2>3. CASE \/ Becomes(job("done", "denied", NoOne)) \/ Becomes(job("done", "badRequest", NoOne))
    BY <2>2, <2>3 DEF Becomes
  <2>4. CASE a.op = "profile" /\ users[a.email] # Absent
             /\ Becomes(job("save", "none", [name |-> r]))
    BY <2>4 DEF Becomes
  <2>5. CASE (a.op = "change" => users[a.email] # Absent) /\ Becomes(job("find", "none", NoOne))
    BY <2>5 DEF Becomes
  <2> QED BY <2>1, <2>3, <2>4, <2>5
<1>3. /\ j \in Job /\ j.arr = a
      /\ j.pc \in {"done", "save", "find"}
      /\ j.pc = "done" => j.res # "ok"
      /\ j.pc = "save" => a.op = "profile" /\ users[a.email] # Absent /\ j.mod = [name |-> r]
      /\ j.pc = "find" => j.mod = NoOne /\ (a.op = "change" => users[a.email] # Absent)
  <2>1. CASE j \in [pc : {"done"}, res : {"denied", "badRequest"}, mod : {NoOne}, arr : {a}]
    BY <2>1 DEF Job, Results, Mods
  <2>2. CASE a.op = "profile" /\ users[a.email] # Absent
             /\ j = [pc |-> "save", res |-> "none", mod |-> [name |-> r], arr |-> a]
    <3>1. [name |-> r] \in Mods
      BY DEF Mods
    <3> QED BY <2>2, <3>1 DEF Job, Steps
  <2>3. CASE /\ a.op = "change" => users[a.email] # Absent
             /\ j = [pc |-> "find", res |-> "none", mod |-> NoOne, arr |-> a]
    BY <2>3 DEF Job, Steps, Mods
  <2> QED BY <1>2, <2>1, <2>2, <2>3
<1>4. \A q \in Reqs : q # r => reqs'[q] = reqs[q]
  BY <1>0, <1>2 DEF TypeOK
<1>5. reqs'[r] = j /\ reqs' \in [Reqs -> {Idle} \cup Job]
  BY <1>0, <1>2, <1>3 DEF TypeOK
<1>6. \A q \in Reqs : Ok(q)' => q # r /\ Ok(q) /\ reqs'[q] = reqs[q]
  BY <1>3, <1>4, <1>5 DEF Ok, At
<1>7. \A t, e : TokenOf(t, e) => TokenOf(t, e)'
  <2> SUFFICES ASSUME NEW t, NEW e, TokenOf(t, e) PROVE TokenOf(t, e)'
    OBVIOUS
  <2>1. t \in Reqs /\ t # r
    BY <1>0 DEF TokenOf, Ok, At
  <2> QED BY <1>4, <2>1 DEF TokenOf, Ok, At, Op, Email
<1>8. TypeOK'
  BY <1>0, <1>5 DEF TypeOK
<1>9. Loaded' /\ Unassigned'
  BY <1>0, <1>3, <1>4, <1>5 DEF AInv, Loaded, Unassigned, At, Doc, Op, Email
<1>10. Assigned'
  <2> SUFFICES ASSUME NEW q \in Reqs, At(q, "save")' PROVE AssignedBy(q)'
    BY DEF Assigned
  <2>1. CASE q = r
    BY <1>3, <1>5, <2>1 DEF AssignedBy, At, Op
  <2>2. CASE q # r
    <3>1. AssignedBy(q) /\ reqs'[q] = reqs[q]
      BY <1>4, <2>2 DEF AInv, Assigned, At
    <3> QED BY <3>1 DEF AssignedBy, NewUser, ResetFields, Op
  <2> QED BY <2>1, <2>2
<1>11. Issued'
  BY <1>0, <1>7 DEF AInv, Issued
<1>12. Proven'
  <2> SUFFICES ASSUME NEW q \in Reqs, (At(q, "save") \/ Ok(q))', Op(q)' = "reset"
               PROVE  TokenOf(reqs[q].arr.token, Email(q))'
    BY DEF Proven
  <2>1. q # r
    BY <1>3, <1>5, <1>6 DEF At, Op
  <2>2. reqs'[q] = reqs[q]
    BY <1>4, <2>1
  <2>3. TokenOf(reqs[q].arr.token, Email(q))
    BY <2>2 DEF AInv, Proven, At, Op, Ok
  <2> QED BY <1>7, <2>2, <2>3 DEF Email
<1>13. Spent' /\ Registration' /\ OneRegistration'
  BY <1>0, <1>6 DEF AInv, Spent, Registration, OneRegistration, Op, Email, Doc
<1> QED BY <1>8, <1>9, <1>10, <1>11, <1>12, <1>13 DEF AInv

\* A failed call is answered with an error.
LEMMA FailureKeeps ==
    ASSUME AInv, NEW r \in Reqs, CallFails(r)
    PROVE  AInv'
<1>1. TypeOK /\ reqs[r].pc \in Steps
  BY DEF AInv, CallFails, InFlight
<1>2. Moves(r) /\ reqs'[r].pc = "done" /\ reqs'[r].res = "error"
  BY <1>1, ReplyMoves DEF CallFails, Results
<1>3. Quiet(r) /\ Others
  BY <1>1, <1>2 DEF Quiet, Others, CallFails, At, Ok, TypeOK
<1> QED BY <1>3, QuietKeeps

\* A crash ends the requests in flight, none of them with success.
LEMMA CrashKeeps ==
    ASSUME AInv, Crash
    PROVE  AInv'
<1>0. TypeOK /\ UNCHANGED <<Live, users, wallet, sessions>>
  BY DEF AInv, Crash
<1>1. \A q \in Reqs : reqs'[q] = IF reqs[q].pc \in Steps
                                 THEN [reqs[q] EXCEPT !.pc = "done", !.res = "lost"] ELSE reqs[q]
  BY DEF Crash, InFlight
<1>2. \A q \in Reqs : reqs[q].pc \in Steps =>
         /\ reqs'[q] \in Job /\ reqs'[q].pc = "done" /\ reqs'[q].res = "lost"
  <2> SUFFICES ASSUME NEW q \in Reqs, reqs[q].pc \in Steps
               PROVE  /\ reqs'[q] \in Job /\ reqs'[q].pc = "done" /\ reqs'[q].res = "lost"
    OBVIOUS
  <2>1. reqs[q] \in [pc : Steps, res : {"none"}, mod : Mods, arr : Arrivals]
    BY <1>0, RequestTyped DEF Job, Steps
  <2> QED BY <1>1, <2>1 DEF Job, Results
<1>3. reqs' \in [Reqs -> {Idle} \cup Job]
  <2>1. \A q \in Reqs : reqs'[q] \in {Idle} \cup Job
    BY <1>0, <1>1, <1>2 DEF TypeOK
  <2> QED BY <2>1 DEF Crash
<1>4. \A q \in Reqs : /\ reqs'[q].pc \notin Steps
                      /\ Ok(q)' <=> Ok(q)
                      /\ Ok(q) => reqs'[q] = reqs[q]
  BY <1>1, <1>2 DEF Steps, Ok, At
<1>5. \A t, e : TokenOf(t, e) => TokenOf(t, e)'
  BY <1>4 DEF TokenOf, Op, Email
<1>6. TypeOK'
  BY <1>0, <1>3 DEF TypeOK
<1>7. Loaded' /\ Unassigned' /\ Assigned'
  BY <1>4 DEF Loaded, Unassigned, Assigned, At, Steps
<1>8. Issued'
  BY <1>0, <1>5 DEF AInv, Issued
<1>9. Proven'
  <2> SUFFICES ASSUME NEW q \in Reqs, Ok(q), Op(q) = "reset", reqs'[q] = reqs[q]
               PROVE  TokenOf(reqs[q].arr.token, Email(q))'
    BY <1>4 DEF Proven, At, Steps, Op
  <2>1. TokenOf(reqs[q].arr.token, Email(q))
    BY DEF AInv, Proven
  <2> QED BY <1>5, <2>1 DEF Email
<1>10. Spent' /\ Registration' /\ OneRegistration'
  BY <1>0, <1>4 DEF AInv, Spent, Registration, OneRegistration, Op, Email, Doc
<1> QED BY <1>6, <1>7, <1>8, <1>9, <1>10 DEF AInv

----------------------------------------------------------------------------
(* The theorems                                                            *)
\* Steps that concern nobody's record.
LEMMA IdleKeeps ==
    ASSUME AInv, UNCHANGED <<Live, users, wallet, reqs>>, sessions' \subseteq sessions
    PROVE  AInv'
<1>1. \A t, e : TokenOf(t, e)' = TokenOf(t, e)
  BY DEF TokenOf, Ok, At, Op, Email
<1>2. TypeOK'
  BY DEF AInv, TypeOK
<1>3. Loaded' /\ Unassigned'
  BY DEF AInv, Loaded, Unassigned, At, Doc, Op, Email
<1>4. Assigned'
  BY DEF AInv, Assigned, AssignedBy, At, Op, NewUser, ResetFields
<1>5. Issued' /\ Proven'
  BY <1>1 DEF AInv, Issued, Proven, Ok, At, Op, Email
<1>6. Spent' /\ Registration' /\ OneRegistration'
  BY DEF AInv, Spent, Registration, OneRegistration, Ok, At, Op, Email, Doc
<1> QED BY <1>2, <1>3, <1>4, <1>5, <1>6 DEF AInv

LEMMA AStep == AInv /\ [Next]_vars => AInv'
<1> SUFFICES ASSUME AInv, [Next]_vars PROVE AInv'
  OBVIOUS
<1>1. ASSUME NEW r \in Reqs, NEW a \in Arrivals, Arrive(r, a) PROVE AInv'
  BY <1>1, ArriveKeeps
<1>2. ASSUME NEW r \in Reqs, Step(r) PROVE AInv'
  <2>1. CASE InsertUser(r)
    <3>1. CASE Doc(r) = Absent
      BY <2>1, <3>1, InsertKeeps DEF InsertUser
    <3>2. CASE Doc(r) # Absent
      <4>1. TypeOK /\ reqs[r].pc \in Steps /\ Reply(r, "error") /\ UNCHANGED <<Live, users, wallet, sessions>>
        BY <2>1, <3>2 DEF AInv, InsertUser, At, Steps
      <4>2. Moves(r) /\ reqs'[r].pc = "done" /\ reqs'[r].res = "error"
        BY <4>1, ReplyMoves DEF Results
      <4>3. Quiet(r) /\ Others
        BY <4>1, <4>2 DEF Quiet, Others, At, Ok, TypeOK
      <4> QED BY <4>3, QuietKeeps
    <3> QED BY <3>1, <3>2
  <2>2. CASE SaveUser(r)
    BY <2>2, SaveKeeps
  <2>3. CASE ~InsertUser(r) /\ ~SaveUser(r)
    BY <1>2, <2>3, HandlerQuiet, QuietKeeps DEF Step
  <2> QED BY <2>1, <2>2, <2>3
<1>3. ASSUME NEW r \in Reqs, CallFails(r) PROVE AInv'
  BY <1>3, FailureKeeps
<1>4. ASSUME NEW e \in Emails, TokenExpires(e) PROVE AInv'
  BY <1>4, ExpiryKeeps
<1>5. ASSUME NEW e \in Emails, SessionExpires(e) PROVE AInv'
  BY <1>5, IdleKeeps DEF SessionExpires
<1>6. CASE Crash
  BY <1>6, CrashKeeps
<1>7. CASE UNCHANGED vars
  BY <1>7, IdleKeeps DEF vars
<1> QED BY <1>1, <1>2, <1>3, <1>4, <1>5, <1>6, <1>7 DEF Next

\* Whatever requests run into each other: an email has one account, that of the
\* one registration answered with success, and a reset token worked for its own
\* account only and is gone once it has (auth.controller.js).
THEOREM AccountsAreSound == Spec => []AccountsSound
<1>1. Spec => []AInv
  BY AInit, AStep, PTL DEF Spec
<1> QED BY <1>1, AInvSuffices, PTL
----------------------------------------------------------------------------
(* Certificates                                                            *)
\* Of the steps that write a user only the regulator's saves write the status.
LEMMA CertificateStep ==
    ASSUME AInv, [Next]_vars, NEW e \in Emails, users[e] # Absent,
           users'[e].certificateStatus # users[e].certificateStatus
    PROVE  \E r \in Reqs : /\ At(r, "save") /\ Ok(r)'
                           /\ Op(r) \in {"revoke", "reactivate"} /\ Email(r) = e
<1>0. TypeOK /\ users # users'
  BY DEF AInv
<1>1. \A r \in Reqs : ~ \E a \in Arrivals : Arrive(r, a)
  BY <1>0 DEF Arrive
<1>2. ASSUME NEW r \in Reqs, Step(r)
      PROVE  /\ At(r, "save") /\ Ok(r)'
             /\ Op(r) \in {"revoke", "reactivate"} /\ Email(r) = e
  <2>1. CASE InsertUser(r)
    <3>1. Doc(r) = Absent /\ users' = [users EXCEPT ![Email(r)] = Created(r)]
      BY <1>0, <2>1 DEF InsertUser
    <3>2. e # Email(r)
      BY <3>1 DEF Doc
    <3> QED BY <1>0, <3>1, <3>2 DEF TypeOK
  <2>2. CASE SaveUser(r)
    <3>0. At(r, "save") /\ reqs[r].pc \in Steps /\ Reply(r, "ok")
      BY <2>2 DEF SaveUser, At, Steps
    <3>1. Ok(r)'
      BY <1>0, <3>0, ReplyMoves DEF Results, Ok, At
    <3>2. PICK new \in User :
             /\ users' = [users EXCEPT ![Email(r)] = new]
             /\ Email(r) \in Emails
             /\ Op(r) \notin {"revoke", "reactivate"} => new.certificateStatus = Doc(r).certificateStatus
      BY <2>2, SaveEffect
    <3>3. e = Email(r)
      BY <1>0, <3>2 DEF TypeOK
    <3> QED BY <1>0, <3>0, <3>1, <3>2, <3>3 DEF TypeOK, Doc
  <2>3. CASE ~InsertUser(r) /\ ~SaveUser(r)
    BY <1>0, <1>2, <2>3, HandlerQuiet DEF Step, Quiet
  <2> QED BY <2>1, <2>2, <2>3
<1>3. \A f \in Emails : ~TokenExpires(f)
  <2> SUFFICES ASSUME NEW f \in Emails, TokenExpires(f) PROVE FALSE
    OBVIOUS
  <2>1. users[f] \in User /\ users' = [users EXCEPT ![f] = [users[f] EXCEPT !.expired = TRUE]]
    BY <1>0 DEF TypeOK, TokenExpires
  <2>2. users'[f].certificateStatus = users[f].certificateStatus
    BY <1>0, <2>1 DEF TypeOK, User
  <2> QED BY <1>0, <2>1, <2>2 DEF TypeOK
<1>4. /\ \A r \in Reqs : ~CallFails(r)
      /\ \A f \in Emails : ~SessionExpires(f)
      /\ ~Crash /\ ~UNCHANGED vars
  BY <1>0 DEF CallFails, SessionExpires, Crash, vars
<1> QED BY <1>1, <1>2, <1>3, <1>4 DEF Next

\* A profile or password update that loaded the user before a revocation does
\* not undo it: a certificate changes only by a save of the regulator's
\* revokeCertificate and reactivateCertificate.
THEOREM OnlyTheRegulatorDecides == Spec => RegulatorDecidesCertificate
<1> DEFINE Decides ==
      \A e \in Emails :
         users[e] # Absent /\ users'[e].certificateStatus # users[e].certificateStatus =>
            \E r \in Reqs : /\ At(r, "save") /\ Ok(r)'
                            /\ Op(r) \in {"revoke", "reactivate"} /\ Email(r) = e
<1>1. AInv /\ [Next]_vars => [Decides]_users
  BY CertificateStep
<1>2. Spec => []AInv
  BY AInit, AStep, PTL DEF Spec
<1> QED BY <1>1, <1>2, PTL DEF Spec, RegulatorDecidesCertificate

----------------------------------------------------------------------------
(* The wallet                                                              *)
\* Where an identity in the wallet comes from, and that a record which counts
\* as enrolled, or is about to be stored, has one.
Registering(r, e) == reqs[r].pc # "idle" /\ Op(r) = "register" /\ Email(r) = e
Copied(e) == \/ users[e] # Absent /\ wallet[e] = CryptogenIdentity(users[e].role)
             \/ \E r \in Reqs : /\ Registering(r, e)
                                /\ wallet[e] = CryptogenIdentity(reqs[r].arr.role)
Enrolled(e) == users[e] # Absent /\ users[e].fabricEnrollmentId = "email"
Enrolling(r) == At(r, "save") /\ Op(r) = "register" /\ Created(r).fabricEnrollmentId = "email"

WInv == /\ \A e \in Emails : wallet[e] # "none" => Copied(e)
        /\ \A e \in Emails : Enrolled(e) => wallet[e] # "none"
        /\ \A r \in Reqs : Enrolling(r) => wallet[Email(r)] # "none"

LEMMA WInit == Init => WInv
BY DEF Init, WInv, Copied, Enrolled, Enrolling, At, Idle, CryptogenIdentity

LEMMA WInvSuffices == WInv => LedgerRoleMatches
<1> SUFFICES ASSUME WInv, NEW e \in Emails, users[e] # Absent,
                    \A r \in Reqs : reqs[r] # Idle /\ Op(r) = "register" /\ Email(r) = e =>
                       reqs[r].arr.role = users[e].role
             PROVE  LedgerIdentity(e) = CryptogenIdentity(users[e].role)
  BY DEF LedgerRoleMatches
<1>1. CASE users[e].fabricEnrollmentId = "email"
  <2>1. wallet[e] # "none" /\ Copied(e)
    BY <1>1 DEF WInv, Enrolled
  <2>2. \A r \in Reqs : Registering(r, e) => reqs[r].arr.role = users[e].role
    BY DEF Registering, Idle
  <2> QED BY <1>1, <2>1, <2>2 DEF Copied, LedgerIdentity
<1>2. CASE users[e].fabricEnrollmentId # "email"
  BY <1>2 DEF LedgerIdentity
<1> QED BY <1>1, <1>2

\* A step preserves it that takes no role away, puts only the identity of a
\* registration into the wallet, and stores no user as enrolled without one.
LEMMA WKeeps ==
    ASSUME WInv,
           \A q \in Reqs : reqs[q].pc # "idle" =>
              reqs'[q].pc # "idle" /\ reqs'[q].arr = reqs[q].arr,
           \A e \in Emails : users[e] # Absent =>
              /\ users'[e] # Absent /\ users'[e].role = users[e].role
              /\ users'[e].fabricEnrollmentId = users[e].fabricEnrollmentId,
           \A e \in Emails : \/ wallet'[e] = wallet[e]
                             \/ \E q \in Reqs : /\ Registering(q, e)
                                                /\ wallet'[e] = CryptogenIdentity(reqs[q].arr.role),
           \A e \in Emails : users[e] = Absent /\ Enrolled(e)' => wallet'[e] # "none",
           \A q \in Reqs : Enrolling(q)' => Email(q)' \in Emails,
           \A q \in Reqs : Enrolling(q)' => \/ Enrolling(q) /\ Email(q)' = Email(q)
                                            \/ wallet'[Email(q)'] # "none"
    PROVE  WInv'
<1>1. \A q \in Reqs, e \in Emails : Registering(q, e) =>
         Registering(q, e)' /\ reqs'[q].arr = reqs[q].arr
  BY DEF Registering, Op, Email
<1>2. \A e \in Emails : wallet[e] # "none" => wallet'[e] # "none"
  BY DEF CryptogenIdentity
<1>3. ASSUME NEW e \in Emails, wallet'[e] # "none" PROVE Copied(e)'
  <2>1. CASE wallet'[e] = wallet[e]
    <3>1. Copied(e)
      BY <1>3, <2>1 DEF WInv
    <3>2. CASE users[e] # Absent /\ wallet[e] = CryptogenIdentity(users[e].role)
      BY <2>1, <3>2 DEF Copied, CryptogenIdentity
    <3>3. CASE \E r \in Reqs : Registering(r, e) /\ wallet[e] = CryptogenIdentity(reqs[r].arr.role)
      BY <1>1, <2>1, <3>3 DEF Copied, CryptogenIdentity
    <3> QED BY <3>1, <3>2, <3>3 DEF Copied
  <2>2. CASE \E q \in Reqs : Registering(q, e) /\ wallet'[e] = CryptogenIdentity(reqs[q].arr.role)
    BY <1>1, <2>2 DEF Copied, CryptogenIdentity
  <2> QED BY <2>1, <2>2
<1>4. \A e \in Emails : Enrolled(e)' => wallet'[e] # "none"
  BY <1>2 DEF WInv, Enrolled
<1>5. \A q \in Reqs : Enrolling(q)' => wallet'[Email(q)'] # "none"
  BY <1>2 DEF WInv
<1> QED BY <1>3, <1>4, <1>5 DEF WInv

\* Steps that leave the wallet and the users' enrolments alone, and prepare no
\* record.
LEMMA WQuiet ==
    ASSUME WInv, TypeOK', wallet' = wallet,
           \A q \in Reqs : reqs[q].pc # "idle" =>
              reqs'[q].pc # "idle" /\ reqs'[q].arr = reqs[q].arr,
           \A e \in Emails : users'[e] # Absent <=> users[e] # Absent,
           \A e \in Emails : users[e] # Absent =>
              /\ users'[e].role = users[e].role
              /\ users'[e].fabricEnrollmentId = users[e].fabricEnrollmentId,
           \A q \in Reqs : At(q, "save")' /\ Op(q)' = "register" => reqs'[q] = reqs[q]
    PROVE  WInv'
<1>1. \A q \in Reqs : Enrolling(q)' => Email(q)' \in Emails
  <2> SUFFICES ASSUME NEW q \in Reqs, Enrolling(q)' PROVE reqs'[q].arr.email \in Emails
    BY DEF Email
  <2>1. reqs'[q] \in Job
    BY DEF TypeOK, Idle, Enrolling, At
  <2>2. reqs'[q].arr \in Request
    BY <2>1, AccountsAssumption DEF Job
  <2> QED BY <2>2 DEF Request
<1>2. \A q \in Reqs : Enrolling(q)' => Enrolling(q) /\ Email(q)' = Email(q)
  BY DEF Enrolling, At, Op, Email, Created, NewUser
<1> QED BY <1>1, <1>2, WKeeps DEF Enrolled

\* register keeps it up to the save: enrollUser notes the email only when the
\* wallet has an entry under it.
LEMMA RegisterSteps ==
    ASSUME AInv, WInv, AInv', NEW r \in Reqs,
           FindExisting(r) \/ enrollUser(r) \/ putIdentity(r)
    PROVE  WInv'
<1>0. TypeOK /\ TypeOK' /\ Quiet(r)
  BY HandlerQuiet DEF AInv
<1>1. /\ users' = users /\ reqs[r].pc \in Steps /\ Op(r) = "register"
      /\ Email(r) \in Emails
  BY <1>0, RequestTyped DEF FindExisting, enrollUser, putIdentity, At, AInv, Loaded, Quiet, Moves, Steps
<1>2. \A q \in Reqs : /\ reqs'[q].arr = reqs[q].arr /\ Op(q)' = Op(q) /\ Email(q)' = Email(q)
                      /\ q # r => reqs'[q] = reqs[q]
  BY <1>0 DEF Quiet, Moves, Op, Email
<1>3. \A q \in Reqs : reqs[q].pc # "idle" => reqs'[q].pc # "idle"
  <2>1. \E x : (\E step \in Steps : Goto(r, step)) \/ Reply(r, x) \/ Modify(r, x)
    <3>1. CASE FindExisting(r)
      <4>1. Reply(r, "conflict") \/ Goto(r, "enroll") \/ Goto(r, "save")
        BY <3>1 DEF FindExisting
      <4> QED BY <4>1 DEF Steps
    <3>2. CASE enrollUser(r) \/ putIdentity(r)
      <4>1. Goto(r, "put") \/ \E x : Modify(r, x)
        BY <3>2 DEF enrollUser, putIdentity
      <4> QED BY <4>1 DEF Steps
    <3> QED BY <3>1, <3>2
  <2> QED BY <1>0, <1>1, <1>2, <2>1, NeverIdleAgain
<1>4. \A e \in Emails :
         \/ wallet'[e] = wallet[e]
         \/ Registering(r, e) /\ wallet'[e] = CryptogenIdentity(reqs[r].arr.role)
  <2>1. CASE wallet' = wallet
    BY <2>1
  <2>2. CASE wallet' = [wallet EXCEPT ![Email(r)] = CryptogenIdentity(reqs[r].arr.role)]
    BY <1>0, <1>1, <2>2 DEF TypeOK, Registering, Steps
  <2> QED BY <2>1, <2>2 DEF FindExisting, enrollUser, putIdentity
<1>5. Enrolling(r)' => wallet'[Email(r)] # "none"
  <2> SUFFICES ASSUME Enrolling(r)', wallet'[Email(r)] = "none" PROVE FALSE
    OBVIOUS
  <2>1. reqs'[r].mod \in {NoOne, NewUser(r, "made-up")}
    <3>0. reqs'[r].pc = "save"
      BY DEF Enrolling, At
    <3>1. CASE FindExisting(r)
      <4>1. ~Reply(r, "conflict")
        BY <1>0, <1>1, <3>0, ReplyMoves DEF Results
      <4>2. Goto(r, "enroll") \/ Goto(r, "save")
        BY <3>1, <4>1 DEF FindExisting
      <4>3. reqs[r].mod = NoOne
        BY <3>1 DEF FindExisting, AInv, Unassigned
      <4> QED BY <1>0, <1>1, <4>2, <4>3, GotoMoves DEF Steps
    <3>2. ASSUME NEW e \in {"email", "made-up"}, Modify(r, NewUser(r, e))
          PROVE  reqs'[r].mod = NewUser(r, e)
      <4>1. NewUser(r, e) \in Mods
        BY <1>0, <1>1, NewUserTyped DEF Mods, Steps
      <4> QED BY <1>0, <1>1, <3>2, <4>1, ModifyMoves
    <3>3. CASE enrollUser(r)
      <4>1. wallet[Email(r)] = "none"
        BY <3>3 DEF enrollUser
      <4>2. ~Goto(r, "put")
        BY <1>0, <1>1, <3>0, GotoMoves DEF Steps
      <4> QED BY <3>2, <3>3, <4>1, <4>2 DEF enrollUser
    <3>4. CASE putIdentity(r)
      <4>1. wallet' # [wallet EXCEPT ![Email(r)] = CryptogenIdentity(reqs[r].arr.role)]
        BY <1>0, <1>1 DEF TypeOK, CryptogenIdentity
      <4> QED BY <3>2, <3>4, <4>1 DEF putIdentity
    <3> QED BY <3>1, <3>3, <3>4
  <2>2. NewUser(r, "made-up")' = NewUser(r, "made-up")
    BY <1>2 DEF NewUser
  <2>3. Created(r)' = NewUser(r, "made-up")
    BY <2>1, <2>2 DEF Created
  <2> QED BY <2>3 DEF Enrolling, NewUser
<1>6. \A q \in Reqs : Enrolling(q)' => Email(q) \in Emails
  BY <1>0, <1>1, <1>2, RequestTyped DEF Enrolling, At
<1>7. \A q \in Reqs : q # r /\ Enrolling(q)' => Enrolling(q)
  BY <1>2 DEF Enrolling, At, Created, NewUser
<1> QED BY <1>1, <1>2, <1>3, <1>4, <1>5, <1>6, <1>7, WKeeps DEF Enrolled

LEMMA InsertStep ==
    ASSUME AInv, WInv, AInv', NEW r \in Reqs, InsertUser(r)
    PROVE  WInv'
<1>0. /\ TypeOK /\ TypeOK' /\ At(r, "save") /\ Op(r) = "register" /\ reqs[r].pc \in Steps
      /\ wallet' = wallet
  BY DEF AInv, InsertUser, At, Steps
<1>1. Moves(r) /\ reqs'[r].pc = "done"
  BY <1>0, ReplyMoves DEF InsertUser, Results
<1>2. \A q \in Reqs : /\ reqs'[q].arr = reqs[q].arr
                      /\ reqs[q].pc # "idle" => reqs'[q].pc # "idle"
                      /\ At(q, "save")' => q # r /\ reqs'[q] = reqs[q]
  BY <1>1 DEF Moves, At
<1>3. CASE Doc(r) # Absent
  BY <1>0, <1>2, <1>3, WQuiet DEF InsertUser
<1>4. CASE Doc(r) = Absent
  <2>1. users' = [users EXCEPT ![Email(r)] = Created(r)] /\ Created(r) # Absent
    BY <1>0, <1>4, CreatedTyped DEF InsertUser
  <2>2. Email(r) \in Emails /\ \A e \in Emails : users'[e] = IF e = Email(r) THEN Created(r) ELSE users[e]
    BY <1>0, <2>1, CreatedTyped DEF TypeOK
  <2>3. \A e \in Emails : users[e] = Absent /\ Enrolled(e)' => wallet'[e] # "none"
    BY <1>0, <2>1, <2>2 DEF Enrolled, WInv, Enrolling
  <2>4. \A q \in Reqs : Enrolling(q)' => Enrolling(q) /\ Email(q)' = Email(q)
    BY <1>2 DEF Enrolling, At, Op, Email, Created, NewUser
  <2>5. \A q \in Reqs : Enrolling(q) => Email(q) \in Emails
    BY <1>0, RequestTyped DEF Enrolling, At
  <2> QED BY <1>0, <1>2, <1>4, <2>2, <2>3, <2>4, <2>5, WKeeps DEF Doc
<1> QED BY <1>3, <1>4

\* The requests about an existing user leave its role and its enrolment.
LEMMA UserSteps ==
    ASSUME AInv, WInv, AInv', NEW r \in Reqs,
           \/ login(r) \/ changePassword(r) \/ forgotPassword(r) \/ resetPassword(r)
           \/ SetCertificate(r) \/ SaveUser(r)
    PROVE  WInv'
<1>0. /\ TypeOK /\ TypeOK' /\ wallet' = wallet /\ Op(r) # "register"
      /\ reqs[r].pc \in Steps
  BY DEF AInv, login, changePassword, forgotPassword, resetPassword, SetCertificate, SaveUser, At, Steps
<1>1. CASE SaveUser(r)
  <2>1. Moves(r) /\ reqs'[r].pc = "done"
    BY <1>0, <1>1, ReplyMoves DEF SaveUser, Results
  <2>2. PICK new \in User :
             /\ users' = [users EXCEPT ![Email(r)] = new]
             /\ Email(r) \in Emails /\ Doc(r) # Absent
             /\ new.role = Doc(r).role
             /\ new.fabricEnrollmentId = Doc(r).fabricEnrollmentId
    BY <1>1, SaveEffect
  <2>3. \A e \in Emails : users'[e] = IF e = Email(r) THEN new ELSE users[e]
    BY <1>0, <2>2 DEF TypeOK
  <2>4. \A q \in Reqs : /\ reqs'[q].arr = reqs[q].arr
                        /\ reqs[q].pc # "idle" => reqs'[q].pc # "idle"
                        /\ At(q, "save")' => reqs'[q] = reqs[q]
    BY <2>1 DEF Moves, At
  <2> QED BY <1>0, <2>2, <2>3, <2>4, WQuiet, AccountsAssumption DEF Doc
<1>2. CASE ~SaveUser(r)
  <2>1. Quiet(r)
    BY <1>2, HandlerQuiet
  <2>2. \E x : Reply(r, x) \/ Modify(r, x)
    BY <1>2 DEF login, changePassword, forgotPassword, resetPassword, SetCertificate
  <2>3. reqs'[r].pc # "idle"
    BY <1>0, <2>2, NeverIdleAgain
  <2>4. \A q \in Reqs : reqs'[q].arr = reqs[q].arr /\ (q # r => reqs'[q] = reqs[q])
    BY <2>1 DEF Quiet, Moves
  <2> QED BY <1>0, <2>1, <2>3, <2>4, WQuiet DEF Quiet, Op, At
<1> QED BY <1>1, <1>2

LEMMA WStep == AInv /\ WInv /\ [Next]_vars => WInv'
<1> SUFFICES ASSUME AInv, WInv, [Next]_vars PROVE WInv'
  OBVIOUS
<1>0. AInv' /\ TypeOK /\ TypeOK'
  BY AStep DEF AInv
<1>1. ASSUME NEW r \in Reqs, NEW a \in Arrivals, Arrive(r, a) PROVE WInv'
  <2>1. /\ reqs[r].pc = "idle" /\ UNCHANGED <<users, wallet>>
        /\ \A q \in Reqs : q # r => reqs'[q] = reqs[q]
    BY <1>0, <1>1 DEF Arrive, Idle, TypeOK
  <2>2. reqs'[r].pc = "save" => Op(r)' # "register"
    BY <1>0, <1>1 DEF Arrive, TypeOK, Op
  <2> QED BY <1>0, <2>1, <2>2, WQuiet DEF At
<1>3. ASSUME NEW r \in Reqs, Step(r) PROVE WInv'
  BY <1>0, <1>3, RegisterSteps, InsertStep, UserSteps DEF Step
<1>4. ASSUME NEW r \in Reqs, CallFails(r) PROVE WInv'
  <2>1. Moves(r) /\ reqs'[r].pc = "done" /\ UNCHANGED <<users, wallet>>
    BY <1>0, <1>4, ReplyMoves DEF CallFails, InFlight, Results
  <2> QED BY <1>0, <2>1, WQuiet DEF Moves, At
<1>5. ASSUME NEW e \in Emails, TokenExpires(e) PROVE WInv'
  <2>1. /\ users[e] \in User /\ users[e] # Absent /\ UNCHANGED <<wallet, reqs>>
        /\ users' = [users EXCEPT ![e] = [users[e] EXCEPT !.expired = TRUE]]
    BY <1>0, <1>5 DEF TypeOK, TokenExpires
  <2>2. /\ users'[e] \in User /\ users'[e].role = users[e].role
        /\ users'[e].fabricEnrollmentId = users[e].fabricEnrollmentId
    BY <1>0, <2>1 DEF TypeOK, User
  <2> QED BY <1>0, <2>1, <2>2, WQuiet, AccountsAssumption DEF TypeOK
<1>6. ASSUME NEW e \in Emails, SessionExpires(e) PROVE WInv'
  BY <1>0, <1>6, WQuiet DEF SessionExpires
<1>7. CASE Crash
  <2>1. /\ UNCHANGED <<users, wallet>>
        /\ \A q \in Reqs : reqs'[q] = IF reqs[q].pc \in Steps
                              THEN [reqs[q] EXCEPT !.pc = "done", !.res = "lost"] ELSE reqs[q]
    BY <1>7 DEF Crash, InFlight
  <2>2. \A q \in Reqs : reqs[q].pc \in Steps =>
          reqs[q] \in [pc : Steps, res : {"none"}, mod : Mods, arr : Arrivals]
    BY <1>0, RequestTyped DEF Job, Steps
  <2>3. \A q \in Reqs : reqs[q].pc \in Steps => reqs'[q].pc = "done" /\ reqs'[q].arr = reqs[q].arr
    BY <2>1, <2>2
  <2> QED BY <1>0, <2>1, <2>3, WQuiet DEF At, Steps
<1>8. CASE UNCHANGED vars
  BY <1>0, <1>8, WQuiet DEF vars
<1> QED BY <1>1, <1>3, <1>4, <1>5, <1>6, <1>7, <1>8 DEF Next

\* An account that counts as enrolled has an identity of its own role in the
\* wallet, unless registrations of two roles raced for its email
\* (fabricEnrollment.service.js, fabric.service.js).
THEOREM EnrolledIdentityMatches == Spec => []LedgerRoleMatches
<1>1. Spec => [](AInv /\ WInv)
  BY AInit, AStep, WInit, WStep, PTL DEF Spec
<1> QED BY <1>1, WInvSuffices, PTL
============================================================================
