-------------------------- MODULE KYCBackendProofs -------------------------
(***************************************************************************)
(* Safety of the API for any number of documents, users and requests.      *)
(*                                                                         *)
(* UInv, KInv and DInv hold whatever FABRIC_MOCK is.  UInv: an id is       *)
(* uploaded once, what is stored was uploaded, and a decision past its     *)
(* read is about something stored.  KInv: the file of an upload is there   *)
(* until it is answered, and what was answered with success has its file,  *)
(* its document and its audit entry.  DInv: every decision and revocation  *)
(* MongoDB shows was made by a request past its save.                      *)
(*                                                                         *)
(* LInv needs a live ledger.  A request only reaches its save with a valid *)
(* transaction (Waited), a valid transaction is still what the ledger says *)
(* (Recorded), so of two decisions of a document only one is ever saved.   *)
(* CInv carries the refinement of the contract.                            *)
(***************************************************************************)
EXTENDS KYCBackend, TLAPS

IsUpload(r) == reqs[r] # Idle /\ Op(r) = "upload"
IsDecision(r) == reqs[r] # Idle /\ Op(r) \in {"sign", "reject"}
AtOneOf(r, steps) == reqs[r].pc \in steps
Saved(r) == AtOneOf(r, {"audit", "done"})
Submitted(r) == AtOneOf(r, {"wait", "save", "audit", "done"})

\* No two uploads share an id.
Fresh == \A r, q \in Reqs : IsUpload(r) /\ IsUpload(q) /\ Tgt(r) = Tgt(q) => r = q

\* A stored document was uploaded by a request past its save.
Uploaded == \A d \in Docs : Stored(d) => \E r \in Reqs : IsUpload(r) /\ Tgt(r) = d /\ Saved(r)

\* A decision past its read is about a stored document.
Loaded == \A r \in Reqs :
    IsDecision(r) /\ AtOneOf(r, {"submit", "wait", "save", "audit"}) => Stored(Tgt(r))

\* Only a request about a document, past its submit, has a transaction.
Ordered == \A r \in Reqs : ltx[r] # "none" =>
    /\ reqs[r] # Idle /\ Op(r) \in DocOps
    /\ Submitted(r)

UInv == TypeOK /\ Fresh /\ Uploaded /\ Loaded /\ Ordered

----------------------------------------------------------------------------
\* A request that has arrived is a well-formed one.
LEMMA RequestTyped ==
    ASSUME TypeOK, NEW r \in Reqs, reqs[r] # Idle
    PROVE  /\ reqs[r] \in Job /\ reqs[r].arr \in Arrivals
           /\ Op(r) \in DocOps \cup CertOps
           /\ User(r) \in Users
           /\ Op(r) \in DocOps => Tgt(r) \in Docs
           /\ Op(r) \in CertOps => Tgt(r) \in Users
<1>1. reqs[r] \in Job
  BY DEF TypeOK
<1>2. reqs[r].arr \in Request
  BY <1>1, BackendAssumption DEF Job
<1> QED BY <1>1, <1>2 DEF Job, Request, DocOps, CertOps, Op, User, Tgt

\* A request at one of the steps is no free slot.
LEMMA Active ==
    ASSUME TypeOK, NEW r \in Reqs, reqs[r].pc # "idle"
    PROVE  reqs[r] # Idle
BY DEF Idle

\* Goto and Reply change the position of their request only.
LEMMA GotoEffect ==
    ASSUME TypeOK, NEW r \in Reqs, reqs[r].pc \in Steps, NEW step \in Steps, Goto(r, step)
    PROVE  /\ reqs' \in [Reqs -> {Idle} \cup Job]
           /\ \A q \in Reqs \ {r} : reqs'[q] = reqs[q]
           /\ reqs'[r].pc = step /\ reqs'[r].arr = reqs[r].arr /\ reqs'[r].res = "none"
           /\ reqs[r] # Idle /\ reqs'[r] # Idle
<1>1. reqs[r] \in Job
  BY DEF TypeOK, Idle, Steps
<1>2. reqs[r] \in [pc : Steps, arr : Arrivals, res : {"none"}]
  BY <1>1 DEF Job, Steps
<1>3. reqs'[r] \in [pc : Steps, arr : Arrivals, res : {"none"}]
  BY <1>2 DEF Goto, TypeOK
<1> QED BY <1>1, <1>2, <1>3 DEF Goto, TypeOK, Job, Idle, Steps

\* The same for Reply.
LEMMA ReplyEffect ==
    ASSUME TypeOK, NEW r \in Reqs, reqs[r].pc \in Steps, NEW res \in Results, Reply(r, res)
    PROVE  /\ reqs' \in [Reqs -> {Idle} \cup Job]
           /\ \A q \in Reqs \ {r} : reqs'[q] = reqs[q]
           /\ reqs'[r].pc = "done" /\ reqs'[r].arr = reqs[r].arr /\ reqs'[r].res = res
           /\ reqs[r] # Idle /\ reqs'[r] # Idle
<1>1. reqs[r] \in Job
  BY DEF TypeOK, Idle, Steps
<1>2. reqs[r] \in [pc : Steps, arr : Arrivals, res : {"none"}]
  BY <1>1 DEF Job, Steps
<1>3. reqs'[r] \in [pc : {"done"}, arr : Arrivals, res : Results]
  BY <1>2 DEF Reply, TypeOK
<1> QED BY <1>1, <1>2, <1>3 DEF Reply, TypeOK, Job, Idle, Steps

\* What every step but an arrival leaves of the requests.
Moved ==
    /\ reqs' \in [Reqs -> {Idle} \cup Job]
    /\ \A q \in Reqs : /\ reqs'[q] = Idle <=> reqs[q] = Idle
                       /\ reqs[q] # Idle => reqs'[q].arr = reqs[q].arr
                       /\ (Saved(q) => Saved(q)') /\ (Submitted(q) => Submitted(q)')
                       /\ At(q, "done") => reqs'[q] = reqs[q]

\* Goto never takes a request back before its submit or its save.
LEMMA GotoMoves ==
    ASSUME TypeOK, NEW r \in Reqs, reqs[r].pc \in Steps \ {"audit"},
           NEW step \in Steps, Goto(r, step),
           reqs[r].pc \in {"wait", "save"} => step \in {"save", "audit"}
    PROVE  Moved
BY GotoEffect DEF Moved, Saved, Submitted, AtOneOf, At, Steps

\* Reply ends a request.
LEMMA ReplyMoves ==
    ASSUME TypeOK, NEW r \in Reqs, reqs[r].pc \in Steps, NEW res \in Results, Reply(r, res)
    PROVE  Moved
BY ReplyEffect DEF Moved, Saved, Submitted, AtOneOf, At, Steps

\* Each step of a handler moves its own request on.
LEMMA StepMoves ==
    ASSUME TypeOK, NEW r \in Reqs, Step(r)
    PROVE  Moved /\ reqs[r].pc \in Steps /\ reqs[r] # Idle
<1> USE DEF At, Steps, Results
<1>1. CASE requireActionPin(r)
  BY <1>1, GotoMoves, ReplyMoves, Active DEF requireActionPin
<1>2. CASE RefuseUpload(r)
  BY <1>2, ReplyMoves, Active DEF RefuseUpload
<1>3. CASE ReadDocument(r)
  BY <1>3, GotoMoves, ReplyMoves, Active DEF ReadDocument
<1>4. CASE ReadUser(r)
  BY <1>4, GotoMoves, ReplyMoves, Active DEF ReadUser
<1>5. CASE SubmitMock(r)
  BY <1>5, GotoMoves, Active DEF SubmitMock
<1>6. CASE SubmitLive(r)
  BY <1>6, GotoMoves, ReplyMoves, Active DEF SubmitLive, FailHandler
<1>7. CASE CommitEvent(r)
  BY <1>7, GotoMoves, ReplyMoves, Active DEF CommitEvent, FailHandler
<1>8. CASE SaveDocument(r)
  BY <1>8, GotoMoves, Active DEF SaveDocument
<1>9. CASE SaveUser(r)
  BY <1>9, GotoMoves, Active DEF SaveUser
<1>10. CASE WriteAudit(r)
  BY <1>10, ReplyMoves, Active DEF WriteAudit
<1> QED BY <1>1, <1>2, <1>3, <1>4, <1>5, <1>6, <1>7, <1>8, <1>9, <1>10 DEF Step

\* A failed call ends its request.
LEMMA FailMoves ==
    ASSUME TypeOK, NEW r \in Reqs, CallFails(r)
    PROVE  Moved /\ reqs[r].pc \in Steps /\ reqs[r] # Idle
BY ReplyMoves, Active DEF CallFails, InFlight, FailHandler, Steps, Results

\* A crash ends every request in flight and leaves the others alone.
LEMMA CrashMoves ==
    ASSUME TypeOK, Crash
    PROVE  Moved
<1>1. \A q \in Reqs : reqs[q] \in {Idle} \cup Job
  BY DEF TypeOK
<1>2. \A q \in Reqs : reqs[q].pc \in Steps => reqs[q] # Idle /\ reqs[q].arr \in Arrivals
  BY <1>1 DEF Idle, Job, Steps
<1>3. \A q \in Reqs : reqs'[q] = IF reqs[q].pc \in Steps
                                 THEN [pc |-> "done", arr |-> reqs[q].arr, res |-> "lost"]
                                 ELSE reqs[q]
  BY DEF Crash, InFlight
<1>4. reqs' \in [Reqs -> {Idle} \cup Job]
  <2>1. \A q \in Reqs : reqs'[q] \in {Idle} \cup Job
    <3> SUFFICES ASSUME NEW q \in Reqs PROVE reqs'[q] \in {Idle} \cup Job
      OBVIOUS
    <3>1. CASE reqs[q].pc \in Steps
      <4>1. reqs'[q] = [pc |-> "done", arr |-> reqs[q].arr, res |-> "lost"]
        BY <1>3, <3>1
      <4>2. reqs'[q] \in [pc : {"done"}, arr : Arrivals, res : Results]
        BY <1>2, <3>1, <4>1 DEF Results
      <4> QED BY <4>2 DEF Job
    <3>2. CASE reqs[q].pc \notin Steps
      BY <1>1, <1>3, <3>2
    <3> QED BY <3>1, <3>2
  <2> QED BY <2>1 DEF Crash
<1> QED BY <1>2, <1>3, <1>4 DEF Moved, Saved, Submitted, AtOneOf, At, Steps, Idle

\* Validation on the ledger moves no request.
LEMMA OrderMoves ==
    ASSUME TypeOK, NEW r \in Reqs, OrderAndValidate(r)
    PROVE  Moved
BY DEF OrderAndValidate, Moved, TypeOK, Saved, Submitted, AtOneOf, At

\* An arrival takes a free slot; all it changes besides is an uploaded file.
LEMMA ArriveEffect ==
    ASSUME TypeOK, NEW r \in Reqs, NEW a \in Arrivals, Arrive(r, a)
    PROVE  /\ reqs[r] = Idle /\ reqs'[r] # Idle
           /\ reqs'[r].arr = a /\ reqs'[r].pc \in {"pin", "read", "done"}
           /\ reqs'[r].pc = "done" => reqs'[r].res = "denied"
           /\ \A q \in Reqs \ {r} : reqs'[q] = reqs[q]
           /\ reqs' \in [Reqs -> {Idle} \cup Job]
           /\ files' \subseteq Docs /\ files \subseteq files'
           /\ UNCHANGED <<docs, cert, audit, chain, ltx>>
<1>1. PICK j : /\ j \in [pc : {"pin", "read"}, arr : {a}, res : {"none"}]
                        \cup [pc : {"done"}, arr : {a}, res : {"denied"}]
               /\ reqs' = [reqs EXCEPT ![r] = j]
  <2>1. CASE requireAuth(a) /\ RoleAllowed(a)
    BY <2>1 DEF Arrive
  <2>2. CASE ~(requireAuth(a) /\ RoleAllowed(a))
    BY <2>2 DEF Arrive
  <2> QED BY <2>1, <2>2
<1>2. j \in Job /\ j # Idle
  BY <1>1 DEF Job, Steps, Results, Idle
<1>3. reqs \in [Reqs -> {Idle} \cup Job] /\ files \subseteq Docs
  BY DEF TypeOK
<1>4. files' \subseteq Docs /\ files \subseteq files'
  <2>1. a.op = "upload" => a.tgt \in Docs
    BY BackendAssumption DEF Request, DocOps, CertOps
  <2> QED BY <1>3, <2>1 DEF Arrive
<1> QED BY <1>1, <1>2, <1>3, <1>4 DEF Arrive, mongo, ledger

\* SaveDocument writes the request's own document, as its operation says.
LEMMA SaveEffect ==
    ASSUME TypeOK, Loaded, NEW r \in Reqs, SaveDocument(r)
    PROVE  /\ reqs[r] # Idle /\ At(r, "save") /\ Op(r) \in DocOps /\ Tgt(r) \in Docs
           /\ \A q \in Reqs \ {r} : reqs'[q] = reqs[q]
           /\ reqs'[r].pc = "audit" /\ reqs'[r].arr = reqs[r].arr /\ reqs'[r] # Idle
           /\ docs' \in [Docs -> DocRecord \cup {Absent}] /\ docs'[Tgt(r)] \in DocRecord
           /\ \A d \in Docs \ {Tgt(r)} : docs'[d] = docs[d]
           /\ Op(r) = "upload" => docs'[Tgt(r)] = NewDocument
           /\ Op(r) \in {"sign", "reject"} => docs[Tgt(r)] \in DocRecord
           /\ Op(r) = "sign" => docs'[Tgt(r)] = Signed(docs[Tgt(r)], r)
           /\ Op(r) = "reject" => docs'[Tgt(r)] = Rejected(docs[Tgt(r)], r)
           /\ UNCHANGED <<cert, audit, files, chain, ltx>>
<1>1. reqs[r] # Idle /\ At(r, "save") /\ Op(r) \in {"upload", "sign", "reject"}
  BY Active DEF SaveDocument, At
<1>2. Tgt(r) \in Docs /\ User(r) \in Users
  BY <1>1, RequestTyped DEF DocOps
<1>3. /\ \A q \in Reqs \ {r} : reqs'[q] = reqs[q]
      /\ reqs'[r].pc = "audit" /\ reqs'[r].arr = reqs[r].arr /\ reqs'[r] # Idle
  BY GotoEffect DEF SaveDocument, At, Steps
<1>5. CASE Op(r) = "upload"
  <2>1. docs' = [docs EXCEPT ![Tgt(r)] = NewDocument]
    BY <1>5 DEF SaveDocument
  <2>2. NewDocument \in DocRecord
    BY DEF NewDocument, DocRecord
  <2> QED BY <1>1, <1>2, <1>3, <1>5, <2>1, <2>2 DEF SaveDocument, TypeOK, DocOps, ledger
<1>6. ASSUME Op(r) \in {"sign", "reject"} PROVE docs[Tgt(r)] \in DocRecord
  BY <1>1, <1>2, <1>6 DEF Loaded, IsDecision, AtOneOf, At, Stored, TypeOK
<1>7. CASE Op(r) = "sign"
  <2>1. docs' = [docs EXCEPT ![Tgt(r)] = Signed(docs[Tgt(r)], r)]
    BY <1>7 DEF SaveDocument
  <2>2. Signed(docs[Tgt(r)], r) \in DocRecord
    BY <1>2, <1>6, <1>7 DEF Signed, issueDocumentCredential, DocRecord
  <2> QED BY <1>1, <1>2, <1>3, <1>6, <1>7, <2>1, <2>2 DEF SaveDocument, TypeOK, DocOps, ledger
<1>8. CASE Op(r) = "reject"
  <2>1. docs' = [docs EXCEPT ![Tgt(r)] = Rejected(docs[Tgt(r)], r)]
    BY <1>8 DEF SaveDocument
  <2>2. Rejected(docs[Tgt(r)], r) \in DocRecord
    BY <1>2, <1>6, <1>8 DEF Rejected, DocRecord
  <2> QED BY <1>1, <1>2, <1>3, <1>6, <1>8, <2>1, <2>2 DEF SaveDocument, TypeOK, DocOps, ledger
<1> QED BY <1>1, <1>5, <1>7, <1>8

\* Type correctness of one step; only MongoDB's and the ledger's records need
\* more than the types.
LEMMA TypeStep == UInv /\ [Next]_vars => TypeOK'
<1> SUFFICES ASSUME UInv, [Next]_vars PROVE TypeOK'
  OBVIOUS
<1> USE DEF UInv
<1>0. TypeOK
  OBVIOUS
<1>1. ASSUME NEW r \in Reqs, Step(r) PROVE TypeOK'
  <2>1. Moved /\ reqs[r].pc \in Steps /\ reqs[r] # Idle
    BY <1>0, <1>1, StepMoves
  <2>2. /\ Op(r) \in DocOps => Tgt(r) \in Docs
        /\ Op(r) \in CertOps => Tgt(r) \in Users
        /\ Op(r) \in DocOps \cup CertOps /\ User(r) \in Users
    BY <1>0, <2>1, RequestTyped
  <2>3. files' \subseteq Docs
    BY <1>1 DEF Step, requireActionPin, RefuseUpload, ReadDocument, ReadUser, SubmitMock,
                SubmitLive, CommitEvent, SaveDocument, SaveUser, WriteAudit, FailHandler, TypeOK
  <2>4. docs' \in [Docs -> DocRecord \cup {Absent}]
    <3>1. CASE SaveDocument(r)
      BY <1>0, <3>1, SaveEffect
    <3>2. CASE docs' = docs
      BY <3>2 DEF TypeOK
    <3> QED BY <1>1, <3>1, <3>2 DEF Step, requireActionPin, RefuseUpload, ReadDocument, ReadUser,
                SubmitMock, SubmitLive, CommitEvent, SaveUser, WriteAudit, mongo
  <2>5. cert' \in [Users -> {"active", "revoked"}]
    <3>1. CASE SaveUser(r)
      BY <3>1, <2>2 DEF SaveUser, TypeOK
    <3>2. CASE cert' = cert
      BY <3>2 DEF TypeOK
    <3> QED BY <1>1, <3>1, <3>2 DEF Step, requireActionPin, RefuseUpload, ReadDocument, ReadUser,
                SubmitMock, SubmitLive, CommitEvent, SaveDocument, WriteAudit, mongo
  <2>6. audit' \subseteq AuditRecord
    <3>1. CASE WriteAudit(r)
      BY <3>1, <2>2 DEF WriteAudit, Entry, AuditRecord, TypeOK
    <3>2. CASE audit' = audit
      BY <3>2 DEF TypeOK
    <3> QED BY <1>1, <3>1, <3>2 DEF Step, requireActionPin, RefuseUpload, ReadDocument, ReadUser,
                SubmitMock, SubmitLive, CommitEvent, SaveDocument, SaveUser, mongo
  <2>7. chain' = chain /\ ltx' \in [Reqs -> {"none", "ordered", "valid", "invalid"}]
    BY <1>1 DEF Step, requireActionPin, RefuseUpload, ReadDocument, ReadUser, SubmitMock,
                SubmitLive, CommitEvent, SaveDocument, SaveUser, WriteAudit, TypeOK, mongo, ledger
  <2> QED BY <2>1, <2>3, <2>4, <2>5, <2>6, <2>7 DEF TypeOK, Moved
<1>2. ASSUME NEW r \in Reqs, NEW a \in Arrivals, Arrive(r, a) PROVE TypeOK'
  BY <1>0, <1>2, ArriveEffect DEF TypeOK
<1>3. ASSUME NEW r \in Reqs, CallFails(r) PROVE TypeOK'
  <2>1. Moved /\ reqs[r] # Idle
    BY <1>0, <1>3, FailMoves
  <2>2. Entry(r) \in AuditRecord
    BY <1>0, <2>1, RequestTyped DEF Entry, AuditRecord
  <2> QED BY <1>0, <1>3, <2>1, <2>2 DEF CallFails, FailHandler, TypeOK, Moved, ledger
<1>4. CASE Crash
  BY <1>0, <1>4, CrashMoves DEF Crash, TypeOK, Moved, mongo, ledger
<1>5. ASSUME NEW r \in Reqs, OrderAndValidate(r) PROVE TypeOK'
  <2>1. reqs[r] # Idle /\ Op(r) \in DocOps /\ Tgt(r) \in Docs
    BY <1>0, <1>5, RequestTyped DEF Ordered, OrderAndValidate
  <2>2. CASE ChaincodeAccepts(r)
    <3>1. PICK c \in ChainRecord : chain' = [chain EXCEPT ![Tgt(r)] = c]
      BY <1>5, <2>1, <2>2 DEF OrderAndValidate, ChainRecord, DocOps
    <3> QED BY <1>5, <2>1, <2>2, <3>1 DEF OrderAndValidate, TypeOK, mongo
  <2>3. CASE ~ChaincodeAccepts(r)
    BY <1>5, <2>3 DEF OrderAndValidate, TypeOK, mongo
  <2> QED BY <2>2, <2>3
<1>6. CASE UNCHANGED vars
  BY <1>6 DEF TypeOK, vars
<1> QED BY <1>1, <1>2, <1>3, <1>4, <1>5, <1>6 DEF Next

\* A step that moves the requests keeps what they ask for.
LEMMA MovedKeeps ==
    ASSUME Moved, NEW q \in Reqs
    PROVE  /\ IsUpload(q)' <=> IsUpload(q)
           /\ IsDecision(q)' <=> IsDecision(q)
           /\ reqs[q] # Idle => Tgt(q)' = Tgt(q) /\ Op(q)' = Op(q) /\ User(q)' = User(q)
BY DEF Moved, IsUpload, IsDecision, Tgt, Op, User

\* Every step but an arrival.
Work == \/ \E r \in Reqs : Step(r) \/ CallFails(r) \/ OrderAndValidate(r)
        \/ Crash

\* Every step but an arrival moves requests on.
LEMMA WorkMoves ==
    ASSUME TypeOK, Work
    PROVE  Moved
BY StepMoves, FailMoves, OrderMoves, CrashMoves DEF Work

\* Only SaveDocument writes documents.
LEMMA DocsWritten ==
    ASSUME Work
    PROVE  docs' = docs \/ \E r \in Reqs : SaveDocument(r)
BY DEF Work, Step, requireActionPin, RefuseUpload, ReadDocument, ReadUser, SubmitMock, SubmitLive,
       CommitEvent, SaveUser, WriteAudit, CallFails, OrderAndValidate, Crash, mongo

\* A stored document is never removed.
LEMMA DocsStay ==
    ASSUME UInv, Work, NEW d \in Docs, Stored(d)
    PROVE  Stored(d)'
<1>1. ASSUME NEW r \in Reqs, SaveDocument(r) PROVE Stored(d)'
  BY <1>1, SaveEffect, AbsentAssumption DEF UInv, Stored
<1> QED BY <1>1, DocsWritten DEF Stored

\* A new upload gets an id no earlier one has.
LEMMA FreshStep ==
    ASSUME UInv, Work \/ \E r \in Reqs, a \in Arrivals : Arrive(r, a)
    PROVE  Fresh'
<1>0. TypeOK /\ Fresh
  BY DEF UInv
<1>1. CASE Work
  BY <1>0, <1>1, WorkMoves, MovedKeeps DEF Fresh, IsUpload
<1>2. ASSUME NEW r \in Reqs, NEW a \in Arrivals, Arrive(r, a) PROVE Fresh'
  <2>1. /\ reqs'[r].arr = a /\ FreshTarget(a)
        /\ \A q \in Reqs \ {r} : reqs'[q] = reqs[q]
    BY <1>0, <1>2, ArriveEffect DEF Arrive
  <2>2. ASSUME NEW q \in Reqs \ {r}, IsUpload(q)', IsUpload(r)' PROVE Tgt(q)' # Tgt(r)'
    BY <2>1, <2>2 DEF FreshTarget, IsUpload, Op, Tgt
  <2>3. ASSUME NEW p \in Reqs \ {r}, NEW q \in Reqs \ {r},
               IsUpload(p)', IsUpload(q)', Tgt(p)' = Tgt(q)'
        PROVE  p = q
    BY <1>0, <2>1, <2>3 DEF Fresh, IsUpload, Op, Tgt
  <2> QED BY <2>2, <2>3 DEF Fresh
<1> QED BY <1>1, <1>2

\* Only an upload brings a document into MongoDB.
LEMMA UploadedStep ==
    ASSUME UInv, Work \/ \E r \in Reqs, a \in Arrivals : Arrive(r, a)
    PROVE  Uploaded'
<1>0. TypeOK /\ Loaded /\ Uploaded
  BY DEF UInv
<1>1. CASE Work
  <2> SUFFICES ASSUME NEW d \in Docs, Stored(d)'
               PROVE  \E r \in Reqs : IsUpload(r)' /\ Tgt(r)' = d /\ Saved(r)'
    BY DEF Uploaded
  <2>1. CASE Stored(d)
    <3>1. PICK r \in Reqs : IsUpload(r) /\ Tgt(r) = d /\ Saved(r)
      BY <1>0, <2>1 DEF Uploaded
    <3> QED BY <1>0, <1>1, <3>1, WorkMoves, MovedKeeps DEF Moved, IsUpload
  <2>2. CASE ~Stored(d)
    <3>1. PICK r \in Reqs : SaveDocument(r)
      BY <1>1, <2>2, DocsWritten DEF Stored
    <3>2. Tgt(r) = d
      BY <1>0, <2>2, <3>1, SaveEffect DEF Stored
    <3>3. IsUpload(r)
      <4>1. Op(r) \in {"sign", "reject"} => docs[Tgt(r)] \in DocRecord
        BY <1>0, <3>1, SaveEffect
      <4>2. Op(r) = "upload"
        BY <2>2, <3>1, <3>2, <4>1, AbsentAssumption DEF Stored, SaveDocument
      <4> QED BY <1>0, <3>1, <4>2, SaveEffect DEF IsUpload
    <3>4. Saved(r)' /\ reqs'[r].arr = reqs[r].arr /\ reqs'[r] # Idle
      BY <1>0, <3>1, SaveEffect DEF Saved, AtOneOf
    <3> QED BY <3>2, <3>3, <3>4 DEF IsUpload, Op, Tgt
  <2> QED BY <2>1, <2>2
<1>2. ASSUME NEW p \in Reqs, NEW a \in Arrivals, Arrive(p, a) PROVE Uploaded'
  <2> SUFFICES ASSUME NEW d \in Docs, Stored(d)'
               PROVE  \E r \in Reqs : IsUpload(r)' /\ Tgt(r)' = d /\ Saved(r)'
    BY DEF Uploaded
  <2>1. /\ docs' = docs /\ reqs[p] = Idle
        /\ \A q \in Reqs \ {p} : reqs'[q] = reqs[q]
    BY <1>0, <1>2, ArriveEffect
  <2>2. PICK r \in Reqs : IsUpload(r) /\ Tgt(r) = d /\ Saved(r)
    BY <1>0, <2>1 DEF Uploaded, Stored
  <2>3. reqs'[r] = reqs[r]
    BY <2>1, <2>2 DEF IsUpload
  <2> QED BY <2>2, <2>3 DEF IsUpload, Op, Tgt, Saved, AtOneOf
<1> QED BY <1>1, <1>2

\* A decision gets past its read only by finding the document.
LEMMA LoadedStep ==
    ASSUME UInv, Work \/ \E r \in Reqs, a \in Arrivals : Arrive(r, a)
    PROVE  Loaded'
<1>0. TypeOK /\ Loaded
  BY DEF UInv
<1> DEFINE Past(q) == AtOneOf(q, {"submit", "wait", "save", "audit"})
<1>1. CASE Work
  <2>0. Moved
    BY <1>0, <1>1, WorkMoves
  <2> SUFFICES ASSUME NEW q \in Reqs, IsDecision(q)', Past(q)' PROVE Stored(Tgt(q))'
    BY DEF Loaded
  <2>1. IsDecision(q) /\ Tgt(q)' = Tgt(q) /\ Tgt(q) \in Docs
    BY <1>0, <2>0, MovedKeeps, RequestTyped DEF IsDecision, DocOps
  <2>2. Past(q) \/ docs[Tgt(q)] # Absent
    <3>1. ASSUME NEW r \in Reqs, Step(r), ~Past(q) PROVE docs[Tgt(q)] # Absent
      <4>1. CASE requireActionPin(r)
        BY <1>0, <2>1, <3>1, <4>1, GotoEffect, ReplyEffect
           DEF requireActionPin, AtOneOf, At, Steps, Results, IsDecision
      <4>2. CASE RefuseUpload(r)
        BY <1>0, <2>1, <3>1, <4>2, ReplyEffect DEF RefuseUpload, AtOneOf, At, Steps, Results
      <4>3. CASE ReadDocument(r)
        BY <1>0, <2>1, <3>1, <4>3, GotoEffect, ReplyEffect
           DEF ReadDocument, AtOneOf, At, Steps, Results
      <4>4. CASE ReadUser(r)
        BY <1>0, <2>1, <3>1, <4>4, GotoEffect, ReplyEffect
           DEF ReadUser, AtOneOf, At, Steps, Results, IsDecision, CertOps
      <4>5. CASE SubmitMock(r) \/ SubmitLive(r)
        BY <1>0, <2>1, <3>1, <4>5, GotoEffect, ReplyEffect
           DEF SubmitMock, SubmitLive, FailHandler, AtOneOf, At, Steps, Results
      <4>6. CASE CommitEvent(r)
        BY <1>0, <2>1, <3>1, <4>6, GotoEffect, ReplyEffect
           DEF CommitEvent, FailHandler, AtOneOf, At, Steps, Results
      <4>7. CASE SaveDocument(r) \/ SaveUser(r)
        BY <1>0, <2>1, <3>1, <4>7, GotoEffect DEF SaveDocument, SaveUser, AtOneOf, At, Steps
      <4>8. CASE WriteAudit(r)
        BY <1>0, <2>1, <3>1, <4>8, ReplyEffect DEF WriteAudit, AtOneOf, At, Steps, Results
      <4> QED BY <3>1, <4>1, <4>2, <4>3, <4>4, <4>5, <4>6, <4>7, <4>8 DEF Step
    <3>2. ASSUME NEW r \in Reqs, CallFails(r) PROVE Past(q)
      BY <1>0, <3>2, ReplyEffect DEF CallFails, FailHandler, InFlight, AtOneOf, Steps, Results
    <3>3. ASSUME NEW r \in Reqs, OrderAndValidate(r) PROVE Past(q)
      BY <3>3 DEF OrderAndValidate, AtOneOf
    <3>4. CASE Crash
      BY <3>4 DEF Crash, AtOneOf, Steps, InFlight
    <3> QED BY <1>1, <3>1, <3>2, <3>3, <3>4 DEF Work
  <2>3. Stored(Tgt(q))
    BY <1>0, <2>1, <2>2 DEF Loaded, Stored
  <2> QED BY <1>1, <2>1, <2>3, DocsStay DEF Stored
<1>2. ASSUME NEW p \in Reqs, NEW a \in Arrivals, Arrive(p, a) PROVE Loaded'
  <2>1. /\ docs' = docs /\ reqs'[p].pc \in {"pin", "read", "done"}
        /\ \A q \in Reqs \ {p} : reqs'[q] = reqs[q]
    BY <1>0, <1>2, ArriveEffect
  <2> QED BY <1>0, <2>1 DEF Loaded, IsDecision, AtOneOf, Stored, Op, Tgt
<1> QED BY <1>1, <1>2

\* Only SubmitLive of a request about a document makes a transaction.
LEMMA OrderedStep ==
    ASSUME UInv, Work \/ \E r \in Reqs, a \in Arrivals : Arrive(r, a)
    PROVE  Ordered'
<1>0. TypeOK /\ Ordered
  BY DEF UInv
<1>1. CASE Work
  <2>0. Moved
    BY <1>0, <1>1, WorkMoves
  <2> SUFFICES ASSUME NEW q \in Reqs, ltx'[q] # "none"
               PROVE  reqs'[q] # Idle /\ Op(q)' \in DocOps /\ Submitted(q)'
    BY DEF Ordered
  <2>1. CASE ltx[q] # "none"
    BY <1>0, <2>0, <2>1, MovedKeeps DEF Ordered, Moved
  <2>2. CASE ltx[q] = "none"
    <3>1. SubmitLive(q) /\ ChaincodeAccepts(q)
      BY <1>0, <1>1, <2>2 DEF Work, Step, requireActionPin, RefuseUpload, ReadDocument, ReadUser,
         SubmitMock, SubmitLive, CommitEvent, SaveDocument, SaveUser, WriteAudit, CallFails,
         OrderAndValidate, Crash, ledger, TypeOK
    <3>2. reqs'[q].pc = "wait" /\ reqs'[q] # Idle /\ reqs[q] # Idle
      BY <1>0, <3>1, GotoEffect DEF SubmitLive, At, Steps
    <3>3. Op(q) \in DocOps
      BY <1>0, <3>1, <3>2, RequestTyped, BackendAssumption DEF ChaincodeAccepts, CertOps, DocOps
    <3> QED BY <2>0, <3>2, <3>3, MovedKeeps DEF Submitted, AtOneOf
  <2> QED BY <2>1, <2>2
<1>2. ASSUME NEW p \in Reqs, NEW a \in Arrivals, Arrive(p, a) PROVE Ordered'
  <2>1. /\ ltx' = ltx /\ reqs[p] = Idle
        /\ \A q \in Reqs \ {p} : reqs'[q] = reqs[q]
    BY <1>0, <1>2, ArriveEffect
  <2> QED BY <1>0, <2>1 DEF Ordered, Submitted, AtOneOf, Op
<1> QED BY <1>1, <1>2

\* UInv is inductive.
LEMMA UStep == UInv /\ [Next]_vars => UInv'
<1> SUFFICES ASSUME UInv, [Next]_vars PROVE UInv'
  OBVIOUS
<1>1. TypeOK'
  BY TypeStep
<1>2. CASE UNCHANGED vars
  BY <1>1, <1>2 DEF vars, UInv, Fresh, Uploaded, Loaded, Ordered, IsUpload, IsDecision, AtOneOf,
     Saved, Submitted, Stored, Op, Tgt
<1>3. CASE Next
  <2>1. Work \/ \E r \in Reqs, a \in Arrivals : Arrive(r, a)
    BY <1>3 DEF Next, Work
  <2> QED BY <1>1, <2>1, FreshStep, UploadedStep, LoadedStep, OrderedStep DEF UInv
<1> QED BY <1>2, <1>3

\* Nothing has happened yet.
LEMMA UInit == Init => UInv
BY BackendAssumption DEF Init, UInv, TypeOK, Fresh, Uploaded, Loaded, Ordered, IsUpload, IsDecision,
   Stored

\* The types of the API's state, in either mode.
THEOREM BackendTyped == Spec => []TypeOK
<1>1. UInv => TypeOK
  BY DEF UInv
<1> QED BY <1>1, UInit, UStep, PTL DEF Spec

----------------------------------------------------------------------------
(* Uploads and the audit log, in either mode.                              *)

\* A request that was told it succeeded.
Successful(r) == At(r, "done") /\ reqs[r].res = "ok"

InFiles == \A r \in Reqs : IsUpload(r) /\ (InFlight(r) \/ Successful(r)) => Tgt(r) \in files
InStore == \A r \in Reqs : IsUpload(r) /\ (At(r, "audit") \/ Successful(r)) => Stored(Tgt(r))
Logged == \A r \in Reqs : reqs[r] # Idle /\ Successful(r) => Entry(r) \in audit

KInv == UInv /\ InFiles /\ InStore /\ Logged

\* Success is only ever reached by WriteAudit.
LEMMA SuccessByAudit ==
    ASSUME TypeOK, Work, NEW q \in Reqs, Successful(q)'
    PROVE  Successful(q) \/ WriteAudit(q)
<1>1. ASSUME NEW r \in Reqs, Step(r), ~WriteAudit(r) PROVE Successful(q)
  <2> USE DEF Successful, At, Steps, Results
  <2>1. CASE requireActionPin(r)
    BY <1>1, <2>1, GotoEffect, ReplyEffect DEF requireActionPin
  <2>2. CASE RefuseUpload(r)
    BY <1>1, <2>2, ReplyEffect DEF RefuseUpload
  <2>3. CASE ReadDocument(r)
    BY <1>1, <2>3, GotoEffect, ReplyEffect DEF ReadDocument
  <2>4. CASE ReadUser(r)
    BY <1>1, <2>4, GotoEffect, ReplyEffect DEF ReadUser
  <2>5. CASE SubmitMock(r) \/ SubmitLive(r)
    BY <1>1, <2>5, GotoEffect, ReplyEffect DEF SubmitMock, SubmitLive, FailHandler
  <2>6. CASE CommitEvent(r)
    BY <1>1, <2>6, GotoEffect, ReplyEffect DEF CommitEvent, FailHandler
  <2>7. CASE SaveDocument(r) \/ SaveUser(r)
    BY <1>1, <2>7, GotoEffect DEF SaveDocument, SaveUser
  <2> QED BY <1>1, <2>1, <2>2, <2>3, <2>4, <2>5, <2>6, <2>7 DEF Step
<1>2. ASSUME NEW r \in Reqs, WriteAudit(r), r # q PROVE Successful(q)
  BY <1>2, ReplyEffect DEF WriteAudit, Successful, At, Steps, Results
<1>3. ASSUME NEW r \in Reqs, CallFails(r) PROVE Successful(q)
  BY <1>3, ReplyEffect DEF CallFails, FailHandler, InFlight, Successful, At, Steps, Results
<1>4. ASSUME NEW r \in Reqs, OrderAndValidate(r) PROVE Successful(q)
  BY <1>4 DEF OrderAndValidate, Successful, At
<1>5. CASE Crash
  BY <1>5 DEF Crash, Successful, At
<1> QED BY <1>1, <1>2, <1>3, <1>4, <1>5 DEF Work

\* The step into "audit" is a save.
LEMMA AuditBySave ==
    ASSUME TypeOK, Work, NEW q \in Reqs, At(q, "audit")'
    PROVE  At(q, "audit") \/ SaveDocument(q) \/ SaveUser(q)
<1>1. ASSUME NEW r \in Reqs, Step(r), ~SaveDocument(r), ~SaveUser(r) PROVE At(q, "audit")
  <2> USE DEF At, Steps, Results
  <2>1. CASE requireActionPin(r)
    BY <1>1, <2>1, GotoEffect, ReplyEffect DEF requireActionPin
  <2>2. CASE RefuseUpload(r)
    BY <1>1, <2>2, ReplyEffect DEF RefuseUpload
  <2>3. CASE ReadDocument(r)
    BY <1>1, <2>3, GotoEffect, ReplyEffect DEF ReadDocument
  <2>4. CASE ReadUser(r)
    BY <1>1, <2>4, GotoEffect, ReplyEffect DEF ReadUser
  <2>5. CASE SubmitMock(r) \/ SubmitLive(r)
    BY <1>1, <2>5, GotoEffect, ReplyEffect DEF SubmitMock, SubmitLive, FailHandler
  <2>6. CASE CommitEvent(r)
    BY <1>1, <2>6, GotoEffect, ReplyEffect DEF CommitEvent, FailHandler
  <2>7. CASE WriteAudit(r)
    BY <1>1, <2>7, ReplyEffect DEF WriteAudit
  <2> QED BY <1>1, <2>1, <2>2, <2>3, <2>4, <2>5, <2>6, <2>7 DEF Step
<1>2. ASSUME NEW r \in Reqs, SaveDocument(r) \/ SaveUser(r), r # q PROVE At(q, "audit")
  BY <1>2, GotoEffect DEF SaveDocument, SaveUser, At, Steps
<1>3. ASSUME NEW r \in Reqs, CallFails(r) PROVE At(q, "audit")
  BY <1>3, ReplyEffect DEF CallFails, FailHandler, InFlight, At, Steps, Results
<1>4. ASSUME NEW r \in Reqs, OrderAndValidate(r) PROVE At(q, "audit")
  BY <1>4 DEF OrderAndValidate, At
<1>5. CASE Crash
  BY <1>5 DEF Crash, At
<1> QED BY <1>1, <1>2, <1>3, <1>4, <1>5 DEF Work

\* Which file a step removes: that of an upload it ends without success.
LEMMA FilesRemoved ==
    ASSUME TypeOK, Work
    PROVE  \/ files' = files
           \/ \E r \in Reqs : /\ IsUpload(r) /\ reqs[r].pc \in Steps
                              /\ At(r, "done")' /\ ~Successful(r)'
                              /\ files' = files \ {Tgt(r)}
<1>1. ASSUME NEW r \in Reqs, reqs[r].pc \in Steps, FailHandler(r)
      PROVE  files' = files \/ (/\ IsUpload(r) /\ At(r, "done")' /\ ~Successful(r)'
                                /\ files' = files \ {Tgt(r)})
  BY <1>1, ReplyEffect DEF FailHandler, IsUpload, At, Successful, Results
<1>2. ASSUME NEW r \in Reqs, RefuseUpload(r)
      PROVE  /\ IsUpload(r) /\ reqs[r].pc \in Steps
             /\ At(r, "done")' /\ ~Successful(r)' /\ files' = files \ {Tgt(r)}
  BY <1>2, ReplyEffect DEF RefuseUpload, IsUpload, At, Successful, Steps, Results
<1>3. ASSUME NEW r \in Reqs, Step(r), ~RefuseUpload(r)
      PROVE  files' = files \/ (FailHandler(r) /\ reqs[r].pc \in Steps)
  BY <1>3 DEF Step, requireActionPin, ReadDocument, ReadUser, SubmitMock, SubmitLive, CommitEvent,
              SaveDocument, SaveUser, WriteAudit, At, Steps
<1>4. ASSUME NEW r \in Reqs, CallFails(r) PROVE FailHandler(r) /\ reqs[r].pc \in Steps
  BY <1>4 DEF CallFails, InFlight
<1>5. (\E r \in Reqs : OrderAndValidate(r)) \/ Crash => files' = files
  BY DEF OrderAndValidate, Crash
<1> QED BY <1>1, <1>2, <1>3, <1>4, <1>5 DEF Work

\* The audit log only grows.
LEMMA AuditGrows ==
    ASSUME Work
    PROVE  audit \subseteq audit'
BY DEF Work, Step, requireActionPin, RefuseUpload, ReadDocument, ReadUser, SubmitMock, SubmitLive,
       CommitEvent, SaveDocument, SaveUser, WriteAudit, CallFails, OrderAndValidate, Crash, mongo

\* Of an upload the file is there until it is answered, and after a success.
LEMMA InFilesStep ==
    ASSUME KInv, Work \/ \E r \in Reqs, a \in Arrivals : Arrive(r, a)
    PROVE  InFiles'
<1>0. TypeOK /\ Fresh /\ InFiles
  BY DEF KInv, UInv
<1>1. CASE Work
  <2>0. Moved
    BY <1>0, <1>1, WorkMoves
  <2> SUFFICES ASSUME NEW r \in Reqs, IsUpload(r)', InFlight(r)' \/ Successful(r)'
               PROVE  Tgt(r)' \in files'
    BY DEF InFiles
  <2>1. IsUpload(r) /\ Tgt(r)' = Tgt(r)
    BY <2>0, MovedKeeps DEF IsUpload
  <2>2. InFlight(r) \/ Successful(r)
    <3>1. CASE InFlight(r)'
      BY <1>0, <2>0, <2>1, <3>1 DEF Moved, TypeOK, Job, Steps, InFlight, IsUpload, At
    <3>2. CASE Successful(r)'
      BY <1>0, <1>1, <3>2, SuccessByAudit DEF WriteAudit, At, InFlight, Steps
    <3> QED BY <3>1, <3>2
  <2>3. Tgt(r) \in files
    BY <1>0, <2>1, <2>2 DEF InFiles
  <2>4. ASSUME NEW p \in Reqs, IsUpload(p), At(p, "done")', ~Successful(p)'
        PROVE  Tgt(p) # Tgt(r)
    BY <1>0, <2>1, <2>4 DEF Fresh, InFlight, At, Steps
  <2> QED BY <1>0, <1>1, <2>1, <2>3, <2>4, FilesRemoved
<1>2. ASSUME NEW p \in Reqs, NEW a \in Arrivals, Arrive(p, a) PROVE InFiles'
  <2>1. /\ reqs'[p].arr = a /\ files \subseteq files'
        /\ reqs'[p].pc = "done" => reqs'[p].res = "denied"
        /\ \A q \in Reqs \ {p} : reqs'[q] = reqs[q]
    BY <1>0, <1>2, ArriveEffect
  <2>2. ASSUME IsUpload(p)', InFlight(p)' \/ Successful(p)' PROVE Tgt(p)' \in files'
    <3>1. a.op = "upload" /\ Tgt(p)' = a.tgt
      BY <2>1, <2>2 DEF IsUpload, Op, Tgt
    <3>2. InFlight(p)'
      BY <2>1, <2>2 DEF Successful, At
    <3>3. requireAuth(a) /\ RoleAllowed(a)
      BY <1>0, <1>2, <3>2 DEF Arrive, InFlight, Steps, TypeOK
    <3> QED BY <1>2, <3>1, <3>3 DEF Arrive
  <2>3. ASSUME NEW q \in Reqs \ {p}, IsUpload(q)', InFlight(q)' \/ Successful(q)'
        PROVE  Tgt(q)' \in files'
    BY <1>0, <2>1, <2>3 DEF InFiles, IsUpload, InFlight, Successful, At, Op, Tgt
  <2> QED BY <2>2, <2>3 DEF InFiles
<1> QED BY <1>1, <1>2

\* Of an upload the document is there from its save on.
LEMMA InStoreStep ==
    ASSUME KInv, Work \/ \E r \in Reqs, a \in Arrivals : Arrive(r, a)
    PROVE  InStore'
<1>0. TypeOK /\ UInv /\ Loaded /\ InStore
  BY DEF KInv, UInv
<1>1. CASE Work
  <2>0. Moved
    BY <1>0, <1>1, WorkMoves
  <2> SUFFICES ASSUME NEW r \in Reqs, IsUpload(r)', At(r, "audit")' \/ Successful(r)'
               PROVE  Stored(Tgt(r))'
    BY DEF InStore
  <2>1. IsUpload(r) /\ Tgt(r)' = Tgt(r) /\ Tgt(r) \in Docs
    BY <1>0, <2>0, MovedKeeps, RequestTyped DEF IsUpload, DocOps
  <2>2. At(r, "audit") \/ Successful(r) \/ SaveDocument(r)
    <3>1. CASE At(r, "audit")'
      BY <1>0, <1>1, <2>1, <3>1, AuditBySave DEF SaveUser, IsUpload, CertOps
    <3>2. CASE Successful(r)'
      BY <1>0, <1>1, <3>2, SuccessByAudit DEF WriteAudit
    <3> QED BY <3>1, <3>2
  <2>3. CASE SaveDocument(r)
    BY <1>0, <2>1, <2>3, SaveEffect, AbsentAssumption DEF Stored
  <2>4. CASE At(r, "audit") \/ Successful(r)
    <3>1. Stored(Tgt(r))
      BY <1>0, <2>1, <2>4 DEF InStore
    <3> QED BY <1>0, <1>1, <2>1, <3>1, DocsStay DEF Stored
  <2> QED BY <2>2, <2>3, <2>4
<1>2. ASSUME NEW p \in Reqs, NEW a \in Arrivals, Arrive(p, a) PROVE InStore'
  <2>1. /\ docs' = docs
        /\ reqs'[p].pc \in {"pin", "read", "done"}
        /\ reqs'[p].pc = "done" => reqs'[p].res = "denied"
        /\ \A q \in Reqs \ {p} : reqs'[q] = reqs[q]
    BY <1>0, <1>2, ArriveEffect
  <2> QED BY <1>0, <2>1 DEF InStore, IsUpload, Successful, At, Stored, Op, Tgt
<1> QED BY <1>1, <1>2

\* A request answered with success has its entry.
LEMMA LoggedStep ==
    ASSUME KInv, Work \/ \E r \in Reqs, a \in Arrivals : Arrive(r, a)
    PROVE  Logged'
<1>0. TypeOK /\ Logged
  BY DEF KInv, UInv
<1>1. CASE Work
  <2>0. Moved
    BY <1>0, <1>1, WorkMoves
  <2> SUFFICES ASSUME NEW q \in Reqs, (reqs[q] # Idle)', Successful(q)' PROVE (Entry(q) \in audit)'
    BY DEF Logged
  <2>1. reqs[q] # Idle /\ Entry(q)' = Entry(q)
    BY <2>0 DEF Moved, Entry, Op, Tgt, User
  <2>2. CASE Successful(q)
    BY <1>0, <1>1, <2>1, <2>2, AuditGrows DEF Logged
  <2>3. CASE WriteAudit(q)
    BY <2>1, <2>3 DEF WriteAudit, Entry
  <2> QED BY <1>0, <1>1, <2>2, <2>3, SuccessByAudit
<1>2. ASSUME NEW p \in Reqs, NEW a \in Arrivals, Arrive(p, a) PROVE Logged'
  <2>1. /\ audit' = audit
        /\ reqs'[p].pc = "done" => reqs'[p].res = "denied"
        /\ \A q \in Reqs \ {p} : reqs'[q] = reqs[q]
    BY <1>0, <1>2, ArriveEffect
  <2> QED BY <1>0, <2>1 DEF Logged, Successful, At, Entry, Op, Tgt, User
<1> QED BY <1>1, <1>2

\* KInv is inductive.
LEMMA KStep == KInv /\ [Next]_vars => KInv'
<1> SUFFICES ASSUME KInv, [Next]_vars PROVE KInv'
  OBVIOUS
<1>1. UInv'
  BY UStep DEF KInv
<1>2. CASE UNCHANGED vars
  BY <1>1, <1>2 DEF vars, KInv, InFiles, InStore, Logged, IsUpload, Successful, InFlight,
     Entry, At, Stored, Op, Tgt, User
<1>3. CASE Next
  <2>1. Work \/ \E r \in Reqs, a \in Arrivals : Arrive(r, a)
    BY <1>3 DEF Next, Work
  <2> QED BY <1>1, <2>1, InFilesStep, InStoreStep, LoggedStep DEF KInv
<1> QED BY <1>2, <1>3

\* Nothing has happened yet.
LEMMA KInit == Init => KInv
<1>1. Init => UInv
  BY UInit
<1> QED BY <1>1 DEF Init, KInv, InFiles, InStore, Logged, Idle, InFlight, Steps, IsUpload

\* KInv is about every request; of those answered it keeps what they made.
LEMMA KImplies == KInv => UploadKept
<1> SUFFICES ASSUME KInv, NEW r \in Reqs, At(r, "done"), reqs[r].res = "ok", Op(r) = "upload"
             PROVE  Stored(Tgt(r)) /\ Tgt(r) \in files /\ Entry(r) \in audit
  BY DEF UploadKept
<1>1. IsUpload(r) /\ Successful(r)
  BY Active DEF KInv, UInv, At, IsUpload, Successful
<1> QED BY <1>1 DEF KInv, InFiles, InStore, Logged, IsUpload

\* No failure and no other request takes away what a successful upload left.
THEOREM UploadsKept == Spec => []UploadKept
<1> QED BY KInit, KStep, KImplies, PTL DEF Spec

----------------------------------------------------------------------------
(* Who decided a document or revoked a certificate, in either mode.        *)

\* A request past its save: it waits for its audit entry, or was answered.
AfterSave(r) == At(r, "audit") \/ (At(r, "done") /\ reqs[r].res \in {"ok", "error", "lost"})
SavedBy(r) == reqs[r] # Idle /\ AfterSave(r)

\* A decision MongoDB names was saved by the request it names.
Decided == \A d \in Docs, r \in Reqs : Stored(d) =>
    /\ docs[d].fabricTxIdSign = r => SavedBy(r) /\ Op(r) = "sign" /\ Tgt(r) = d
    /\ docs[d].fabricTxIdReject = r => SavedBy(r) /\ Op(r) = "reject" /\ Tgt(r) = d

\* The recorded signer is the user of the last decision.
Signer == \A d \in Docs : Stored(d) /\ docs[d].status # "pending" =>
    DecidedBy(d) \in Reqs /\ User(DecidedBy(d)) = docs[d].signedBy

Issued == \A d \in Docs : Stored(d) /\ docs[d].status = "signed" =>
    docs[d].credential = docs[d].signedBy

Revoked == \A u \in Users : cert[u] = "revoked" =>
    \E r \in Reqs : SavedBy(r) /\ Op(r) = "revoke" /\ Tgt(r) = u

DInv == KInv /\ Decided /\ Signer /\ Issued /\ Revoked

\* A request past its save stays past it, and asks for what it asked for.
LEMMA SavedByStays ==
    ASSUME TypeOK, Work \/ \E r \in Reqs, a \in Arrivals : Arrive(r, a), NEW q \in Reqs, SavedBy(q)
    PROVE  SavedBy(q)' /\ Op(q)' = Op(q) /\ Tgt(q)' = Tgt(q) /\ User(q)' = User(q)
<1>0. reqs[q] # Idle
  BY DEF SavedBy
<1>1. ASSUME NEW p \in Reqs, NEW a \in Arrivals, Arrive(p, a)
      PROVE  reqs'[q] = reqs[q]
  BY <1>0, <1>1, ArriveEffect
<1>2. CASE Work
  <2>1. Moved
    BY <1>2, WorkMoves
  <2>2. CASE At(q, "done")
    BY <2>1, <2>2 DEF Moved, SavedBy, AfterSave, At, Op, Tgt, User
  <2>3. CASE At(q, "audit")
    <3>1. ASSUME NEW r \in Reqs, Step(r) PROVE AfterSave(q)'
      <4> USE DEF At, Steps, Results, AfterSave
      <4>1. CASE requireActionPin(r)
        BY <2>3, <3>1, <4>1, GotoEffect, ReplyEffect DEF requireActionPin
      <4>2. CASE RefuseUpload(r)
        BY <2>3, <3>1, <4>2, ReplyEffect DEF RefuseUpload
      <4>3. CASE ReadDocument(r)
        BY <2>3, <3>1, <4>3, GotoEffect, ReplyEffect DEF ReadDocument
      <4>4. CASE ReadUser(r)
        BY <2>3, <3>1, <4>4, GotoEffect, ReplyEffect DEF ReadUser
      <4>5. CASE SubmitMock(r) \/ SubmitLive(r)
        BY <2>3, <3>1, <4>5, GotoEffect, ReplyEffect DEF SubmitMock, SubmitLive, FailHandler
      <4>6. CASE CommitEvent(r)
        BY <2>3, <3>1, <4>6, GotoEffect, ReplyEffect DEF CommitEvent, FailHandler
      <4>7. CASE SaveDocument(r) \/ SaveUser(r)
        BY <2>3, <3>1, <4>7, GotoEffect DEF SaveDocument, SaveUser
      <4>8. CASE WriteAudit(r)
        BY <2>3, <3>1, <4>8, ReplyEffect DEF WriteAudit
      <4> QED BY <3>1, <4>1, <4>2, <4>3, <4>4, <4>5, <4>6, <4>7, <4>8 DEF Step
    <3>2. ASSUME NEW r \in Reqs, CallFails(r) PROVE AfterSave(q)'
      BY <2>3, <3>2, ReplyEffect DEF CallFails, FailHandler, InFlight, At, Steps, Results, AfterSave
    <3>3. ASSUME NEW r \in Reqs, OrderAndValidate(r) PROVE AfterSave(q)'
      BY <2>3, <3>3 DEF OrderAndValidate, At, AfterSave
    <3>4. ASSUME Crash PROVE AfterSave(q)'
      <4>1. reqs'[q].pc = "done" /\ reqs'[q].res = "lost"
        BY <2>3, <3>4 DEF Crash, InFlight, At, Steps
      <4> QED BY <4>1 DEF AfterSave, At
    <3>5. AfterSave(q)'
      BY <1>2, <3>1, <3>2, <3>3, <3>4 DEF Work
    <3> QED BY <1>0, <2>1, <3>5 DEF Moved, SavedBy, At, Op, Tgt, User
  <2> QED BY <2>2, <2>3 DEF SavedBy, AfterSave, At
<1> QED BY <1>1, <1>2 DEF SavedBy, AfterSave, At, Op, Tgt, User

\* An upload saves a document that was not there.
LEMMA SavesNew ==
    ASSUME UInv, NEW r \in Reqs, SaveDocument(r), Op(r) = "upload"
    PROVE  ~Stored(Tgt(r))
<1>1. IsUpload(r) /\ Tgt(r) \in Docs /\ At(r, "save")
  BY SaveEffect DEF UInv, IsUpload
<1> SUFFICES ASSUME Stored(Tgt(r)) PROVE FALSE
  OBVIOUS
<1>2. PICK q \in Reqs : IsUpload(q) /\ Tgt(q) = Tgt(r) /\ Saved(q)
  BY <1>1 DEF UInv, Uploaded
<1> QED BY <1>1, <1>2 DEF UInv, Fresh, Saved, AtOneOf, At

\* What one step leaves of a stored document: either all of it, or it was
\* saved by an upload of a new one or by a decision.
LEMMA DocStep ==
    ASSUME UInv, Work \/ \E r \in Reqs, a \in Arrivals : Arrive(r, a), NEW d \in Docs
    PROVE  \/ docs'[d] = docs[d]
           \/ \E r \in Reqs :
                /\ SaveDocument(r) /\ Tgt(r) = d /\ SavedBy(r)' /\ User(r) \in Users
                /\ Op(r)' = Op(r) /\ Tgt(r)' = Tgt(r) /\ User(r)' = User(r)
                /\ \/ Op(r) = "upload" /\ ~Stored(d) /\ docs'[d] = NewDocument
                   \/ Op(r) = "sign" /\ docs[d] \in DocRecord /\ docs'[d] = Signed(docs[d], r)
                   \/ Op(r) = "reject" /\ docs[d] \in DocRecord /\ docs'[d] = Rejected(docs[d], r)
<1>0. TypeOK /\ Loaded
  BY DEF UInv
<1>1. ASSUME NEW p \in Reqs, NEW a \in Arrivals, Arrive(p, a) PROVE docs' = docs
  BY <1>0, <1>1, ArriveEffect
<1>2. ASSUME NEW r \in Reqs, SaveDocument(r), Tgt(r) # d PROVE docs'[d] = docs[d]
  BY <1>0, <1>2, SaveEffect
<1>3. ASSUME NEW r \in Reqs, SaveDocument(r), Tgt(r) = d
      PROVE  /\ SavedBy(r)' /\ User(r) \in Users
             /\ Op(r)' = Op(r) /\ Tgt(r)' = Tgt(r) /\ User(r)' = User(r)
             /\ \/ Op(r) = "upload" /\ ~Stored(d) /\ docs'[d] = NewDocument
                \/ Op(r) = "sign" /\ docs[d] \in DocRecord /\ docs'[d] = Signed(docs[d], r)
                \/ Op(r) = "reject" /\ docs[d] \in DocRecord /\ docs'[d] = Rejected(docs[d], r)
  <2>1. reqs'[r].pc = "audit" /\ reqs'[r].arr = reqs[r].arr /\ reqs'[r] # Idle /\ reqs[r] # Idle
    BY <1>0, <1>3, SaveEffect
  <2>2. /\ SavedBy(r)' /\ User(r) \in Users
        /\ Op(r)' = Op(r) /\ Tgt(r)' = Tgt(r) /\ User(r)' = User(r)
    BY <1>0, <2>1, RequestTyped DEF SavedBy, AfterSave, At, Op, Tgt, User
  <2>3. CASE Op(r) = "upload"
    BY <1>0, <1>3, <2>2, <2>3, SaveEffect, SavesNew
  <2>4. CASE Op(r) \in {"sign", "reject"}
    BY <1>0, <1>3, <2>2, <2>4, SaveEffect
  <2> QED BY <1>3, <2>3, <2>4 DEF SaveDocument
<1> QED BY <1>1, <1>2, <1>3, DocsWritten

\* A step that revokes a certificate is the save of a revocation.
LEMMA CertStep ==
    ASSUME TypeOK, Work \/ \E r \in Reqs, a \in Arrivals : Arrive(r, a), NEW u \in Users,
           cert'[u] = "revoked"
    PROVE  \/ cert[u] = "revoked"
           \/ \E r \in Reqs : SavedBy(r)' /\ Op(r)' = "revoke" /\ Tgt(r)' = u
<1>1. ASSUME NEW p \in Reqs, NEW a \in Arrivals, Arrive(p, a) PROVE cert' = cert
  BY <1>1, ArriveEffect
<1>2. ASSUME NEW r \in Reqs, SaveUser(r), cert[u] # "revoked"
      PROVE  SavedBy(r)' /\ Op(r)' = "revoke" /\ Tgt(r)' = u
  <2>1. reqs'[r].pc = "audit" /\ reqs'[r].arr = reqs[r].arr /\ reqs'[r] # Idle
    BY <1>2, GotoEffect DEF SaveUser, At, Steps
  <2>2. Op(r) = "revoke" /\ Tgt(r) = u
    BY <1>2 DEF SaveUser, TypeOK
  <2> QED BY <2>1, <2>2 DEF SavedBy, AfterSave, At, Op, Tgt
<1>3. ASSUME Work PROVE cert' = cert \/ \E r \in Reqs : SaveUser(r)
  BY <1>3 DEF Work, Step, requireActionPin, RefuseUpload, ReadDocument, ReadUser, SubmitMock,
     SubmitLive, CommitEvent, SaveDocument, WriteAudit, CallFails, OrderAndValidate, Crash, mongo
<1> QED BY <1>1, <1>2, <1>3

\* MongoDB names a request as a decision's only when that request saves it.
LEMMA DecidedStep ==
    ASSUME DInv, Work \/ \E r \in Reqs, a \in Arrivals : Arrive(r, a)
    PROVE  Decided'
<1>0. TypeOK /\ UInv /\ Decided /\ NoOne \notin Reqs
  BY BackendAssumption DEF DInv, KInv, UInv
<1> SUFFICES ASSUME NEW d \in Docs, NEW q \in Reqs, Stored(d)'
             PROVE  /\ docs'[d].fabricTxIdSign = q => (SavedBy(q) /\ Op(q) = "sign" /\ Tgt(q) = d)'
                    /\ docs'[d].fabricTxIdReject = q => (SavedBy(q) /\ Op(q) = "reject" /\ Tgt(q) = d)'
  BY DEF Decided
<1>1. ASSUME docs[d] # Absent
      PROVE  /\ docs[d].fabricTxIdSign = q => (SavedBy(q) /\ Op(q) = "sign" /\ Tgt(q) = d)'
             /\ docs[d].fabricTxIdReject = q => (SavedBy(q) /\ Op(q) = "reject" /\ Tgt(q) = d)'
  BY <1>0, <1>1, SavedByStays DEF Decided, Stored
<1>2. CASE docs'[d] = docs[d]
  BY <1>1, <1>2 DEF Stored
<1>3. ASSUME NEW r \in Reqs, SavedBy(r)', Tgt(r) = d,
             Op(r)' = Op(r) /\ Tgt(r)' = Tgt(r),
             Op(r) = "upload" /\ docs'[d] = NewDocument
      PROVE  docs'[d].fabricTxIdSign # q /\ docs'[d].fabricTxIdReject # q
  BY <1>0, <1>3 DEF NewDocument
<1>4. ASSUME NEW r \in Reqs, SavedBy(r)', Tgt(r) = d,
             Op(r)' = Op(r) /\ Tgt(r)' = Tgt(r),
             Op(r) = "sign" /\ docs[d] \in DocRecord /\ docs'[d] = Signed(docs[d], r)
      PROVE  /\ docs'[d].fabricTxIdSign = q => (SavedBy(q) /\ Op(q) = "sign" /\ Tgt(q) = d)'
             /\ docs'[d].fabricTxIdReject = q => (SavedBy(q) /\ Op(q) = "reject" /\ Tgt(q) = d)'
  <2>1. docs'[d].fabricTxIdSign = r /\ docs'[d].fabricTxIdReject = docs[d].fabricTxIdReject
    BY <1>4 DEF Signed, issueDocumentCredential, DocRecord
  <2> QED BY <1>1, <1>4, <2>1, AbsentAssumption
<1>5. ASSUME NEW r \in Reqs, SavedBy(r)', Tgt(r) = d,
             Op(r)' = Op(r) /\ Tgt(r)' = Tgt(r),
             Op(r) = "reject" /\ docs[d] \in DocRecord /\ docs'[d] = Rejected(docs[d], r)
      PROVE  /\ docs'[d].fabricTxIdSign = q => (SavedBy(q) /\ Op(q) = "sign" /\ Tgt(q) = d)'
             /\ docs'[d].fabricTxIdReject = q => (SavedBy(q) /\ Op(q) = "reject" /\ Tgt(q) = d)'
  <2>1. docs'[d].fabricTxIdReject = r /\ docs'[d].fabricTxIdSign = docs[d].fabricTxIdSign
    BY <1>5 DEF Rejected, DocRecord
  <2> QED BY <1>1, <1>5, <2>1, AbsentAssumption
<1> QED BY <1>0, <1>2, <1>3, <1>4, <1>5, DocStep

\* The signer is recorded together with the decision.
LEMMA SignerStep ==
    ASSUME DInv, Work \/ \E r \in Reqs, a \in Arrivals : Arrive(r, a)
    PROVE  Signer'
<1>0. TypeOK /\ UInv /\ Decided /\ Signer /\ NoOne \notin Reqs
  BY BackendAssumption DEF DInv, KInv, UInv
<1> SUFFICES ASSUME NEW d \in Docs, Stored(d)', docs'[d].status # "pending"
             PROVE  DecidedBy(d)' \in Reqs /\ (User(DecidedBy(d)) = docs[d].signedBy)'
  BY DEF Signer
<1>1. CASE docs'[d] = docs[d]
  <2>1. Stored(d) /\ docs[d].status # "pending"
    BY <1>1 DEF Stored
  <2>2. DecidedBy(d) \in Reqs /\ User(DecidedBy(d)) = docs[d].signedBy
    BY <1>0, <2>1 DEF Signer
  <2>3. SavedBy(DecidedBy(d))
    BY <1>0, <2>1, <2>2 DEF Decided, DecidedBy
  <2>4. DecidedBy(d)' = DecidedBy(d)
    BY <1>1 DEF DecidedBy
  <2>5. User(DecidedBy(d))' = User(DecidedBy(d))
    BY <1>0, <2>2, <2>3, <2>4, SavedByStays DEF User
  <2> QED BY <1>1, <2>2, <2>4, <2>5
<1>2. ASSUME NEW r \in Reqs, User(r)' = User(r),
             Op(r) = "sign" /\ docs[d] \in DocRecord /\ docs'[d] = Signed(docs[d], r)
      PROVE  DecidedBy(d)' \in Reqs /\ (User(DecidedBy(d)) = docs[d].signedBy)'
  <2>1. docs'[d].status = "signed" /\ docs'[d].fabricTxIdSign = r /\ docs'[d].signedBy = User(r)
    BY <1>2 DEF Signed, issueDocumentCredential, DocRecord
  <2>2. DecidedBy(d)' = r
    BY <2>1 DEF DecidedBy
  <2> QED BY <1>2, <2>1, <2>2 DEF User
<1>3. ASSUME NEW r \in Reqs, User(r)' = User(r),
             Op(r) = "reject" /\ docs[d] \in DocRecord /\ docs'[d] = Rejected(docs[d], r)
      PROVE  DecidedBy(d)' \in Reqs /\ (User(DecidedBy(d)) = docs[d].signedBy)'
  <2>1. docs'[d].status = "rejected" /\ docs'[d].fabricTxIdReject = r /\ docs'[d].signedBy = User(r)
    BY <1>3 DEF Rejected, DocRecord
  <2>2. DecidedBy(d)' = r
    BY <2>1 DEF DecidedBy
  <2> QED BY <1>3, <2>1, <2>2 DEF User
<1>4. docs'[d] # NewDocument
  BY DEF NewDocument
<1> QED BY <1>0, <1>1, <1>2, <1>3, <1>4, DocStep

\* The credential is issued together with the signature.
LEMMA IssuedStep ==
    ASSUME DInv, Work \/ \E r \in Reqs, a \in Arrivals : Arrive(r, a)
    PROVE  Issued'
<1>0. UInv /\ Issued
  BY DEF DInv, KInv
<1> SUFFICES ASSUME NEW d \in Docs, Stored(d)', docs'[d].status = "signed"
             PROVE  docs'[d].credential = docs'[d].signedBy
  BY DEF Issued
<1>1. CASE docs'[d] = docs[d]
  BY <1>0, <1>1 DEF Issued, Stored
<1>2. ASSUME NEW r \in Reqs, docs[d] \in DocRecord, docs'[d] = Signed(docs[d], r)
      PROVE  docs'[d].credential = docs'[d].signedBy
  BY <1>2 DEF Signed, issueDocumentCredential, DocRecord
<1>3. ASSUME NEW r \in Reqs, docs[d] \in DocRecord PROVE docs'[d] # Rejected(docs[d], r)
  BY <1>3 DEF Rejected, DocRecord
<1>4. docs'[d] # NewDocument
  BY DEF NewDocument
<1> QED BY <1>0, <1>1, <1>2, <1>3, <1>4, DocStep

\* A revoked certificate stays accounted for.
LEMMA RevokedStep ==
    ASSUME DInv, Work \/ \E r \in Reqs, a \in Arrivals : Arrive(r, a)
    PROVE  Revoked'
<1>0. TypeOK /\ Revoked
  BY DEF DInv, KInv, UInv
<1> SUFFICES ASSUME NEW u \in Users, cert'[u] = "revoked"
             PROVE  \E r \in Reqs : SavedBy(r)' /\ Op(r)' = "revoke" /\ Tgt(r)' = u
  BY DEF Revoked
<1>1. CASE cert[u] = "revoked"
  <2>1. PICK r \in Reqs : SavedBy(r) /\ Op(r) = "revoke" /\ Tgt(r) = u
    BY <1>0, <1>1 DEF Revoked
  <2> QED BY <1>0, <2>1, SavedByStays
<1> QED BY <1>0, <1>1, CertStep

\* DInv is inductive.
LEMMA DStep == DInv /\ [Next]_vars => DInv'
<1> SUFFICES ASSUME DInv, [Next]_vars PROVE DInv'
  OBVIOUS
<1>1. KInv'
  BY KStep DEF DInv
<1>2. CASE UNCHANGED vars
  BY <1>1, <1>2 DEF vars, DInv, Decided, Signer, Issued, Revoked, SavedBy, AfterSave, DecidedBy, At,
     Stored, Op, Tgt, User
<1>3. CASE Next
  <2>1. Work \/ \E r \in Reqs, a \in Arrivals : Arrive(r, a)
    BY <1>3 DEF Next, Work
  <2> QED BY <1>1, <2>1, DecidedStep, SignerStep, IssuedStep, RevokedStep DEF DInv
<1> QED BY <1>2, <1>3

\* Nothing has happened yet.
LEMMA DInit == Init => DInv
<1>1. Init => KInv
  BY KInit
<1> QED BY <1>1 DEF Init, DInv, Decided, Signer, Issued, Revoked, Stored

\* A request past its save that did not fail has its entry, once all is quiet.
LEMMA SavedExplains ==
    ASSUME DInv, Quiet, NEW r \in Reqs, SavedBy(r)
    PROVE  Failed(r) \/ Entry(r) \in audit
<1>1. At(r, "done") /\ reqs[r].res \in {"ok", "error", "lost"} /\ reqs[r] # Idle
  BY DEF SavedBy, AfterSave, Quiet, InFlight, At, Steps
<1> QED BY <1>1 DEF DInv, KInv, Logged, Successful, Failed

\* The two properties say of the last decision what DInv says of each.
LEMMA DImplies == DInv => SignedHasCredential /\ AuditExplains
<1> SUFFICES ASSUME DInv PROVE SignedHasCredential /\ AuditExplains
  OBVIOUS
<1>0. TypeOK /\ Decided /\ Signer /\ Issued /\ Revoked /\ NoOne \notin Users
  BY BackendAssumption DEF DInv, KInv, UInv
<1>1. ASSUME NEW d \in Docs, Stored(d), docs[d].status # "pending"
      PROVE  LET r == DecidedBy(d) IN
             /\ r \in Reqs /\ SavedBy(r) /\ User(r) = docs[d].signedBy /\ Tgt(r) = d
             /\ docs[d].signedBy \in Users
  <2>1. DecidedBy(d) \in Reqs /\ User(DecidedBy(d)) = docs[d].signedBy
    BY <1>0, <1>1 DEF Signer
  <2>2. SavedBy(DecidedBy(d)) /\ Tgt(DecidedBy(d)) = d
    BY <1>0, <1>1, <2>1 DEF Decided, DecidedBy
  <2> QED BY <1>0, <2>1, <2>2, RequestTyped DEF SavedBy
<1>2. SignedHasCredential
  BY <1>0, <1>1 DEF SignedHasCredential, Issued, DecidedBy
<1>3. ASSUME Quiet, NEW d \in Docs, Stored(d), docs[d].status # "pending"
      PROVE  LET r == DecidedBy(d) IN
             Failed(r) \/ [req |-> r, op |-> Op(r), tgt |-> d, user |-> docs[d].signedBy] \in audit
  BY <1>1, <1>3, SavedExplains DEF Entry
<1>4. ASSUME Quiet, NEW u \in Users, cert[u] = "revoked"
      PROVE  \E r \in Reqs : /\ reqs[r] # Idle /\ Op(r) = "revoke" /\ Tgt(r) = u
                             /\ \/ Failed(r)
                                \/ \E e \in audit : e.req = r /\ e.tgt = u /\ e.op = "revoke"
  <2>1. PICK r \in Reqs : SavedBy(r) /\ Op(r) = "revoke" /\ Tgt(r) = u
    BY <1>0, <1>4 DEF Revoked
  <2>2. Failed(r) \/ Entry(r) \in audit
    BY <1>4, <2>1, SavedExplains
  <2>3. Entry(r).req = r /\ Entry(r).tgt = u /\ Entry(r).op = "revoke"
    BY <2>1 DEF Entry
  <2> QED BY <2>1, <2>2, <2>3 DEF SavedBy
<1>5. AuditExplains
  BY <1>3, <1>4 DEF AuditExplains
<1> QED BY <1>2, <1>5

\* The credential of a signed document is its recorded signer's, in either
\* mode: a racing rejection leaves no half of a signature behind.
THEOREM CredentialKept == Spec => []SignedHasCredential
<1> QED BY DInit, DStep, DImplies, PTL DEF Spec

\* Every decision and every revocation shown is accounted for, in either mode.
THEOREM AuditComplete == Spec => []AuditExplains
<1> QED BY DInit, DStep, DImplies, PTL DEF Spec

\* A step that changes a handled document is a decision, never a new upload.
LEMMA ReopenStep == UInv /\ [Next]_vars =>
    [\A d \in Docs : Stored(d) /\ docs[d].status # "pending" => docs'[d].status # "pending"]_docs
<1> SUFFICES ASSUME UInv, Next, NEW d \in Docs, Stored(d), docs[d].status # "pending"
             PROVE  docs'[d].status # "pending"
  BY DEF vars
<1>1. Work \/ \E r \in Reqs, a \in Arrivals : Arrive(r, a)
  BY DEF Next, Work
<1>2. ASSUME NEW r \in Reqs, docs[d] \in DocRecord,
             docs'[d] = Signed(docs[d], r) \/ docs'[d] = Rejected(docs[d], r)
      PROVE  docs'[d].status # "pending"
  BY <1>2 DEF Signed, issueDocumentCredential, Rejected, DocRecord
<1> QED BY <1>1, <1>2, DocStep

\* Spec => NeverReopened: in either mode no step takes a document the users
\* saw as signed or rejected back to pending.
THEOREM HandledStays == Spec => NeverReopened
<1> QED BY UInit, UStep, ReopenStep, PTL DEF Spec, NeverReopened

----------------------------------------------------------------------------
(* The ledger leads: what needs FABRIC_MOCK = false.                       *)

\* A request about a document goes on to its save only when its transaction
\* is valid.
Waited == \A r \in Reqs :
    /\ reqs[r] # Idle /\ Op(r) \in DocOps
    /\ At(r, "save") \/ At(r, "audit") \/ Successful(r)
    => ltx[r] = "valid"

\* What a valid transaction has left on the ledger.
Recorded == \A r \in Reqs : ltx[r] = "valid" =>
    /\ chain[Tgt(r)] # Absent
    /\ Op(r) = "sign" => chain[Tgt(r)] = [status |-> "approved", txId |-> r]
    /\ Op(r) = "reject" => chain[Tgt(r)] = [status |-> "rejected", txId |-> r]

\* A decision that was saved is the one MongoDB shows.
Shown == \A r \in Reqs : IsDecision(r) /\ (At(r, "audit") \/ Successful(r)) =>
    /\ Stored(Tgt(r))
    /\ Op(r) = "sign" => docs[Tgt(r)].status = "signed" /\ docs[Tgt(r)].fabricTxIdSign = r
    /\ Op(r) = "reject" => docs[Tgt(r)].status = "rejected" /\ docs[Tgt(r)].fabricTxIdReject = r

LInv == Live /\ DInv /\ Waited /\ Recorded /\ LedgerLeads /\ CredentialMatches /\ Shown

\* What validation writes: a new document, or the decision of a pending one.
LEMMA OrderEffect ==
    ASSUME UInv, NEW r \in Reqs, OrderAndValidate(r), ChaincodeAccepts(r)
    PROVE  /\ reqs[r] # Idle /\ Op(r) \in DocOps /\ Tgt(r) \in Docs
           /\ reqs' = reqs /\ docs' = docs /\ ltx[r] = "ordered"
           /\ \A d \in Docs \ {Tgt(r)} : chain'[d] = chain[d]
           /\ chain'[Tgt(r)] \in ChainRecord
           /\ \/ Op(r) = "upload" /\ chain[Tgt(r)] = Absent
              \/ /\ Op(r) = "sign" /\ chain[Tgt(r)].status = "pending"
                 /\ chain'[Tgt(r)] = [status |-> "approved", txId |-> r]
              \/ /\ Op(r) = "reject" /\ chain[Tgt(r)].status = "pending"
                 /\ chain'[Tgt(r)] = [status |-> "rejected", txId |-> r]
<1>1. reqs[r] # Idle /\ Op(r) \in DocOps /\ Tgt(r) \in Docs /\ ltx[r] = "ordered"
  BY RequestTyped DEF UInv, Ordered, OrderAndValidate
<1>2. PICK c \in ChainRecord :
        /\ chain' = [chain EXCEPT ![Tgt(r)] = c]
        /\ Op(r) = "sign" => c = [status |-> "approved", txId |-> r]
        /\ Op(r) = "reject" => c = [status |-> "rejected", txId |-> r]
  BY <1>1 DEF OrderAndValidate, ChainRecord, DocOps
<1>3. chain \in [Docs -> ChainRecord \cup {Absent}]
  BY DEF UInv, TypeOK
<1>4. /\ \A d \in Docs \ {Tgt(r)} : chain'[d] = chain[d]
      /\ chain'[Tgt(r)] = c
  BY <1>1, <1>2, <1>3
<1>5. reqs' = reqs /\ docs' = docs
  BY DEF OrderAndValidate, mongo
<1> QED BY <1>1, <1>2, <1>4, <1>5 DEF ChaincodeAccepts, DocOps, CertOps

\* Only the validation of an accepted transaction writes the ledger.
LEMMA ChainWritten ==
    ASSUME Work \/ \E r \in Reqs, a \in Arrivals : Arrive(r, a)
    PROVE  chain' = chain \/ \E r \in Reqs : OrderAndValidate(r) /\ ChaincodeAccepts(r)
BY DEF Work, Step, requireActionPin, RefuseUpload, ReadDocument, ReadUser, SubmitMock, SubmitLive,
       CommitEvent, SaveDocument, SaveUser, WriteAudit, CallFails, OrderAndValidate, Crash, Arrive,
       ledger

\* A document stays on the ledger, and a decided one as it is.
LEMMA ChainKept ==
    ASSUME UInv, Work \/ \E r \in Reqs, a \in Arrivals : Arrive(r, a), NEW d \in Docs,
           chain[d] # Absent
    PROVE  chain'[d] # Absent /\ (chain[d].status # "pending" => chain'[d] = chain[d])
<1>1. ASSUME NEW r \in Reqs, OrderAndValidate(r), ChaincodeAccepts(r)
      PROVE  chain'[d] # Absent /\ (chain[d].status # "pending" => chain'[d] = chain[d])
  <2>1. CASE Tgt(r) = d
    BY <1>1, <2>1, OrderEffect, AbsentAssumption
  <2>2. CASE Tgt(r) # d
    <3>1. d \in Docs \ {Tgt(r)}
      BY <2>2
    <3>2. chain'[d] = chain[d]
      BY <1>1, <3>1, OrderEffect
    <3> QED BY <3>2
  <2> QED BY <2>1, <2>2
<1> QED BY <1>1, ChainWritten

\* A valid transaction stays valid, and becomes so by being accepted.
LEMMA ValidStays ==
    ASSUME UInv, Work \/ \E r \in Reqs, a \in Arrivals : Arrive(r, a), NEW q \in Reqs
    PROVE  /\ ltx[q] = "valid" => ltx'[q] = "valid"
           /\ ltx'[q] = "valid" => \/ ltx[q] = "valid"
                                   \/ OrderAndValidate(q) /\ ChaincodeAccepts(q)
<1>0. ltx \in [Reqs -> {"none", "ordered", "valid", "invalid"}] /\ Ordered
  BY DEF UInv, TypeOK
<1>1. ASSUME NEW p \in Reqs, NEW a \in Arrivals, Arrive(p, a) PROVE ltx' = ltx
  BY <1>1 DEF Arrive, ledger
<1>2. ASSUME NEW r \in Reqs, SubmitLive(r)
      PROVE  ltx' = ltx \/ (ltx[r] = "none" /\ ltx' = [ltx EXCEPT ![r] = "ordered"])
  BY <1>0, <1>2 DEF SubmitLive, Ordered, Submitted, AtOneOf, At
<1>3. ASSUME NEW r \in Reqs, OrderAndValidate(r)
      PROVE  /\ ltx[r] = "ordered"
             /\ \/ ChaincodeAccepts(r) /\ ltx' = [ltx EXCEPT ![r] = "valid"]
                \/ ltx' = [ltx EXCEPT ![r] = "invalid"]
  BY <1>3 DEF OrderAndValidate
<1>4. ASSUME Work
      PROVE  ltx' = ltx \/ \E r \in Reqs : SubmitLive(r) \/ OrderAndValidate(r)
  BY <1>4 DEF Work, Step, requireActionPin, RefuseUpload, ReadDocument, ReadUser, SubmitMock,
     CommitEvent, SaveDocument, SaveUser, WriteAudit, CallFails, Crash, ledger
<1>5. CASE ltx' = ltx
  BY <1>5
<1>6. ASSUME NEW r \in Reqs, SubmitLive(r), ltx' # ltx
      PROVE  /\ ltx[q] = "valid" => ltx'[q] = "valid"
             /\ ltx'[q] = "valid" => ltx[q] = "valid"
  BY <1>0, <1>2, <1>6
<1>7. ASSUME NEW r \in Reqs, OrderAndValidate(r)
      PROVE  /\ ltx[q] = "valid" => ltx'[q] = "valid"
             /\ ltx'[q] = "valid" => \/ ltx[q] = "valid"
                                     \/ OrderAndValidate(q) /\ ChaincodeAccepts(q)
  BY <1>0, <1>3, <1>7
<1> QED BY <1>1, <1>4, <1>5, <1>6, <1>7

\* The step into "save" is made by the commit event of a valid transaction.
LEMMA SaveByCommit ==
    ASSUME Live, TypeOK, Work, NEW q \in Reqs, At(q, "save")'
    PROVE  At(q, "save") \/ ltx[q] = "valid" \/ (reqs[q] # Idle /\ Op(q) = "reactivate")
<1> DEFINE P == At(q, "save") \/ ltx[q] = "valid" \/ (reqs[q] # Idle /\ Op(q) = "reactivate")
<1>1. ASSUME NEW r \in Reqs, Step(r) PROVE P
  <2> USE DEF At, Steps, Results
  <2>1. CASE requireActionPin(r)
    BY <1>1, <2>1, GotoEffect, ReplyEffect DEF requireActionPin
  <2>2. CASE RefuseUpload(r)
    BY <1>1, <2>2, ReplyEffect DEF RefuseUpload
  <2>3. CASE ReadDocument(r)
    BY <1>1, <2>3, GotoEffect, ReplyEffect DEF ReadDocument
  <2>4. CASE ReadUser(r)
    BY <1>1, <2>4, GotoEffect, ReplyEffect DEF ReadUser
  <2>5. CASE SubmitMock(r)
    BY <1>1, <2>5, GotoEffect DEF SubmitMock
  <2>6. CASE SubmitLive(r)
    BY <1>1, <2>6, GotoEffect, ReplyEffect DEF SubmitLive, FailHandler
  <2>7. CASE CommitEvent(r)
    BY <1>1, <2>7, GotoEffect, ReplyEffect DEF CommitEvent, FailHandler
  <2>8. CASE SaveDocument(r) \/ SaveUser(r)
    BY <1>1, <2>8, GotoEffect DEF SaveDocument, SaveUser
  <2>9. CASE WriteAudit(r)
    BY <1>1, <2>9, ReplyEffect DEF WriteAudit
  <2> QED BY <1>1, <2>1, <2>2, <2>3, <2>4, <2>5, <2>6, <2>7, <2>8, <2>9 DEF Step
<1>3. ASSUME NEW r \in Reqs, CallFails(r) PROVE P
  BY <1>3, ReplyEffect DEF CallFails, FailHandler, InFlight, At, Steps, Results
<1>4. ASSUME NEW r \in Reqs, OrderAndValidate(r) PROVE P
  BY <1>4 DEF OrderAndValidate, At
<1>5. CASE Crash
  BY <1>5 DEF Crash, At
<1> QED BY <1>1, <1>3, <1>4, <1>5 DEF Work

\* With a live ledger only the commit event of a valid transaction leads to the
\* save.
LEMMA WaitedStep ==
    ASSUME LInv, Work \/ \E r \in Reqs, a \in Arrivals : Arrive(r, a)
    PROVE  Waited'
<1>0. Live /\ UInv /\ TypeOK /\ Waited
  BY DEF LInv, DInv, KInv, UInv
<1>1. CASE Work
  <2>0. Moved
    BY <1>0, <1>1, WorkMoves
  <2> SUFFICES ASSUME NEW q \in Reqs, (reqs[q] # Idle /\ Op(q) \in DocOps)',
                      (At(q, "save") \/ At(q, "audit") \/ Successful(q))'
               PROVE  ltx'[q] = "valid"
    BY DEF Waited
  <2>1. reqs[q] # Idle /\ Op(q) \in DocOps
    BY <2>0 DEF Moved, Op
  <2>2. At(q, "save") \/ At(q, "audit") \/ Successful(q) \/ ltx[q] = "valid"
    <3>1. CASE At(q, "save")'
      BY <1>0, <1>1, <2>1, <3>1, SaveByCommit DEF DocOps
    <3>2. CASE At(q, "audit")'
      BY <1>0, <1>1, <3>2, AuditBySave DEF SaveDocument, SaveUser
    <3>3. CASE Successful(q)'
      BY <1>0, <1>1, <3>3, SuccessByAudit DEF WriteAudit
    <3> QED BY <3>1, <3>2, <3>3
  <2>3. ltx[q] = "valid"
    BY <1>0, <2>1, <2>2 DEF Waited
  <2> QED BY <1>0, <1>1, <2>3, ValidStays
<1>2. ASSUME NEW p \in Reqs, NEW a \in Arrivals, Arrive(p, a) PROVE Waited'
  <2>1. /\ ltx' = ltx
        /\ reqs'[p].pc \in {"pin", "read", "done"}
        /\ reqs'[p].pc = "done" => reqs'[p].res = "denied"
        /\ \A q \in Reqs \ {p} : reqs'[q] = reqs[q]
    BY <1>0, <1>2, ArriveEffect
  <2> QED BY <1>0, <2>1 DEF Waited, Successful, At, Op
<1> QED BY <1>1, <1>2

\* A request with a valid transaction asks for what it asked for.
LEMMA ValidKeeps ==
    ASSUME UInv, Work \/ \E r \in Reqs, a \in Arrivals : Arrive(r, a), NEW q \in Reqs,
           ltx[q] \in {"ordered", "valid"}
    PROVE  /\ reqs[q] # Idle /\ Tgt(q) \in Docs
           /\ Op(q)' = Op(q) /\ Tgt(q)' = Tgt(q)
<1>0. TypeOK
  BY DEF UInv
<1>1. reqs[q] # Idle /\ Tgt(q) \in Docs
  BY <1>0, RequestTyped DEF UInv, Ordered
<1>2. ASSUME NEW p \in Reqs, NEW a \in Arrivals, Arrive(p, a) PROVE reqs'[q] = reqs[q]
  BY <1>0, <1>1, <1>2, ArriveEffect
<1>3. CASE Work
  BY <1>0, <1>1, <1>3, WorkMoves, MovedKeeps
<1> QED BY <1>1, <1>2, <1>3 DEF Op, Tgt

\* The ledger keeps what a valid transaction wrote.
LEMMA RecordedStep ==
    ASSUME LInv, Work \/ \E r \in Reqs, a \in Arrivals : Arrive(r, a)
    PROVE  Recorded'
<1>0. UInv /\ Recorded
  BY DEF LInv, DInv, KInv
<1> SUFFICES ASSUME NEW q \in Reqs, ltx'[q] = "valid"
             PROVE  (/\ chain[Tgt(q)] # Absent
                     /\ Op(q) = "sign" => chain[Tgt(q)] = [status |-> "approved", txId |-> q]
                     /\ Op(q) = "reject" => chain[Tgt(q)] = [status |-> "rejected", txId |-> q])'
  BY DEF Recorded
<1>1. CASE ltx[q] = "valid"
  <2>1. Tgt(q) \in Docs /\ Op(q)' = Op(q) /\ Tgt(q)' = Tgt(q)
    BY <1>0, <1>1, ValidKeeps
  <2>2. /\ chain[Tgt(q)] # Absent
        /\ Op(q) = "sign" => chain[Tgt(q)] = [status |-> "approved", txId |-> q]
        /\ Op(q) = "reject" => chain[Tgt(q)] = [status |-> "rejected", txId |-> q]
    BY <1>0, <1>1 DEF Recorded
  <2>3. /\ chain'[Tgt(q)] # Absent
        /\ chain[Tgt(q)].status # "pending" => chain'[Tgt(q)] = chain[Tgt(q)]
    BY <1>0, <2>1, <2>2, ChainKept
  <2> QED BY <2>1, <2>2, <2>3
<1>2. CASE OrderAndValidate(q) /\ ChaincodeAccepts(q)
  <2>1. /\ reqs' = reqs /\ chain'[Tgt(q)] \in ChainRecord
        /\ Op(q) = "sign" => chain'[Tgt(q)] = [status |-> "approved", txId |-> q]
        /\ Op(q) = "reject" => chain'[Tgt(q)] = [status |-> "rejected", txId |-> q]
    BY <1>0, <1>2, OrderEffect
  <2> QED BY <2>1, AbsentAssumption DEF Op, Tgt
<1> QED BY <1>0, <1>1, <1>2, ValidStays

\* With the ledger, a decision is saved over a pending document only, and the
\* ledger has it already.
LEMMA SavesPending ==
    ASSUME LInv, NEW r \in Reqs, SaveDocument(r), Op(r) \in {"sign", "reject"}
    PROVE  /\ docs[Tgt(r)].status = "pending"
           /\ Op(r) = "sign" => chain[Tgt(r)] = [status |-> "approved", txId |-> r]
           /\ Op(r) = "reject" => chain[Tgt(r)] = [status |-> "rejected", txId |-> r]
<1>0. /\ TypeOK /\ UInv /\ Loaded /\ Waited /\ Recorded /\ LedgerLeads /\ Decided
      /\ Absent \notin DocRecord
  BY AbsentAssumption DEF LInv, DInv, KInv, UInv
<1>1. reqs[r] # Idle /\ At(r, "save") /\ Op(r) \in DocOps /\ Tgt(r) \in Docs /\ docs[Tgt(r)] \in DocRecord
  BY <1>0, SaveEffect
<1>2. ltx[r] = "valid"
  BY <1>0, <1>1 DEF Waited
<1>3. /\ Op(r) = "sign" => chain[Tgt(r)] = [status |-> "approved", txId |-> r]
      /\ Op(r) = "reject" => chain[Tgt(r)] = [status |-> "rejected", txId |-> r]
  BY <1>0, <1>2 DEF Recorded
<1>4. chain[Tgt(r)].txId = r
  BY <1>3
<1>5. ~SavedBy(r)
  BY <1>1 DEF SavedBy, AfterSave, At
<1>6. Stored(Tgt(r)) /\ docs[Tgt(r)].status \in {"pending", "signed", "rejected"}
  BY <1>0, <1>1 DEF Stored, DocRecord
<1>7. docs[Tgt(r)].fabricTxIdSign # r /\ docs[Tgt(r)].fabricTxIdReject # r
  BY <1>0, <1>1, <1>5, <1>6 DEF Decided
<1>8. /\ docs[Tgt(r)].status = "signed" => chain[Tgt(r)].txId = docs[Tgt(r)].fabricTxIdSign
      /\ docs[Tgt(r)].status = "rejected" => chain[Tgt(r)].txId = docs[Tgt(r)].fabricTxIdReject
  <2>1. /\ docs[Tgt(r)].status = "signed" =>
             chain[Tgt(r)] = [status |-> "approved", txId |-> docs[Tgt(r)].fabricTxIdSign]
        /\ docs[Tgt(r)].status = "rejected" =>
             chain[Tgt(r)] = [status |-> "rejected", txId |-> docs[Tgt(r)].fabricTxIdReject]
    BY <1>0, <1>1, <1>6 DEF LedgerLeads
  <2> QED BY <2>1
<1> QED BY <1>3, <1>4, <1>6, <1>7, <1>8

\* What one step leaves of a stored document, with the ledger: a decided one
\* is left alone.
LEMMA LiveDocStep ==
    ASSUME LInv, Work \/ \E r \in Reqs, a \in Arrivals : Arrive(r, a), NEW d \in Docs
    PROVE  \/ docs'[d] = docs[d]
           \/ ~Stored(d) /\ docs'[d] = NewDocument /\ chain[d] # Absent
           \/ \E r \in Reqs :
                /\ docs[d] \in DocRecord /\ docs[d].status = "pending" /\ User(r) \in Users
                /\ \/ /\ Op(r) = "sign" /\ docs'[d] = Signed(docs[d], r)
                      /\ chain[d] = [status |-> "approved", txId |-> r]
                   \/ /\ Op(r) = "reject" /\ docs'[d] = Rejected(docs[d], r)
                      /\ chain[d] = [status |-> "rejected", txId |-> r]
<1>0. UInv /\ Waited /\ Recorded /\ TypeOK /\ Loaded
  BY DEF LInv, DInv, KInv, UInv
<1>1. ASSUME NEW r \in Reqs, SaveDocument(r), Tgt(r) = d PROVE chain[d] # Absent
  <2>1. reqs[r] # Idle /\ Op(r) \in DocOps /\ At(r, "save")
    BY <1>0, <1>1, SaveEffect
  <2>2. ltx[r] = "valid"
    BY <1>0, <2>1 DEF Waited
  <2> QED BY <1>0, <1>1, <2>2 DEF Recorded
<1>2. ASSUME NEW r \in Reqs, SaveDocument(r), Tgt(r) = d, Op(r) \in {"sign", "reject"}
      PROVE  /\ docs[d].status = "pending"
             /\ Op(r) = "sign" => chain[d] = [status |-> "approved", txId |-> r]
             /\ Op(r) = "reject" => chain[d] = [status |-> "rejected", txId |-> r]
  BY <1>2, SavesPending
<1> QED BY <1>0, <1>1, <1>2, DocStep

\* A decision is in MongoDB only after it is on the ledger.
LEMMA LedgerLeadsStep ==
    ASSUME LInv, Work \/ \E r \in Reqs, a \in Arrivals : Arrive(r, a)
    PROVE  LedgerLeads'
<1>0. UInv /\ LedgerLeads
  BY DEF LInv, DInv, KInv
<1> SUFFICES ASSUME NEW d \in Docs, Stored(d)'
             PROVE  (/\ chain[d] # Absent
                     /\ docs[d].status = "signed" =>
                          chain[d] = [status |-> "approved", txId |-> docs[d].fabricTxIdSign]
                     /\ docs[d].status = "rejected" =>
                          chain[d] = [status |-> "rejected", txId |-> docs[d].fabricTxIdReject])'
  BY DEF LedgerLeads
<1>1. chain[d] # Absent =>
        chain'[d] # Absent /\ (chain[d].status # "pending" => chain'[d] = chain[d])
  BY <1>0, ChainKept
<1>2. CASE docs'[d] = docs[d]
  <2>1. /\ chain[d] # Absent
        /\ docs[d].status = "signed" =>
             chain[d] = [status |-> "approved", txId |-> docs[d].fabricTxIdSign]
        /\ docs[d].status = "rejected" =>
             chain[d] = [status |-> "rejected", txId |-> docs[d].fabricTxIdReject]
    BY <1>0, <1>2 DEF LedgerLeads, Stored
  <2> QED BY <1>1, <1>2, <2>1
<1>3. CASE docs'[d] = NewDocument /\ chain[d] # Absent
  BY <1>1, <1>3 DEF NewDocument
<1>4. ASSUME NEW r \in Reqs, docs[d] \in DocRecord, docs'[d] = Signed(docs[d], r),
             chain[d] = [status |-> "approved", txId |-> r], chain[d] # Absent
      PROVE  /\ chain'[d] # Absent
             /\ docs'[d].status = "signed" /\ docs'[d].fabricTxIdSign = r
             /\ chain'[d] = [status |-> "approved", txId |-> r]
  BY <1>1, <1>4 DEF Signed, issueDocumentCredential, DocRecord
<1>5. ASSUME NEW r \in Reqs, docs[d] \in DocRecord, docs'[d] = Rejected(docs[d], r),
             chain[d] = [status |-> "rejected", txId |-> r], chain[d] # Absent
      PROVE  /\ chain'[d] # Absent
             /\ docs'[d].status = "rejected" /\ docs'[d].fabricTxIdReject = r
             /\ chain'[d] = [status |-> "rejected", txId |-> r]
  BY <1>1, <1>5 DEF Rejected, DocRecord
<1>6. docs[d] \in DocRecord => chain[d] # Absent
  BY <1>0, AbsentAssumption DEF LedgerLeads, Stored
<1> QED BY <1>2, <1>3, <1>4, <1>5, <1>6, LiveDocStep

\* A rejection finds no credential, since it finds a pending document.
LEMMA CredentialStep ==
    ASSUME LInv, Work \/ \E r \in Reqs, a \in Arrivals : Arrive(r, a)
    PROVE  CredentialMatches'
<1>0. CredentialMatches
  BY DEF LInv
<1> SUFFICES ASSUME NEW d \in Docs, Stored(d)'
             PROVE  /\ docs'[d].status = "signed" => docs'[d].credential = docs'[d].signedBy
                    /\ docs'[d].status # "signed" => docs'[d].credential = NoOne
  BY DEF CredentialMatches
<1>1. CASE docs'[d] = docs[d]
  BY <1>0, <1>1 DEF CredentialMatches, Stored
<1>2. CASE docs'[d] = NewDocument
  BY <1>2 DEF NewDocument
<1>3. ASSUME NEW r \in Reqs, docs[d] \in DocRecord, docs'[d] = Signed(docs[d], r)
      PROVE  docs'[d].status = "signed" /\ docs'[d].credential = docs'[d].signedBy
  BY <1>3 DEF Signed, issueDocumentCredential, DocRecord
<1>4. ASSUME NEW r \in Reqs, docs[d] \in DocRecord, docs[d].status = "pending",
             docs'[d] = Rejected(docs[d], r)
      PROVE  docs'[d].status = "rejected" /\ docs'[d].credential = NoOne
  <2>1. docs[d].credential = NoOne
    BY <1>0, <1>4, AbsentAssumption DEF CredentialMatches, Stored
  <2> QED BY <1>4, <2>1 DEF Rejected, DocRecord
<1> QED BY <1>1, <1>2, <1>3, <1>4, LiveDocStep

\* No later save overwrites a decision.
LEMMA ShownStep ==
    ASSUME LInv, Work \/ \E r \in Reqs, a \in Arrivals : Arrive(r, a)
    PROVE  Shown'
<1>0. TypeOK /\ UInv /\ Loaded /\ Shown /\ Absent \notin DocRecord
  BY AbsentAssumption DEF LInv, DInv, KInv, UInv
<1>1. CASE Work
  <2>0. Moved
    BY <1>0, <1>1, WorkMoves
  <2> SUFFICES ASSUME NEW q \in Reqs, IsDecision(q)', (At(q, "audit") \/ Successful(q))'
               PROVE  (/\ Stored(Tgt(q))
                       /\ Op(q) = "sign" => docs[Tgt(q)].status = "signed" /\ docs[Tgt(q)].fabricTxIdSign = q
                       /\ Op(q) = "reject" => docs[Tgt(q)].status = "rejected" /\ docs[Tgt(q)].fabricTxIdReject = q)'
    BY DEF Shown
  <2>1. IsDecision(q) /\ reqs[q] # Idle /\ Op(q)' = Op(q) /\ Tgt(q)' = Tgt(q)
    BY <2>0, MovedKeeps DEF IsDecision
  <2>2. Tgt(q) \in Docs
    BY <1>0, <2>1, RequestTyped DEF IsDecision, DocOps
  <2>3. At(q, "audit") \/ Successful(q) \/ SaveDocument(q)
    <3>1. CASE At(q, "audit")'
      BY <1>0, <1>1, <2>1, <3>1, AuditBySave DEF SaveUser, IsDecision, CertOps
    <3>2. CASE Successful(q)'
      BY <1>0, <1>1, <3>2, SuccessByAudit DEF WriteAudit
    <3> QED BY <3>1, <3>2
  <2>4. CASE SaveDocument(q)
    <3>1. /\ docs'[Tgt(q)] \in DocRecord /\ docs[Tgt(q)] \in DocRecord
          /\ Op(q) = "sign" => docs'[Tgt(q)] = Signed(docs[Tgt(q)], q)
          /\ Op(q) = "reject" => docs'[Tgt(q)] = Rejected(docs[Tgt(q)], q)
      BY <1>0, <2>1, <2>4, SaveEffect DEF IsDecision
    <3>2. docs'[Tgt(q)] # Absent
      BY <1>0, <3>1
    <3>3. Op(q) = "sign" =>
            docs'[Tgt(q)].status = "signed" /\ docs'[Tgt(q)].fabricTxIdSign = q
      BY <3>1 DEF Signed, issueDocumentCredential, DocRecord
    <3>4. Op(q) = "reject" =>
            docs'[Tgt(q)].status = "rejected" /\ docs'[Tgt(q)].fabricTxIdReject = q
      BY <3>1 DEF Rejected, DocRecord
    <3> QED BY <2>1, <3>2, <3>3, <3>4 DEF Stored
  <2>5. CASE At(q, "audit") \/ Successful(q)
    <3>1. /\ Stored(Tgt(q))
          /\ Op(q) = "sign" => docs[Tgt(q)].status = "signed" /\ docs[Tgt(q)].fabricTxIdSign = q
          /\ Op(q) = "reject" => docs[Tgt(q)].status = "rejected" /\ docs[Tgt(q)].fabricTxIdReject = q
      BY <1>0, <2>1, <2>5 DEF Shown
    <3>2. docs[Tgt(q)].status # "pending"
      BY <2>1, <3>1 DEF IsDecision
    <3>3. docs'[Tgt(q)] = docs[Tgt(q)]
      BY <1>1, <2>2, <3>1, <3>2, LiveDocStep
    <3> QED BY <2>1, <3>1, <3>3 DEF Stored
  <2> QED BY <2>3, <2>4, <2>5
<1>2. ASSUME NEW p \in Reqs, NEW a \in Arrivals, Arrive(p, a) PROVE Shown'
  <2>1. /\ docs' = docs
        /\ reqs'[p].pc \in {"pin", "read", "done"}
        /\ reqs'[p].pc = "done" => reqs'[p].res = "denied"
        /\ \A q \in Reqs \ {p} : reqs'[q] = reqs[q]
    BY <1>0, <1>2, ArriveEffect
  <2>2. ASSUME NEW q \in Reqs, IsDecision(q)', (At(q, "audit") \/ Successful(q))'
        PROVE  q # p
    BY <2>1, <2>2 DEF Successful, At
  <2>3. ASSUME NEW q \in Reqs \ {p}, IsDecision(q)', (At(q, "audit") \/ Successful(q))'
        PROVE  (/\ Stored(Tgt(q))
                /\ Op(q) = "sign" => docs[Tgt(q)].status = "signed" /\ docs[Tgt(q)].fabricTxIdSign = q
                /\ Op(q) = "reject" => docs[Tgt(q)].status = "rejected" /\ docs[Tgt(q)].fabricTxIdReject = q)'
    BY <1>0, <2>1, <2>3 DEF Shown, IsDecision, Successful, At, Stored, Op, Tgt
  <2> QED BY <2>2, <2>3 DEF Shown
<1> QED BY <1>1, <1>2

\* LInv is inductive.
LEMMA LStep == LInv /\ [Next]_vars => LInv'
<1> SUFFICES ASSUME LInv, [Next]_vars PROVE LInv'
  OBVIOUS
<1>1. DInv' /\ Live
  BY DStep DEF LInv
<1>2. CASE UNCHANGED vars
  BY <1>1, <1>2 DEF vars, LInv, Waited, Recorded, LedgerLeads, CredentialMatches, Shown, IsDecision,
     Successful, At, Stored, Op, Tgt
<1>3. CASE Next
  <2>1. Work \/ \E r \in Reqs, a \in Arrivals : Arrive(r, a)
    BY <1>3 DEF Next, Work
  <2> QED BY <1>1, <2>1, WaitedStep, RecordedStep, LedgerLeadsStep, CredentialStep, ShownStep DEF LInv
<1> QED BY <1>2, <1>3

\* Nothing has happened yet.
LEMMA LInit == Live /\ Init => LInv
<1>1. Init => DInv
  BY DInit
<1> QED BY <1>1 DEF Init, LInv, Waited, Recorded, LedgerLeads, CredentialMatches, Shown, IsDecision,
        Stored, Idle

\* What LInv says of a request answered with success.
LEMMA LImplies == LInv => DecidedOnce /\ AnswerHolds
<1> SUFFICES ASSUME LInv PROVE DecidedOnce /\ AnswerHolds
  OBVIOUS
<1>0. InStore /\ Logged /\ Waited /\ Recorded /\ Shown
  BY DEF LInv, DInv, KInv
<1>1. ASSUME NEW r \in Reqs, At(r, "done"), reqs[r].res = "ok" PROVE reqs[r] # Idle /\ Successful(r)
  BY <1>1 DEF At, Idle, Successful
<1>2. ASSUME NEW r \in Reqs, At(r, "done"), reqs[r].res = "ok", Op(r) \in DocOps
      PROVE  /\ Op(r) = "sign" => chain[Tgt(r)].status = "approved" /\ chain[Tgt(r)].txId = r
             /\ Op(r) = "reject" => chain[Tgt(r)].status = "rejected" /\ chain[Tgt(r)].txId = r
  <2>1. /\ Op(r) = "sign" => chain[Tgt(r)] = [status |-> "approved", txId |-> r]
        /\ Op(r) = "reject" => chain[Tgt(r)] = [status |-> "rejected", txId |-> r]
    BY <1>0, <1>1, <1>2 DEF Waited, Recorded
  <2> QED BY <2>1
<1>3. DecidedOnce
  <2> SUFFICES ASSUME NEW r1 \in Reqs, NEW r2 \in Reqs,
                      At(r1, "done"), reqs[r1].res = "ok", Op(r1) \in {"sign", "reject"},
                      At(r2, "done"), reqs[r2].res = "ok", Op(r2) \in {"sign", "reject"},
                      Tgt(r1) = Tgt(r2)
               PROVE  r1 = r2
    BY DEF DecidedOnce, At
  <2>1. chain[Tgt(r1)].txId = r1 /\ chain[Tgt(r2)].txId = r2
    BY <1>2 DEF DocOps
  <2> QED BY <2>1
<1>4. AnswerHolds
  <2> SUFFICES ASSUME NEW r \in Reqs, At(r, "done"), reqs[r].res = "ok", Op(r) \in DocOps
               PROVE  /\ Stored(Tgt(r))
                      /\ Entry(r) \in audit
                      /\ Op(r) = "sign" => /\ docs[Tgt(r)].status = "signed"
                                           /\ docs[Tgt(r)].fabricTxIdSign = r
                                           /\ chain[Tgt(r)].status = "approved"
                      /\ Op(r) = "reject" => /\ docs[Tgt(r)].status = "rejected"
                                             /\ docs[Tgt(r)].fabricTxIdReject = r
                                             /\ chain[Tgt(r)].status = "rejected"
    BY DEF AnswerHolds, At, Entry
  <2>1. reqs[r] # Idle /\ Successful(r)
    BY <1>1
  <2>2. Entry(r) \in audit
    BY <1>0, <2>1 DEF Logged
  <2>3. CASE Op(r) = "upload"
    BY <1>0, <2>1, <2>2, <2>3 DEF InStore, IsUpload
  <2>4. CASE Op(r) \in {"sign", "reject"}
    <3>1. IsDecision(r)
      BY <2>1, <2>4 DEF IsDecision
    <3>2. /\ Op(r) = "sign" => chain[Tgt(r)].status = "approved"
          /\ Op(r) = "reject" => chain[Tgt(r)].status = "rejected"
      BY <1>2
    <3> QED BY <1>0, <2>1, <2>2, <2>4, <3>1, <3>2 DEF Shown
  <2> QED BY <2>3, <2>4 DEF DocOps
<1> QED BY <1>3, <1>4

\* A step that changes a decided document would contradict LiveDocStep.
LEMMA FinalStep == LInv /\ [Next]_vars =>
    [\A d \in Docs : Stored(d) /\ docs[d].status # "pending" => docs'[d] = docs[d]]_docs
<1> SUFFICES ASSUME LInv, Next, NEW d \in Docs, Stored(d), docs[d].status # "pending"
             PROVE  docs'[d] = docs[d]
  BY DEF vars
<1>1. Work \/ \E r \in Reqs, a \in Arrivals : Arrive(r, a)
  BY DEF Next, Work
<1> QED BY <1>1, LiveDocStep

\* MongoDB never runs ahead of a live ledger or contradicts it.
THEOREM LedgerIsAhead == Live /\ Spec => []LedgerLeads
<1>1. LInv => LedgerLeads
  BY DEF LInv
<1> QED BY <1>1, LInit, LStep, PTL DEF Spec

\* With a live ledger a credential exists exactly for a signed document.
THEOREM CredentialsMatch == Live /\ Spec => []CredentialMatches
<1>1. LInv => CredentialMatches
  BY DEF LInv
<1> QED BY <1>1, LInit, LStep, PTL DEF Spec

\* A credential that verifies belongs to a signed document, whose issuer is a
\* user; with it, trust is a question of that user's certificate alone.
LEMMA Verdict ==
    ASSUME TypeOK, CredentialMatches, NEW d \in Docs, Stored(d)
    PROVE  /\ verifyDocument(d).trustworthy <=>
                /\ docs[d].status = "signed" /\ docs[d].signedBy # NoOne
                /\ cert[docs[d].signedBy] = "active"
           /\ VerifiedOutside(d) <=>
                /\ docs[d].status = "signed" /\ docs[d].signedBy # NoOne
                /\ cert[docs[d].signedBy] = "active"
<1>1. docs[d] \in DocRecord
  BY DEF TypeOK, Stored
<1>2. docs[d].credential \in Users \cup {NoOne} /\ docs[d].signedBy \in Users \cup {NoOne}
  BY <1>1 DEF DocRecord
<1>3. \A u \in Users : u \notin getRevocationList <=> cert[u] = "active"
  BY DEF getRevocationList, TypeOK
<1>4. /\ docs[d].status = "signed" => docs[d].credential = docs[d].signedBy
      /\ docs[d].status # "signed" => docs[d].credential = NoOne
  BY DEF CredentialMatches
<1>5. verifyDocument(d).trustworthy <=>
        /\ docs[d].credential # NoOne /\ docs[d].signedBy # NoOne
        /\ docs[d].credential = docs[d].signedBy /\ cert[docs[d].signedBy] = "active"
  BY DEF verifyDocument, verifyDocumentCredential
<1>6. VerifiedOutside(d) <=>
        docs[d].credential # NoOne /\ docs[d].credential \notin getRevocationList
  BY DEF VerifiedOutside, verifyDocumentCredential, getCertificate
<1> QED BY <1>2, <1>3, <1>4, <1>5, <1>6

\* With a live ledger a document the public is told to trust was approved there,
\* by a transaction of the signer whose credential it carries: a credential
\* that verifies belongs to a signed document, and MongoDB names the ledger's
\* transaction and its sender.  Whoever verifies without the API agrees.
THEOREM TrustIsEarned == Live /\ Spec => []VerifiedIsApproved
<1>1. LInv => VerifiedIsApproved
  <2> SUFFICES ASSUME LInv, NEW d \in Docs, Stored(d)
               PROVE  /\ verifyDocument(d).trustworthy =>
                           chain[d].status = "approved" /\ User(chain[d].txId) = docs[d].signedBy
                      /\ VerifiedOutside(d) <=> verifyDocument(d).trustworthy
    BY DEF VerifiedIsApproved
  <2>1. TypeOK /\ CredentialMatches
    BY DEF LInv, DInv, KInv, UInv
  <2>2. CASE docs[d].status = "signed"
    <3>1. chain[d] = [status |-> "approved", txId |-> docs[d].fabricTxIdSign]
      BY <2>2 DEF LInv, LedgerLeads
    <3>2. User(docs[d].fabricTxIdSign) = docs[d].signedBy
      BY <2>2, DImplies DEF LInv, SignedHasCredential
    <3>3. chain[d].status = "approved" /\ User(chain[d].txId) = docs[d].signedBy
      BY <3>1, <3>2
    <3> QED BY <2>1, <3>3, Verdict
  <2>3. CASE docs[d].status # "signed"
    BY <2>1, <2>3, Verdict
  <2> QED BY <2>2, <2>3
<1> QED BY <1>1, LInit, LStep, PTL DEF Spec

\* With a live ledger a document is decided successfully at most once.
THEOREM OneDecision == Live /\ Spec => []DecidedOnce
<1> QED BY LInit, LStep, LImplies, PTL DEF Spec

\* With a live ledger a successful answer stays true in MongoDB, on the ledger
\* and in the audit log.
THEOREM AnswersHold == Live /\ Spec => []AnswerHolds
<1> QED BY LInit, LStep, LImplies, PTL DEF Spec

\* With a live ledger a decision the users were shown is never changed.
THEOREM DecisionsFinal == Live /\ Spec => StatusFinal
<1> QED BY LInit, LStep, FinalStep, PTL DEF Spec, StatusFinal

----------------------------------------------------------------------------
(* The API implements the contract: whatever requests race, fail or are    *)
(* lost, what they do to the ledger is a sequence of transactions that     *)
(* KYCContract allows.  Only the validation of an accepted transaction     *)
(* writes the mapped world state, and it is the contract's step with the   *)
(* invocation of that request.  Every other step stutters, because the     *)
(* requests named on the ledger have valid transactions (Anchored) and     *)
(* such a request asks for what it asked for.  The contract accepts a      *)
(* decision because its caller passed requireRole (Permitted).             *)
Arrival == \E r \in Reqs, a \in Arrivals : Arrive(r, a)

\* Who is served, and who has a transaction, has the role.
Permitted == \A r \in Reqs : InFlight(r) \/ ltx[r] # "none" => RoleAllowed(reqs[r].arr)

\* Whom the ledger names has a valid transaction.
Anchored == \A d \in Docs : chain[d] # Absent =>
    /\ \E r \in Reqs : Anchors(r, d)
    /\ chain[d].txId # NoOne => ltx[chain[d].txId] = "valid"

CInv == UInv /\ Permitted /\ Anchored

----------------------------------------------------------------------------
\* A request that has a transaction is not replaced.
LEMMA ArrivalKept ==
    ASSUME UInv, Work \/ Arrival, NEW q \in Reqs, ltx[q] # "none"
    PROVE  reqs'[q].arr = reqs[q].arr /\ reqs[q] # Idle
<1>0. TypeOK /\ reqs[q] # Idle
  BY DEF UInv, Ordered
<1>1. ASSUME NEW p \in Reqs, NEW a \in Arrivals, Arrive(p, a) PROVE reqs'[q].arr = reqs[q].arr
  BY <1>0, <1>1, ArriveEffect
<1>2. CASE Work
  BY <1>0, <1>2, WorkMoves DEF Moved
<1> QED BY <1>0, <1>1, <1>2 DEF Arrival

\* A transaction is submitted by a request in flight.
LEMMA SubmittedInFlight ==
    ASSUME UInv, Work \/ Arrival, NEW q \in Reqs, ltx'[q] # "none"
    PROVE  ltx[q] # "none" \/ InFlight(q)
<1>0. ltx \in [Reqs -> {"none", "ordered", "valid", "invalid"}]
  BY DEF UInv, TypeOK
<1>1. ASSUME NEW r \in Reqs, SubmitLive(r)
      PROVE  InFlight(r) /\ (ltx' = ltx \/ ltx' = [ltx EXCEPT ![r] = "ordered"])
  BY <1>1 DEF SubmitLive, At, InFlight, Steps
<1>2. ASSUME NEW r \in Reqs, OrderAndValidate(r)
      PROVE  ltx[r] = "ordered" /\ \E v \in {"valid", "invalid"} : ltx' = [ltx EXCEPT ![r] = v]
  BY <1>2 DEF OrderAndValidate
<1>3. \/ ltx' = ltx
      \/ \E r \in Reqs : SubmitLive(r) \/ OrderAndValidate(r)
  BY DEF Arrival, Arrive, Work, Step, requireActionPin, RefuseUpload, ReadDocument, ReadUser,
     SubmitMock, CommitEvent, SaveDocument, SaveUser, WriteAudit, CallFails, Crash, ledger
<1> QED BY <1>0, <1>1, <1>2, <1>3

\* requireRole is passed before anything else happens.
LEMMA PermittedStep ==
    ASSUME CInv, Work \/ Arrival
    PROVE  Permitted'
<1>0. UInv /\ TypeOK /\ Permitted
  BY DEF CInv, UInv
<1> SUFFICES ASSUME NEW q \in Reqs, (InFlight(q) \/ ltx[q] # "none")'
             PROVE  RoleAllowed(reqs'[q].arr)
  BY DEF Permitted
<1>1. CASE Work
  <2>1. Moved
    BY <1>0, <1>1, WorkMoves
  <2>2. InFlight(q)' => InFlight(q)
    <3>1. CASE reqs[q] = Idle
      BY <2>1, <3>1 DEF Moved, InFlight, Idle, Steps
    <3>2. CASE At(q, "done")
      BY <2>1, <3>2 DEF Moved, InFlight, At, Steps
    <3> QED BY <1>0, <3>1, <3>2 DEF TypeOK, Job, At, InFlight
  <2>3. InFlight(q) \/ ltx[q] # "none"
    BY <1>0, <1>1, <2>2, SubmittedInFlight
  <2>4. reqs[q] # Idle
    BY <1>0, <2>3 DEF UInv, Ordered, InFlight, Idle, Steps
  <2> QED BY <1>0, <2>1, <2>3, <2>4 DEF Permitted, Moved
<1>2. ASSUME NEW p \in Reqs, NEW a \in Arrivals, Arrive(p, a)
      PROVE  RoleAllowed(reqs'[q].arr)
  <2>1. ltx' = ltx /\ \A r \in Reqs \ {p} : reqs'[r] = reqs[r]
    BY <1>0, <1>2, ArriveEffect
  <2>2. CASE q # p
    BY <1>0, <2>1, <2>2 DEF Permitted, InFlight
  <2>3. CASE q = p
    <3>1. reqs[p] = Idle
      BY <1>2 DEF Arrive
    <3>2. InFlight(p)'
      BY <1>0, <2>1, <2>3, <3>1 DEF UInv, Ordered
    <3> QED BY <1>0, <1>2, <2>3, <3>2 DEF Arrive, InFlight, Steps, TypeOK
  <2> QED BY <2>2, <2>3
<1> QED BY <1>1, <1>2 DEF Arrival

\* A valid transaction stays what it was.
LEMMA ValidKept ==
    ASSUME UInv, Work \/ Arrival, NEW q \in Reqs, ltx[q] = "valid"
    PROVE  /\ ltx'[q] = "valid" /\ reqs'[q].arr = reqs[q].arr
           /\ \A d : Anchors(q, d)' <=> Anchors(q, d)
<1>1. ltx'[q] = "valid" /\ reqs'[q].arr = reqs[q].arr
  BY ValidStays, ArrivalKept DEF Arrival
<1> QED BY <1>1 DEF Anchors, Op, Tgt

\* A document is uploaded by one request.
LEMMA OneAnchor ==
    ASSUME UInv, NEW d, NEW r \in Reqs, NEW q \in Reqs, Anchors(r, d), Anchors(q, d)
    PROVE  r = q
<1>1. IsUpload(r) /\ IsUpload(q)
  BY DEF UInv, Ordered, Anchors, IsUpload
<1> QED BY <1>1 DEF UInv, Fresh, Anchors

\* What is on the ledger goes on naming valid transactions.
LEMMA AnchoredStep ==
    ASSUME CInv, Work \/ Arrival
    PROVE  Anchored'
<1>0. UInv /\ TypeOK /\ Anchored
  BY DEF CInv, UInv
<1> SUFFICES ASSUME NEW d \in Docs, chain'[d] # Absent
             PROVE  /\ \E r \in Reqs : Anchors(r, d)'
                    /\ chain'[d].txId # NoOne => ltx'[chain'[d].txId] = "valid"
  BY DEF Anchored
<1>1. CASE chain'[d] = chain[d]
  <2>1. PICK r \in Reqs : Anchors(r, d)
    BY <1>0, <1>1 DEF Anchored
  <2>2. Anchors(r, d)'
    BY <1>0, <2>1, ValidKept DEF Anchors
  <2>3. chain[d] \in ChainRecord
    BY <1>0, <1>1 DEF TypeOK
  <2>4. chain[d].txId # NoOne => chain[d].txId \in Reqs /\ ltx[chain[d].txId] = "valid"
    BY <1>0, <1>1, <2>3 DEF Anchored, ChainRecord
  <2> QED BY <1>0, <1>1, <2>2, <2>4, ValidKept
<1>2. CASE chain'[d] # chain[d]
  <2>1. PICK r \in Reqs : OrderAndValidate(r) /\ ChaincodeAccepts(r)
    BY <1>2, ChainWritten DEF Arrival
  <2>2. reqs' = reqs /\ Tgt(r) = d /\ ltx[r] = "ordered" /\ Op(r) \in DocOps
    <3>1. CASE Tgt(r) # d
      <4>1. d \in Docs \ {Tgt(r)}
        BY <3>1
      <4> QED BY <1>0, <1>2, <2>1, <4>1, OrderEffect
    <3> QED BY <1>0, <2>1, <3>1, OrderEffect
  <2>3. ltx'[r] = "valid"
    BY <1>0, <2>1 DEF OrderAndValidate, TypeOK
  <2>4. CASE Op(r) = "upload"
    <3>1. chain'[d] = [status |-> "pending", txId |-> NoOne]
      BY <1>0, <2>1, <2>2, <2>4 DEF OrderAndValidate, TypeOK
    <3>2. Anchors(r, d)'
      BY <2>2, <2>3, <2>4 DEF Anchors, Op, Tgt
    <3> QED BY <3>1, <3>2
  <2>5. CASE Op(r) \in {"sign", "reject"}
    <3>1. chain'[d].txId = r /\ chain[d] # Absent
      <4>1. chain[d] # Absent
        BY <2>1, <2>2, <2>5 DEF ChaincodeAccepts
      <4>2. \/ chain'[d] = [status |-> "approved", txId |-> r]
            \/ chain'[d] = [status |-> "rejected", txId |-> r]
        BY <1>0, <2>1, <2>2, <2>5, OrderEffect
      <4> QED BY <4>1, <4>2
    <3>2. PICK q \in Reqs : Anchors(q, d)
      BY <1>0, <3>1 DEF Anchored
    <3>3. Anchors(q, d)'
      BY <1>0, <3>2, ValidKept DEF Anchors
    <3> QED BY <2>3, <3>1, <3>3
  <2> QED BY <2>2, <2>4, <2>5 DEF DocOps
<1> QED BY <1>1, <1>2

\* CInv is inductive.
LEMMA CStep == CInv /\ [Next]_vars => CInv'
<1> SUFFICES ASSUME CInv, [Next]_vars PROVE CInv'
  OBVIOUS
<1>1. UInv'
  BY UStep DEF CInv
<1>2. CASE UNCHANGED vars
  BY <1>1, <1>2 DEF CInv, vars, Permitted, Anchored, Anchors, InFlight, Op, Tgt
<1>3. CASE Next
  <2>1. Work \/ Arrival
    BY <1>3 DEF Next, Work, Arrival
  <2> QED BY <1>1, <2>1, PermittedStep, AnchoredStep DEF CInv
<1> QED BY <1>2, <1>3

\* At first there is neither a request nor a document.
LEMMA CInit == Init => CInv
BY UInit DEF Init, CInv, Permitted, Anchored, InFlight, Idle, Steps

----------------------------------------------------------------------------
(* The mapped world state.                                                 *)

\* Who uploaded a document that is on the ledger.
LEMMA OwnerIs ==
    ASSUME UInv, NEW d, NEW r \in Reqs, Anchors(r, d)
    PROVE  Uploader(d) = User(r)
<1>1. (CHOOSE q \in Reqs : Anchors(q, d)) = r
  BY OneAnchor
<1> QED BY <1>1 DEF Uploader

\* The same after a step.
LEMMA OwnerNext ==
    ASSUME NEW d, NEW r \in Reqs, Anchors(r, d)', \A q \in Reqs : Anchors(q, d)' => q = r
    PROVE  Uploader(d)' = User(r)'
<1>1. (CHOOSE q \in Reqs : Anchors(q, d)') = r
  OBVIOUS
<1> QED BY <1>1 DEF Uploader, User

\* A request the ledger names asks for what it asked for.
LEMMA NamedKept ==
    ASSUME UInv, Work \/ Arrival, NEW q \in Reqs, ltx[q] = "valid"
    PROVE  User(q)' = User(q) /\ Invocation(q)' = Invocation(q)
<1>1. reqs'[q].arr = reqs[q].arr
  BY ValidKept
<1> QED BY <1>1 DEF Invocation, User, Op, Tgt

\* A document that is not written stays what it is on the ledger.
LEMMA DocumentKept ==
    ASSUME CInv, Work \/ Arrival, NEW d \in Docs, chain[d] # Absent,
           chain'[d] = chain[d], \A q \in Reqs : Anchors(q, d)' <=> Anchors(q, d)
    PROVE  LedgerDocument(d)' = LedgerDocument(d)
<1>0. UInv /\ TypeOK /\ Anchored
  BY DEF CInv, UInv
<1>1. PICK r \in Reqs : Anchors(r, d)
  BY <1>0 DEF Anchored
<1>2. Uploader(d) = User(r)
  BY <1>0, <1>1, OwnerIs
<1>3. User(r)' = User(r)
  BY <1>0, <1>1, NamedKept DEF Anchors
<1>4. Uploader(d)' = User(r)
  BY <1>0, <1>1, <1>3, OneAnchor, OwnerNext
<1>5. chain[d] \in ChainRecord
  BY <1>0 DEF TypeOK
<1>6. chain[d].txId # NoOne => User(chain[d].txId)' = User(chain[d].txId)
  BY <1>0, <1>5, NamedKept DEF Anchored, ChainRecord
<1> QED BY <1>2, <1>4, <1>6 DEF LedgerDocument

\* A step that leaves the ledger alone leaves the mapped world state alone.
LEMMA Stutter ==
    ASSUME CInv, Work \/ Arrival, chain' = chain,
           \A q \in Reqs : ltx'[q] = "valid" <=> ltx[q] = "valid"
    PROVE  WorldState' = WorldState
<1>0. UInv
  BY DEF CInv
<1>1. ASSUME NEW q \in Reqs, NEW d PROVE Anchors(q, d)' <=> Anchors(q, d)
  BY <1>0, ValidKept DEF Anchors
<1>2. ASSUME NEW d \in Docs, chain[d] # Absent PROVE LedgerDocument(d)' = LedgerDocument(d)
  BY <1>1, <1>2, DocumentKept
<1>3. ASSUME NEW q \in Reqs, ltx[q] = "valid" PROVE Invocation(q)' = Invocation(q)
  BY <1>0, <1>3, NamedKept
<1> QED BY <1>2, <1>3 DEF WorldState

\* What request r submits is an invocation of the contract.
LEMMA Submits ==
    ASSUME UInv, NEW r \in Reqs, reqs[r] # Idle, Op(r) \in DocOps
    PROVE  Invocation(r) \in Contract!Invocation
<1>1. User(r) \in Users /\ Tgt(r) \in Docs
  BY RequestTyped DEF UInv
<1>2. WalletIdentity(User(r)) \in Identities
  BY <1>1 DEF Identities
<1>3. CASE Op(r) = "upload"
  <2>1. Invocation(r) = [fn |-> "CreateDocument", caller |-> WalletIdentity(User(r)),
                         key |-> Tgt(r), fileHash |-> Tgt(r), owner |-> User(r)]
    BY <1>3 DEF Invocation
  <2> QED BY <1>1, <1>2, <2>1 DEF Contract!Invocation
<1>4. CASE Op(r) \in {"sign", "reject"}
  <2>1. PICK action \in {"approved", "rejected"} :
          Invocation(r) = [fn |-> "SignDocument", caller |-> WalletIdentity(User(r)),
                           key |-> Tgt(r), action |-> action]
    BY <1>4 DEF Invocation
  <2> QED BY <1>1, <1>2, <2>1 DEF Contract!Invocation, Contract!Decisions
<1> QED BY <1>3, <1>4 DEF DocOps

\* A document on the ledger is a document of the contract.
LEMMA DocumentTyped ==
    ASSUME CInv, NEW d \in Docs, chain[d] # Absent
    PROVE  LedgerDocument(d) # Absent
<1>0. UInv /\ TypeOK /\ Anchored
  BY DEF CInv, UInv
<1>1. PICK r \in Reqs : Anchors(r, d)
  BY <1>0 DEF Anchored
<1>2. Uploader(d) = User(r)
  BY <1>0, <1>1, OwnerIs
<1>3. User(r) \in Users
  BY <1>0, <1>1, RequestTyped DEF UInv, Ordered, Anchors
<1>4. chain[d] \in ChainRecord
  BY <1>0 DEF TypeOK
<1>5. chain[d].txId # NoOne => User(chain[d].txId) \in Users
  <2>1. chain[d].txId # NoOne => chain[d].txId \in Reqs /\ ltx[chain[d].txId] = "valid"
    BY <1>0, <1>4 DEF Anchored, ChainRecord
  <2> QED BY <1>0, <2>1, RequestTyped DEF UInv, Ordered
<1>6. \A u \in Users : WalletIdentity(u) \in Identities /\ WalletIdentity(u).msp \in Chaincode!MSPs
  BY BackendAssumption DEF Identities, WalletIdentity, Chaincode!MSPs
<1>7. LedgerDocument(d) \in Chaincode!Document
  <2> DEFINE signer == IF chain[d].txId = NoOne THEN NoOne ELSE WalletIdentity(User(chain[d].txId))
  <2>1. signer \in Identities \cup {NoOne}
    BY <1>5, <1>6
  <2>2. LedgerDocument(d) =
          [kind |-> "doc", status |-> chain[d].status, fileHash |-> d, owner |-> User(r),
           ownerOrg |-> WalletIdentity(User(r)).msp, txId |-> chain[d].txId, signer |-> signer]
    BY <1>2 DEF LedgerDocument
  <2> HIDE DEF signer
  <2>3. /\ chain[d].status \in {"pending", "approved", "rejected"}
        /\ chain[d].txId \in Reqs \cup {NoOne}
    BY <1>4 DEF ChainRecord
  <2>4. WalletIdentity(User(r)).msp \in Chaincode!MSPs
    BY <1>3, <1>6
  <2> QED BY <1>3, <2>1, <2>2, <2>3, <2>4 DEF Chaincode!Document
<1> QED BY <1>7, LedgerAssumption DEF Chaincode!Value

\* The contract accepts what validation accepts.
LEMMA ContractAccepts ==
    ASSUME CInv, NEW r \in Reqs, OrderAndValidate(r), ChaincodeAccepts(r)
    PROVE  Contract!Accepts(WorldState, Invocation(r))
<1>0. UInv /\ Permitted
  BY DEF CInv
<1>1. reqs[r] # Idle /\ Op(r) \in DocOps /\ Tgt(r) \in Docs /\ ltx[r] = "ordered"
  BY <1>0, OrderEffect
<1>2. CASE Op(r) = "upload"
  <2>1. WorldState[Tgt(r)] = Absent
    BY <1>1, <1>2 DEF WorldState, ChaincodeAccepts, CertOps
  <2> QED BY <1>2, <2>1 DEF Invocation, Contract!Accepts, Contract!CanCreateDocument
<1>3. CASE Op(r) \in {"sign", "reject"}
  <2>1. chain[Tgt(r)] # Absent /\ chain[Tgt(r)].status = "pending"
    BY <1>3 DEF ChaincodeAccepts, CertOps
  <2>2. WorldState[Tgt(r)] = LedgerDocument(Tgt(r)) /\ LedgerDocument(Tgt(r)) # Absent
    BY <1>1, <2>1, DocumentTyped DEF WorldState
  <2>3. LedgerDocument(Tgt(r)).status = "pending"
    BY <2>1 DEF LedgerDocument
  <2>4. RoleOf[User(r)] = "signer"
    <3>1. RoleAllowed(reqs[r].arr)
      BY <1>0, <1>1 DEF Permitted
    <3>2. reqs[r].arr.op \in {"sign", "reject"}
      BY <1>3 DEF Op
    <3>3. RoleAllowed(reqs[r].arr) = (RoleOf[reqs[r].arr.user] = "signer")
      BY <3>2 DEF RoleAllowed, CertOps
    <3> QED BY <3>1, <3>3 DEF User
  <2>5. Contract!CallerRole(WalletIdentity(User(r))) = "signer"
    BY <2>4 DEF WalletIdentity, Contract!CallerRole
  <2>6. PICK action \in {"approved", "rejected"} :
          Invocation(r) = [fn |-> "SignDocument", caller |-> WalletIdentity(User(r)),
                           key |-> Tgt(r), action |-> action]
    BY <1>3 DEF Invocation
  <2> QED BY <2>2, <2>3, <2>5, <2>6 DEF Contract!Accepts, Contract!CanSignDocument,
             Contract!Decisions
<1> QED BY <1>1, <1>2, <1>3 DEF DocOps

\* Validation writes what the contract writes to the document.
LEMMA ContractWrites ==
    ASSUME CInv, Work, NEW r \in Reqs, OrderAndValidate(r), ChaincodeAccepts(r),
           NEW d \in Docs, d = Tgt(r)
    PROVE  /\ chain'[d] # Absent
           /\ LedgerDocument(d)' = Contract!NewValue(WorldState, Invocation(r), r)
<1>0. UInv /\ TypeOK /\ Anchored /\ UInv'
  BY UStep DEF CInv, UInv, Work, Next
<1>1. /\ reqs[r] # Idle /\ Op(r) \in DocOps /\ d \in Docs /\ ltx[r] = "ordered" /\ reqs' = reqs
      /\ chain'[d] \in ChainRecord
  BY <1>0, OrderEffect
<1>2. ltx' = [ltx EXCEPT ![r] = "valid"] /\ ltx'[r] = "valid"
  BY <1>0 DEF OrderAndValidate, TypeOK
<1>3. \A q \in Reqs : User(q)' = User(q)
  BY <1>1 DEF User
<1>4. CASE Op(r) = "upload"
  <2>1. chain'[d] = [status |-> "pending", txId |-> NoOne]
    BY <1>0, <1>1, <1>4 DEF OrderAndValidate, TypeOK
  <2>2. Anchors(r, d)'
    BY <1>1, <1>2, <1>4 DEF Anchors, Op, Tgt
  <2>3. ASSUME NEW q \in Reqs, Anchors(q, d)' PROVE q = r
    <3>1. IsUpload(q) /\ IsUpload(r) /\ Tgt(q) = d
      BY <1>0, <1>1, <1>4, <2>3 DEF UInv, Ordered, Anchors, IsUpload, Op, Tgt
    <3> QED BY <1>0, <3>1 DEF UInv, Fresh
  <2>4. Uploader(d)' = User(r)
    BY <1>3, <2>2, <2>3, OwnerNext
  <2>5. LedgerDocument(d)' =
          [kind |-> "doc", status |-> "pending", fileHash |-> d, owner |-> User(r),
           ownerOrg |-> WalletIdentity(User(r)).msp, txId |-> NoOne, signer |-> NoOne]
    BY <2>1, <2>4 DEF LedgerDocument
  <2>6. Invocation(r) = [fn |-> "CreateDocument", caller |-> WalletIdentity(User(r)),
                         key |-> d, fileHash |-> d, owner |-> User(r)]
    BY <1>4 DEF Invocation
  <2>7. Contract!NewValue(WorldState, Invocation(r), r) =
          [kind |-> "doc", status |-> "pending", fileHash |-> d, owner |-> User(r),
           ownerOrg |-> WalletIdentity(User(r)).msp, signer |-> NoOne, txId |-> NoOne]
    <3>1. Contract!NewValue(WorldState, Invocation(r), r) = Contract!NewDocument(Invocation(r))
      BY <2>6 DEF Contract!NewValue
    <3> QED BY <2>6, <3>1 DEF Contract!NewDocument
  <2>8. LedgerDocument(d)' = Contract!NewValue(WorldState, Invocation(r), r)
    BY <2>5, <2>7
  <2> QED BY <1>1, <1>3, <2>8, AbsentAssumption
<1>5. CASE Op(r) \in {"sign", "reject"}
  <2>1. chain[d] # Absent
    BY <1>5 DEF ChaincodeAccepts
  <2>2. PICK action \in {"approved", "rejected"} :
          /\ Invocation(r) = [fn |-> "SignDocument", caller |-> WalletIdentity(User(r)),
                              key |-> d, action |-> action]
          /\ chain'[d] = [status |-> action, txId |-> r]
    <3>1. \/ Op(r) = "sign" /\ chain'[d] = [status |-> "approved", txId |-> r]
          \/ Op(r) = "reject" /\ chain'[d] = [status |-> "rejected", txId |-> r]
      BY <1>0, <1>5, OrderEffect
    <3> QED BY <3>1 DEF Invocation
  <2>3. PICK p \in Reqs : Anchors(p, d)
    BY <1>0, <1>1, <2>1 DEF Anchored
  <2>4. Anchors(p, d)' /\ \A q \in Reqs : Anchors(q, d)' => Anchors(q, d)
    BY <1>0, <1>1, <1>2, <1>5, <2>3, ValidKept DEF Anchors, Op, Tgt, TypeOK
  <2>5. Uploader(d) = User(p) /\ Uploader(d)' = User(p)
    BY <1>0, <1>3, <2>3, <2>4, OneAnchor, OwnerIs, OwnerNext
  <2>6. WorldState[d] = LedgerDocument(d)
    BY <1>1, <2>1 DEF WorldState
  <2>7. LedgerDocument(d)' =
          [kind |-> "doc", status |-> action, fileHash |-> d, owner |-> User(p),
           ownerOrg |-> WalletIdentity(User(p)).msp, txId |-> r,
           signer |-> WalletIdentity(User(r))]
    BY <1>3, <2>2, <2>5, BackendAssumption DEF LedgerDocument
  <2>8. Contract!NewValue(WorldState, Invocation(r), r) =
          Contract!Signed(LedgerDocument(d), Invocation(r), r)
    <3>1. Invocation(r).fn = "SignDocument" /\ Invocation(r).key = d
      BY <2>2
    <3> QED BY <2>6, <3>1 DEF Contract!NewValue
  <2>9. Contract!Signed(LedgerDocument(d), Invocation(r), r) =
          [kind |-> "doc", status |-> action, fileHash |-> d, owner |-> User(p),
           ownerOrg |-> WalletIdentity(User(p)).msp, txId |-> r,
           signer |-> WalletIdentity(User(r))]
    <3>1. /\ Invocation(r).action = action
          /\ Invocation(r).caller = WalletIdentity(User(r))
      BY <2>2
    <3>2. Contract!Signed(LedgerDocument(d), Invocation(r), r) =
            [LedgerDocument(d) EXCEPT !.status = action, !.signer = WalletIdentity(User(r)), !.txId = r]
      BY <3>1 DEF Contract!Signed
    <3> DEFINE doc(st, s, t) == [kind |-> "doc", status |-> st, fileHash |-> d, owner |-> User(p),
                                 ownerOrg |-> WalletIdentity(User(p)).msp, txId |-> t, signer |-> s]
               me == WalletIdentity(User(r))
               signer == IF chain[d].txId = NoOne THEN NoOne ELSE WalletIdentity(User(chain[d].txId))
               old == doc(chain[d].status, signer, chain[d].txId)
               one == doc(action, signer, chain[d].txId)
               two == doc(action, me, chain[d].txId)
    <3>3. LedgerDocument(d) = old
      BY <2>5 DEF LedgerDocument
    <3> HIDE DEF signer, me
    <3>4. [old EXCEPT !.status = action] = one
      OBVIOUS
    <3>5. [one EXCEPT !.signer = me] = two
      OBVIOUS
    <3>6. [two EXCEPT !.txId = r] = doc(action, me, r)
      OBVIOUS
    <3> HIDE DEF old, one, two
    <3>7. [old EXCEPT !.status = action, !.signer = me, !.txId = r]
            = [[[old EXCEPT !.status = action] EXCEPT !.signer = me] EXCEPT !.txId = r]
      OBVIOUS
    <3>8. [old EXCEPT !.status = action, !.signer = me, !.txId = r] = doc(action, me, r)
      BY <3>4, <3>5, <3>6, <3>7, Zenon
    <3> HIDE DEF doc
    <3>9. Contract!Signed(LedgerDocument(d), Invocation(r), r) = doc(action, me, r)
      BY <3>2, <3>3, <3>8, Zenon DEF me
    <3> QED BY <3>9 DEF doc, me
  <2>10. LedgerDocument(d)' = Contract!NewValue(WorldState, Invocation(r), r)
    BY <2>7, <2>8, <2>9
  <2>11. chain'[d] # Absent
    BY <1>1, AbsentAssumption
  <2> QED BY <2>10, <2>11
<1>6. Op(r) = "upload" \/ Op(r) \in {"sign", "reject"}
  BY <1>1 DEF DocOps
<1> QED BY <1>4, <1>5, <1>6

\* Validation is the contract's step.
LEMMA Invokes ==
    ASSUME CInv, Work, NEW r \in Reqs, OrderAndValidate(r), ChaincodeAccepts(r),
           NEW d \in Docs, d = Tgt(r), NEW x, x = Invocation(r)
    PROVE  Contract!Invoke(r, x)
<1>0. UInv /\ TypeOK
  BY DEF CInv, UInv
<1>1. /\ reqs[r] # Idle /\ Op(r) \in DocOps /\ ltx[r] = "ordered" /\ reqs' = reqs
      /\ \A e \in Docs \ {d} : chain'[e] = chain[e]
  BY <1>0, OrderEffect
<1>2. r \notin Docs /\ d \notin Reqs
  BY <1>1, LedgerAssumption
<1>3. ltx' = [ltx EXCEPT ![r] = "valid"]
  BY DEF OrderAndValidate
<1>4. WorldState[r] = Absent
  BY <1>1, <1>2 DEF WorldState
<1>5. x.key = d
  BY <1>1 DEF Invocation, DocOps
<1>6. \A q \in Reqs : Invocation(q)' = Invocation(q)
  BY <1>1 DEF Invocation, Op, User, Tgt
<1>7. WorldState'[d] = Contract!NewValue(WorldState, x, r)
  <2>1. chain'[d] # Absent /\ LedgerDocument(d)' = Contract!NewValue(WorldState, x, r)
    BY <1>1, ContractWrites
  <2>2. WorldState'[d] = LedgerDocument(d)'
    BY <1>1, <2>1 DEF WorldState
  <2> QED BY <2>1, <2>2
<1>8. WorldState'[r] = Contract!writeAudit(x)
  <2>1. WorldState'[r] = Chaincode!writeAudit(x)
    BY <1>0, <1>2, <1>3, <1>6 DEF WorldState, TypeOK
  <2> QED BY <2>1 DEF Chaincode!writeAudit, Contract!writeAudit, Chaincode!AuditAction,
             Contract!AuditAction, Chaincode!ReadKey, Contract!ReadKey
<1>9. ASSUME NEW e \in Docs, e # d PROVE WorldState'[e] = WorldState[e]
  <2>1. chain'[e] = chain[e]
    BY <1>1, <1>9
  <2>2. ASSUME NEW q \in Reqs PROVE Anchors(q, e)' <=> Anchors(q, e)
    BY <1>0, <1>1, <1>3, <1>9 DEF Anchors, Op, Tgt, TypeOK
  <2>3. chain[e] # Absent => LedgerDocument(e)' = LedgerDocument(e)
    BY <2>1, <2>2, DocumentKept
  <2> QED BY <2>1, <2>3 DEF WorldState
<1>10. ASSUME NEW q \in Reqs, q # r PROVE WorldState'[q] = WorldState[q]
  BY <1>0, <1>3, <1>6, <1>10, LedgerAssumption DEF WorldState, TypeOK
<1>11. WorldState' = [WorldState EXCEPT ![d] = Contract!NewValue(WorldState, x, r),
                                        ![r] = Contract!writeAudit(x)]
  <2> DEFINE a == Contract!NewValue(WorldState, x, r)
             b == Contract!writeAudit(x)
             w == [WorldState EXCEPT ![d] = a, ![r] = b]
  <2>1. /\ WorldState = [k \in Docs \cup Reqs |-> WorldState[k]]
        /\ WorldState' = [k \in Docs \cup Reqs |-> WorldState'[k]]
    BY DEF WorldState
  <2>2. /\ w = [k \in Docs \cup Reqs |-> w[k]]
        /\ w[d] = a /\ w[r] = b /\ \A k \in Docs \cup Reqs : k # d /\ k # r => w[k] = WorldState[k]
    <3> HIDE DEF a, b
    <3> QED BY <1>1, <1>2, <2>1
  <2> HIDE DEF w, a, b
  <2>3. \A k \in Docs \cup Reqs : WorldState'[k] = w[k]
    BY <1>2, <1>7, <1>8, <1>9, <1>10, <2>2 DEF a, b
  <2>4. WorldState' = w
    BY <2>1, <2>2, <2>3
  <2> QED BY <2>4 DEF w, a, b
<1>12. Contract!Accepts(WorldState, x)
  BY ContractAccepts
<1> QED BY <1>4, <1>5, <1>11, <1>12 DEF Contract!Invoke

\* Every step of the API is a transaction of the contract or none.
LEMMA StepImplements == CInv /\ [Next]_vars => [Contract!Next]_WorldState
<1> SUFFICES ASSUME CInv, [Next]_vars PROVE [Contract!Next]_WorldState
  OBVIOUS
<1>0. UInv
  BY DEF CInv
<1>1. CASE UNCHANGED vars
  BY <1>1 DEF vars, WorldState, LedgerDocument, Uploader, Anchors, Invocation, User, Op, Tgt
<1>2. ASSUME NEW r \in Reqs, OrderAndValidate(r), ChaincodeAccepts(r) PROVE Contract!Next
  <2>1. Work
    BY <1>2 DEF Work
  <2>2. reqs[r] # Idle /\ Op(r) \in DocOps /\ Tgt(r) \in Docs
    BY <1>0, <1>2, OrderEffect
  <2>3. Invocation(r) \in Contract!Invocation
    BY <1>0, <2>2, Submits
  <2>4. Contract!Invoke(r, Invocation(r))
    BY <1>2, <2>1, <2>2, Invokes
  <2> QED BY <2>3, <2>4 DEF Contract!Next
<1>3. ASSUME Work \/ Arrival, ~ \E r \in Reqs : OrderAndValidate(r) /\ ChaincodeAccepts(r)
      PROVE  WorldState' = WorldState
  <2>1. chain' = chain
    BY <1>3, ChainWritten DEF Arrival
  <2>2. \A q \in Reqs : ltx'[q] = "valid" <=> ltx[q] = "valid"
    BY <1>0, <1>3, ValidStays DEF Arrival
  <2> QED BY <1>3, <2>1, <2>2, Stutter
<1>4. CASE Next
  <2>1. Work \/ Arrival
    BY <1>4 DEF Next, Work, Arrival
  <2> QED BY <1>2, <1>3, <2>1
<1> QED BY <1>1, <1>4

\* Nothing is on the ledger at first.
LEMMA InitImplements == Init => Contract!Init
BY LedgerAssumption DEF Init, Contract!Init, Contract!Keys, WorldState

\* Whatever requests race, fail or are lost in a crash, and with either value
\* of FABRIC_MOCK, the API's effect on the ledger is one that the contract's
\* atomic transactions could have had (KYCBackend!ContractSpec).
THEOREM BackendImplementsContract == Spec => ContractSpec
<1> QED BY CInit, CStep, InitImplements, StepImplements, PTL DEF Spec, ContractSpec, Contract!Spec

----------------------------------------------------------------------------
(* The documents as the pages see them.  In mock mode UInv is enough; that *)
(* a decision stays needs the live ledger.                                 *)
SeenInv == UInv /\ (Live => LInv)

LEMMA SeenInvariant == Spec => []SeenInv
<1>1. Init => SeenInv
  BY UInit, LInit DEF SeenInv
<1>2. SeenInv /\ [Next]_vars => SeenInv'
  BY UStep, LStep DEF SeenInv
<1> QED BY <1>1, <1>2, PTL DEF Spec

\* A save changes what is shown of one document.
LEMMA SaveShows ==
    ASSUME SeenInv, NEW r \in Reqs, SaveDocument(r)
    PROVE  Service!Next
<1> DEFINE d == Tgt(r)
<1>0. TypeOK /\ Loaded
  BY DEF SeenInv, UInv
<1>1. /\ d \in Docs /\ Op(r) \in DocOps
      /\ docs' \in [Docs -> DocRecord \cup {Absent}] /\ docs'[d] \in DocRecord
      /\ \A e \in Docs \ {d} : docs'[e] = docs[e]
  BY <1>0, SaveEffect
<1>2. StatusShown' = [StatusShown EXCEPT ![d] = docs'[d].status]
  <2>1. docs'[d] # Absent
    BY <1>1, AbsentAssumption
  <2> QED BY <1>1, <2>1 DEF StatusShown
<1>3. CASE Op(r) = "upload"
  <2>1. docs'[d].status = "pending"
    BY <1>0, <1>3, SaveEffect DEF NewDocument
  <2>2. StatusShown[d] = "none"
    BY <1>1, <1>3, SavesNew DEF SeenInv, StatusShown, Stored
  <2>3. Service!Create(d)
    BY <1>2, <2>1, <2>2 DEF Service!Create
  <2> QED BY <1>1, <2>3 DEF Service!Next
<1>4. CASE Op(r) \in {"sign", "reject"}
  <2>1. docs[d] \in DocRecord /\ docs[d] # Absent
    BY <1>0, <1>4, SaveEffect, AbsentAssumption
  <2>2. docs'[d].status \in {"signed", "rejected"}
    <3>1. docs'[d] = Signed(docs[d], r) \/ docs'[d] = Rejected(docs[d], r)
      BY <1>0, <1>4, SaveEffect
    <3> QED BY <2>1, <3>1 DEF Signed, Rejected, DocRecord
  <2>3. StatusShown[d] = docs[d].status /\ docs[d].status \in {"pending", "signed", "rejected"}
    BY <1>1, <2>1 DEF StatusShown, DocRecord
  <2>4. Live => docs[d].status = "pending"
    BY <1>4, SavesPending DEF SeenInv
  <2>5. Service!Decide(d, docs'[d].status)
    BY <1>2, <2>3, <2>4 DEF Service!Decide
  <2> QED BY <1>1, <2>2, <2>5 DEF Service!Next
<1> QED BY <1>1, <1>3, <1>4 DEF DocOps

\* No other step changes anything that is shown.
LEMMA StepShows == SeenInv /\ [Next]_vars => [Service!Next]_StatusShown
<1> SUFFICES ASSUME SeenInv, [Next]_vars, docs' # docs PROVE Service!Next
  BY DEF StatusShown
<1>1. ASSUME NEW r \in Reqs, NEW a \in Arrivals, Arrive(r, a) PROVE FALSE
  BY <1>1 DEF Arrive, mongo
<1>2. Work
  BY <1>1 DEF Next, Work, vars
<1> QED BY <1>2, DocsWritten, SaveShows

\* The API keeps what the pages rely on, in either mode
\* (KYCBackend!ServiceSpec): each document is uploaded and decided one step at
\* a time, and for good when the ledger is live.
THEOREM BackendImplementsService == Spec => ServiceSpec
<1>1. Init => Service!Init
  BY DEF Init, Service!Init, Service!Statuses, StatusShown
<1> QED BY <1>1, SeenInvariant, StepShows, PTL DEF Spec, ServiceSpec, Service!Spec
============================================================================
