---------------------------- MODULE KYCBackend -----------------------------
(***************************************************************************)
(* The Express API between MongoDB, the upload directory and the ledger:   *)
(* documents are uploaded, signed and rejected, certificates revoked and   *)
(* reactivated.  Every request is a process.  Each await that reads or     *)
(* writes shared state ends a step, so requests interleave exactly where   *)
(* the event loop can switch; the state a handler read before an await may *)
(* be stale after it, and no save is conditional on what was read.         *)
(*                                                                         *)
(* FABRIC_MOCK is a constant (Live is its negation).  With Live the        *)
(* ledger orders a submitted transaction some time later and the client    *)
(* may give up waiting before it does.  With Faults any call to MongoDB or *)
(* the ledger can fail and the server can crash.                           *)
(***************************************************************************)
EXTENDS Naturals, FiniteSets

CONSTANTS Docs,      \* document ids (ObjectIds)
          Users,     \* accounts
          RoleOf,    \* RoleOf[u]: the role the account was registered with
          Reqs,      \* request slots; each serves one request, which bounds a run
          Arrivals,  \* the requests clients may send
          Live,      \* FABRIC_MOCK = false
          Faults,    \* calls may fail, the server may crash
          Absent, NoOne

DocOps == {"upload", "sign", "reject"}
CertOps == {"revoke", "reactivate"}
Request == [op : DocOps, user : Users, tgt : Docs] \cup [op : CertOps, user : Users, tgt : Users]

ASSUME BackendAssumption ==
    /\ RoleOf \in [Users -> {"user", "signer", "regulator"}]
    /\ Arrivals \subseteq Request
    /\ Live \in BOOLEAN /\ Faults \in BOOLEAN
    /\ NoOne \notin Users /\ NoOne \notin Reqs
    /\ Docs \cap Users = {}       \* no two ObjectIds are equal

VARIABLES docs,    \* MongoDB: documents
          cert,    \* MongoDB: users' certificateStatus
          audit,   \* MongoDB: audit log, each entry with the request that wrote it
          files,   \* upload directory: the documents whose file is on disk
          chain,   \* the ledger's documents, after KYCContract
          ltx,     \* what became of the transaction a request submitted
          reqs     \* the requests

mongo == <<docs, cert, audit>>
ledger == <<chain, ltx>>
vars == <<docs, cert, audit, files, chain, ltx, reqs>>

\* A transaction id stands for the request that submitted it.
DocRecord == [status : {"pending", "signed", "rejected"}, signedBy : Users \cup {NoOne},
              credential : Users \cup {NoOne},
              fabricTxIdSign : Reqs \cup {NoOne}, fabricTxIdReject : Reqs \cup {NoOne}]
ChainRecord == [status : {"pending", "approved", "rejected"}, txId : Reqs \cup {NoOne}]
AuditRecord == [req : Reqs, op : DocOps \cup CertOps, tgt : Docs \cup Users, user : Users]

ASSUME AbsentAssumption == Absent \notin DocRecord \cup ChainRecord

Idle == [pc |-> "idle", res |-> "none"]
Steps == {"pin", "read", "submit", "wait", "save", "audit"}
Results == {"ok", "badRequest", "denied", "notFound", "conflict", "error", "lost"}
Job == [pc : Steps, arr : Arrivals, res : {"none"}] \cup
       [pc : {"done"}, arr : Arrivals, res : Results]

TypeOK ==
    /\ docs \in [Docs -> DocRecord \cup {Absent}]
    /\ cert \in [Users -> {"active", "revoked"}]
    /\ audit \subseteq AuditRecord
    /\ files \subseteq Docs
    /\ chain \in [Docs -> ChainRecord \cup {Absent}]
    /\ ltx \in [Reqs -> {"none", "ordered", "valid", "invalid"}]
    /\ reqs \in [Reqs -> {Idle} \cup Job]

Init ==
    /\ docs = [d \in Docs |-> Absent]
    /\ cert = [u \in Users |-> "active"]
    /\ audit = {}
    /\ files = {}
    /\ chain = [d \in Docs |-> Absent]
    /\ ltx = [r \in Reqs |-> "none"]
    /\ reqs = [r \in Reqs |-> Idle]

----------------------------------------------------------------------------
At(r, step) == reqs[r].pc = step
Op(r) == reqs[r].arr.op
User(r) == reqs[r].arr.user
Tgt(r) == reqs[r].arr.tgt
Entry(r) == [req |-> r, op |-> Op(r), tgt |-> Tgt(r), user |-> User(r)]
InFlight(r) == reqs[r].pc \in Steps

Goto(r, step) == reqs' = [reqs EXCEPT ![r].pc = step]
Reply(r, res) == reqs' = [reqs EXCEPT ![r].pc = "done", ![r].res = res]

RoleAllowed(a) ==
    CASE a.op = "upload"              -> TRUE
      [] a.op \in {"sign", "reject"}  -> RoleOf[a.user] = "signer"
      [] a.op \in CertOps             -> RoleOf[a.user] = "regulator"

requireAuth(a) == cert[a.user] # "revoked"

\* Variant: the id is derived from the file, so an upload can repeat one.
FreshTargetByHash(a) == TRUE

\* Mongoose gives a document a new id, and multer a file of its own name.
FreshTarget(a) ==
    a.op = "upload" =>
        \A q \in Reqs : reqs[q] # Idle => ~(Op(q) = "upload" /\ Tgt(q) = a.tgt)

\* requireAuth, requireRole and, for an upload, multer, which stores the file
\* before the PIN is looked at.  The certificate is not checked again.
Arrive(r, a) ==
    /\ reqs[r] = Idle
    /\ FreshTarget(a)
    /\ IF requireAuth(a) /\ RoleAllowed(a)
       THEN /\ reqs' = [reqs EXCEPT ![r] =
                          [pc |-> IF a.op \in DocOps THEN "pin" ELSE "read",
                           arr |-> a, res |-> "none"]]
            /\ files' = IF a.op = "upload" THEN files \cup {a.tgt} ELSE files
       ELSE /\ reqs' = [reqs EXCEPT ![r] = [pc |-> "done", arr |-> a, res |-> "denied"]]
            /\ files' = files
    /\ UNCHANGED <<mongo, ledger>>

\* requireActionPin.  A wrong PIN is answered without removing the file.
requireActionPin(r) ==
    /\ At(r, "pin")
    /\ \/ Goto(r, IF Op(r) = "upload" THEN "submit" ELSE "read")
       \/ Reply(r, "denied")
    /\ UNCHANGED <<mongo, files, ledger>>

\* uploadDocument refuses the title or the file's magic bytes.
RefuseUpload(r) ==
    /\ At(r, "submit") /\ Op(r) = "upload"
    /\ files' = files \ {Tgt(r)}
    /\ Reply(r, "badRequest")
    /\ UNCHANGED <<mongo, ledger>>

\* signDocument and rejectDocument load the document, signDocument then the
\* signer's private key, which an old account may not have.
ReadDocument(r) ==
    /\ At(r, "read") /\ Op(r) \in {"sign", "reject"}
    /\ \/ docs[Tgt(r)] = Absent /\ Reply(r, "notFound")
       \/ docs[Tgt(r)] # Absent /\ docs[Tgt(r)].status # "pending" /\ Reply(r, "conflict")
       \/ /\ docs[Tgt(r)] # Absent /\ docs[Tgt(r)].status = "pending"
          /\ Op(r) = "sign" /\ Reply(r, "conflict")
       \/ docs[Tgt(r)] # Absent /\ docs[Tgt(r)].status = "pending" /\ Goto(r, "submit")
    /\ UNCHANGED <<mongo, files, ledger>>

\* revokeCertificate and reactivateCertificate load the target user.
ReadUser(r) ==
    /\ At(r, "read") /\ Op(r) \in CertOps
    /\ LET handled == IF Op(r) = "revoke" THEN "revoked" ELSE "active" IN
         \/ cert[Tgt(r)] = handled /\ Reply(r, "conflict")
         \/ cert[Tgt(r)] # handled /\ Goto(r, "submit")
    /\ UNCHANGED <<mongo, files, ledger>>

----------------------------------------------------------------------------
(* fabric.service.js                                                       *)

\* In mock mode a random transaction id is made up; a reactivation has no
\* chaincode function and gets one in either mode.
SubmitMock(r) ==
    /\ At(r, "submit")
    /\ ~Live \/ Op(r) = "reactivate"
    /\ Goto(r, "save")
    /\ UNCHANGED <<mongo, files, ledger>>

\* Variant: a decision is accepted whatever the document's status.
ChaincodeAcceptsAnyStatus(r) ==
    CASE Op(r) = "upload"             -> chain[Tgt(r)] = Absent
      [] Op(r) \in {"sign", "reject"} -> chain[Tgt(r)] # Absent
      [] Op(r) \in CertOps            -> Tgt(r) \in Docs /\ chain[Tgt(r)] # Absent

\* What the contract accepts now.  A revocation calls RevokeCredential, which
\* accepts any key that was written; the key it is given is the user's id.
ChaincodeAccepts(r) ==
    CASE Op(r) = "upload"             -> chain[Tgt(r)] = Absent
      [] Op(r) \in {"sign", "reject"} -> chain[Tgt(r)] # Absent /\ chain[Tgt(r)].status = "pending"
      [] Op(r) \in CertOps            -> Tgt(r) \in Docs /\ chain[Tgt(r)] # Absent

\* The catch block of uploadDocument removes the file, whatever was saved;
\* that of requireActionPin does not.
FailHandler(r) ==
    /\ files' = IF Op(r) = "upload" /\ ~At(r, "pin") THEN files \ {Tgt(r)} ELSE files
    /\ Reply(r, "error")

SubmitLive(r) ==
    /\ At(r, "submit")
    /\ Live /\ Op(r) # "reactivate"
    /\ \/ /\ ChaincodeAccepts(r)
          /\ ltx' = [ltx EXCEPT ![r] = "ordered"]
          /\ Goto(r, "wait")
          /\ UNCHANGED files
       \/ /\ ~ChaincodeAccepts(r)
          /\ FailHandler(r)
          /\ UNCHANGED ltx
    /\ UNCHANGED <<mongo, chain>>

\* Validation, with or without somebody waiting for it.  An endorsed transaction
\* passes the version check of FabricLedger exactly when the contract would
\* still accept it.
OrderAndValidate(r) ==
    /\ ltx[r] = "ordered"
    /\ IF ChaincodeAccepts(r)
       THEN /\ chain' = [chain EXCEPT ![Tgt(r)] =
                  CASE Op(r) = "upload" -> [status |-> "pending", txId |-> NoOne]
                    [] Op(r) = "sign"   -> [status |-> "approved", txId |-> r]
                    [] Op(r) = "reject" -> [status |-> "rejected", txId |-> r]
                    [] Op(r) = "revoke" -> [chain[Tgt(r)] EXCEPT !.status = "revoked"]]
            /\ ltx' = [ltx EXCEPT ![r] = "valid"]
       ELSE /\ ltx' = [ltx EXCEPT ![r] = "invalid"]
            /\ UNCHANGED chain
    /\ UNCHANGED <<mongo, files, reqs>>

\* Variant: the handler goes on as soon as the transaction is ordered.
CommitEventOnOrder(r) ==
    /\ At(r, "wait")
    /\ Goto(r, "save")
    /\ UNCHANGED <<mongo, files, ledger>>

\* Variant: the validation code in the commit event is not looked at.
CommitEventUnchecked(r) ==
    /\ At(r, "wait")
    /\ ltx[r] # "ordered" /\ Goto(r, "save")
    /\ UNCHANGED <<mongo, files, ledger>>

\* Variant: only valid transactions are notified.
CommitEventValidOnly(r) ==
    /\ At(r, "wait")
    /\ ltx[r] = "valid" /\ Goto(r, "save")
    /\ UNCHANGED <<mongo, files, ledger>>

\* submit() resolves on the commit event, or rejects when validation failed.
CommitEvent(r) ==
    /\ At(r, "wait")
    /\ \/ ltx[r] = "valid" /\ Goto(r, "save") /\ UNCHANGED files
       \/ ltx[r] = "invalid" /\ FailHandler(r)
    /\ UNCHANGED <<mongo, ledger>>

----------------------------------------------------------------------------
(* doc.save() / user.save() and AuditLog.create(): only the modified paths *)
(* are written, and they overwrite whatever is there.                      *)
NewDocument ==
    [status |-> "pending", signedBy |-> NoOne, credential |-> NoOne,
     fabricTxIdSign |-> NoOne, fabricTxIdReject |-> NoOne]

\* A credential stands for its issuer: who signs the canonical JSON, and with
\* whose key the signature verifies.
issueDocumentCredential(signer) == signer
verifyDocumentCredential(credential, publicKey) == credential # NoOne /\ credential = publicKey

Signed(doc, r) ==
    [doc EXCEPT !.status = "signed", !.signedBy = User(r),
                !.credential = issueDocumentCredential(User(r)), !.fabricTxIdSign = r]

\* Variant: rejecting forgets the status.
RejectedForgetful(doc, r) ==
    [doc EXCEPT !.signedBy = User(r), !.fabricTxIdReject = r]

Rejected(doc, r) ==
    [doc EXCEPT !.status = "rejected", !.signedBy = User(r), !.fabricTxIdReject = r]

SaveDocument(r) ==
    /\ At(r, "save")
    /\ \/ Op(r) = "upload" /\ docs' = [docs EXCEPT ![Tgt(r)] = NewDocument]
       \/ Op(r) = "sign"   /\ docs' = [docs EXCEPT ![Tgt(r)] = Signed(@, r)]
       \/ Op(r) = "reject" /\ docs' = [docs EXCEPT ![Tgt(r)] = Rejected(@, r)]
    /\ Goto(r, "audit")
    /\ UNCHANGED <<cert, audit, files, ledger>>

SaveUser(r) ==
    /\ At(r, "save") /\ Op(r) \in CertOps
    /\ cert' = [cert EXCEPT ![Tgt(r)] = IF Op(r) = "revoke" THEN "revoked" ELSE "active"]
    /\ Goto(r, "audit")
    /\ UNCHANGED <<docs, audit, files, ledger>>

\* Variant: one entry per target and action.
WriteAuditOnce(r) ==
    /\ At(r, "audit")
    /\ audit' = IF \E e \in audit : e.op = Op(r) /\ e.tgt = Tgt(r) THEN audit
                ELSE audit \cup {Entry(r)}
    /\ Reply(r, "ok")
    /\ UNCHANGED <<docs, cert, files, ledger>>

WriteAudit(r) ==
    /\ At(r, "audit")
    /\ audit' = audit \cup {Entry(r)}
    /\ Reply(r, "ok")
    /\ UNCHANGED <<docs, cert, files, ledger>>

----------------------------------------------------------------------------
(* Failures.                                                               *)

\* A call to MongoDB or the ledger fails, or the wait for the commit event
\* times out while the transaction is still on its way.  A save that was
\* applied and is answered with an error all the same leaves what a failure at
\* the next step leaves; for the audit entry there is no next step.
CallFails(r) ==
    /\ Faults
    /\ InFlight(r)
    /\ FailHandler(r)
    /\ \/ audit' = audit
       \/ At(r, "audit") /\ audit' = audit \cup {Entry(r)}
    /\ UNCHANGED <<docs, cert, ledger>>

\* The process dies: nobody is answered and no catch block runs.
Crash ==
    /\ Faults
    /\ \E r \in Reqs : InFlight(r)
    /\ reqs' = [r \in Reqs |-> IF InFlight(r)
                               THEN [pc |-> "done", arr |-> reqs[r].arr, res |-> "lost"]
                               ELSE reqs[r]]
    /\ UNCHANGED <<mongo, files, ledger>>

Step(r) ==
    \/ requireActionPin(r) \/ RefuseUpload(r) \/ ReadDocument(r) \/ ReadUser(r)
    \/ SubmitMock(r) \/ SubmitLive(r) \/ CommitEvent(r)
    \/ SaveDocument(r) \/ SaveUser(r) \/ WriteAudit(r)

Next ==
    \/ \E r \in Reqs : \/ \E a \in Arrivals : Arrive(r, a)
                       \/ Step(r)
                       \/ OrderAndValidate(r)
                       \/ CallFails(r)
    \/ Crash

Spec == Init /\ [][Next]_vars

\* A handler whose next step is enabled takes it, and the ordering service
\* delivers what was submitted.
FairSpec == Spec /\ \A r \in Reqs : WF_vars(Step(r)) /\ WF_vars(OrderAndValidate(r))

----------------------------------------------------------------------------
(* The ledger as the contract sees it.  With Live, whatever requests race, *)
(* time out or are lost in a crash, what they do to the ledger is a        *)
(* sequence of transactions the contract allows (KYCContract).             *)

\* The identity under which fabric.service submits for u: enrollUser and
\* setupWallet import cryptogen's administrators, and User1 for customers.
WalletIdentity(u) ==
    CASE RoleOf[u] = "regulator" -> [msp |-> "RegulatorMSP", admin |-> TRUE, attr |-> "none"]
      [] RoleOf[u] = "signer"    -> [msp |-> "BankAMSP", admin |-> TRUE, attr |-> "none"]
      [] RoleOf[u] = "user"      -> [msp |-> "BankAMSP", admin |-> FALSE, attr |-> "none"]

Identities == {WalletIdentity(u) : u \in Users}

\* What request r submits.  A document's file stands for its hash.
Invocation(r) ==
    CASE Op(r) = "upload" -> [fn |-> "CreateDocument", caller |-> WalletIdentity(User(r)),
                              key |-> Tgt(r), fileHash |-> Tgt(r), owner |-> User(r)]
      [] Op(r) = "sign"   -> [fn |-> "SignDocument", caller |-> WalletIdentity(User(r)),
                              key |-> Tgt(r), action |-> "approved"]
      [] Op(r) = "reject" -> [fn |-> "SignDocument", caller |-> WalletIdentity(User(r)),
                              key |-> Tgt(r), action |-> "rejected"]
      [] Op(r) = "revoke" -> [fn |-> "RevokeCredential", caller |-> WalletIdentity(User(r)),
                              key |-> Tgt(r)]

Chaincode == INSTANCE KYCChaincode WITH Ids <- Docs, TxIds <- Reqs, Hashes <- Docs,
                 Owners <- Users, Callers <- Identities

ASSUME LedgerAssumption == Docs \cap Reqs = {} /\ Absent \notin Chaincode!Value

Anchors(r, d) == ltx[r] = "valid" /\ Op(r) = "upload" /\ Tgt(r) = d

Uploader(d) == User(CHOOSE r \in Reqs : Anchors(r, d))

LedgerDocument(d) ==
    [kind |-> "doc", status |-> chain[d].status, fileHash |-> d, owner |-> Uploader(d),
     ownerOrg |-> WalletIdentity(Uploader(d)).msp, txId |-> chain[d].txId,
     signer |-> IF chain[d].txId = NoOne THEN NoOne ELSE WalletIdentity(User(chain[d].txId))]

WorldState ==
    [k \in Docs \cup Reqs |->
       IF k \in Docs THEN IF chain[k] = Absent THEN Absent ELSE LedgerDocument(k)
       ELSE IF ltx[k] = "valid" THEN Chaincode!writeAudit(Invocation(k)) ELSE Absent]

Contract == INSTANCE KYCContract WITH Ids <- Docs, TxIds <- Reqs, Hashes <- Docs,
                Owners <- Users, Callers <- Identities, world <- WorldState
ContractSpec == Contract!Spec

----------------------------------------------------------------------------
(* The documents as the pages see them.                                    *)
StatusShown == [d \in Docs |-> IF docs[d] = Absent THEN "none" ELSE docs[d].status]

\* One document at a time is uploaded once and decided, whatever requests
\* race or fail: none vanishes, comes back or becomes pending again.  A
\* decision stays when a live ledger orders them; in mock mode one that was
\* read as pending may still be saved over another.
Service == INSTANCE DocumentService WITH Decisions <- {"signed", "rejected"}, Final <- Live,
               status <- StatusShown
ServiceSpec == Service!Spec

----------------------------------------------------------------------------
(* The public reads look at MongoDB only: GET /api/verify/:docId, and what *)
(* lets anybody who holds a credential check it alone,                     *)
(* GET /api/pki/:userId/certificate and GET /api/pki/revocation-list.      *)
\* Variant: the credential is not looked at.
verifySigner(d) ==
    LET issuer == docs[d].signedBy
    IN  [status |-> docs[d].status,
         signatureValid |-> issuer # NoOne,
         trustworthy |-> issuer # NoOne /\ cert[issuer] = "active"]

verifyDocument(d) ==
    LET issuer == docs[d].signedBy
        checked == docs[d].credential # NoOne /\ issuer # NoOne
        signatureValid == checked /\ verifyDocumentCredential(docs[d].credential, issuer)
    IN  [status |-> docs[d].status,
         signatureValid |-> signatureValid,
         trustworthy |-> signatureValid /\ cert[issuer] = "active"]

getCertificate(u) == [publicKey |-> u, status |-> cert[u]]

\* Variant: the list holds the certificates that are not revoked.
getActiveList == {u \in Users : cert[u] = "active"}

getRevocationList == {u \in Users : cert[u] = "revoked"}

\* Somebody outside verifies the document's credential with the certificate of
\* the issuer it names, unless that certificate is on the list.
VerifiedOutside(d) ==
    LET credential == docs[d].credential
    IN  /\ credential # NoOne
        /\ verifyDocumentCredential(credential, getCertificate(credential).publicKey)
        /\ credential \notin getRevocationList

----------------------------------------------------------------------------
(* Properties.                                                             *)
Stored(d) == docs[d] # Absent
Quiet == \A r \in Reqs : ~InFlight(r)
Failed(r) == reqs[r].res \in {"error", "lost"}
DecidedBy(d) == IF docs[d].status = "signed" THEN docs[d].fabricTxIdSign
                                             ELSE docs[d].fabricTxIdReject

\* With a live ledger MongoDB never runs ahead of it or contradicts it: a
\* document it shows as decided was decided so on the ledger, by the very
\* transaction MongoDB names.
LedgerLeads ==
    \A d \in Docs : Stored(d) =>
        /\ chain[d] # Absent
        /\ docs[d].status = "signed" =>
             chain[d] = [status |-> "approved", txId |-> docs[d].fabricTxIdSign]
        /\ docs[d].status = "rejected" =>
             chain[d] = [status |-> "rejected", txId |-> docs[d].fabricTxIdReject]

\* A credential exists exactly for a signed document, and whoever is recorded
\* as the signer issued it.
CredentialMatches ==
    \A d \in Docs : Stored(d) =>
        /\ docs[d].status = "signed" => docs[d].credential = docs[d].signedBy
        /\ docs[d].status # "signed" => docs[d].credential = NoOne

\* A signed document always carries the credential of its recorded signer,
\* whatever else happened to it.
SignedHasCredential ==
    \A d \in Docs : Stored(d) /\ docs[d].status = "signed" =>
        /\ docs[d].credential = docs[d].signedBy
        /\ docs[d].signedBy # NoOne
        /\ User(docs[d].fabricTxIdSign) = docs[d].signedBy

\* With a live ledger a document the public is told to trust was approved
\* there, by a transaction of the very signer whose credential it carries; and
\* whoever checks that credential without the API comes to the same verdict.
VerifiedIsApproved ==
    \A d \in Docs : Stored(d) =>
        /\ verifyDocument(d).trustworthy =>
             /\ chain[d].status = "approved"
             /\ User(chain[d].txId) = docs[d].signedBy
        /\ VerifiedOutside(d) <=> verifyDocument(d).trustworthy

\* An upload that was answered with success keeps its record, its file and its
\* audit entry: no other request, and no catch block, takes one of them away.
UploadKept ==
    \A r \in Reqs : At(r, "done") /\ reqs[r].res = "ok" /\ Op(r) = "upload" =>
        Stored(Tgt(r)) /\ Tgt(r) \in files /\ Entry(r) \in audit

\* One document is signed or rejected successfully at most once.
DecidedOnce ==
    \A r1, r2 \in Reqs :
        /\ reqs[r1].pc = "done" /\ reqs[r1].res = "ok" /\ Op(r1) \in {"sign", "reject"}
        /\ reqs[r2].pc = "done" /\ reqs[r2].res = "ok" /\ Op(r2) \in {"sign", "reject"}
        /\ Tgt(r1) = Tgt(r2)
        => r1 = r2

\* What a request was told has happened has happened for good: in MongoDB, on
\* the ledger and in the audit log.
AnswerHolds ==
    \A r \in Reqs : reqs[r].pc = "done" /\ reqs[r].res = "ok" /\ Op(r) \in DocOps =>
        /\ Stored(Tgt(r))
        /\ Entry(r) \in audit
        /\ Op(r) = "sign" => /\ docs[Tgt(r)].status = "signed"
                             /\ docs[Tgt(r)].fabricTxIdSign = r
                             /\ chain[Tgt(r)].status = "approved"
        /\ Op(r) = "reject" => /\ docs[Tgt(r)].status = "rejected"
                               /\ docs[Tgt(r)].fabricTxIdReject = r
                               /\ chain[Tgt(r)].status = "rejected"

\* With a live ledger a decision shown to the users is never changed.
StatusFinal ==
    [][\A d \in Docs : Stored(d) /\ docs[d].status # "pending" => docs'[d] = docs[d]]_docs

\* In either mode a document that was handled never becomes pending again.
NeverReopened ==
    [][\A d \in Docs : Stored(d) /\ docs[d].status # "pending" =>
         docs'[d].status # "pending"]_docs

\* Once the requests have been answered the audit log accounts for every
\* decision shown and names who made it, unless the request that made it
\* failed after its save; the same for revoked certificates.
AuditExplains ==
    Quiet =>
      /\ \A d \in Docs : Stored(d) /\ docs[d].status # "pending" =>
           LET r == DecidedBy(d) IN
             Failed(r) \/ [req |-> r, op |-> Op(r), tgt |-> d, user |-> docs[d].signedBy] \in audit
      /\ \A u \in Users : cert[u] = "revoked" =>
           \E r \in Reqs : /\ reqs[r] # Idle /\ Op(r) = "revoke" /\ Tgt(r) = u
                          /\ \/ Failed(r)
                             \/ \E e \in audit : e.req = r /\ e.tgt = u /\ e.op = "revoke"

\* Every request is answered.
Answered == \A r \in Reqs : InFlight(r) ~> At(r, "done")

\* A decision on the ledger reaches MongoDB, unless the request that made it
\* was told that it failed.
DecisionReachesMongo ==
    \A d \in Docs, r \in Reqs :
        (chain[d] # Absent /\ chain[d].txId = r) ~>
            Failed(r) \/ (Stored(d) /\ docs[d].status # "pending" /\ DecidedBy(d) = r)

(***************************************************************************)
(* What the routes and comments say and the code does not do.              *)
(***************************************************************************)
\* POST /regulator/certificates/:userId/revoke is "CA + on-chain": unless a
\* call fails or the server dies, a revocation is not answered with an error.
RevocationTakesEffect ==
    ~Faults => \A r \in Reqs : At(r, "done") /\ Op(r) = "revoke" => reqs[r].res # "error"

\* GET /documents/:docId/file serves the file "so a signer can review it before
\* signing/denying": a document that waits for its signer has its file.
PendingHasFile == \A d \in Docs : Stored(d) /\ docs[d].status = "pending" => d \in files

\* DecidedOnce above is what "409: Document already handled" says of both
\* decisions; with FABRIC_MOCK=true the check alone does not keep it.
============================================================================
