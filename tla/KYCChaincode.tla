--------------------------- MODULE KYCChaincode ---------------------------
(***************************************************************************)
(* The transaction functions of the KYC smart contract (kycContract.ts) as *)
(* functions of the ledger's world state.  A function either refuses its   *)
(* invocation (it throws) or computes the value it writes; nothing here is *)
(* a step.  KYCContract makes every accepted invocation one atomic step,   *)
(* FabricLedger runs them the way Fabric does.                             *)
(*                                                                         *)
(* The world state is one map from keys to JSON values.  Documents and     *)
(* credentials share the keys the clients choose (Ids); the audit entry of *)
(* transaction t has the key audit_<t>_<action>, and since a transaction   *)
(* writes at most one audit entry the key is t itself.  Titles, remarks,   *)
(* claims, events and timestamps are left out.                             *)
(***************************************************************************)
EXTENDS Naturals, FiniteSets

CONSTANTS Ids,        \* keys clients choose for documents and credentials
          TxIds,      \* transaction ids
          Callers,    \* client identities, a subset of Identity
          Hashes,     \* file hashes
          Owners,     \* uploader ids
          Absent,     \* the value of a key that was never written
          NoOne       \* an optional field that is not set

MSPs == {"BankAMSP", "BankBMSP", "RegulatorMSP"}
Roles == {"user", "signer", "regulator"}
\* attr: the certificate's 'role' attribute; admin: its subject has OU=admin.
Identity == [msp : MSPs, admin : BOOLEAN, attr : Roles \cup {"none"}]

Keys == Ids \cup TxIds
Decisions == {"approved", "rejected"}

Document == [kind : {"doc"}, status : {"pending", "approved", "rejected", "revoked"},
             fileHash : Hashes, owner : Owners, ownerOrg : MSPs,
             signer : Callers \cup {NoOne}, txId : TxIds \cup {NoOne}]
Credential == [kind : {"cred"}, status : {"active", "revoked"},
               source : Ids, officer : Callers]
\* 'none': an audit entry has no status field until RevokeCredential adds one.
AuditActions == {"DOCUMENT_SUBMITTED", "DOCUMENT_APPROVED", "DOCUMENT_REJECTED",
                 "CREDENTIAL_ISSUED", "CREDENTIAL_REVOKED"}
AuditEntry == [kind : {"audit"}, status : {"none", "revoked"}, action : AuditActions,
               target : Keys, actor : Callers \cup Owners]
Value == Document \cup Credential \cup AuditEntry

ASSUME ChaincodeAssumption ==
    /\ Callers \subseteq Identity
    /\ Ids \cap TxIds = {}
    /\ NoOne \notin Callers /\ NoOne \notin TxIds
    /\ Absent \notin Value

\* What clients submit.  SignDocument's action is any string; "other" stands
\* for every one that is neither 'approved' nor 'rejected'.
Invocation ==
       [fn : {"CreateDocument"}, caller : Callers, key : Ids, fileHash : Hashes, owner : Owners]
  \cup [fn : {"SignDocument"}, caller : Callers, key : Ids, action : Decisions \cup {"other"}]
  \cup [fn : {"IssueCredential"}, caller : Callers, key : Ids, source : Ids]
  \cup [fn : {"RevokeCredential"}, caller : Callers, key : Keys]

\* The role attribute wins; otherwise the MSP and OU=admin decide.
CallerRole(c) ==
    CASE c.attr # "none"                                -> c.attr
      [] c.attr = "none" /\ ~c.admin                    -> "user"
      [] c.attr = "none" /\ c.admin /\ c.msp = "RegulatorMSP" -> "regulator"
      [] OTHER                                          -> "signer"

(***************************************************************************)
(* The guards, in the order in which the functions throw.                  *)
(***************************************************************************)
\* Variant: an existing document is overwritten.
CanCreateAgain(w, x) == TRUE

\* Variant: a document that was decided can be decided again.
CanSignTwice(w, x) ==
    /\ CallerRole(x.caller) = "signer"
    /\ w[x.key] # Absent /\ w[x.key].kind = "doc"
    /\ x.action \in Decisions

CanCreateDocument(w, x) ==
    w[x.key] = Absent

CanSignDocument(w, x) ==
    /\ CallerRole(x.caller) = "signer"
    /\ w[x.key] # Absent
    /\ w[x.key].status = "pending"
    /\ x.action \in Decisions

\* The source document must have the status 'signed', which no function writes.
CanIssueCredential(w, x) ==
    /\ CallerRole(x.caller) = "signer"
    /\ w[x.source] # Absent
    /\ w[x.source].status = "signed"

\* The key is parsed as a credential whatever it holds.
CanRevokeCredential(w, x) ==
    /\ CallerRole(x.caller) = "regulator"
    /\ w[x.key] # Absent

Accepts(w, x) ==
    \/ x.fn = "CreateDocument"   /\ CanCreateDocument(w, x)
    \/ x.fn = "SignDocument"     /\ CanSignDocument(w, x)
    \/ x.fn = "IssueCredential"  /\ CanIssueCredential(w, x)
    \/ x.fn = "RevokeCredential" /\ CanRevokeCredential(w, x)

(***************************************************************************)
(* The read set and the write set of an accepted invocation x run as       *)
(* transaction t: every function reads one key (getState), writes x.key    *)
(* and, through writeAudit, the audit key t.                               *)
(***************************************************************************)
ReadKey(x) == IF x.fn = "IssueCredential" THEN x.source ELSE x.key

NewDocument(x) ==
    [kind |-> "doc", status |-> "pending", fileHash |-> x.fileHash, owner |-> x.owner,
     ownerOrg |-> x.caller.msp, signer |-> NoOne, txId |-> NoOne]

\* Variant: the deciding transaction is not noted.
SignedWithoutTx(doc, x, t) == [doc EXCEPT !.status = x.action, !.signer = x.caller]

Signed(doc, x, t) ==
    [doc EXCEPT !.status = x.action, !.signer = x.caller, !.txId = t]

NewCredential(x) ==
    [kind |-> "cred", status |-> "active", source |-> x.source, officer |-> x.caller]

NewValue(w, x, t) ==
    CASE x.fn = "CreateDocument"   -> NewDocument(x)
      [] x.fn = "SignDocument"     -> Signed(w[x.key], x, t)
      [] x.fn = "IssueCredential"  -> NewCredential(x)
      [] x.fn = "RevokeCredential" -> [w[x.key] EXCEPT !.status = "revoked"]

AuditAction(x) ==
    CASE x.fn = "CreateDocument"   -> "DOCUMENT_SUBMITTED"
      [] x.fn = "SignDocument"     -> IF x.action = "approved" THEN "DOCUMENT_APPROVED"
                                                               ELSE "DOCUMENT_REJECTED"
      [] x.fn = "IssueCredential"  -> "CREDENTIAL_ISSUED"
      [] x.fn = "RevokeCredential" -> "CREDENTIAL_REVOKED"

writeAudit(x) ==
    [kind |-> "audit", status |-> "none", action |-> AuditAction(x), target |-> ReadKey(x),
     actor |-> IF x.fn = "CreateDocument" THEN x.owner ELSE x.caller]
===========================================================================
