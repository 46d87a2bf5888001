----------------------------- MODULE KYCQueries ----------------------------
(***************************************************************************)
(* The contract's read-only functions, as functions of the world state: a  *)
(* range query reads every key and tells documents, credentials and audit  *)
(* entries apart by the fields they have.  All but VerifyCredential are    *)
(* for regulators only, which matters to nobody's state.                   *)
(***************************************************************************)
EXTENDS KYCContract

CONSTANT NoHash     \* the empty file hash, which CreateDocument does not refuse

Written(w, ks) == {k \in ks : w[k] # Absent}

\* Documents are what has a docId and a fileHash, and the test takes an empty
\* hash for none; credentials are what has a credentialId.
GetAllDocuments(w) ==
    {k \in Written(w, Keys) : w[k].kind = "doc" /\ w[k].fileHash # NoHash}
Credentials(w) == {k \in Written(w, Keys) : w[k].kind = "cred"}

Count(w, ks, status) == Cardinality({k \in ks : w[k].status = status})

GetStatistics(w) ==
    [totalDocuments     |-> Cardinality(GetAllDocuments(w)),
     pending            |-> Count(w, GetAllDocuments(w), "pending"),
     signed             |-> Count(w, GetAllDocuments(w), "signed"),
     rejected           |-> Count(w, GetAllDocuments(w), "rejected"),
     totalCredentials   |-> Cardinality(Credentials(w)),
     activeCredentials  |-> Count(w, Credentials(w), "active"),
     revokedCredentials |-> Count(w, Credentials(w), "revoked")]

\* The keys from 'audit_' to 'audit_~'.
GetAuditTrail(w) == Written(w, TxIds)
Entries(w, actions) == {t \in GetAuditTrail(w) : w[t].action \in actions}

\* What is found is parsed as a credential.  A document has no expiry date, and
\* none is never in the past; a credential may have expired by now.
VerifyCredential(w, k) ==
    CASE w[k] = Absent                                -> {"not found"}
      [] w[k] # Absent /\ w[k].status = "revoked"     -> {"revoked"}
      [] w[k] # Absent /\ w[k].status # "revoked"     ->
            IF w[k].kind = "cred" THEN {"expired", "valid"} ELSE {"valid"}

----------------------------------------------------------------------------
\* The regulator's reports agree with the audit trail, whatever was called in
\* whatever order.  Of the documents with a hash as many are reported as were
\* submitted; and as long as nothing was revoked, as many are rejected as were
\* rejected on record, and as many pending as have no decision on record.
ReportsAgree ==
    LET s == GetStatistics(world)
        OnRecord(action) ==
            Cardinality({t \in Entries(world, {action}) :
                            world[world[t].target].fileHash # NoHash})
    IN  /\ s.totalDocuments = OnRecord("DOCUMENT_SUBMITTED")
        /\ Entries(world, {"CREDENTIAL_REVOKED"}) = {} =>
              /\ s.rejected = OnRecord("DOCUMENT_REJECTED")
              /\ s.pending = s.totalDocuments - OnRecord("DOCUMENT_APPROVED")
                                             - OnRecord("DOCUMENT_REJECTED")

(***************************************************************************)
(* What two comments of the contract say and its code does not do.         *)
(***************************************************************************)
\* The counter 'signed' of the statistics, "renamed from approved", counts the
\* documents that were approved.
ApprovedCounted ==
    GetStatistics(world).signed = Count(world, GetAllDocuments(world), "approved")

\* "Verify source document is approved": with an approved source a signer is
\* issued the credential.
ApprovedSuffices ==
    \A x \in Invocation :
        (/\ x.fn = "IssueCredential" /\ CallerRole(x.caller) = "signer"
         /\ world[x.source] # Absent /\ world[x.source].status = "approved")
        => Accepts(world, x)
============================================================================
