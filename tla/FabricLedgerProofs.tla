------------------------- MODULE FabricLedgerProofs ------------------------
(***************************************************************************)
(* The smart contract and the ledger that runs it, for every set of keys,  *)
(* transactions and identities: what the chaincode's functions look at and *)
(* write, the contract's safety, the regulator's reports, and that the     *)
(* ledger implements the contract.                                         *)
(***************************************************************************)
EXTENDS FabricLedger, KYCQueries, FiniteSetTheorems, TLAPS

----------------------------------------------------------------------------
(* The chaincode's functions.                                              *)

\* A function of the chaincode looks at one key: two world states that agree
\* on it accept the same invocations and have the same value written.
LEMMA Locality ==
    ASSUME NEW w1, NEW w2, NEW x \in Invocation, NEW t \in TxIds,
           w1[ReadKey(x)] = w2[ReadKey(x)]
    PROVE  /\ Accepts(w1, x) <=> Accepts(w2, x)
           /\ NewValue(w1, x, t) = NewValue(w2, x, t)
<1>1. Accepts(w1, x) <=> Accepts(w2, x)
  BY DEF Accepts, ReadKey, Invocation, CanCreateDocument, CanSignDocument,
         CanIssueCredential, CanRevokeCredential
<1>2. NewValue(w1, x, t) = NewValue(w2, x, t)
  BY DEF NewValue, ReadKey, Invocation, Signed
<1> QED BY <1>1, <1>2

\* Invocations name keys of the ledger.
LEMMA InvocationKeys ==
    ASSUME NEW x \in Invocation
    PROVE  x.key \in Keys /\ ReadKey(x) \in Keys
  BY DEF Invocation, ReadKey, Keys

\* What an accepted invocation writes is a document, a credential or, when
\* an audit entry is revoked, that entry; and what writeAudit writes is an
\* audit entry.
LEMMA ValueTypes ==
    ASSUME NEW w \in [Keys -> Value \cup {Absent}], NEW x \in Invocation, NEW t \in TxIds,
           Accepts(w, x)
    PROVE  NewValue(w, x, t) \in Value /\ writeAudit(x) \in Value
<1>1. CASE x.fn = "CreateDocument"
  <2>1. NewDocument(x) \in Document
    BY <1>1, ChaincodeAssumption DEF NewDocument, Document, Invocation, Identity
  <2>2. writeAudit(x) \in AuditEntry
    BY <1>1 DEF writeAudit, AuditAction, AuditActions, ReadKey, AuditEntry, Invocation, Keys
  <2> QED BY <1>1, <2>1, <2>2 DEF NewValue, Value
<1>2. CASE x.fn = "SignDocument"
  <2>1. x.action \in Decisions /\ x.caller \in Callers /\ x.key \in Ids
    BY <1>2 DEF Accepts, CanSignDocument, Invocation
  <2>2. w[x.key] \in Document
    BY <1>2, <2>1 DEF Accepts, CanSignDocument, Value, Credential, AuditEntry, Keys
  <2>3. Signed(w[x.key], x, t) \in Document
    BY <2>1, <2>2 DEF Signed, Document, Decisions
  <2>4. writeAudit(x) \in AuditEntry
    BY <1>2, <2>1 DEF writeAudit, AuditAction, AuditActions, ReadKey, AuditEntry, Keys
  <2> QED BY <1>2, <2>3, <2>4 DEF NewValue, Value
<1>3. CASE x.fn = "IssueCredential"
  <2>1. NewCredential(x) \in Credential
    BY <1>3 DEF NewCredential, Credential, Invocation
  <2>2. writeAudit(x) \in AuditEntry
    BY <1>3 DEF writeAudit, AuditAction, AuditActions, ReadKey, AuditEntry, Invocation, Keys
  <2> QED BY <1>3, <2>1, <2>2 DEF NewValue, Value
<1>4. CASE x.fn = "RevokeCredential"
  <2>1. w[x.key] \in Value
    BY <1>4, InvocationKeys DEF Accepts, CanRevokeCredential
  <2>2. [w[x.key] EXCEPT !.status = "revoked"] \in Value
    BY <2>1 DEF Value, Document, Credential, AuditEntry
  <2>3. writeAudit(x) \in AuditEntry
    BY <1>4 DEF writeAudit, AuditAction, AuditActions, ReadKey, AuditEntry, Invocation, Keys
  <2> QED BY <1>4, <2>2, <2>3 DEF NewValue, Value
<1> QED BY <1>1, <1>2, <1>3, <1>4 DEF Invocation

\* No value has the status IssueCredential asks for.
LEMMA NeverIssued ==
    ASSUME NEW w \in [Keys -> Value \cup {Absent}], NEW x \in Invocation, Accepts(w, x)
    PROVE  x.fn # "IssueCredential"
<1> SUFFICES ASSUME x.fn = "IssueCredential" PROVE FALSE
  OBVIOUS
<1>1. w[x.source] # Absent /\ w[x.source].status = "signed" /\ x.source \in Keys
  BY DEF Accepts, CanIssueCredential, Invocation, Keys
<1> QED BY <1>1 DEF Value, Document, Credential, AuditEntry

----------------------------------------------------------------------------
(* The contract's safety.  Inductive invariant: the world state is typed,  *)
(* audit entries live under transaction ids and documents under chosen     *)
(* ids, a recorded decision belongs to a document that names it            *)
(* (DecisionOwned), and documents agree with the audit trail               *)
(* (StatusMatchesAudit).                                                   *)

WorldTyped ==
    /\ world \in [Keys -> Value \cup {Absent}]
    /\ \A k \in Ids : world[k] # Absent => world[k] \in Document
    /\ \A t \in TxIds : world[t] # Absent => world[t] \in AuditEntry

DecisionOwned ==
    \A t \in TxIds, k \in Ids :
        IsAudit(t, DecisionActions, k) => IsDocument(k) /\ world[k].txId = t

CInv == WorldTyped /\ DecisionOwned /\ StatusMatchesAudit

\* Nothing has happened yet.
LEMMA InitCInv == Init => CInv
  BY DEF Init, CInv, WorldTyped, DecisionOwned, StatusMatchesAudit, IsDocument, IsAudit, Keys

\* What an invocation changes: x.key and the new audit entry, nothing else.
LEMMA InvokeEffect ==
    ASSUME CInv, NEW t \in TxIds, NEW x \in Invocation, Invoke(t, x)
    PROVE  /\ world'[t] = writeAudit(x) /\ writeAudit(x) \in AuditEntry
           /\ x.key # t
           /\ world'[x.key] = NewValue(world, x, t)
           /\ \A k \in Keys : k # t /\ k # x.key => world'[k] = world[k]
           /\ world' \in [Keys -> Value \cup {Absent}]
<1>1. world \in [Keys -> Value \cup {Absent}] /\ x.key \in Keys /\ t \in Keys
  BY InvocationKeys DEF CInv, WorldTyped, Keys
<1>2. x.key # t
  <2>1. CASE x.fn = "RevokeCredential"
    BY <2>1 DEF Invoke, Accepts, CanRevokeCredential
  <2>2. CASE x.fn # "RevokeCredential"
    BY <2>2, ChaincodeAssumption DEF Invocation
  <2> QED BY <2>1, <2>2
<1>3. NewValue(world, x, t) \in Value /\ writeAudit(x) \in Value
  BY <1>1, ValueTypes DEF Invoke
<1>4. writeAudit(x) \in AuditEntry
  BY <1>3 DEF writeAudit, Value, Document, Credential
<1> QED BY <1>1, <1>2, <1>3, <1>4 DEF Invoke

\* The document a chosen id holds after an accepted invocation of its key.
LEMMA DocumentAfter ==
    ASSUME CInv, NEW t \in TxIds, NEW x \in Invocation, Invoke(t, x), x.key \in Ids
    PROVE  /\ world'[x.key] \in Document
           /\ x.fn = "CreateDocument" => /\ world[x.key] = Absent
                                        /\ world'[x.key].status = "pending"
                                        /\ world'[x.key].txId = NoOne
           /\ x.fn = "SignDocument" => /\ IsDocument(x.key)
                                      /\ world[x.key].status = "pending"
                                      /\ x.action \in Decisions
                                      /\ world'[x.key] = [world[x.key] EXCEPT
                                             !.status = x.action, !.signer = x.caller, !.txId = t]
           /\ x.fn = "RevokeCredential" => /\ IsDocument(x.key)
                                          /\ world'[x.key] = [world[x.key] EXCEPT
                                                                !.status = "revoked"]
<1>1. world'[x.key] = NewValue(world, x, t) /\ world'[x.key] \in Value /\ Accepts(world, x)
  BY InvokeEffect, InvocationKeys, ValueTypes DEF Invoke, CInv, WorldTyped
<1>2. x.fn # "IssueCredential"
  BY <1>1, NeverIssued DEF CInv, WorldTyped
<1>3. CASE x.fn = "CreateDocument"
  <2>1. world'[x.key] = NewDocument(x)
    BY <1>1, <1>3 DEF NewValue
  <2> QED BY <1>1, <1>3, <2>1 DEF NewDocument, Value, Credential, AuditEntry, Accepts,
                                  CanCreateDocument
<1>4. CASE x.fn = "SignDocument"
  <2>1. /\ world'[x.key] = Signed(world[x.key], x, t)
        /\ world[x.key] \in Document /\ world[x.key] # Absent
        /\ world[x.key].status = "pending" /\ x.action \in Decisions
    BY <1>1, <1>4 DEF NewValue, Accepts, CanSignDocument, CInv, WorldTyped
  <2> QED BY <1>1, <1>4, <2>1 DEF Signed, Document, Value, Credential, AuditEntry, IsDocument
<1>5. CASE x.fn = "RevokeCredential"
  <2>1. /\ world'[x.key] = [world[x.key] EXCEPT !.status = "revoked"]
        /\ world[x.key] \in Document /\ world[x.key] # Absent
    BY <1>1, <1>5 DEF NewValue, Accepts, CanRevokeCredential, CInv, WorldTyped
  <2> QED BY <1>1, <1>5, <2>1 DEF Document, Value, Credential, AuditEntry, IsDocument
<1> QED BY <1>2, <1>3, <1>4, <1>5 DEF Invocation

\* Audit entries keep what they record: at most their status changes.
LEMMA AuditAfter ==
    ASSUME CInv, NEW t \in TxIds, NEW x \in Invocation, Invoke(t, x),
           NEW s \in TxIds, s # t, NEW acts, NEW k
    PROVE  /\ world'[s] # Absent => world'[s] \in AuditEntry
           /\ IsAudit(s, acts, k)' <=> IsAudit(s, acts, k)
           /\ world'[s].actor = world[s].actor \/ world[s] = Absent
<1>1. s \in Keys
  BY DEF Keys
<1>2. CASE s # x.key
  BY <1>1, <1>2, InvokeEffect DEF IsAudit, CInv, WorldTyped
<1>3. CASE s = x.key
  <2>1. x.fn = "RevokeCredential" /\ world[s] # Absent /\ world[s] \in AuditEntry
    BY <1>3, ChaincodeAssumption DEF Invoke, Accepts, CanRevokeCredential, Invocation, CInv,
                                     WorldTyped
  <2>2. world'[s] = [world[s] EXCEPT !.status = "revoked"]
    BY <1>3, <2>1, InvokeEffect DEF NewValue
  <2>3. world'[s] \in AuditEntry /\ world'[s].action = world[s].action
        /\ world'[s].target = world[s].target /\ world'[s].actor = world[s].actor
    BY <2>1, <2>2 DEF AuditEntry
  <2>4. world'[s] # Absent
    BY <2>3, ChaincodeAssumption DEF Value
  <2> QED BY <2>1, <2>3, <2>4 DEF IsAudit
<1> QED BY <1>2, <1>3

----------------------------------------------------------------------------
\* CInv is inductive.
LEMMA NextCInv == CInv /\ [Next]_world => CInv'
<1> SUFFICES ASSUME CInv, [Next]_world PROVE CInv'
  OBVIOUS
<1>1. CASE UNCHANGED world
  BY <1>1 DEF CInv, WorldTyped, DecisionOwned, StatusMatchesAudit, IsDocument, IsAudit
<1>2. ASSUME NEW t \in TxIds, NEW x \in Invocation, Invoke(t, x)
      PROVE  CInv'
  <2> USE <1>2
  <2>e. /\ world'[t] = writeAudit(x) /\ writeAudit(x) \in AuditEntry /\ x.key # t
        /\ \A k \in Keys : k # t /\ k # x.key => world'[k] = world[k]
        /\ world' \in [Keys -> Value \cup {Absent}]
        /\ world[t] = Absent /\ x.key \in Keys
    BY InvokeEffect, InvocationKeys DEF Invoke
  <2>i. Ids \cap TxIds = {} /\ NoOne \notin TxIds /\ Absent \notin Value
    BY ChaincodeAssumption
  <2>f. x.fn \in {"CreateDocument", "SignDocument", "RevokeCredential"}
    BY NeverIssued DEF Invocation, Invoke, CInv, WorldTyped
  <2>a. writeAudit(x).action \in DecisionActions <=> x.fn = "SignDocument"
    BY <2>f DEF writeAudit, AuditAction, DecisionActions
  <2>g. writeAudit(x).target = x.key
    BY <2>f DEF writeAudit, ReadKey
  <2>1. WorldTyped'
    <3>1. ASSUME NEW k \in Ids, world'[k] # Absent PROVE world'[k] \in Document
      <4>1. CASE k = x.key
        BY <4>1, DocumentAfter
      <4>2. CASE k # x.key
        BY <2>e, <2>i, <3>1, <4>2 DEF CInv, WorldTyped, Keys
      <4> QED BY <4>1, <4>2
    <3>2. ASSUME NEW s \in TxIds, world'[s] # Absent PROVE world'[s] \in AuditEntry
      <4>1. CASE s = t
        BY <4>1, <2>e
      <4>2. CASE s # t
        BY <3>2, <4>2, AuditAfter
      <4> QED BY <4>1, <4>2
    <3> QED BY <2>e, <3>1, <3>2 DEF WorldTyped
  <2>2. ASSUME NEW s \in TxIds, NEW k \in Ids, IsAudit(s, DecisionActions, k)'
        PROVE  IsDocument(k)' /\ world'[k].txId = s
    <3>1. CASE s = t
      <4>1. x.fn = "SignDocument" /\ x.key = k
        BY <2>2, <2>a, <2>g, <2>e, <3>1 DEF IsAudit
      <4>2. /\ world[k] \in Document
            /\ world'[k] = [world[k] EXCEPT !.status = x.action, !.signer = x.caller, !.txId = t]
            /\ world'[k] \in Document
        BY <4>1, DocumentAfter DEF IsDocument, CInv, WorldTyped
      <4>3. world'[k].txId = t
        BY <4>2 DEF Document
      <4> QED BY <3>1, <4>2, <4>3, <2>i DEF IsDocument, Value, Document
    <3>2. CASE s # t
      <4>1. IsDocument(k) /\ world[k].txId = s /\ world[k] \in Document
        BY <2>2, <3>2, AuditAfter DEF CInv, DecisionOwned, WorldTyped, IsDocument
      <4>2. CASE k # x.key
        BY <4>1, <4>2, <2>e, <2>i DEF IsDocument, Keys
      <4>3. CASE k = x.key
        <5>1. x.fn # "CreateDocument"
          BY <4>1, <4>3, DocumentAfter DEF IsDocument
        <5>2. x.fn # "SignDocument"
          BY <4>1, <4>3, <2>i, DocumentAfter DEF CInv, StatusMatchesAudit
        <5>3. world'[k] = [world[k] EXCEPT !.status = "revoked"]
          BY <4>3, <5>1, <5>2, <2>f, DocumentAfter
        <5> QED BY <4>1, <5>3, <2>i DEF IsDocument, Document, Value
      <4> QED BY <4>2, <4>3
    <3> QED BY <3>1, <3>2
  <2>3. DecisionOwned'
    BY <2>2 DEF DecisionOwned
  <2> DEFINE Agrees(k) ==
        LET d == world[k] IN
          /\ d.txId = NoOne => \A s \in TxIds : ~IsAudit(s, DecisionActions, k)
          /\ d.txId # NoOne => /\ IsAudit(d.txId, DecisionActions, k)
                               /\ world[d.txId].actor = d.signer
          /\ d.status = "pending" => d.txId = NoOne
          /\ d.status = "approved" => /\ d.txId # NoOne
                                      /\ IsAudit(d.txId, {"DOCUMENT_APPROVED"}, k)
          /\ d.status = "rejected" => /\ d.txId # NoOne
                                      /\ IsAudit(d.txId, {"DOCUMENT_REJECTED"}, k)
  <2>4. ASSUME NEW k \in Ids, IsDocument(k), world'[k].txId = world[k].txId,
               world'[k].signer = world[k].signer,
               world'[k].status \in {world[k].status, "revoked"},
               x.fn = "SignDocument" => x.key # k
        PROVE  Agrees(k)'
    <3>1. Agrees(k) /\ world[k] \in Document
      BY <2>4 DEF CInv, StatusMatchesAudit, WorldTyped, IsDocument
    <3>2. ~IsAudit(t, DecisionActions, k)' /\ ~IsAudit(t, DecisionActions, k)
      BY <2>4, <2>a, <2>g, <2>e DEF IsAudit
    <3>3. ASSUME NEW s \in TxIds
          PROVE  IsAudit(s, DecisionActions, k)' <=> IsAudit(s, DecisionActions, k)
      BY <3>2, AuditAfter
    <3>4. CASE world[k].txId = NoOne
      <4>1. \A s \in TxIds : ~IsAudit(s, DecisionActions, k)'
        BY <3>1, <3>3, <3>4
      <4>2. world[k].status \notin {"approved", "rejected"}
        BY <3>1, <3>4
      <4> QED BY <2>4, <3>4, <4>1, <4>2
    <3>5. CASE world[k].txId # NoOne
      <4>0. PICK s \in TxIds : s = world[k].txId
        BY <3>1, <3>5 DEF Document
      <4>1. IsAudit(s, DecisionActions, k)
        BY <3>1, <3>5, <4>0
      <4>2. s # t
        BY <3>2, <4>1
      <4>3. /\ IsAudit(s, DecisionActions, k)'
            /\ IsAudit(s, {"DOCUMENT_APPROVED"}, k)' <=> IsAudit(s, {"DOCUMENT_APPROVED"}, k)
            /\ IsAudit(s, {"DOCUMENT_REJECTED"}, k)' <=> IsAudit(s, {"DOCUMENT_REJECTED"}, k)
        BY <4>1, <4>2, AuditAfter
      <4>4. world'[s].actor = world[s].actor
        <5>1. world[s] # Absent
          BY <4>1 DEF IsAudit
        <5> QED BY <4>1, <4>2, <5>1, AuditAfter
      <4> QED BY <2>4, <3>1, <3>5, <4>0, <4>3, <4>4
    <3> QED BY <3>4, <3>5
  <2>5. ASSUME NEW k \in Ids, IsDocument(k)'
        PROVE  Agrees(k)'
    <3>1. CASE k # x.key
      <4>1. world'[k] = world[k]
        BY <3>1, <2>e, <2>i DEF Keys
      <4> QED BY <2>4, <2>5, <3>1, <4>1 DEF IsDocument
    <3>2. CASE k = x.key /\ x.fn = "CreateDocument"
      <4>1. world[k] = Absent /\ world'[k].status = "pending" /\ world'[k].txId = NoOne
        BY <3>2, DocumentAfter
      <4>2. ASSUME NEW s \in TxIds PROVE ~IsAudit(s, DecisionActions, k)'
        <5>1. CASE s = t
          BY <3>2, <5>1, <2>a, <2>e DEF IsAudit
        <5>2. CASE s # t
          BY <4>1, <5>2, AuditAfter DEF CInv, DecisionOwned, IsDocument
        <5> QED BY <5>1, <5>2
      <4> QED BY <4>1, <4>2
    <3>3. CASE k = x.key /\ x.fn = "SignDocument"
      <4>1. /\ world[k] \in Document /\ x.action \in Decisions
            /\ world'[k] = [world[k] EXCEPT !.status = x.action, !.signer = x.caller,
                                            !.txId = t]
        BY <3>3, DocumentAfter DEF IsDocument, CInv, WorldTyped
      <4>2. world'[k].status = x.action /\ world'[k].signer = x.caller /\ world'[k].txId = t
        BY <4>1 DEF Document
      <4>3. /\ world'[t] # Absent /\ world'[t].target = k /\ world'[t].actor = x.caller
            /\ world'[t].action = IF x.action = "approved" THEN "DOCUMENT_APPROVED"
                                                          ELSE "DOCUMENT_REJECTED"
        BY <3>3, <2>e, <2>g, <2>i DEF writeAudit, AuditAction, Value
      <4> QED BY <4>1, <4>2, <4>3, <2>i DEF IsAudit, DecisionActions, Decisions
    <3>4. CASE k = x.key /\ x.fn = "RevokeCredential"
      <4>1. /\ IsDocument(k) /\ world[k] \in Document
            /\ world'[k] = [world[k] EXCEPT !.status = "revoked"]
        BY <3>4, DocumentAfter DEF IsDocument, CInv, WorldTyped
      <4>2. /\ world'[k].txId = world[k].txId /\ world'[k].signer = world[k].signer
            /\ world'[k].status = "revoked"
        BY <4>1 DEF Document
      <4> QED BY <2>4, <3>4, <4>1, <4>2
    <3> QED BY <2>f, <3>1, <3>2, <3>3, <3>4
  <2>6. StatusMatchesAudit'
    BY <2>5 DEF StatusMatchesAudit
  <2> QED BY <2>1, <2>3, <2>6 DEF CInv
<1> QED BY <1>1, <1>2 DEF Next

\* Documents and the audit trail agree at all times (StatusMatchesAudit).
THEOREM AuditTrailAgrees == Spec => []StatusMatchesAudit
BY InitCInv, NextCInv, PTL DEF Spec, CInv

\* No document has two recorded decisions (OneDecision): both entries would
\* be the one the document names.
THEOREM DecidedAtMostOnce == Spec => []OneDecision
<1>1. CInv => OneDecision
  BY DEF CInv, DecisionOwned, OneDecision
<1> QED BY <1>1, InitCInv, NextCInv, PTL DEF Spec

\* A decision is final (DecisionFinal) and the anchored hash stays
\* (HashAnchored).
LEMMA StepFinal ==
    ASSUME CInv, [Next]_world, NEW k \in Ids, IsDocument(k)
    PROVE  /\ IsDocument(k)'
           /\ world'[k].fileHash = world[k].fileHash
           /\ world'[k].owner = world[k].owner
           /\ world[k].status # "pending" =>
                 /\ world'[k].status \in {world[k].status, "revoked"}
                 /\ world'[k].signer = world[k].signer
                 /\ world'[k].txId = world[k].txId
<1>d. world[k] \in Document /\ Absent \notin Value
  BY ChaincodeAssumption DEF CInv, WorldTyped, IsDocument
<1>1. CASE UNCHANGED world
  BY <1>1 DEF IsDocument
<1>2. ASSUME NEW t \in TxIds, NEW x \in Invocation, Invoke(t, x)
      PROVE  /\ IsDocument(k)'
             /\ world'[k].fileHash = world[k].fileHash
             /\ world'[k].owner = world[k].owner
             /\ world[k].status # "pending" =>
                   /\ world'[k].status \in {world[k].status, "revoked"}
                   /\ world'[k].signer = world[k].signer
                   /\ world'[k].txId = world[k].txId
  <2>1. CASE k # x.key
    BY <1>2, <2>1, InvokeEffect, ChaincodeAssumption DEF IsDocument, Keys
  <2>2. CASE k = x.key
    <3>1. x.fn \in {"CreateDocument", "SignDocument", "RevokeCredential"}
      BY <1>2, NeverIssued DEF Invocation, Invoke, CInv, WorldTyped
    <3>2. x.fn # "CreateDocument"
      BY <1>2, <2>2, DocumentAfter DEF IsDocument
    <3>3. CASE x.fn = "SignDocument"
      <4>1. /\ world[k].status = "pending" /\ x.action \in Decisions
            /\ world'[k] = [world[k] EXCEPT !.status = x.action, !.signer = x.caller,
                                            !.txId = t]
            /\ world'[k] \in Document
        BY <1>2, <2>2, <3>3, DocumentAfter
      <4> QED BY <4>1, <1>d DEF IsDocument, Document, Value
    <3>4. CASE x.fn = "RevokeCredential"
      <4>1. /\ world'[k] = [world[k] EXCEPT !.status = "revoked"]
            /\ world'[k] \in Document
        BY <1>2, <2>2, <3>4, DocumentAfter
      <4> QED BY <4>1, <1>d DEF IsDocument, Document, Value
    <3> QED BY <3>1, <3>2, <3>3, <3>4
  <2> QED BY <2>1, <2>2
<1> QED BY <1>1, <1>2 DEF Next

\* What a signer decided is never reopened, reversed or reattributed.
THEOREM DecisionsAreFinal == Spec => DecisionFinal
<1> DEFINE Final == \A k \in Ids : IsDocument(k) /\ world[k].status # "pending" =>
                      /\ world'[k].status \in {world[k].status, "revoked"}
                      /\ world'[k].signer = world[k].signer
                      /\ world'[k].txId = world[k].txId
<1>1. CInv /\ [Next]_world => [Final]_world
  BY StepFinal
<1> QED BY <1>1, InitCInv, NextCInv, PTL DEF Spec, DecisionFinal

\* The hash and the owner of a document stay what CreateDocument recorded.
THEOREM HashesAreAnchored == Spec => HashAnchored
<1> DEFINE Kept == \A k \in Ids : IsDocument(k) =>
                     /\ IsDocument(k)'
                     /\ world'[k].fileHash = world[k].fileHash
                     /\ world'[k].owner = world[k].owner
<1>1. CInv /\ [Next]_world => [Kept]_world
  BY StepFinal
<1> QED BY <1>1, InitCInv, NextCInv, PTL DEF Spec, HashAnchored

----------------------------------------------------------------------------
(* The regulator's reports.  Counting needs a bijection between what is    *)
(* counted and the entries it is compared with: every document has exactly *)
(* one entry for its submission, every approved one has its decision's,    *)
(* and no entry is about anything else.                                    *)

WorldFinite == IsFiniteSet(Written(world, Keys))

\* An entry that is not about a revocation is about a document.
EntriesTargeted ==
    \A t \in TxIds : world[t] # Absent /\ world[t].action # "CREDENTIAL_REVOKED" =>
        world[t].target \in Ids /\ IsDocument(world[t].target)

SubmittedOnce ==
    \A k \in Ids : IsDocument(k) =>
        \E t \in TxIds : /\ IsAudit(t, {"DOCUMENT_SUBMITTED"}, k)
                         /\ \A s \in TxIds : IsAudit(s, {"DOCUMENT_SUBMITTED"}, k) => s = t

RevokedOnRecord ==
    \A k \in Ids : IsDocument(k) /\ world[k].status = "revoked" =>
        \E t \in TxIds : IsAudit(t, {"CREDENTIAL_REVOKED"}, k)

QInv == CInv /\ WorldFinite /\ EntriesTargeted /\ SubmittedOnce /\ RevokedOnRecord

\* Nothing has happened yet.
LEMMA InitQInv == Init => QInv
<1> SUFFICES ASSUME Init PROVE QInv
  OBVIOUS
<1>1. Written(world, Keys) = {}
  BY DEF Init, Written
<1>2. \A k \in Keys : world[k] = Absent
  BY DEF Init
<1> QED BY <1>1, <1>2, InitCInv, FS_EmptySet DEF QInv, WorldFinite, EntriesTargeted, SubmittedOnce,
           RevokedOnRecord, IsDocument, Keys

\* What an invocation leaves of the documents and of the new entry.
LEMMA InvokeRecords ==
    ASSUME CInv, NEW t \in TxIds, NEW x \in Invocation, Invoke(t, x)
    PROVE  /\ x.fn \in {"CreateDocument", "SignDocument", "RevokeCredential"}
           /\ world'[t] # Absent /\ world'[t].target = x.key
           /\ world'[t].action = AuditAction(x)
           /\ x.fn # "RevokeCredential" => x.key \in Ids /\ IsDocument(x.key)'
           /\ \A k \in Ids : IsDocument(k) => IsDocument(k)'
           /\ \A k \in Ids : IsDocument(k)' /\ ~IsDocument(k) =>
                 k = x.key /\ x.fn = "CreateDocument" /\ world[k] = Absent
           /\ \A k \in Ids : IsDocument(k)' /\ world'[k].status = "revoked" =>
                 \/ IsDocument(k) /\ world[k].status = "revoked"
                 \/ k = x.key /\ x.fn = "RevokeCredential"
<1>1. /\ world'[t] = writeAudit(x) /\ writeAudit(x) \in AuditEntry
      /\ \A k \in Keys : k # t /\ k # x.key => world'[k] = world[k]
  BY InvokeEffect
<1>2. Ids \cap TxIds = {} /\ Absent \notin Value
  BY ChaincodeAssumption
<1>3. x.fn \in {"CreateDocument", "SignDocument", "RevokeCredential"}
  BY NeverIssued DEF Invocation, Invoke, CInv, WorldTyped
<1>4. world'[t] # Absent
  BY <1>1, <1>2 DEF Value
<1>5. world'[t].target = x.key /\ world'[t].action = AuditAction(x)
  BY <1>1, <1>3 DEF writeAudit, ReadKey
<1>6. x.fn # "RevokeCredential" => x.key \in Ids
  BY <1>3 DEF Invocation
<1>7. x.key \in Ids => IsDocument(x.key)'
  BY <1>2, DocumentAfter DEF IsDocument, Document, Value
<1>8. ASSUME NEW k \in Ids, k # x.key PROVE world'[k] = world[k]
  BY <1>1, <1>2, <1>8 DEF Keys
<1>9. ASSUME NEW k \in Ids, IsDocument(k) PROVE IsDocument(k)'
  BY <1>7, <1>8, <1>9 DEF IsDocument
<1>10. ASSUME NEW k \in Ids, IsDocument(k)', ~IsDocument(k)
       PROVE  k = x.key /\ x.fn = "CreateDocument" /\ world[k] = Absent
  <2>1. k = x.key
    BY <1>8, <1>10 DEF IsDocument
  <2> QED BY <1>3, <1>10, <2>1, DocumentAfter
<1>11. ASSUME NEW k \in Ids, IsDocument(k)', world'[k].status = "revoked"
       PROVE  \/ IsDocument(k) /\ world[k].status = "revoked"
              \/ k = x.key /\ x.fn = "RevokeCredential"
  <2>1. CASE k # x.key
    BY <1>8, <1>11, <2>1 DEF IsDocument
  <2>2. CASE k = x.key /\ x.fn = "CreateDocument"
    BY <1>11, <2>2, DocumentAfter
  <2>3. CASE k = x.key /\ x.fn = "SignDocument"
    <3>1. IsDocument(k) /\ x.action \in Decisions
          /\ world'[k] = [world[k] EXCEPT !.status = x.action, !.signer = x.caller, !.txId = t]
      BY <2>3, DocumentAfter
    <3>2. world[k] \in Document
      BY <3>1 DEF CInv, WorldTyped, IsDocument
    <3>3. world'[k].status = x.action
      BY <3>1, <3>2 DEF Document
    <3> QED BY <1>11, <3>1, <3>3 DEF Decisions
  <2> QED BY <1>3, <2>1, <2>2, <2>3
<1> QED BY <1>3, <1>4, <1>5, <1>6, <1>7, <1>9, <1>10, <1>11

\* A transaction writes at most two keys.
LEMMA WorldFiniteStep ==
    ASSUME CInv, WorldFinite, NEW t \in TxIds, NEW x \in Invocation, Invoke(t, x)
    PROVE  WorldFinite'
<1> DEFINE S == Written(world, Keys)
<1>1. Written(world', Keys) \subseteq (S \cup {t}) \cup {x.key}
  BY InvokeEffect DEF Written
<1>2. IsFiniteSet(S \cup {t})
  BY FS_AddElement DEF WorldFinite
<1>3. IsFiniteSet((S \cup {t}) \cup {x.key})
  BY <1>2, FS_AddElement
<1>4. IsFiniteSet(Written(world', Keys))
  BY <1>1, <1>3, FS_Subset
<1> QED BY <1>4 DEF WorldFinite, Written

\* The submission of a document is recorded by the transaction that creates it,
\* and a document that is there is not created again.
LEMMA SubmittedOnceStep ==
    ASSUME QInv, NEW t \in TxIds, NEW x \in Invocation, Invoke(t, x)
    PROVE  SubmittedOnce'
<1>0. CInv /\ EntriesTargeted /\ SubmittedOnce
  BY DEF QInv
<1>i. Ids \cap TxIds = {}
  BY ChaincodeAssumption
<1> SUFFICES ASSUME NEW k \in Ids, IsDocument(k)'
             PROVE  \E s \in TxIds :
                      /\ IsAudit(s, {"DOCUMENT_SUBMITTED"}, k)'
                      /\ \A r \in TxIds : IsAudit(r, {"DOCUMENT_SUBMITTED"}, k)' => r = s
  BY DEF SubmittedOnce
<1>1. IsAudit(t, {"DOCUMENT_SUBMITTED"}, k)' <=> x.fn = "CreateDocument" /\ x.key = k
  BY <1>0, InvokeRecords DEF IsAudit, AuditAction
<1>2. ASSUME NEW r \in TxIds, r # t
      PROVE  IsAudit(r, {"DOCUMENT_SUBMITTED"}, k)' <=> IsAudit(r, {"DOCUMENT_SUBMITTED"}, k)
  BY <1>0, <1>2, AuditAfter
<1>3. ASSUME NEW r \in TxIds, IsAudit(r, {"DOCUMENT_SUBMITTED"}, k) PROVE IsDocument(k)
  BY <1>0, <1>3 DEF EntriesTargeted, IsAudit
<1>4. CASE x.fn = "CreateDocument" /\ x.key = k
  <2>1. ~IsDocument(k)
    BY <1>4 DEF Invoke, Accepts, CanCreateDocument, IsDocument
  <2> QED BY <1>1, <1>2, <1>3, <1>4, <2>1
<1>5. CASE ~(x.fn = "CreateDocument" /\ x.key = k)
  <2>1. IsDocument(k)
    BY <1>0, <1>5, InvokeRecords
  <2>2. PICK s \in TxIds : /\ IsAudit(s, {"DOCUMENT_SUBMITTED"}, k)
                           /\ \A r \in TxIds : IsAudit(r, {"DOCUMENT_SUBMITTED"}, k) => r = s
    BY <1>0, <2>1 DEF SubmittedOnce
  <2>3. s # t
    BY <2>2 DEF Invoke, IsAudit
  <2> QED BY <1>1, <1>2, <1>5, <2>2, <2>3
<1> QED BY <1>4, <1>5

\* QInv is inductive.
LEMMA NextQInv == QInv /\ [Next]_world => QInv'
<1> SUFFICES ASSUME QInv, [Next]_world PROVE QInv'
  OBVIOUS
<1>0. CInv' /\ CInv
  BY NextCInv DEF QInv
<1>1. CASE UNCHANGED world
  BY <1>0, <1>1 DEF QInv, WorldFinite, Written, EntriesTargeted, SubmittedOnce, RevokedOnRecord,
     IsDocument, IsAudit
<1>2. ASSUME NEW t \in TxIds, NEW x \in Invocation, Invoke(t, x) PROVE QInv'
  <2>1. WorldFinite'
    BY <1>2, WorldFiniteStep DEF QInv
  <2>2. SubmittedOnce'
    BY <1>2, SubmittedOnceStep
  <2>3. ASSUME NEW s \in TxIds, NEW k, NEW a, a # "CREDENTIAL_REVOKED", IsAudit(s, {a}, k)'
        PROVE  k \in Ids /\ IsDocument(k)'
    <3>1. CASE s = t
      <4>1. a = AuditAction(x) /\ k = x.key
        BY <1>0, <1>2, <2>3, <3>1, InvokeRecords DEF IsAudit
      <4> QED BY <1>0, <1>2, <2>3, <4>1, InvokeRecords DEF AuditAction
    <3>2. CASE s # t
      <4>2. IsAudit(s, {a}, k)
        BY <1>0, <1>2, <2>3, <3>2, AuditAfter
      <4>3. k \in Ids /\ IsDocument(k)
        BY <2>3, <4>2 DEF QInv, EntriesTargeted, IsAudit
      <4> QED BY <1>0, <1>2, <4>3, InvokeRecords
    <3> QED BY <3>1, <3>2
  <2>4. ASSUME NEW k \in Ids, IsDocument(k)', world'[k].status = "revoked"
        PROVE  \E s \in TxIds : IsAudit(s, {"CREDENTIAL_REVOKED"}, k)'
    <3>1. CASE IsDocument(k) /\ world[k].status = "revoked"
      <4>1. PICK s \in TxIds : IsAudit(s, {"CREDENTIAL_REVOKED"}, k)
        BY <3>1 DEF QInv, RevokedOnRecord
      <4>2. s # t
        BY <1>2, <4>1 DEF Invoke, IsAudit
      <4> QED BY <1>0, <1>2, <4>1, <4>2, AuditAfter
    <3>2. CASE k = x.key /\ x.fn = "RevokeCredential"
      BY <1>0, <1>2, <3>2, InvokeRecords DEF IsAudit, AuditAction
    <3> QED BY <1>0, <1>2, <2>4, <3>1, <3>2, InvokeRecords
  <2>5. EntriesTargeted'
    <3> SUFFICES ASSUME NEW s \in TxIds, world'[s] # Absent,
                        world'[s].action # "CREDENTIAL_REVOKED"
                 PROVE  (world[s].target \in Ids /\ IsDocument(world[s].target))'
      BY DEF EntriesTargeted
    <3>1. PICK a, k : a = world'[s].action /\ k = world'[s].target
      OBVIOUS
    <3>2. IsAudit(s, {a}, k)'
      BY <3>1 DEF IsAudit
    <3> QED BY <2>3, <3>1, <3>2 DEF IsDocument
  <2>6. RevokedOnRecord'
    BY <2>4 DEF RevokedOnRecord
  <2> QED BY <1>0, <2>1, <2>2, <2>5, <2>6 DEF QInv
<1> QED BY <1>1, <1>2 DEF Next

\* The audit entries of an action about documents the reports count.
OnRecord(action) ==
    {t \in Entries(world, {action}) : world[world[t].target].fileHash # NoHash}

\* The reported documents with a status.
Reported(status) == {k \in GetAllDocuments(world) : world[k].status = status}

\* What is reported is a document with a hash.
LEMMA ReportedDocuments ==
    ASSUME QInv
    PROVE  \A k : k \in GetAllDocuments(world)
                    <=> k \in Ids /\ IsDocument(k) /\ world[k].fileHash # NoHash
BY DEF GetAllDocuments, Written, IsDocument, QInv, CInv, WorldTyped, Keys, AuditEntry

\* What is on record was recorded by a transaction, about a document with a hash.
LEMMA RecordedEntries ==
    ASSUME QInv, NEW action, action # "CREDENTIAL_REVOKED"
    PROVE  /\ \A t : t \in OnRecord(action)
                       <=> /\ t \in TxIds /\ IsAudit(t, {action}, world[t].target)
                           /\ world[world[t].target].fileHash # NoHash
           /\ \A t \in OnRecord(action) : world[t].target \in GetAllDocuments(world)
<1>1. \A t : t \in OnRecord(action)
                <=> /\ t \in TxIds /\ IsAudit(t, {action}, world[t].target)
                    /\ world[world[t].target].fileHash # NoHash
  BY DEF OnRecord, Entries, GetAuditTrail, Written, IsAudit
<1>2. ASSUME NEW t \in OnRecord(action) PROVE world[t].target \in GetAllDocuments(world)
  BY <1>1, <1>2, ReportedDocuments DEF QInv, EntriesTargeted, IsAudit
<1> QED BY <1>1, <1>2

\* As many documents are reported as were submitted.
LEMMA SubmittedCount ==
    ASSUME QInv
    PROVE  /\ IsFiniteSet(GetAllDocuments(world))
           /\ Cardinality(GetAllDocuments(world)) = Cardinality(OnRecord("DOCUMENT_SUBMITTED"))
<1> DEFINE D == GetAllDocuments(world)
           E == OnRecord("DOCUMENT_SUBMITTED")
           f == [t \in E |-> world[t].target]
<1>1. IsFiniteSet(E)
  <2>1. E \subseteq Written(world, Keys)
    BY DEF OnRecord, Entries, GetAuditTrail, Written, Keys
  <2> QED BY <2>1, FS_Subset DEF QInv, WorldFinite
<1>2. f \in [E -> D]
  BY RecordedEntries
<1>3. \A s, t \in E : f[s] = f[t] => s = t
  BY RecordedEntries DEF QInv, SubmittedOnce, EntriesTargeted, IsAudit
<1>4. ASSUME NEW k \in D PROVE \E t \in E : f[t] = k
  <2>1. k \in Ids /\ IsDocument(k) /\ world[k].fileHash # NoHash
    BY <1>4, ReportedDocuments
  <2>2. PICK t \in TxIds : IsAudit(t, {"DOCUMENT_SUBMITTED"}, k)
    BY <2>1 DEF QInv, SubmittedOnce
  <2>3. world[t].target = k
    BY <2>2 DEF IsAudit
  <2> QED BY <2>1, <2>2, <2>3, RecordedEntries
<1>5. f \in Bijection(E, D)
  BY <1>2, <1>3, <1>4 DEF Bijection, Injection, Surjection, IsInjective
<1> QED BY <1>1, <1>5, FS_Bijection DEF ExistsBijection

\* Without a revocation on record no document has the status 'revoked'.
LEMMA NothingRevoked ==
    ASSUME QInv, Entries(world, {"CREDENTIAL_REVOKED"}) = {}, NEW k \in Ids, IsDocument(k)
    PROVE  world[k].status # "revoked"
<1> SUFFICES ASSUME world[k].status = "revoked" PROVE FALSE
  OBVIOUS
<1>1. PICK t \in TxIds : IsAudit(t, {"CREDENTIAL_REVOKED"}, k)
  BY DEF QInv, RevokedOnRecord
<1>2. t \in Entries(world, {"CREDENTIAL_REVOKED"})
  BY <1>1 DEF Entries, GetAuditTrail, Written, IsAudit
<1> QED BY <1>2

\* As many decisions of a kind on record as reported documents with that
\* status, as long as no revocation covers one up.
LEMMA DecidedCount ==
    ASSUME QInv, Entries(world, {"CREDENTIAL_REVOKED"}) = {},
           NEW status \in Decisions, NEW action,
           action = IF status = "approved" THEN "DOCUMENT_APPROVED" ELSE "DOCUMENT_REJECTED"
    PROVE  Cardinality(Reported(status)) = Cardinality(OnRecord(action))
<1> DEFINE A == Reported(status)
           E == OnRecord(action)
           f == [k \in A |-> world[k].txId]
<1>0. CInv /\ EntriesTargeted /\ RevokedOnRecord
  BY DEF QInv
<1>1. IsFiniteSet(A)
  BY SubmittedCount, FS_Subset DEF Reported
<1>2. ASSUME NEW k \in A PROVE f[k] \in E /\ world[f[k]].target = k
  <2>0. k \in Ids /\ IsDocument(k) /\ world[k].fileHash # NoHash /\ world[k].status = status
    BY <1>2, ReportedDocuments DEF Reported
  <2>1. world[k] \in Document /\ world[k].txId # NoOne /\ IsAudit(world[k].txId, {action}, k)
    BY <1>0, <2>0 DEF CInv, StatusMatchesAudit, WorldTyped, IsDocument, Decisions
  <2>2. world[k].txId \in TxIds /\ world[world[k].txId].target = k
    BY <2>1 DEF Document, IsAudit
  <2>3. world[k].txId \in E
    BY <2>0, <2>1, <2>2, RecordedEntries
  <2> QED BY <2>2, <2>3
<1>3. \A j, k \in A : f[j] = f[k] => j = k
  BY <1>2
<1>4. ASSUME NEW t \in E PROVE \E k \in A : f[k] = t
  <2> DEFINE k == world[t].target
  <2>1. t \in TxIds /\ IsAudit(t, {action}, k) /\ k \in GetAllDocuments(world)
    BY <1>4, RecordedEntries
  <2>2. k \in Ids /\ IsDocument(k) /\ IsAudit(t, DecisionActions, k)
    BY <2>1, ReportedDocuments DEF IsAudit, DecisionActions
  <2>3. world[k].txId = t /\ world[k] \in Document
    BY <1>0, <2>1, <2>2 DEF CInv, DecisionOwned, WorldTyped, IsDocument
  <2>4. t # NoOne
    BY <2>1, ChaincodeAssumption
  <2>5. \A a : IsAudit(t, {a}, k) => a = action
    BY <2>1 DEF IsAudit
  <2>6. world[k].status \in {"pending", "approved", "rejected", "revoked"}
    BY <2>3 DEF Document
  <2>7. world[k].status = status
    BY <1>0, <2>2, <2>3, <2>4, <2>5, <2>6, NothingRevoked DEF CInv, StatusMatchesAudit, Decisions
  <2> QED BY <2>1, <2>3, <2>7 DEF Reported
<1>5. f \in Bijection(A, E)
  BY <1>2, <1>3, <1>4 DEF Bijection, Injection, Surjection, IsInjective
<1> QED BY <1>1, <1>5, FS_Bijection DEF ExistsBijection

\* Without revocations every document is pending, rejected or approved.
LEMMA StatusCount ==
    ASSUME QInv, Entries(world, {"CREDENTIAL_REVOKED"}) = {}
    PROVE  Cardinality(Reported("pending"))
             = Cardinality(GetAllDocuments(world)) - Cardinality(Reported("approved"))
                                                   - Cardinality(Reported("rejected"))
<1> DEFINE D == GetAllDocuments(world)
           A == Reported("approved")
           P == Reported("pending")
           R == Reported("rejected")
<1>1. \A k \in D : world[k].status \in {"pending", "approved", "rejected"}
  <2> SUFFICES ASSUME NEW k \in D PROVE world[k].status \in {"pending", "approved", "rejected"}
    OBVIOUS
  <2>1. k \in Ids /\ IsDocument(k)
    BY ReportedDocuments
  <2>2. world[k] \in Document
    BY <2>1 DEF QInv, CInv, WorldTyped, IsDocument
  <2> QED BY <2>1, <2>2, NothingRevoked DEF Document
<1>2. D = (P \cup R) \cup A /\ P \cap R = {} /\ (P \cup R) \cap A = {}
  BY <1>1 DEF Reported
<1>3. IsFiniteSet(P) /\ IsFiniteSet(R) /\ IsFiniteSet(A)
  BY SubmittedCount, FS_Subset DEF Reported
<1>4. /\ IsFiniteSet(P \cup R)
      /\ Cardinality(P \cup R) = Cardinality(P) + Cardinality(R) - Cardinality(P \cap R)
  BY <1>3, FS_Union
<1>5. Cardinality((P \cup R) \cup A)
        = Cardinality(P \cup R) + Cardinality(A) - Cardinality((P \cup R) \cap A)
  BY <1>3, <1>4, FS_Union
<1>6. Cardinality(P) \in Nat /\ Cardinality(R) \in Nat /\ Cardinality(A) \in Nat
  BY <1>3, FS_CardinalityType
<1> HIDE DEF D, A, P, R
<1>7. Cardinality(P) = Cardinality(D) - Cardinality(A) - Cardinality(R)
  BY <1>2, <1>4, <1>5, <1>6, FS_EmptySet
<1> QED BY <1>7 DEF D, A, P, R

\* The regulator's reports agree with the audit trail: with the submissions at
\* all times, with the decisions as long as nothing was revoked.
THEOREM ReportsAreRight == Spec => []ReportsAgree
<1>1. QInv => ReportsAgree
  <2> SUFFICES ASSUME QInv PROVE ReportsAgree
    OBVIOUS
  <2>1. /\ GetStatistics(world).totalDocuments = Cardinality(GetAllDocuments(world))
        /\ GetStatistics(world).pending = Cardinality(Reported("pending"))
        /\ GetStatistics(world).rejected = Cardinality(Reported("rejected"))
    BY DEF GetStatistics, Count, Reported
  <2>2. Cardinality(GetAllDocuments(world)) = Cardinality(OnRecord("DOCUMENT_SUBMITTED"))
    BY SubmittedCount
  <2>3. Entries(world, {"CREDENTIAL_REVOKED"}) = {} =>
          /\ Cardinality(Reported("approved")) = Cardinality(OnRecord("DOCUMENT_APPROVED"))
          /\ Cardinality(Reported("rejected")) = Cardinality(OnRecord("DOCUMENT_REJECTED"))
    BY DecidedCount DEF Decisions
  <2> QED BY <2>1, <2>2, <2>3, StatusCount DEF ReportsAgree, OnRecord
<1> QED BY <1>1, InitQInv, NextQInv, PTL DEF Spec

----------------------------------------------------------------------------
(* Execute-order-validate implements the atomic contract.  The inductive   *)
(* invariant is TypeOK with Snapshot: an endorsed transaction whose read   *)
(* version is current was simulated on a value that is still there.        *)

IInv == TypeOK /\ Snapshot

----------------------------------------------------------------------------
\* Nothing has happened yet.
LEMMA InitIInv == LedgerInit => IInv
  BY DEF LedgerInit, IInv, TypeOK, Snapshot, NoTx, Fresh, Keys

\* Every step preserves the types.
LEMMA TypeStep == IInv /\ [LedgerNext]_vars => TypeOK'
<1> SUFFICES ASSUME IInv, [LedgerNext]_vars PROVE TypeOK'
  OBVIOUS
<1> USE DEF IInv, TypeOK
<1>1. ASSUME NEW t \in TxIds, NEW x \in Invocation, Endorse(t, x)
      PROVE  TypeOK'
  <2>1. NewValue(world, x, t) \in Value
    BY <1>1, ValueTypes DEF Endorse
  <2>2. version[ReadKey(x)] \in Nat
    BY InvocationKeys
  <2> QED BY <1>1, <2>1, <2>2 DEF Endorse, EndorsedTx
<1>2. ASSUME NEW t \in TxIds, NEW x \in Invocation, Refuse(t, x)
      PROVE  TypeOK'
  BY <1>2 DEF Refuse, FinishedTx
<1>3. ASSUME NEW t \in TxIds, Commit(t)
      PROVE  TypeOK'
  <2>1. txs[t] \in EndorsedTx
    BY <1>3 DEF Commit, NoTx, FinishedTx
  <2> DEFINE x == txs[t].inv
  <2>2. x \in Invocation /\ txs[t].value \in Value
    BY <2>1 DEF EndorsedTx
  <2>3. Accepts(world, x)
    BY <1>3 DEF Snapshot, Commit
  <2>4. writeAudit(x) \in Value
    BY <2>2, <2>3, ValueTypes
  <2>5. world' \in [Keys -> Value \cup {Absent}]
    BY <1>3, <2>2, <2>4 DEF Commit
  <2>6. version' \in [Keys -> Nat]
    BY <1>3 DEF Commit
  <2>7. txs' \in [TxIds -> {NoTx} \cup FinishedTx \cup EndorsedTx]
    BY <1>3 DEF Commit, Finish, FinishedTx
  <2> QED BY <2>5, <2>6, <2>7
<1>4. ASSUME NEW t \in TxIds, Invalidate(t)
      PROVE  TypeOK'
  BY <1>4 DEF Invalidate, Finish, FinishedTx
<1>5. CASE UNCHANGED vars
  BY <1>5 DEF vars
<1> QED BY <1>1, <1>2, <1>3, <1>4, <1>5 DEF LedgerNext

\* What a commit leaves of the transactions that are still under way: those
\* that read a key it wrote have gone stale, for the others nothing changed.
LEMMA SnapshotStep == IInv /\ [LedgerNext]_vars => Snapshot'
<1> SUFFICES ASSUME IInv, [LedgerNext]_vars, NEW s \in TxIds
             PROVE  /\ world'[s] # Absent => txs'[s].state = "valid"
                    /\ txs'[s].state = "endorsed" =>
                         LET x == txs'[s].inv IN
                           /\ txs'[s].readVersion <= version'[ReadKey(x)]
                           /\ Fresh(s)' => /\ Accepts(world', x)
                                           /\ txs'[s].value = NewValue(world', x, s)
  BY DEF Snapshot, Fresh
<1> USE DEF IInv, TypeOK
<1>k. s \in Keys
  BY DEF Keys
<1>n. txs[s] = NoTx => txs[s].state # "valid"
  BY DEF NoTx
<1>1. ASSUME NEW t \in TxIds, NEW x \in Invocation, Endorse(t, x)
      PROVE  /\ world'[s] # Absent => txs'[s].state = "valid"
             /\ txs'[s].state = "endorsed" =>
                  LET y == txs'[s].inv IN
                    /\ txs'[s].readVersion <= version'[ReadKey(y)]
                    /\ Fresh(s)' => /\ Accepts(world', y)
                                    /\ txs'[s].value = NewValue(world', y, s)
  <2>1. CASE s = t
    <3>1. txs'[s] = [state |-> "endorsed", inv |-> x, readVersion |-> version[ReadKey(x)],
                     value |-> NewValue(world, x, s)]
      BY <1>1, <2>1 DEF Endorse
    <3>2. world[s] = Absent
      BY <1>1, <2>1, <1>n DEF Endorse, Snapshot
    <3>3. version[ReadKey(x)] \in Nat
      BY InvocationKeys
    <3> QED BY <1>1, <3>1, <3>2, <3>3 DEF Endorse
  <2>2. CASE s # t
    BY <1>1, <2>2 DEF Endorse, Snapshot, Fresh
  <2> QED BY <2>1, <2>2
<1>2. ASSUME NEW t \in TxIds, NEW x \in Invocation, Refuse(t, x)
      PROVE  /\ world'[s] # Absent => txs'[s].state = "valid"
             /\ txs'[s].state = "endorsed" =>
                  LET y == txs'[s].inv IN
                    /\ txs'[s].readVersion <= version'[ReadKey(y)]
                    /\ Fresh(s)' => /\ Accepts(world', y)
                                    /\ txs'[s].value = NewValue(world', y, s)
  <2>1. s = t => world[s] = Absent /\ txs'[s].state = "refused"
    BY <1>2, <1>n DEF Refuse, Snapshot
  <2> QED BY <1>2, <2>1 DEF Refuse, Snapshot, Fresh
<1>3. ASSUME NEW t \in TxIds, Commit(t)
      PROVE  /\ world'[s] # Absent => txs'[s].state = "valid"
             /\ txs'[s].state = "endorsed" =>
                  LET y == txs'[s].inv IN
                    /\ txs'[s].readVersion <= version'[ReadKey(y)]
                    /\ Fresh(s)' => /\ Accepts(world', y)
                                    /\ txs'[s].value = NewValue(world', y, s)
  <2> DEFINE x == txs[t].inv
  <2>1. txs[t] \in EndorsedTx
    BY <1>3 DEF Commit, NoTx, FinishedTx
  <2>2. x \in Invocation /\ Accepts(world, x)
    BY <1>3, <2>1 DEF EndorsedTx, Commit, Snapshot
  <2>3. world[x.key] # Absent \/ x.key \in Ids
    BY <2>2 DEF Accepts, Invocation, CanRevokeCredential
  <2>4. CASE s = t
    BY <1>3, <2>4 DEF Commit, Finish
  <2>5. CASE s # t
    <3>1. txs'[s] = txs[s]
      BY <1>3, <2>5 DEF Commit, Finish
    <3>2. world'[s] # Absent => txs'[s].state = "valid"
      <4>1. CASE s = x.key
        BY <2>3, <3>1, <4>1, ChaincodeAssumption DEF Snapshot
      <4>2. CASE s # x.key
        BY <1>3, <2>5, <3>1, <4>2, <1>k DEF Commit, Snapshot
      <4> QED BY <4>1, <4>2
    <3>3. ASSUME txs[s].state = "endorsed"
          PROVE  LET y == txs[s].inv IN
                    /\ txs[s].readVersion <= version'[ReadKey(y)]
                    /\ version'[ReadKey(y)] = txs[s].readVersion =>
                           /\ Accepts(world', y)
                           /\ txs[s].value = NewValue(world', y, s)
      <4> DEFINE y == txs[s].inv
                 k == ReadKey(y)
      <4>1. txs[s] \in EndorsedTx
        BY <3>3 DEF NoTx, FinishedTx
      <4>2. y \in Invocation /\ k \in Keys /\ txs[s].readVersion \in Nat
        BY <4>1, InvocationKeys DEF EndorsedTx
      <4>3. txs[s].readVersion <= version[k] /\ version[k] \in Nat
        BY <3>3, <4>2 DEF Snapshot
      <4>4. version'[k] = IF k \in {x.key, t} THEN version[k] + 1 ELSE version[k]
        BY <1>3, <4>2 DEF Commit
      <4>5. CASE k \in {x.key, t}
        <5>1. version'[k] = version[k] + 1
          BY <4>4, <4>5
        <5>2. txs[s].readVersion <= version'[k] /\ version'[k] # txs[s].readVersion
          BY <4>2, <4>3, <5>1
        <5> QED BY <5>2
      <4>6. CASE k \notin {x.key, t}
        <5>1. world'[k] = world[k]
          BY <1>3, <4>2, <4>6 DEF Commit
        <5>2. version'[k] = version[k]
          BY <4>4, <4>6
        <5>3. version[k] = txs[s].readVersion =>
                Accepts(world, y) /\ txs[s].value = NewValue(world, y, s)
          BY <3>3 DEF Snapshot, Fresh
        <5>4. /\ Accepts(world', y) <=> Accepts(world, y)
              /\ NewValue(world', y, s) = NewValue(world, y, s)
          BY <4>2, <5>1, Locality
        <5> QED BY <4>3, <5>2, <5>3, <5>4
      <4> QED BY <4>5, <4>6
    <3> QED BY <3>1, <3>2, <3>3 DEF Fresh
  <2> QED BY <2>4, <2>5
<1>4. ASSUME NEW t \in TxIds, Invalidate(t)
      PROVE  /\ world'[s] # Absent => txs'[s].state = "valid"
             /\ txs'[s].state = "endorsed" =>
                  LET y == txs'[s].inv IN
                    /\ txs'[s].readVersion <= version'[ReadKey(y)]
                    /\ Fresh(s)' => /\ Accepts(world', y)
                                    /\ txs'[s].value = NewValue(world', y, s)
  <2>1. s = t => world[s] = Absent /\ txs'[s].state = "invalid"
    BY <1>4 DEF Invalidate, Finish, Snapshot
  <2> QED BY <1>4, <2>1 DEF Invalidate, Finish, Snapshot, Fresh
<1>5. CASE UNCHANGED vars
  BY <1>5 DEF vars, Snapshot, Fresh
<1> QED BY <1>1, <1>2, <1>3, <1>4, <1>5 DEF LedgerNext

\* TypeOK and Snapshot hold in every state of the ledger.
THEOREM LedgerInvariant == LedgerSpec => [](TypeOK /\ Snapshot)
<1>1. LedgerInit => IInv
  BY InitIInv
<1>2. IInv /\ [LedgerNext]_vars => IInv'
  BY TypeStep, SnapshotStep DEF IInv
<1> QED BY <1>1, <1>2, PTL DEF LedgerSpec, IInv

----------------------------------------------------------------------------
\* A commit is the atomic invocation of the contract, every other step of the
\* ledger leaves the world state alone.
LEMMA StepRefines == IInv /\ [LedgerNext]_vars => [Next]_world
<1> SUFFICES ASSUME IInv, [LedgerNext]_vars PROVE [Next]_world
  OBVIOUS
<1>1. ASSUME NEW t \in TxIds, Commit(t)
      PROVE  Next
  <2> DEFINE x == txs[t].inv
  <2>1. txs[t] \in EndorsedTx
    BY <1>1 DEF Commit, NoTx, FinishedTx, IInv, TypeOK
  <2>2. x \in Invocation /\ Accepts(world, x) /\ txs[t].value = NewValue(world, x, t)
    BY <1>1, <2>1 DEF EndorsedTx, Commit, IInv, Snapshot
  <2>3. world[t] = Absent
    BY <1>1 DEF Commit, IInv, Snapshot
  <2>4. world' = [world EXCEPT ![x.key] = NewValue(world, x, t), ![t] = writeAudit(x)]
    BY <1>1, <2>2 DEF Commit
  <2>5. Invoke(t, x)
    BY <2>2, <2>3, <2>4 DEF Invoke
  <2> QED BY <2>2, <2>5 DEF Next
<1>2. ASSUME NEW t \in TxIds, NEW x \in Invocation, Endorse(t, x) \/ Refuse(t, x)
      PROVE  UNCHANGED world
  BY <1>2 DEF Endorse, Refuse
<1>3. ASSUME NEW t \in TxIds, Invalidate(t)
      PROVE  UNCHANGED world
  BY <1>3 DEF Invalidate
<1> QED BY <1>1, <1>2, <1>3 DEF LedgerNext, vars

\* The ledger implements the atomic contract (FabricLedger!ContractSpec).
THEOREM LedgerRefinesContract == LedgerSpec => ContractSpec
<1>1. LedgerInit => Init
  BY DEF LedgerInit, Init
<1>2. IInv /\ [LedgerNext]_vars => [Next]_world
  BY StepRefines
<1> QED BY <1>1, <1>2, LedgerInvariant, PTL DEF LedgerSpec, ContractSpec, Spec, IInv

\* So Fabric keeps what the contract promises, although peers endorse
\* transactions from old states and the order is decided later: the document
\* and the audit trail agree, one decision per document, for good, under the
\* hash that was submitted, and the regulator's numbers are those of the trail.
THEOREM LedgerKeepsPromises ==
    LedgerSpec => /\ []StatusMatchesAudit /\ []OneDecision /\ []ReportsAgree
                  /\ DecisionFinal /\ HashAnchored
BY LedgerRefinesContract, AuditTrailAgrees, DecidedAtMostOnce, ReportsAreRight, DecisionsAreFinal,
   HashesAreAnchored, PTL DEF ContractSpec
============================================================================
