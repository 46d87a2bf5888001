---------------------------- MODULE KYCContract ----------------------------
(***************************************************************************)
(* What the smart contract promises its clients: every transaction is one  *)
(* atomic step that the contract's guards allow, and a refused invocation  *)
(* changes nothing.  FabricLedger is shown to implement this.              *)
(***************************************************************************)
EXTENDS KYCChaincode

VARIABLE world      \* the ledger's world state, key by key

Init == world = [k \in Keys |-> Absent]

\* Transaction t runs invocation x.  A transaction that took effect has left
\* its audit entry under t, so an id is used once.
Invoke(t, x) ==
    /\ world[t] = Absent
    /\ Accepts(world, x)
    /\ world' = [world EXCEPT ![x.key] = NewValue(world, x, t), ![t] = writeAudit(x)]

Next == \E t \in TxIds, x \in Invocation : Invoke(t, x)

Spec == Init /\ [][Next]_world

----------------------------------------------------------------------------
IsDocument(k) == world[k] # Absent /\ world[k].kind = "doc"
IsAudit(t, acts, k) == world[t] # Absent /\ world[t].action \in acts /\ world[t].target = k
DecisionActions == {"DOCUMENT_APPROVED", "DOCUMENT_REJECTED"}

\* The hash anchored by CreateDocument, and the owner it is anchored for,
\* never change and never disappear.
HashAnchored ==
    [][\A k \in Ids : IsDocument(k) =>
         /\ IsDocument(k)'
         /\ world'[k].fileHash = world[k].fileHash
         /\ world'[k].owner = world[k].owner]_world

\* A signer's decision is final: it is never reopened, reversed or attributed
\* to somebody else.  Only RevokeCredential, called with the document's key,
\* still changes the status, and nothing leaves that status again.
DecisionFinal ==
    [][\A k \in Ids : IsDocument(k) /\ world[k].status # "pending" =>
         /\ world'[k].status \in {world[k].status, "revoked"}
         /\ world'[k].signer = world[k].signer
         /\ world'[k].txId = world[k].txId]_world

\* The audit trail never records two decisions about one document.
OneDecision ==
    \A k \in Ids : \A t1, t2 \in TxIds :
        IsAudit(t1, DecisionActions, k) /\ IsAudit(t2, DecisionActions, k) => t1 = t2

\* A document and the audit trail agree: a decided document names the
\* transaction that decided it, whose audit entry says the same and names the
\* same signer, and about an undecided one there is no decision on record.
StatusMatchesAudit ==
    \A k \in Ids : IsDocument(k) =>
        LET d == world[k] IN
          /\ d.txId = NoOne => \A t \in TxIds : ~IsAudit(t, DecisionActions, k)
          /\ d.txId # NoOne => /\ IsAudit(d.txId, DecisionActions, k)
                               /\ world[d.txId].actor = d.signer
          /\ d.status = "pending" => d.txId = NoOne
          /\ d.status = "approved" => /\ d.txId # NoOne
                                      /\ IsAudit(d.txId, {"DOCUMENT_APPROVED"}, k)
          /\ d.status = "rejected" => /\ d.txId # NoOne
                                      /\ IsAudit(d.txId, {"DOCUMENT_REJECTED"}, k)
============================================================================
