-------------------------- MODULE DocumentService --------------------------
(***************************************************************************)
(* What the API promises of its documents to whoever only looks at them:   *)
(* the status each one shows, without the requests, failures and the       *)
(* ledger behind it.  KYCBackend implements this specification, and the    *)
(* pages need no more: each of its steps is one their models allow others  *)
(* to take.                                                                *)
(***************************************************************************)
CONSTANTS Docs,
          Decisions,   \* what a document can be decided to be
          Final        \* a decision that was shown is not replaced by another

VARIABLE status        \* "none": there is no such document

Statuses == {"none", "pending"} \cup Decisions

\* Whoever looks may have come late.
Init == status \in [Docs -> Statuses]

Create(d) == status[d] = "none" /\ status' = [status EXCEPT ![d] = "pending"]

Decide(d, decision) ==
    /\ status[d] = "pending" \/ (~Final /\ status[d] \in Decisions)
    /\ status' = [status EXCEPT ![d] = decision]

Next == \E d \in Docs : Create(d) \/ \E decision \in Decisions : Decide(d, decision)

Spec == Init /\ [][Next]_status
============================================================================
