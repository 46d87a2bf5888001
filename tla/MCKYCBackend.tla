--------------------------- MODULE MCKYCBackend ----------------------------
(* Small instances of KYCBackend.                                           *)
EXTENDS KYCBackend, TLC
CONSTANTS d1, cust, s1, s2, reg

MCRoleOf == [u \in Users |-> CASE u = cust -> "user" [] u \in {s1, s2} -> "signer"
                               [] u = reg -> "regulator"]

Up(d) == [op |-> "upload", user |-> cust, tgt |-> d]
SignBy(s, d) == [op |-> "sign", user |-> s, tgt |-> d]
RejectBy(s, d) == [op |-> "reject", user |-> s, tgt |-> d]
Revoke(u) == [op |-> "revoke", user |-> reg, tgt |-> u]
Reactivate(u) == [op |-> "reactivate", user |-> reg, tgt |-> u]

\* Two signers decide about one document.
RaceArrivals == {Up(d1), SignBy(s1, d1), SignBy(s2, d1), RejectBy(s2, d1)}
\* Certificates come and go while documents are signed; the customer also
\* tries what only a signer may do.
CertArrivals == {Up(d1), SignBy(s1, d1), RejectBy(cust, d1), Revoke(s1), Reactivate(s1)}
AllArrivals == RaceArrivals \cup CertArrivals
\* With a live ledger no revocation succeeds, so a reactivation finds nothing
\* to do.
LiveArrivals == AllArrivals \ {Reactivate(s1)}

MCSymmetry == Permutations(Reqs)
============================================================================
