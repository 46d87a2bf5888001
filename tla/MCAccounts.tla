---------------------------- MODULE MCAccounts -----------------------------
(* Small instances of Accounts: one email nobody has registered, one whose   *)
(* signer is registered and enrolled.                                        *)
EXTENDS Accounts, TLC
CONSTANTS new, old, p1, p2

MCRegistered == [e \in Emails |->
    IF e = new THEN Absent
    ELSE [role |-> "signer", password |-> p1, name |-> NoOne, certificateStatus |-> "active",
          fabricEnrollmentId |-> "email",
          resetToken |-> NoOne, expired |-> FALSE]]

Register(role) == [op |-> "register", email |-> new, role |-> role, password |-> p1]
On(op) == [op |-> op, email |-> old]
Login(p) == [op |-> "login", email |-> old, password |-> p]
Change == [op |-> "change", email |-> old, password |-> p1, new |-> p2]
Reset(e, t) == [op |-> "reset", email |-> e, token |-> t, new |-> p2]

MCArrivals ==
    {Register("user"), Register("signer"), Login(p1), Change,
     On("profile"), On("forgot"), On("revoke"), On("reactivate"),
     [op |-> "forgot", email |-> new]}
    \cup {Reset(e, t) : e \in Emails, t \in Reqs \cup {NoOne}}

MCSymmetry == Permutations(Reqs)
============================================================================
