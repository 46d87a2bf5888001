-------------------------- MODULE MCUserDashboard --------------------------
(* Small instances of UserDashboard: one document is waiting for a signer,  *)
(* another may be uploaded.                                                  *)
EXTENDS UserDashboard
CONSTANTS d1, d2

MCStored == <<[id |-> d1, status |-> "pending"]>>
============================================================================
