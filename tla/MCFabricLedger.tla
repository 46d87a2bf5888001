-------------------------- MODULE MCFabricLedger ---------------------------
(* Small instance of the contract on Fabric: identities of a bank and of   *)
(* the regulator as cryptogen makes them (no role attribute), and a second  *)
(* signer, whose attribute overrides its MSP.                               *)
EXTENDS FabricLedger, KYCQueries, TLC

MCCallers == { [msp |-> "BankAMSP", admin |-> TRUE, attr |-> "none"],
               [msp |-> "BankAMSP", admin |-> FALSE, attr |-> "none"],
               [msp |-> "RegulatorMSP", admin |-> TRUE, attr |-> "none"],
               [msp |-> "RegulatorMSP", admin |-> FALSE, attr |-> "signer"] }
MCSymmetry == Permutations(TxIds) \cup Permutations(Ids) \cup Permutations(Hashes \ {NoHash})
============================================================================
