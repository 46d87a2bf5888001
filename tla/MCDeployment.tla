---------------------------- MODULE MCDeployment ---------------------------
(* Two of the three organisations (they are alike to the script), an        *)
(* imported label of each, and an account of a regulator, whose label is    *)
(* not the default one.                                                     *)
EXTENDS Deployment

MCOrgOf(label) == IF label = "bankA-admin" THEN "BankA" ELSE "Regulator"
MCSharedLabel(u) == "regulator-admin"
============================================================================
