----------------------------- MODULE MCSessions ----------------------------
(* One tab of the signer frontend, or two of the regulator's console.  Two  *)
(* regulators, and a signer, who may try the wrong application.             *)
EXTENDS Sessions
CONSTANTS t1, t2, r1, r2, s1

MCTabs(a) == IF a = "signer" THEN {t1} ELSE {t1, t2}
MCRole(x) == IF x = s1 THEN "signer" ELSE "regulator"
============================================================================
