---------------------------- MODULE FabricLedger ---------------------------
(***************************************************************************)
(* The contract as Fabric runs it (execute, order, validate).  A proposal  *)
(* is simulated on a peer's committed state, which fixes the value it      *)
(* would write and the version of the key it read; the ordered transaction *)
(* is applied only when that version is still the current one, otherwise   *)
(* it is recorded as invalid (MVCC_READ_CONFLICT) and changes nothing.     *)
(* Any number of transactions may be between the two steps, and an         *)
(* endorsed transaction may never be ordered (its client crashed or timed  *)
(* out).  Fabric itself is not part of the repository: the phases are      *)
(* those of createTransaction(..).submit(..) in fabric.service.js.         *)
(*                                                                         *)
(* The committed world state is KYCContract's: its Spec is what the ledger *)
(* is to implement.                                                        *)
(***************************************************************************)
EXTENDS KYCContract

VARIABLES version,   \* version[k]: how often k was written
          txs        \* the transactions by id

vars == <<world, version, txs>>

NoTx == [state |-> "none"]
FinishedTx == [state : {"refused", "valid", "invalid"}]
EndorsedTx == [state : {"endorsed"}, inv : Invocation, readVersion : Nat, value : Value]

TypeOK ==
    /\ world \in [Keys -> Value \cup {Absent}]
    /\ version \in [Keys -> Nat]
    /\ txs \in [TxIds -> {NoTx} \cup FinishedTx \cup EndorsedTx]

LedgerInit ==
    /\ world = [k \in Keys |-> Absent]
    /\ version = [k \in Keys |-> 0]
    /\ txs = [t \in TxIds |-> NoTx]

\* The endorsing peers simulate x on the committed state.
Endorse(t, x) ==
    /\ txs[t] = NoTx
    /\ Accepts(world, x)
    /\ txs' = [txs EXCEPT ![t] = [state |-> "endorsed", inv |-> x,
                                  readVersion |-> version[ReadKey(x)],
                                  value |-> NewValue(world, x, t)]]
    /\ UNCHANGED <<world, version>>

\* The chaincode throws: submit() rejects, nothing is ordered.
Refuse(t, x) ==
    /\ txs[t] = NoTx
    /\ ~Accepts(world, x)
    /\ txs' = [txs EXCEPT ![t] = [state |-> "refused"]]
    /\ UNCHANGED <<world, version>>

\* Variant: no version check.
FreshAlways(t) == TRUE

Fresh(t) == version[ReadKey(txs[t].inv)] = txs[t].readVersion

Finish(t, st) == txs' = [txs EXCEPT ![t] = [state |-> st]]

\* A peer validates t and applies its write set.
Commit(t) ==
    /\ txs[t].state = "endorsed"
    /\ Fresh(t)
    /\ LET x == txs[t].inv IN
         /\ world' = [world EXCEPT ![x.key] = txs[t].value, ![t] = writeAudit(x)]
         /\ version' = [k \in Keys |-> IF k \in {x.key, t} THEN version[k] + 1 ELSE version[k]]
    /\ Finish(t, "valid")

Invalidate(t) ==
    /\ txs[t].state = "endorsed"
    /\ ~Fresh(t)
    /\ Finish(t, "invalid")
    /\ UNCHANGED <<world, version>>

LedgerNext ==
    \E t \in TxIds :
        \/ \E x \in Invocation : Endorse(t, x) \/ Refuse(t, x)
        \/ Commit(t)
        \/ Invalidate(t)

LedgerSpec == LedgerInit /\ [][LedgerNext]_vars

----------------------------------------------------------------------------
(* The ledger implements the atomic contract: whatever the interleaving of *)
(* simulations and commits, the world state changes only as if each valid  *)
(* transaction had run alone.                                              *)
ContractSpec == Spec

\* The strengthening the refinement rests on: only a valid transaction has an
\* audit entry, and a transaction that is still fresh would be simulated
\* with the same result on the state of now.
Snapshot ==
    \A t \in TxIds :
        /\ world[t] # Absent => txs[t].state = "valid"
        /\ txs[t].state = "endorsed" =>
             LET x == txs[t].inv IN
               /\ txs[t].readVersion <= version[ReadKey(x)]
               /\ Fresh(t) => Accepts(world, x) /\ txs[t].value = NewValue(world, x, t)
============================================================================
