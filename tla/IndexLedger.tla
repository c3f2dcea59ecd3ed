----------------------------- MODULE IndexLedger -----------------------------
(***************************************************************************)
(* What an index promises whoever reads it, with no driver, queue or chunk *)
(* in sight: a run is a transaction over the partitions it selects.  It    *)
(* revokes the attestation before it rewrites any of them, rewrites only   *)
(* those, and restores the attestation only when each of them holds its    *)
(* own rows alone; a run that is abandoned leaves the index unattested.    *)
(***************************************************************************)
EXTENDS Naturals

CONSTANT Partitions

VARIABLES
  attested,  \* whether readers accept the index
  txn,       \* the latest transaction
  scope,     \* the partitions the running transaction rewrites, {} when none runs
  owners     \* partition -> the transactions whose rows it holds

ledger == <<attested, txn, scope, owners>>

Init ==
  /\ attested \in BOOLEAN
  /\ txn = 0
  /\ scope = {}
  /\ owners \in [Partitions -> SUBSET {0}]

Begin(S) ==
  /\ scope = {}
  /\ S # {}
  /\ attested' = FALSE
  /\ txn' = txn + 1
  /\ scope' = S
  /\ owners' = owners

Rewrite(p) ==
  /\ p \in scope
  /\ \E runs \in SUBSET (owners[p] \cup {txn}) : owners' = [owners EXCEPT ![p] = runs]
  /\ UNCHANGED <<attested, txn, scope>>

Commit ==
  /\ scope # {}
  /\ \A p \in scope : owners[p] \subseteq {txn}
  /\ attested' = TRUE
  /\ scope' = {}
  /\ UNCHANGED <<txn, owners>>

Abandon ==
  /\ scope # {}
  /\ scope' = {}
  /\ UNCHANGED <<attested, txn, owners>>

\* A run that fails at its very first write may already have revoked.
Revoke ==
  /\ scope = {}
  /\ attested' = FALSE
  /\ UNCHANGED <<txn, scope, owners>>

Next ==
  \/ \E S \in SUBSET Partitions : Begin(S)
  \/ \E p \in Partitions : Rewrite(p)
  \/ Commit
  \/ Abandon
  \/ Revoke

Spec == Init /\ [][Next]_ledger
=============================================================================
