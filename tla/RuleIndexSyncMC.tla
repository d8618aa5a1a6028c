-------------------------- MODULE RuleIndexSyncMC --------------------------
(* Instances of RuleIndexSync for TLC: every rule requires every column.   *)
EXTENDS RuleIndexSync, TLC

MCRequired == [r \in Rules |-> Columns]
=============================================================================
