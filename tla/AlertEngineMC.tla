--------------------------- MODULE AlertEngineMC ---------------------------
(* Instances of AlertEngine for TLC: two rules, with cooldowns of two      *)
(* ticks and of one, that watch one pair or a pair each.                   *)
EXTENDS AlertEngine, TLC

CONSTANTS r1, r2, a, b

MCPairOf == [r \in Rules |-> IF r = r1 \/ Pairs = {a} THEN a ELSE b]
MCCooldown == [r \in Rules |-> IF r = r1 THEN 2 ELSE 1]

\* The pollers are alike.
PollerSymmetry == Permutations(Pollers)
=============================================================================
