-------------------------- MODULE AlertPipelineMC --------------------------
(* An instance of AlertPipeline for TLC: two rules, with cooldowns of two  *)
(* ticks and of one, that watch a pair each, and as events the alerts      *)
(* these rules can owe.                                                    *)
EXTENDS AlertPipeline

CONSTANTS r1, r2, a, b

MCPairOf == [r \in Rules |-> IF r = r1 \/ Pairs = {a} THEN a ELSE b]
MCCooldown == [r \in Rules |-> IF r = r1 THEN 2 ELSE 1]
MCEvents == Alerts
=============================================================================
