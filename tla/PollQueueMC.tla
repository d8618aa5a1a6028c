---------------------------- MODULE PollQueueMC ----------------------------
(* Instances of PollQueue for TLC.  Every pair has the default interval,   *)
(* over which messages are spread.                                         *)
EXTENDS PollQueue, TLC

MCInterval == [pair \in Pairs |-> Window]

\* Message ids are alike, and so are pollers.
MCSymmetry == Permutations(Ids) \cup Permutations(Pollers)
=============================================================================
