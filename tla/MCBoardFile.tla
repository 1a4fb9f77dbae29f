----------------------------- MODULE MCBoardFile -----------------------------
(* Instances of BoardFile for TLC: the agents that serve clients are alike. *)
EXTENDS BoardFile, TLC

ClientSymmetry == Permutations(Threads \ SportAgents)

=============================================================================
