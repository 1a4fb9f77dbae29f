--------------------------- MODULE MCReplication ---------------------------
(***************************************************************************)
(* Instances of Replication for TLC: one coordinator c with two peers.     *)
(***************************************************************************)
EXTENDS Replication, TLC

CONSTANTS c, p1, p2

\* Every server is configured with all the others.
Mesh == [s \in Servers |-> Servers \ {s}]

\* Only the coordinator is configured with peers.
Star == [s \in Servers |-> IF s = c THEN Servers \ {c} ELSE {}]

\* The two peers are alike.
PeerSymmetry == Permutations({p1, p2})

=============================================================================
