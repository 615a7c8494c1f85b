----------------------------- MODULE MCCluster -----------------------------
(***************************************************************************)
(* Instances of Cluster for TLC.  The thresholds keep the code's relation  *)
(* BALANCE_DIFF_THRESHOLD = SPLIT_THRESHOLD + 1 at a smaller scale.        *)
(***************************************************************************)
EXTENDS Cluster, TLC

\* Values and clients are interchangeable; keys and nodes are ordered.
Symmetry == Permutations(Value) \cup Permutations(Client)
=============================================================================
