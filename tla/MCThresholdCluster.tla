------------------------ MODULE MCThresholdCluster ------------------------
(* Small instances of ThresholdCluster for TLC: the sets of calls, keys and *)
(* failing nodes are given by the .cfg files.                               *)
EXTENDS ThresholdCluster, TLC

\* Sign calls are interchangeable, and so are refresh calls.
CallSymmetry == Permutations(Signing) \cup Permutations(Refreshing)
=============================================================================
