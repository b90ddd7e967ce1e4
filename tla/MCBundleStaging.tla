--------------------------- MODULE MCBundleStaging ---------------------------
(* Model checking BundleStaging on a few uploads.                          *)
EXTENDS BundleStaging, TLC

Symmetry == Permutations(Requests) \cup Permutations(Identities) \cup Permutations(Configs)
=============================================================================
