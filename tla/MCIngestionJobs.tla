--------------------------- MODULE MCIngestionJobs ---------------------------
(* Model checking IngestionJobs on small sets of jobs and owners.          *)
EXTENDS IngestionJobs, TLC

Symmetry == Permutations(Jobs) \cup Permutations(Owners)
=============================================================================
