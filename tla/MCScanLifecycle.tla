--------------------------- MODULE MCScanLifecycle ---------------------------
(* Model values and symmetry for the ScanLifecycle runs. *)
EXTENDS ScanLifecycle, TLC

ScanSymmetry == Permutations(Scans)
FleetSymmetry == Permutations(Scans) \cup Permutations(Workers)
==============================================================================
