--------------------------- MODULE MCAssociativeBTB ---------------------------
(* AssociativeBTB instantiated for TLC.  Targets are model values, only   *)
(* ever compared for equality, so they form a symmetry set.               *)
EXTENDS AssociativeBTB, TLC

TargetSymmetry == Permutations(Targets)

====
