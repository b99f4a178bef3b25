----------------------------- MODULE MCNearRic -----------------------------
(***************************************************************************)
(* NearRic for TLC.  Nodes and xApps are model values.                     *)
(***************************************************************************)
EXTENDS NearRic, TLC

(* Every constant set of identities is used symmetrically.                 *)
Symmetry == Permutations(Nodes) \cup Permutations(Apps)
=============================================================================
