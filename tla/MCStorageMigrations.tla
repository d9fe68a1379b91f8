------------------------- MODULE MCStorageMigrations -------------------------
(***************************************************************************)
(* StorageMigrations for TLC: files 1 and 2 share a directory, the source  *)
(* of file 3 does not exist.                                               *)
(***************************************************************************)
EXTENDS StorageMigrations, TLC

CONSTANTS r1, r2, r3, d1, d2

MCReplicas == {r1, r2, r3}
MCTwo      == {r1, r2}
MCDests    == {d1, d2}
MCTarget   == 1 :> d1 @@ 2 :> d1 @@ 3 :> d2 @@ 4 :> d2
MCSources  == {1, 2, 4}
Symmetry   == Permutations(MCReplicas)
==============================================================================
