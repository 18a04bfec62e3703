------------------- MODULE MCNonAdminBackupStorageLocation -------------------
(***************************************************************************)
(* NonAdminBackupStorageLocation for the model checker: the NACUUIDs are   *)
(* interchangeable, and so are the specs.  For runs without liveness       *)
(* properties only.                                                        *)
(***************************************************************************)
EXTENDS NonAdminBackupStorageLocation, TLC

Symmetry == Permutations(UUIDs) \union Permutations(Specs)
=============================================================================
