-------------------------- MODULE MCNonAdminBackup --------------------------
(***************************************************************************)
(* NonAdminBackup on small instances.  NACUUIDs are interchangeable: none  *)
(* is named in the module and they are only compared for equality.         *)
(***************************************************************************)
EXTENDS NonAdminBackup, TLC

Symmetry == Permutations(UUIDs)
=============================================================================
