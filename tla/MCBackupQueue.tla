---------------------------- MODULE MCBackupQueue ----------------------------
(***************************************************************************)
(* BackupQueue and NacObjectName, the functions of                         *)
(* internal/common/function that compute something, on small inputs.       *)
(***************************************************************************)
EXTENDS BackupQueue, NacObjectName, TLC

\* Backups of NABs are interchangeable.
Symmetry == Permutations(Backups \ Foreign)

UpTo(length) == UNION {[1 .. n -> Characters] : n \in 0 .. length}

\* GenerateNacObjectUUID for every namespace and name that are shorter than, as
\* long as and longer than what the name of the object has room for.  It does not
\* depend on the state: TLC looks at it where there is nothing else to look at.
NothingExists == nabs = {} /\ vb = [b \in Backups |-> NoVB]
NamesFit ==
  NothingExists =>
    \A namespace, nacName \in UpTo(Room + 2), uuid \in [1 .. UUIDLength -> Characters] :
      NameFits(namespace, nacName, uuid)
=============================================================================
