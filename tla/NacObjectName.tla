---------------------------- MODULE NacObjectName ----------------------------
(***************************************************************************)
(* GenerateNacObjectUUID (internal/common/function/function.go): the name  *)
(* that is also the NACUUID label of the Velero object of a NAB, NAR or    *)
(* NABSL, made of its namespace, its name and a generated UUID and cut to  *)
(* what a label value may hold.  Strings are sequences of characters.      *)
(***************************************************************************)
EXTENDS Naturals, Sequences

CONSTANTS
  Characters,
  Delimiter,                   \* constant.NameDelimiter
  MaximumNacObjectNameLength,
  UUIDLength                   \* of every generated UUID

\* The UUID, two delimiters and a character of the name fit.
ASSUME LengthsAssumption ==
  /\ MaximumNacObjectNameLength \in Nat /\ UUIDLength \in Nat
  /\ UUIDLength + 3 <= MaximumNacObjectNameLength
ASSUME DelimiterAssumption == Delimiter \in Characters

Strings == Seq(Characters)
UUIDStrings == {uuid \in Strings : Len(uuid) = UUIDLength}

\* A part that is not empty, its delimiter and the rest of the name.
Join(part, rest) == IF part = <<>> THEN rest ELSE part \o <<Delimiter>> \o rest

\* Where namespace[:Room] cuts: the length that is left for namespace and name
\* when the UUID and both delimiters are in.
Room == MaximumNacObjectNameLength - UUIDLength - 2

First(string, length) == SubSeq(string, 1, length)

\* Mutant of GenerateNacObjectUUID: one delimiter is forgotten.
GenerateOneDelimiter(namespace, nacName, uuid) ==
  LET name == Join(namespace, Join(nacName, uuid)) IN
  IF Len(name) <= MaximumNacObjectNameLength THEN name
  ELSE IF Len(namespace) > Room
         THEN First(namespace, Room) \o <<Delimiter>> \o uuid
         ELSE Join(namespace, Join(First(nacName, Room + 1 - Len(namespace)), uuid))

GenerateNacObjectUUID(namespace, nacName, uuid) ==
  LET name == Join(namespace, Join(nacName, uuid)) IN
  IF Len(name) <= MaximumNacObjectNameLength THEN name
  ELSE IF Len(namespace) > Room
         THEN First(namespace, Room) \o <<Delimiter>> \o uuid
         ELSE Join(namespace, Join(First(nacName, Room - Len(namespace)), uuid))

\* A cut behind the end of the string would be a run-time panic.
CutsInRange(namespace, nacName, uuid) ==
  LET name == Join(namespace, Join(nacName, uuid)) IN
  Len(name) > MaximumNacObjectNameLength =>
    Len(namespace) > Room \/ Room - Len(namespace) <= Len(nacName)

\* The name fits a label value and ends with the whole UUID, so two objects
\* never share one, and cutting it never panics.
NameFits(namespace, nacName, uuid) ==
  LET name == GenerateNacObjectUUID(namespace, nacName, uuid) IN
  /\ CutsInRange(namespace, nacName, uuid)
  /\ Len(name) <= MaximumNacObjectNameLength
  /\ \A i \in 1 .. UUIDLength : name[Len(name) - UUIDLength + i] = uuid[i]
=============================================================================
