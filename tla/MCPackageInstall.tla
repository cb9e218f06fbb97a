-------------------------- MODULE MCPackageInstall --------------------------
(* Instances of PackageInstall for TLC. *)
EXTENDS PackageInstall, TLC

\* Every archive is a release of its own.
OwnRelease == [a \in Archives \ Unplaced |-> a]

\* Two builds of one release.
SameRelease == [a \in Archives \ Unplaced |-> CHOOSE r \in Releases : TRUE]

=============================================================================
