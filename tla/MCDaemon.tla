------------------------------ MODULE MCDaemon ------------------------------
(***************************************************************************)
(* A driver known by its language and by an alias.                         *)
(***************************************************************************)
EXTENDS Daemon, TLC

CONSTANTS p1, p2, u1, u2, a1

MCNames    == {"go", "golang"}
MCVersions == {"go:v1"}
MCLanguage == [v \in MCVersions |-> "go"]
MCAliases  == [v \in MCVersions |-> {"golang"}]

\* Without the alias, for the liveness properties.
OneName   == {"go"}
NoAliases == [v \in MCVersions |-> {}]

Symmetry == Permutations({p1, p2}) \cup Permutations({u1, u2})
=============================================================================
