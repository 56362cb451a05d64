---------------------------- MODULE MCParsePhase -----------------------------
(* An instance of ParsePhase with the graphs that matter: the base package   *)
(* named by a dependency, a dependency two packages share, a loop with the   *)
(* base package and one without it, a package that names itself.             *)
EXTENDS ParsePhase, TLC

CONSTANTS base, a, b

ThreePackages == {base, a, b}
ThreeNames == (base :> {a, b}) @@ (a :> {base, b}) @@ (b :> {a, b})
=============================================================================
