------------------------------ MODULE BuildOrder -----------------------------
(***************************************************************************)
(* What World::basePackage promises its caller, without threads, locks or  *)
(* wake-ups: packages are built in dependency order, each is built or      *)
(* fails once, "ok" is returned only when everything is built, and nothing *)
(* changes after that.                                                     *)
(***************************************************************************)
CONSTANTS Packages, Deps

VARIABLES
  done,    \* the packages built
  bad,     \* the packages whose build failed
  result   \* what was returned to the caller

vars == <<done, bad, result>>

Init == done = {} /\ bad = {} /\ result = "none"

\* A package whose turn has come, while a build may still be going on.
InTurn(p) ==
  /\ result # "ok"
  /\ p \notin done \cup bad
  /\ Deps[p] \subseteq done

Build(p) == InTurn(p) /\ done' = done \cup {p} /\ UNCHANGED <<bad, result>>

Fail(p) == InTurn(p) /\ bad' = bad \cup {p} /\ UNCHANGED <<done, result>>

ReturnOk ==
  /\ result = "none" /\ done = Packages /\ bad = {}
  /\ result' = "ok"
  /\ UNCHANGED <<done, bad>>

ReturnFailed ==
  /\ result = "none" /\ bad # {}
  /\ result' = "failed"
  /\ UNCHANGED <<done, bad>>

Next ==
  \/ \E p \in Packages : Build(p) \/ Fail(p)
  \/ ReturnOk
  \/ ReturnFailed

Spec == Init /\ [][Next]_vars
=============================================================================
