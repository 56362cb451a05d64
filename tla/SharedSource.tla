---------------------------- MODULE SharedSource -----------------------------
(***************************************************************************)
(* What packages that share a place for their sources - a file under dl/,  *)
(* a directory under source/ - may rely on: from the moment a package is   *)
(* told that the place has what it needs until it is done with it, or the  *)
(* run ends, the place does not change.                                    *)
(***************************************************************************)
CONSTANTS
  Users,
  Place,    \* Place[u]: the place user u needs
  Nothing

VARIABLES
  content,  \* what is at each place
  held      \* what each user was told is there, or Nothing

vars == <<content, held>>

Init == held = [u \in Users |-> Nothing]

\* u is told that it has what it needs.
Hold(u) ==
  /\ held[u] = Nothing
  /\ held' = [held EXCEPT ![u] = content[Place[u]]]
  /\ UNCHANGED content

\* Some users are done: one, or all of them when the run ends.
Release ==
  /\ held' \in {[u \in Users |-> IF u \in S THEN Nothing ELSE held[u]] : S \in SUBSET Users}
  /\ UNCHANGED content

\* Places that nobody holds are written, replaced or removed.
Change ==
  /\ \A u \in Users : held[u] # Nothing => content'[Place[u]] = content[Place[u]]
  /\ UNCHANGED held

Next == (\E u \in Users : Hold(u)) \/ Release \/ Change

Spec == Init /\ [][Next]_vars
==============================================================================
