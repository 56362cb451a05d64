----------------------------- MODULE Traversals -----------------------------
(***************************************************************************)
(* The loops over the dependencies of a package (src/package.cpp 683-732). *)
(* They fill one set, and do not go into what is in it already.            *)
(***************************************************************************)
EXTENDS SequencesExt

RECURSIVE AddStaging(_, _, _, _)
AddStaging(depends, intercepting, p, found) ==
    FoldLeft(LAMBDA s, d : CASE d \in s            -> s
                             [] d \in intercepting -> s \cup {d}
                             [] OTHER              -> AddStaging(depends, intercepting, d, s \cup {d}),
             found, depends[p])

RECURSIVE AddDepended(_, _, _, _, _)
AddDepended(depends, intercepting, p, found, children) ==
    FoldLeft(LAMBDA s, d : CASE d \in s -> s
                             [] ~children \/ d \in intercepting -> s \cup {d}
                             [] OTHER -> AddDepended(depends, intercepting, d, s \cup {d}, children),
             found, depends[p])
=============================================================================
