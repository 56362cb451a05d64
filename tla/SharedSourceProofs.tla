-------------------------- MODULE SharedSourceProofs --------------------------
(***************************************************************************)
(* What packages fetch into directories they share: GitFetch and Download, *)
(* both of which implement SharedSource.                                   *)
(*                                                                         *)
(* GitFetch for any units, directories, uris and commits, as long as the   *)
(* packages agree on the uri of a directory, and name HEAD or a local      *)
(* branch only where a developer keeps a clone: that what is built is what *)
(* the extraction info says.  Download for any packages, files and runs:   *)
(* what was verified for a package stays, and one file name serves one     *)
(* hash per run.                                                           *)
(***************************************************************************)
EXTENDS GitFetch, TLAPS

Agreement ==
  /\ \A u, v \in Units : Dir[u] = Dir[v] => Uri[u] = Uri[v]
  /\ \A u \in Units : Refspec[u] \in {"HEAD", "branch"} => Dir[u] \in Existing

\* The places with the mutex held.
Inside == {"open", "update", "look", "fetch", "checkout", "verify"}

\* What u wants is checked out in `clone'.
There(u, clone) ==
  /\ clone.origin = Uri[u]
  /\ clone.head = clone.tree /\ clone.head # None
  /\ Resolve(clone, Refspec[u]) = clone.head

Fetched(d) == \E u \in Units : Dir[u] = d /\ fetched[u]

PlaceInv ==
  \A u \in Units :
    /\ pc[u] = "idle" => ~fetched[u]
    /\ pc[u] \in Inside => lock[Dir[u]] = u /\ refspec[Dir[u]] = Refspec[u]
    /\ pc[u] \in Inside \ {"open"} => repo[Dir[u]] # NoClone /\ repo[Dir[u]].origin = Uri[u]
    /\ pc[u] \in {"update", "fetch"} => ~Fetched(Dir[u])
    /\ pc[u] = "verify" => There(u, repo[Dir[u]])
    /\ pc[u] \in {"ready", "copied"} => fetched[u]
    /\ pc[u] = "copied" => copied[u] = hash[u]

\* From then on whoever fetches finds it, so that nothing moves.
SettledInv ==
  \A u \in Units : fetched[u] =>
    /\ refspec[Dir[u]] = Refspec[u]
    /\ There(u, repo[Dir[u]])
    /\ hash[u] = repo[Dir[u]].tree

\* The developer's clones have something checked out.
ExistingInv ==
  \A d \in Existing : repo[d] # NoClone /\ repo[d].head = repo[d].tree

\* A commit id or the Digest file has the last word.
HashInv ==
  \A u \in Units : pc[u] # "idle" /\ (Refspec[u] \in Commits \/ Digest[u] # None) =>
    hash[u] = IF Refspec[u] \in Commits THEN Refspec[u] ELSE Digest[u]

IInv == TypeOK /\ PlaceInv /\ SettledInv /\ ExistingInv /\ HashInv

-----------------------------------------------------------------------------
LEMMA NoCloneType ==
  NoClone \in Clones /\ NoClone.head = None /\ NoClone.origin = None
BY GitAssumption DEF NoClone, Clones

\* Clones that are made, and what fetching does to one.
LEMMA CloneOfType ==
  ASSUME TypeOK, NEW uri \in Uris, NEW checkedOut \in BOOLEAN
  PROVE  /\ CloneOf(uri, checkedOut) \in Clones /\ CloneOf(uri, checkedOut) # NoClone
         /\ CloneOf(uri, checkedOut).origin = uri /\ CloneOf(uri, checkedOut).head # None
         /\ checkedOut => CloneOf(uri, checkedOut).head = CloneOf(uri, checkedOut).tree
<1>1. upstream[uri].tip \in Commits /\ upstream[uri].has \in SUBSET Commits
  BY DEF TypeOK
<1>2. CloneOf(uri, checkedOut) \in Clones
  BY <1>1 DEF CloneOf, Clones
<1>3. /\ CloneOf(uri, checkedOut).origin = uri /\ CloneOf(uri, checkedOut).head # None
      /\ checkedOut => CloneOf(uri, checkedOut).head = CloneOf(uri, checkedOut).tree
  BY <1>1, GitAssumption DEF CloneOf
<1>4. CloneOf(uri, checkedOut) # NoClone
  BY <1>3, NoCloneType
<1> QED
  BY <1>2, <1>3, <1>4

LEMMA UpdatedType ==
  ASSUME TypeOK, NEW clone \in Clones, clone.origin \in Uris
  PROVE  /\ Updated(clone) \in Clones
         /\ Updated(clone).origin = clone.origin /\ Updated(clone).head = clone.head
         /\ Updated(clone).tree = clone.tree
<1>1. upstream[clone.origin].tip \in Commits /\ upstream[clone.origin].has \in SUBSET Commits
  BY DEF TypeOK
<1> QED
  BY <1>1 DEF Updated, Clones

LEMMA ResolveType ==
  ASSUME NEW clone \in Clones, NEW r \in Commits \cup Names
  PROVE  Resolve(clone, r) \in Commits \cup {None}
BY DEF Resolve, Clones, Names

LEMMA InitInv ==
  Init => IInv
<1> SUFFICES ASSUME Init PROVE IInv
  OBVIOUS
<1>1. /\ pc = [u \in Units |-> "idle"] /\ caller = [u \in Units |-> "HASH"]
      /\ hash = [u \in Units |-> None] /\ fetched = [u \in Units |-> FALSE]
      /\ copied = [u \in Units |-> None] /\ lock = [d \in Dirs |-> Nobody]
      /\ refspec = [d \in Dirs |-> None]
  BY DEF Init, Volatile
<1>2. upstream \in [Uris -> [tip : Commits, has : SUBSET Commits]]
  BY DEF Init
<1>3. ASSUME NEW d \in Dirs
      PROVE  /\ repo[d] \in Clones
             /\ repo[d] = NoClone \/ (None \notin {repo[d].origin, repo[d].head} /\ repo[d].head = repo[d].tree)
  <2>1. repo[d] = NoClone \/ \E uri \in Uris : repo[d] = CloneOf(uri, TRUE)
    BY DEF Init
  <2>2. CASE repo[d] = NoClone
    BY <2>2, NoCloneType
  <2>3. ASSUME NEW uri \in Uris, repo[d] = CloneOf(uri, TRUE)
        PROVE  repo[d] \in Clones /\ None \notin {repo[d].origin, repo[d].head} /\ repo[d].head = repo[d].tree
    <3>1. upstream[uri].tip \in Commits /\ upstream[uri].has \in SUBSET Commits
      BY <1>2
    <3> QED
      BY <2>3, <3>1, GitAssumption DEF CloneOf, Clones
  <2> QED
    BY <2>1, <2>2, <2>3
<1>4. repo \in [Dirs -> Clones]
  BY <1>3 DEF Init
<1>5. TypeOK
  BY <1>1, <1>2, <1>3, <1>4 DEF TypeOK
<1>6. PlaceInv /\ SettledInv /\ HashInv
  BY <1>1 DEF PlaceInv, SettledInv, HashInv, Inside
<1>7. ExistingInv
  <2>1. \A d \in Existing : d \in Dirs /\ repo[d] # NoClone
    BY GitAssumption DEF Init
  <2> QED
    BY <2>1, <1>3 DEF ExistingInv
<1> QED
  BY <1>5, <1>6, <1>7 DEF IInv

-----------------------------------------------------------------------------
(* A step of the unit that holds the mutex.                                *)

LEMMA InsideStep ==
  ASSUME Agreement, IInv, NEW v \in Units, NEW x \in Inside, pc[v] \in Inside,
         pc' = [pc EXCEPT ![v] = x], UNCHANGED <<unitVars, dirVars, upstream>>,
         NEW clone \in Clones, repo' = [repo EXCEPT ![Dir[v]] = clone],
         clone.head # None, x # "open",
         Dir[v] \in Existing => clone.head = clone.tree,
         Fetched(Dir[v]) => clone = repo[Dir[v]] /\ x \notin {"update", "fetch"},
         clone.origin = Uri[v],
         x = "verify" => There(v, clone)
  PROVE  IInv'
<1> USE DEF IInv, unitVars, dirVars
<1>1. Dir[v] \in Dirs /\ Uri[v] \in Uris /\ None \notin Uris /\ Nobody \notin Units
      /\ \A u \in Units : Dir[u] \in Dirs
  BY GitAssumption
<1>2. /\ pc'[v] = x /\ \A u \in Units : u # v => pc'[u] = pc[u]
      /\ repo'[Dir[v]] = clone /\ \A d \in Dirs : d # Dir[v] => repo'[d] = repo[d]
  BY <1>1 DEF TypeOK
<1>3. clone # NoClone
  BY NoCloneType
\* The others in the directory wait, or are done.
<1>4. lock[Dir[v]] = v /\ refspec[Dir[v]] = Refspec[v]
  BY DEF PlaceInv
<1>5. \A u \in Units : u # v /\ Dir[u] = Dir[v] => pc[u] \notin Inside
  BY <1>4 DEF PlaceInv
<1>6. TypeOK'
  <2>1. pc' \in [Units -> {"idle", "waiting", "open", "update", "look", "fetch",
                          "checkout", "verify", "hashed", "ready", "copied", "failed"}]
    BY DEF TypeOK, Inside
  <2>2. repo' \in [Dirs -> Clones] /\ \A d \in Dirs : repo'[d] = NoClone \/ None \notin {repo'[d].origin, repo'[d].head}
    BY <1>1, <1>2 DEF TypeOK
  <2> QED
    BY <2>1, <2>2 DEF TypeOK
<1>7. \A d : Fetched(d)' <=> Fetched(d)
  BY DEF Fetched
<1>8. PlaceInv'
  <2> SUFFICES ASSUME NEW u \in Units
               PROVE  /\ pc'[u] = "idle" => ~fetched[u]
                      /\ pc'[u] \in Inside => lock[Dir[u]] = u /\ refspec[Dir[u]] = Refspec[u]
                      /\ pc'[u] \in Inside \ {"open"} => repo'[Dir[u]] # NoClone /\ repo'[Dir[u]].origin = Uri[u]
                      /\ pc'[u] \in {"update", "fetch"} => ~Fetched(Dir[u])
                      /\ pc'[u] = "verify" => There(u, repo'[Dir[u]])
                      /\ pc'[u] \in {"ready", "copied"} => fetched[u]
                      /\ pc'[u] = "copied" => copied[u] = hash[u]
    BY <1>7 DEF PlaceInv, There, Fetched, Resolve
  <2>1. CASE u = v
    BY <2>1, <1>2, <1>3, <1>4 DEF Inside
  <2>2. CASE u # v /\ Dir[u] = Dir[v]
    BY <2>2, <1>2, <1>5 DEF PlaceInv, Inside
  <2>3. CASE u # v /\ Dir[u] # Dir[v]
    BY <2>3, <1>1, <1>2 DEF PlaceInv
  <2> QED
    BY <2>1, <2>2, <2>3
<1>9. SettledInv'
  <2> SUFFICES ASSUME NEW u \in Units, fetched[u]
               PROVE  /\ refspec[Dir[u]] = Refspec[u]
                      /\ There(u, repo'[Dir[u]])
                      /\ hash[u] = repo'[Dir[u]].tree
    BY DEF SettledInv, There, Resolve
  <2>1. repo'[Dir[u]] = repo[Dir[u]]
    BY <1>1, <1>2 DEF Fetched
  <2> QED
    BY <2>1 DEF SettledInv
<1>10. ExistingInv'
  BY <1>2, <1>3, GitAssumption DEF ExistingInv
<1>11. HashInv'
  <2> SUFFICES ASSUME NEW u \in Units, pc'[u] # "idle", Refspec[u] \in Commits \/ Digest[u] # None
               PROVE  hash[u] = IF Refspec[u] \in Commits THEN Refspec[u] ELSE Digest[u]
    BY DEF HashInv
  <2>1. pc[u] # "idle"
    BY <1>2 DEF Inside
  <2> QED
    BY <2>1 DEF HashInv
<1> QED
  BY <1>6, <1>8, <1>9, <1>10, <1>11

\* A step after which the unit does not hold the mutex.
LEMMA OutsideStep ==
  ASSUME IInv, NEW v \in Units, NEW x \in {"waiting", "hashed", "ready", "copied", "failed"},
         NEW h \in Commits \cup {None}, NEW f \in BOOLEAN, NEW c \in Commits \cup {None},
         pc' = [pc EXCEPT ![v] = x], UNCHANGED <<refspec, repo, upstream>>,
         caller' \in [Units -> {"HASH", "extract"}],
         hash' = [hash EXCEPT ![v] = h], fetched' = [fetched EXCEPT ![v] = f],
         copied' = [copied EXCEPT ![v] = c],
         \/ lock' = lock /\ pc[v] \notin Inside
         \/ lock' = [lock EXCEPT ![Dir[v]] = Nobody] /\ lock[Dir[v]] \in {v, Nobody},
         f => /\ fetched[v] \/ lock[Dir[v]] = v
              /\ refspec[Dir[v]] = Refspec[v] /\ There(v, repo[Dir[v]])
              /\ h = repo[Dir[v]].tree,
         x \in {"ready", "copied"} => f,
         x = "copied" => c = h,
         Refspec[v] \in Commits \/ Digest[v] # None =>
           h = IF Refspec[v] \in Commits THEN Refspec[v] ELSE Digest[v]
  PROVE  IInv'
<1> USE DEF IInv
<1>1. Dir[v] \in Dirs /\ Nobody \notin Units /\ \A u \in Units : Dir[u] \in Dirs
  BY GitAssumption
<1>2. /\ pc'[v] = x /\ hash'[v] = h /\ fetched'[v] = f /\ copied'[v] = c
      /\ \A u \in Units : u # v => /\ pc'[u] = pc[u] /\ hash'[u] = hash[u]
                                  /\ fetched'[u] = fetched[u] /\ copied'[u] = copied[u]
  BY DEF TypeOK
<1>3. TypeOK'
  <2>1. /\ pc' \in [Units -> {"idle", "waiting", "open", "update", "look", "fetch",
                             "checkout", "verify", "hashed", "ready", "copied", "failed"}]
        /\ hash' \in [Units -> Commits \cup {None}] /\ fetched' \in [Units -> BOOLEAN]
        /\ copied' \in [Units -> Commits \cup {None}]
    BY DEF TypeOK
  <2>2. lock' \in [Dirs -> Units \cup {Nobody}]
    BY DEF TypeOK
  <2> QED
    BY <2>1, <2>2 DEF TypeOK
\* Nobody else is inside the directory, or nothing of it changes.
<1>4. ASSUME NEW u \in Units, u # v, pc[u] \in Inside
      PROVE  lock'[Dir[u]] = u /\ (Dir[u] = Dir[v] => lock[Dir[v]] # v)
  <2>1. lock[Dir[u]] = u /\ u # Nobody
    BY <1>1, <1>4 DEF PlaceInv
  <2> QED
    BY <1>1, <1>4, <2>1 DEF TypeOK
<1>5. ASSUME NEW u \in Units, u # v, pc[u] \in {"update", "fetch"}
      PROVE  ~Fetched(Dir[u])'
  <2>1. ~Fetched(Dir[u]) /\ pc[u] \in Inside
    BY <1>5 DEF PlaceInv, Inside
  <2>2. SUFFICES ASSUME NEW w \in Units, Dir[w] = Dir[u], fetched'[w]
                 PROVE  FALSE
    BY DEF Fetched
  <2>3. w = v /\ f /\ ~fetched[v]
    BY <1>2, <2>1, <2>2 DEF Fetched
  <2> QED
    BY <1>4, <1>5, <2>1, <2>2, <2>3
<1>6. PlaceInv'
  <2> SUFFICES ASSUME NEW u \in Units
               PROVE  /\ pc'[u] = "idle" => ~fetched'[u]
                      /\ pc'[u] \in Inside => lock'[Dir[u]] = u /\ refspec[Dir[u]] = Refspec[u]
                      /\ pc'[u] \in Inside \ {"open"} => repo[Dir[u]] # NoClone /\ repo[Dir[u]].origin = Uri[u]
                      /\ pc'[u] \in {"update", "fetch"} => ~Fetched(Dir[u])'
                      /\ pc'[u] = "verify" => There(u, repo[Dir[u]])
                      /\ pc'[u] \in {"ready", "copied"} => fetched'[u]
                      /\ pc'[u] = "copied" => copied'[u] = hash'[u]
    BY DEF PlaceInv, There, Fetched, Resolve
  <2>1. CASE u = v
    BY <2>1, <1>2 DEF Inside
  <2>2. CASE u # v
    BY <2>2, <1>2, <1>4, <1>5 DEF PlaceInv
  <2> QED
    BY <2>1, <2>2
<1>7. SettledInv'
  <2> SUFFICES ASSUME NEW u \in Units, fetched'[u]
               PROVE  /\ refspec[Dir[u]] = Refspec[u]
                      /\ There(u, repo[Dir[u]])
                      /\ hash'[u] = repo[Dir[u]].tree
    BY DEF SettledInv, There, Resolve
  <2>1. CASE u = v
    BY <2>1, <1>2
  <2>2. CASE u # v
    BY <2>2, <1>2 DEF SettledInv
  <2> QED
    BY <2>1, <2>2
<1>8. ExistingInv'
  BY DEF ExistingInv
<1>9. HashInv'
  <2> SUFFICES ASSUME NEW u \in Units, pc'[u] # "idle", Refspec[u] \in Commits \/ Digest[u] # None
               PROVE  hash'[u] = IF Refspec[u] \in Commits THEN Refspec[u] ELSE Digest[u]
    BY DEF HashInv
  <2>1. CASE u = v
    BY <2>1, <1>2
  <2>2. CASE u # v
    BY <2>2, <1>2 DEF HashInv
  <2> QED
    BY <2>1, <2>2
<1> QED
  BY <1>3, <1>6, <1>7, <1>8, <1>9

\* Taking the mutex: whoever has fetched wants the same refspec.
LEMMA CommitStep ==
  ASSUME IInv, NEW v \in Units, Commit(v)
  PROVE  IInv'
<1> USE DEF IInv, unitVars
<1>1. /\ Dir[v] \in Dirs /\ Nobody \notin Units /\ (\A u \in Units : Dir[u] \in Dirs)
      /\ \A u \in Units : Refspec[u] \in Commits \cup Names /\ Refspec[u] # None
  BY GitAssumption
<1>2. /\ pc' = [pc EXCEPT ![v] = "open"] /\ pc[v] = "waiting" /\ lock[Dir[v]] = Nobody
      /\ lock' = [lock EXCEPT ![Dir[v]] = v] /\ refspec' = [refspec EXCEPT ![Dir[v]] = Refspec[v]]
      /\ refspec[Dir[v]] \in {None, Refspec[v]}
      /\ caller' = caller /\ hash' = hash /\ fetched' = fetched /\ copied' = copied
      /\ repo' = repo /\ upstream' = upstream
  BY DEF Commit, Enter, At, Goto, Lock, Conflict
<1>3. /\ pc'[v] = "open" /\ lock'[Dir[v]] = v /\ refspec'[Dir[v]] = Refspec[v]
      /\ \A u \in Units : u # v => pc'[u] = pc[u]
      /\ \A d \in Dirs : d # Dir[v] => lock'[d] = lock[d] /\ refspec'[d] = refspec[d]
  BY <1>1, <1>2 DEF TypeOK
<1>4. TypeOK'
  BY <1>1, <1>2 DEF TypeOK
<1>5. \A u \in Units : pc[u] \in Inside => Dir[u] # Dir[v]
  BY <1>1, <1>2 DEF PlaceInv
<1>6. \A u \in Units : fetched[u] => refspec'[Dir[u]] = Refspec[u]
  BY <1>1, <1>2, <1>3 DEF SettledInv
<1>7. PlaceInv'
  <2> SUFFICES ASSUME NEW u \in Units
               PROVE  /\ pc'[u] = "idle" => ~fetched[u]
                      /\ pc'[u] \in Inside => lock'[Dir[u]] = u /\ refspec'[Dir[u]] = Refspec[u]
                      /\ pc'[u] \in Inside \ {"open"} => repo[Dir[u]] # NoClone /\ repo[Dir[u]].origin = Uri[u]
                      /\ pc'[u] \in {"update", "fetch"} => ~Fetched(Dir[u])
                      /\ pc'[u] = "verify" => There(u, repo[Dir[u]])
                      /\ pc'[u] \in {"ready", "copied"} => fetched[u]
                      /\ pc'[u] = "copied" => copied[u] = hash[u]
    BY <1>2 DEF PlaceInv, There, Fetched, Resolve
  <2>1. CASE u = v
    BY <2>1, <1>3 DEF Inside
  <2>2. CASE u # v
    BY <2>2, <1>1, <1>3, <1>5 DEF PlaceInv
  <2> QED
    BY <2>1, <2>2
<1>8. SettledInv'
  BY <1>2, <1>6 DEF SettledInv, There, Resolve
<1>9. ExistingInv' /\ HashInv'
  BY <1>2, <1>3 DEF ExistingInv, HashInv
<1> QED
  BY <1>4, <1>7, <1>8, <1>9

\* With a unit that has fetched, the directory is as the next one wants it.
LEMMA FetchedThere ==
  ASSUME Agreement, IInv, NEW v \in Units, pc[v] \in Inside, Fetched(Dir[v])
  PROVE  There(v, repo[Dir[v]]) /\ repo[Dir[v]] # NoClone
<1>1. PICK u \in Units : Dir[u] = Dir[v] /\ fetched[u]
  BY DEF Fetched
<1>2. refspec[Dir[v]] = Refspec[v] /\ refspec[Dir[v]] = Refspec[u] /\ There(u, repo[Dir[v]])
  BY <1>1 DEF IInv, PlaceInv, SettledInv
<1>3. Uri[u] = Uri[v]
  BY <1>1 DEF Agreement
<1> QED
  BY <1>2, <1>3, NoCloneType DEF There

LEMMA FetchStep ==
  ASSUME Agreement, IInv, NEW v \in Units,
         \/ CloneUpstream(v) \/ UpdateOrigin(v) \/ UpdateFetch(v) \/ Look(v) \/ FetchOrigin(v)
         \/ Stay(v) \/ Checkout(v)
  PROVE  IInv'
<1> DEFINE d == Dir[v]
           clone == repo[Dir[v]]
<1>1. /\ d \in Dirs /\ Uri[v] \in Uris /\ Refspec[v] \in Commits \cup Names
      /\ None \notin Commits \cup Names /\ None \notin Uris /\ Commits \cap Names = {}
  BY GitAssumption
<1>2. clone \in Clones /\ (clone = NoClone \/ None \notin {clone.origin, clone.head})
      /\ clone.origin \in Uris \cup {None} /\ repo \in [Dirs -> Clones]
  BY <1>1 DEF IInv, TypeOK, Clones
<1>3. pc[v] \in Inside /\ UNCHANGED <<unitVars, dirVars, upstream>>
  BY DEF CloneUpstream, UpdateOrigin, UpdateFetch, Look, FetchOrigin, Stay, Checkout, At, Inside
<1>4. d \in Existing => clone # NoClone /\ clone.head = clone.tree
  BY DEF IInv, ExistingInv
<1>5. pc[v] \in Inside \ {"open"} => clone # NoClone /\ clone.origin = Uri[v] /\ clone.head # None
  BY <1>2 DEF IInv, PlaceInv
<1>6. Fetched(d) => There(v, clone) /\ clone # NoClone
  BY <1>3, FetchedThere
<1>7. CASE CloneUpstream(v)
  <2>1. clone = NoClone /\ repo' = [repo EXCEPT ![d] = CloneOf(Uri[v], FALSE)] /\ pc' = [pc EXCEPT ![v] = "checkout"]
    BY <1>7 DEF CloneUpstream, Clone, Goto
  <2>2. /\ CloneOf(Uri[v], FALSE) \in Clones /\ CloneOf(Uri[v], FALSE).head # None
        /\ CloneOf(Uri[v], FALSE).origin = Uri[v]
    BY <1>1, CloneOfType DEF IInv
  <2>3. ~Fetched(d) /\ d \notin Existing
    BY <1>4, <1>6, <2>1
  <2> QED
    BY <1>3, <2>1, <2>2, <2>3, InsideStep DEF Inside
<1>8. CASE UpdateOrigin(v)
  <2> DEFINE other == [clone EXCEPT !.origin = Uri[v]]
  <2>1. /\ clone # NoClone /\ repo' = [repo EXCEPT ![d] = other]
        /\ pc' = [pc EXCEPT ![v] = IF clone.origin = Uri[v] THEN "look" ELSE "update"]
    BY <1>1, <1>2, <1>8 DEF UpdateOrigin, Clone, Goto
  <2>2. other \in Clones /\ other.origin = Uri[v] /\ other.head = clone.head /\ other.tree = clone.tree
        /\ (clone.origin = Uri[v] => other = clone)
    BY <1>1, <1>2 DEF Clones
  <2>3. clone.head # None
    BY <1>2, <2>1
  <2>4. Fetched(d) => clone.origin = Uri[v]
    BY <1>6 DEF There
  <2> HIDE DEF other
  <2>5. CASE clone.origin = Uri[v]
    <3>1. pc' = [pc EXCEPT ![v] = "look"] /\ other = clone
      BY <2>1, <2>2, <2>5
    <3> QED
      BY <1>3, <1>4, <2>1, <2>2, <2>3, <3>1, InsideStep DEF Inside
  <2>6. CASE clone.origin # Uri[v]
    <3>1. pc' = [pc EXCEPT ![v] = "update"]
      BY <2>1, <2>6
    <3>2. ~Fetched(d)
      BY <2>4, <2>6
    <3>3. /\ other.head # None /\ (d \in Existing => other.head = other.tree)
          /\ "update" \in Inside /\ "update" # "open" /\ "update" # "verify"
          /\ repo' = [repo EXCEPT ![Dir[v]] = other] /\ ~Fetched(Dir[v])
      BY <1>4, <2>1, <2>2, <2>3, <3>2 DEF Inside
    <3>4. other \in Clones /\ other.origin = Uri[v] /\ (Dir[v] \in Existing => other.head = other.tree)
      BY <2>2, <3>3
    <3> QED
      BY <1>3, <3>1, <3>3, <3>4, InsideStep
  <2> QED
    BY <2>5, <2>6
<1>9. CASE UpdateFetch(v) \/ FetchOrigin(v)
  <2>1. PICK x \in {"look", "checkout"} : pc' = [pc EXCEPT ![v] = x]
    BY <1>9 DEF UpdateFetch, FetchOrigin, Goto
  <2>2. repo' = [repo EXCEPT ![d] = Updated(clone)] /\ pc[v] \in {"update", "fetch"}
    BY <1>9 DEF UpdateFetch, FetchOrigin, At
  <2>3. clone # NoClone /\ clone.origin = Uri[v] /\ clone.head # None /\ ~Fetched(d)
    BY <1>5, <2>2 DEF IInv, PlaceInv, Inside
  <2>4. /\ Updated(clone) \in Clones /\ Updated(clone).origin = Uri[v]
        /\ Updated(clone).head = clone.head /\ Updated(clone).tree = clone.tree
    BY <1>1, <1>2, <2>3, UpdatedType DEF IInv
  <2> QED
    BY <1>3, <1>4, <2>1, <2>2, <2>3, <2>4, InsideStep DEF Inside
<1>10. ASSUME repo' = repo
       PROVE  repo' = [repo EXCEPT ![d] = clone]
  BY <1>2, <1>10
<1>11. CASE Look(v)
  <2>1. /\ pc[v] = "look" /\ repo' = [repo EXCEPT ![d] = clone]
        /\ pc' = [pc EXCEPT ![v] = IF Resolve(clone, Refspec[v]) = None THEN "fetch" ELSE "checkout"]
    BY <1>10, <1>11 DEF Look, At, Goto, Clone
  <2>2. clone # NoClone /\ clone.origin = Uri[v] /\ clone.head # None
    BY <1>5, <2>1 DEF Inside
  <2>3. Fetched(d) => Resolve(clone, Refspec[v]) # None
    BY <1>6 DEF There
  <2> HIDE DEF clone
  <2>4. CASE Resolve(clone, Refspec[v]) = None
    <3>1. pc' = [pc EXCEPT ![v] = "fetch"]
      BY <2>1, <2>4
    <3> QED
      BY <1>2, <1>3, <1>4, <2>1, <2>2, <2>3, <2>4, <3>1, InsideStep DEF Inside, clone
  <2>5. CASE Resolve(clone, Refspec[v]) # None
    <3>1. pc' = [pc EXCEPT ![v] = "checkout"]
      BY <2>1, <2>5
    <3> QED
      BY <1>2, <1>3, <1>4, <2>1, <2>2, <3>1, InsideStep DEF Inside, clone
  <2> QED
    BY <2>4, <2>5
<1>12. CASE Stay(v)
  <2>1. /\ pc[v] = "checkout" /\ Refspec[v] \in {"HEAD", "branch"} /\ Resolve(clone, Refspec[v]) = clone.head
        /\ pc' = [pc EXCEPT ![v] = "verify"] /\ repo' = [repo EXCEPT ![d] = clone]
    BY <1>10, <1>12 DEF Stay, At, Goto, Clone
  <2>2. clone # NoClone /\ clone.origin = Uri[v] /\ clone.head # None
    BY <1>5, <2>1 DEF Inside
  <2>3. d \in Existing
    BY <2>1 DEF Agreement
  <2>4. There(v, clone)
    BY <1>4, <2>1, <2>2, <2>3 DEF There
  <2> QED
    BY <1>2, <1>3, <1>4, <2>1, <2>2, <2>4, InsideStep DEF Inside
<1>13. CASE Checkout(v)
  <2> DEFINE commit == Resolve(clone, Refspec[v])
             other == [clone EXCEPT !.head = commit, !.tree = commit]
  <2>1. /\ pc[v] = "checkout" /\ Refspec[v] \notin {"HEAD", "branch"} /\ commit # None
        /\ pc' = [pc EXCEPT ![v] = "verify"]
    BY <1>13 DEF Checkout, At, Goto, Clone
  <2>2. repo' = [repo EXCEPT ![d] = other]
    BY <1>1, <1>2, <1>13 DEF Checkout, Clone
  <2>3. clone # NoClone /\ clone.origin = Uri[v]
    BY <1>5, <2>1 DEF Inside
  <2>4. commit \in Commits
    BY <1>1, <1>2, <2>1, ResolveType
  <2>5. Resolve(other, Refspec[v]) = commit
    <3>1. other.remote = clone.remote /\ other.known = clone.known
      BY <1>2 DEF Clones
    <3> QED
      BY <2>1, <3>1 DEF Resolve
  <2> HIDE DEF commit
  <2>6. /\ other \in Clones /\ other.origin = Uri[v] /\ other.head = commit /\ other.tree = commit
        /\ (clone.head = commit /\ clone.tree = commit => other = clone)
    BY <1>2, <2>3, <2>4 DEF Clones
  <2>7. Fetched(d) => other = clone
    BY <1>6, <2>6 DEF There, commit
  <2> HIDE DEF other
  <2>8. There(v, other)
    BY <2>1, <2>5, <2>6 DEF There
  <2> QED
    BY <1>3, <2>1, <2>2, <2>6, <2>7, <2>8, InsideStep DEF Inside
<1> QED
  BY <1>7, <1>8, <1>9, <1>11, <1>12, <1>13

\* The steps of HASH() and extract(), and those that leave fetch().
LEMMA CallStep ==
  ASSUME IInv, NEW v \in Units,
         AskHash(v) \/ Extract(v) \/ Copy(v) \/ Refuse(v) \/ Throws(v) \/ Verify(v)
  PROVE  IInv'
<1> DEFINE d == Dir[v]
           told == IF Refspec[v] \in Commits THEN Refspec[v] ELSE Digest[v]
<1> USE DEF unitVars, dirVars
<1>1. /\ d \in Dirs /\ Refspec[v] \in Commits \cup Names /\ Digest[v] \in Commits \cup {None}
      /\ None \notin Commits \cup Names
  BY GitAssumption
<1>2. /\ hash[v] \in Commits \cup {None} /\ fetched[v] \in BOOLEAN /\ copied[v] \in Commits \cup {None}
      /\ repo[d] \in Clones /\ caller[v] \in {"HASH", "extract"}
      /\ repo[d].tree \in Commits \cup {None} /\ repo[d].head \in Commits \cup {None}
      /\ lock[d] \in Units \cup {Nobody}
  BY <1>1 DEF IInv, TypeOK, Clones
<1>3. /\ hash = [hash EXCEPT ![v] = hash[v]] /\ fetched = [fetched EXCEPT ![v] = fetched[v]]
      /\ copied = [copied EXCEPT ![v] = copied[v]] /\ lock \in [Dirs -> Units \cup {Nobody}]
      /\ caller \in [Units -> {"HASH", "extract"}]
  BY DEF IInv, TypeOK
<1>4. fetched[v] => /\ refspec[d] = Refspec[v] /\ There(v, repo[d])
                    /\ hash[v] = repo[d].tree /\ pc[v] # "idle"
  BY DEF IInv, SettledInv, PlaceInv
<1>5. pc[v] # "idle" /\ (Refspec[v] \in Commits \/ Digest[v] # None) => hash[v] = told
  BY DEF IInv, HashInv
<1>6. told \in Commits \cup {None}
  BY <1>1
<1> HIDE DEF told
<1>7. CASE AskHash(v)
  <2>1. /\ pc[v] \in {"idle", "hashed"} /\ lock' = lock /\ UNCHANGED <<refspec, repo, upstream>>
        /\ fetched' = [fetched EXCEPT ![v] = fetched[v]] /\ copied' = [copied EXCEPT ![v] = copied[v]]
    BY <1>3, <1>7 DEF AskHash
  <2>2. CASE Refspec[v] \in Commits \/ Digest[v] # None
    <3>1. pc' = [pc EXCEPT ![v] = "hashed"] /\ hash' = [hash EXCEPT ![v] = told] /\ caller' = caller
      BY <1>7, <2>2 DEF AskHash, Goto, told
    <3>2. fetched[v] => hash[v] = told
      BY <1>4, <1>5, <2>2
    <3> QED
      BY <1>2, <1>3, <1>4, <1>6, <2>1, <3>1, <3>2, OutsideStep DEF Inside, told
  <2>3. CASE ~(Refspec[v] \in Commits \/ Digest[v] # None)
    <3>1. /\ pc' = [pc EXCEPT ![v] = "waiting"] /\ hash' = [hash EXCEPT ![v] = hash[v]]
          /\ caller' \in [Units -> {"HASH", "extract"}]
      BY <1>3, <1>7, <2>3 DEF AskHash, Goto
    <3> QED
      BY <1>2, <1>4, <2>1, <2>3, <3>1, OutsideStep DEF Inside
  <2> QED
    BY <2>2, <2>3
<1>8. CASE Extract(v)
  <2>1. /\ pc[v] = "hashed" /\ lock' = lock /\ UNCHANGED <<refspec, repo, upstream>>
        /\ fetched' = [fetched EXCEPT ![v] = fetched[v]] /\ copied' = [copied EXCEPT ![v] = copied[v]]
        /\ hash' = [hash EXCEPT ![v] = hash[v]] /\ caller' \in [Units -> {"HASH", "extract"}]
        /\ pc' = [pc EXCEPT ![v] = IF fetched[v] THEN "ready" ELSE "waiting"]
    BY <1>3, <1>8 DEF Extract, At, Goto
  <2>2. PICK x \in {"ready", "waiting"} : pc' = [pc EXCEPT ![v] = x] /\ (x = "ready" => fetched[v])
    BY <2>1
  <2> QED
    BY <1>2, <1>4, <1>5, <2>1, <2>2, OutsideStep DEF Inside, told
<1>9. CASE Copy(v)
  <2>1. /\ pc[v] = "ready" /\ lock' = lock /\ UNCHANGED <<refspec, repo, upstream>>
        /\ fetched' = [fetched EXCEPT ![v] = fetched[v]] /\ copied' = [copied EXCEPT ![v] = repo[d].tree]
        /\ hash' = [hash EXCEPT ![v] = hash[v]] /\ caller' = caller
        /\ pc' = [pc EXCEPT ![v] = "copied"]
    BY <1>3, <1>9 DEF Copy, At, Goto, Clone
  <2>2. fetched[v]
    BY <2>1 DEF IInv, PlaceInv
  <2> QED
    BY <1>2, <1>3, <1>4, <1>5, <2>1, <2>2, OutsideStep DEF Inside, told
<1>10. CASE Refuse(v)
  <2>1. /\ pc[v] = "waiting" /\ lock' = [lock EXCEPT ![d] = Nobody] /\ lock[d] = Nobody
        /\ UNCHANGED <<refspec, repo, upstream>>
        /\ fetched' = [fetched EXCEPT ![v] = fetched[v]] /\ copied' = [copied EXCEPT ![v] = copied[v]]
        /\ hash' = [hash EXCEPT ![v] = hash[v]] /\ caller' = caller
    BY <1>3, <1>10 DEF Refuse, Enter, At, Return, Unlock
  <2>2. PICK x \in {"hashed", "failed"} : pc' = [pc EXCEPT ![v] = x]
    BY <1>10 DEF Refuse, Return, Goto
  <2> QED
    BY <1>2, <1>3, <1>4, <1>5, <2>1, <2>2, OutsideStep DEF Inside, told
<1>11. CASE Throws(v)
  <2>1. /\ pc[v] \in Inside /\ pc[v] # "idle" /\ lock' = [lock EXCEPT ![d] = Nobody]
        /\ UNCHANGED <<refspec, repo, upstream>>
        /\ fetched' = [fetched EXCEPT ![v] = fetched[v]] /\ copied' = [copied EXCEPT ![v] = copied[v]]
        /\ hash' = [hash EXCEPT ![v] = hash[v]] /\ caller' = caller /\ pc' = [pc EXCEPT ![v] = "failed"]
    BY <1>3, <1>11 DEF Throws, Unlock, Goto, Inside
  <2>2. lock[d] = v
    BY <2>1 DEF IInv, PlaceInv
  <2> QED
    BY <1>2, <1>3, <1>4, <1>5, <2>1, <2>2, OutsideStep DEF told
<1>12. CASE Verify(v)
  <2> DEFINE ok == hash[v] \in {None, repo[d].head}
             h == IF hash[v] = None THEN repo[d].head ELSE hash[v]
  <2>1. /\ pc[v] = "verify" /\ lock' = [lock EXCEPT ![d] = Nobody]
        /\ UNCHANGED <<refspec, repo, upstream>>
        /\ fetched' = [fetched EXCEPT ![v] = ok] /\ copied' = [copied EXCEPT ![v] = copied[v]]
        /\ hash' = [hash EXCEPT ![v] = h] /\ caller' = caller
    BY <1>3, <1>12 DEF Verify, At, Return, Unlock, Clone
  <2>2. /\ lock[d] = v /\ refspec[d] = Refspec[v] /\ There(v, repo[d])
    BY <2>1 DEF IInv, PlaceInv, Inside
  <2>3. PICK x \in {"hashed", "ready", "failed"} : pc' = [pc EXCEPT ![v] = x] /\ (x = "ready" => ok)
    BY <1>12 DEF Verify, Return, Goto, Clone
  <2>4. h \in Commits \cup {None} /\ (ok => h = repo[d].tree) /\ ok \in BOOLEAN
    BY <1>2, <2>2 DEF There
  <2>5. Refspec[v] \in Commits \/ Digest[v] # None => h = told
    <3>1. Refspec[v] \in Commits \/ Digest[v] # None => hash[v] = told /\ told # None
      BY <1>1, <1>5, <2>1 DEF told
    <3> QED
      BY <3>1
  <2> HIDE DEF ok, h
  <2> QED
    BY <1>2, <1>3, <2>1, <2>2, <2>3, <2>4, <2>5, OutsideStep DEF told
<1> QED
  BY <1>7, <1>8, <1>9, <1>10, <1>11, <1>12

\* Pushes, the developer's checkouts between runs, and restarts.
LEMMA OutsideWorldStep ==
  ASSUME IInv,
         \/ \E uri \in Uris, c \in Commits : Push(uri, c)
         \/ \E d \in Existing, c \in Commits : CheckoutByHand(d, c)
         \/ Restart
  PROVE  IInv'
<1> USE DEF IInv, unitVars, dirVars
<1>1. /\ None \notin Commits \cup Names /\ None \notin Uris /\ Existing \subseteq Dirs
      /\ \A u \in Units : Dir[u] \in Dirs
  BY GitAssumption
<1>2. ASSUME NEW uri \in Uris, NEW c \in Commits, Push(uri, c)
      PROVE  IInv'
  <2>1. UNCHANGED <<pc, caller, hash, fetched, copied, lock, refspec, repo>>
    BY <1>2 DEF Push
  <2>2. upstream' \in [Uris -> [tip : Commits, has : SUBSET Commits]]
    <3>1. upstream' = [upstream EXCEPT ![uri] = [tip |-> c, has |-> upstream[uri].has \cup {c}]]
      BY <1>2 DEF Push
    <3>2. upstream[uri].has \in SUBSET Commits
      BY DEF TypeOK
    <3> QED
      BY <3>1, <3>2 DEF TypeOK
  <2>3. TypeOK'
    BY <2>1, <2>2 DEF TypeOK
  <2>4. PlaceInv' /\ SettledInv'
    BY <2>1 DEF PlaceInv, SettledInv, There, Resolve, Fetched
  <2>5. ExistingInv' /\ HashInv'
    BY <2>1 DEF ExistingInv, HashInv
  <2> QED
    BY <2>3, <2>4, <2>5
<1>3. ASSUME NEW d \in Existing, NEW c \in Commits, CheckoutByHand(d, c)
      PROVE  IInv'
  <2> DEFINE other == [Updated(repo[d]) EXCEPT !.head = c, !.tree = c]
  <2>1. /\ UNCHANGED <<pc, caller, hash, fetched, copied, lock, refspec, upstream>>
        /\ repo' = [repo EXCEPT ![d] = other]
    BY <1>3 DEF CheckoutByHand
  <2>2. \A u \in Units : pc[u] = "idle" /\ ~fetched[u]
    BY <1>3 DEF CheckoutByHand, Volatile, PlaceInv
  <2>3. d \in Dirs /\ repo[d] \in Clones /\ repo[d].origin \in Uris
    BY <1>1 DEF TypeOK, ExistingInv, Clones
  <2>4. Updated(repo[d]) \in Clones /\ Updated(repo[d]).origin = repo[d].origin
    BY <2>3, UpdatedType
  <2>5. other \in Clones /\ other.origin \in Uris /\ other.head = c /\ other.tree = c
    BY <2>3, <2>4 DEF Clones
  <2> HIDE DEF other
  <2>6. repo'[d] = other /\ \A e \in Dirs : e # d => repo'[e] = repo[e]
    BY <2>1, <2>3 DEF TypeOK
  <2>7. TypeOK'
    <3>1. repo' \in [Dirs -> Clones]
      BY <2>1, <2>3, <2>5 DEF TypeOK
    <3>2. \A e \in Dirs : repo'[e] = NoClone \/ None \notin {repo'[e].origin, repo'[e].head}
      BY <1>1, <2>5, <2>6 DEF TypeOK
    <3> QED
      BY <2>1, <3>1, <3>2 DEF TypeOK
  <2>8. PlaceInv' /\ SettledInv' /\ HashInv'
    BY <2>1, <2>2 DEF PlaceInv, SettledInv, HashInv, Inside
  <2>9. ExistingInv'
    <3>1. other # NoClone
      BY <1>1, <2>5, NoCloneType
    <3> QED
      BY <1>1, <2>5, <2>6, <3>1 DEF ExistingInv
  <2> QED
    BY <2>7, <2>8, <2>9
<1>4. CASE Restart
  <2>1. /\ pc' = [u \in Units |-> "idle"] /\ caller' = [u \in Units |-> "HASH"]
        /\ hash' = [u \in Units |-> None] /\ fetched' = [u \in Units |-> FALSE]
        /\ copied' = [u \in Units |-> None] /\ lock' = [e \in Dirs |-> Nobody]
        /\ refspec' = [e \in Dirs |-> None] /\ repo' = repo /\ upstream' = upstream
    BY <1>4 DEF Restart, Volatile
  <2>2. TypeOK'
    BY <2>1 DEF TypeOK
  <2>3. PlaceInv' /\ SettledInv' /\ HashInv' /\ ExistingInv'
    BY <2>1 DEF PlaceInv, SettledInv, HashInv, ExistingInv, Inside
  <2> QED
    BY <2>2, <2>3
<1> QED
  BY <1>2, <1>3, <1>4

LEMMA StutterStep ==
  ASSUME IInv, UNCHANGED vars
  PROVE  IInv'
BY DEF IInv, vars, unitVars, dirVars, TypeOK, PlaceInv, SettledInv, ExistingInv, HashInv,
       There, Resolve, Fetched

LEMMA NextInv ==
  ASSUME Agreement, IInv, [Next]_vars
  PROVE  IInv'
<1>1. ASSUME NEW v \in Units, AskHash(v) \/ Extract(v) \/ Copy(v) \/ Fetch(v)
      PROVE  IInv'
  BY <1>1, CallStep, CommitStep, FetchStep DEF Fetch
<1> QED
  BY <1>1, OutsideWorldStep, StutterStep DEF Next

\* The invariant, for packages that agree on what each directory is for.
THEOREM Invariance ==
  ASSUME Agreement
  PROVE  Spec => []IInv
<1>1. Init => IInv
  BY InitInv
<1>2. IInv /\ [Next]_vars => IInv'
  BY NextInv
<1> QED
  BY <1>1, <1>2, PTL DEF Spec

\* Every variable keeps its type, and a directory that is there is a whole
\* clone with something as HEAD, after failures and restarts too.
THEOREM TypeCorrect ==
  ASSUME Agreement
  PROVE  Spec => []TypeOK
<1>1. IInv => TypeOK
  BY DEF IInv
<1> QED
  BY <1>1, Invariance, PTL

\* Once extracted, a package has in its work directory the commit that its
\* extraction info says (git.cpp:322-336, extraction.cpp:59-61).
THEOREM BuiltFromHashHolds ==
  ASSUME Agreement
  PROVE  Spec => []BuiltFromHash
<1>1. IInv => BuiltFromHash
  BY DEF IInv, PlaceInv, BuiltFromHash, At
<1> QED
  BY <1>1, Invariance, PTL

-----------------------------------------------------------------------------
(* The refinement.                                                         *)

Content == [d \in Dirs |-> repo[d].tree]
HeldBy == [u \in Units |-> IF fetched[u] THEN hash[u] ELSE None]

\* A step that tells nobody anything leaves the held directories alone.
LEMMA UntoldStep ==
  ASSUME IInv, IInv', UNCHANGED <<hash, fetched>>
  PROVE  Shared!Change
<1>1. HeldBy' = HeldBy
  BY DEF HeldBy
<1>2. ASSUME NEW u \in Units, HeldBy[u] # None
      PROVE  Content'[Dir[u]] = Content[Dir[u]]
  <2>1. fetched[u] /\ Dir[u] \in Dirs
    BY <1>2, GitAssumption DEF HeldBy
  <2>2. hash[u] = repo[Dir[u]].tree /\ hash[u] = repo'[Dir[u]].tree
    BY <2>1 DEF IInv, SettledInv
  <2> QED
    BY <2>1, <2>2 DEF Content
<1> QED
  BY <1>1, <1>2 DEF Shared!Change, Content, HeldBy

LEMMA AskStep ==
  ASSUME IInv, NEW v \in Units, AskHash(v)
  PROVE  UNCHANGED Shared!vars
<1>1. fetched' = fetched /\ repo' = repo
  BY DEF AskHash
<1>2. ASSUME NEW u \in Units, fetched[u]
      PROVE  hash'[u] = hash[u]
  <2>1. CASE Refspec[v] \in Commits \/ Digest[v] # None
    <3>1. hash' = [hash EXCEPT ![v] = IF Refspec[v] \in Commits THEN Refspec[v] ELSE Digest[v]]
      BY <2>1 DEF AskHash
    <3>2. u = v => hash[v] = IF Refspec[v] \in Commits THEN Refspec[v] ELSE Digest[v]
      BY <1>2, <2>1 DEF IInv, PlaceInv, HashInv
    <3> QED
      BY <3>1, <3>2 DEF IInv, TypeOK
  <2>2. CASE ~(Refspec[v] \in Commits \/ Digest[v] # None)
    BY <2>2 DEF AskHash
  <2> QED
    BY <2>1, <2>2
<1>3. HeldBy' = HeldBy
  BY <1>1, <1>2 DEF HeldBy
<1>4. Content' = Content
  BY <1>1 DEF Content
<1> QED
  BY <1>3, <1>4 DEF Shared!vars, Content, HeldBy

LEMMA VerifyStep ==
  ASSUME IInv, NEW v \in Units, Verify(v)
  PROVE  Shared!Hold(v) \/ UNCHANGED Shared!vars
<1> DEFINE d == Dir[v]
           ok == hash[v] \in {None, repo[d].head}
<1>1. /\ repo' = repo /\ fetched' = [fetched EXCEPT ![v] = ok] /\ d \in Dirs
      /\ hash' = [hash EXCEPT ![v] = IF hash[v] = None THEN repo[d].head ELSE hash[v]]
  BY GitAssumption DEF Verify, Clone
<1>2. There(v, repo[d])
  BY DEF Verify, At, IInv, PlaceInv
<1>3. /\ fetched'[v] = ok /\ hash'[v] = (IF hash[v] = None THEN repo[d].head ELSE hash[v])
      /\ \A u \in Units : u # v => fetched'[u] = fetched[u] /\ hash'[u] = hash[u]
  BY <1>1 DEF IInv, TypeOK
<1>4. ok => hash'[v] = repo[d].tree
  BY <1>2, <1>3 DEF There
<1>5. fetched[v] => ok /\ hash[v] = repo[d].tree
  BY <1>2 DEF IInv, SettledInv, There
<1>6. Content' = Content /\ Content[d] = repo[d].tree
  BY <1>1 DEF Content
<1>7. CASE ~fetched[v] /\ ok
  <2>1. HeldBy[v] = None
    BY <1>7 DEF HeldBy
  <2>2. HeldBy' = [HeldBy EXCEPT ![v] = Content[Dir[v]]]
    BY <1>3, <1>4, <1>6, <1>7 DEF HeldBy
  <2> QED
    BY <1>6, <2>1, <2>2 DEF Shared!Hold, Content, HeldBy
<1>8. CASE fetched[v] \/ ~ok
  <2>1. HeldBy' = HeldBy
    BY <1>3, <1>4, <1>5, <1>8 DEF HeldBy
  <2> QED
    BY <1>6, <2>1 DEF Shared!vars, Content, HeldBy
<1> QED
  BY <1>7, <1>8

LEMMA RestartStep ==
  ASSUME Restart
  PROVE  Shared!Release
<1>1. HeldBy' = [u \in Units |-> IF u \in Units THEN None ELSE HeldBy[u]]
  BY DEF Restart, Volatile, HeldBy
<1>2. Content' = Content
  BY DEF Restart, Content
<1> QED
  BY <1>1, <1>2 DEF Shared!Release, Content, HeldBy

LEMMA RefinementStep ==
  ASSUME Agreement, IInv, [Next]_vars
  PROVE  [Shared!Next]_(Shared!vars)
<1> USE DEF unitVars, dirVars
<1>1. IInv'
  BY NextInv
<1>2. ASSUME NEW v \in Units, AskHash(v) \/ Extract(v) \/ Copy(v) \/ Fetch(v)
      PROVE  Shared!Next \/ UNCHANGED Shared!vars
  <2>1. CASE AskHash(v)
    BY <2>1, AskStep
  <2>2. CASE Verify(v)
    BY <2>2, VerifyStep DEF Shared!Next
  <2>3. CASE ~AskHash(v) /\ ~Verify(v)
    <3>1. UNCHANGED <<hash, fetched>>
      BY <1>2, <2>3 DEF Extract, Copy, Fetch, Refuse, Commit, CloneUpstream, UpdateOrigin,
           UpdateFetch, Look, FetchOrigin, Stay, Checkout, Throws
    <3> QED
      BY <1>1, <3>1, UntoldStep DEF Shared!Next
  <2> QED
    BY <2>1, <2>2, <2>3
<1>3. ASSUME NEW uri \in Uris, NEW c \in Commits, Push(uri, c)
      PROVE  Shared!Next
  BY <1>1, <1>3, UntoldStep DEF Push, Shared!Next
<1>4. ASSUME NEW d \in Existing, NEW c \in Commits, CheckoutByHand(d, c)
      PROVE  Shared!Next
  BY <1>1, <1>4, UntoldStep DEF CheckoutByHand, Shared!Next
<1>5. CASE Restart
  BY <1>5, RestartStep DEF Shared!Next
<1>6. CASE UNCHANGED vars
  BY <1>6 DEF vars, Shared!vars
<1> QED
  BY <1>2, <1>3, <1>4, <1>5, <1>6 DEF Next

\* From the moment a package's fetch succeeds until the run ends, what is
\* checked out in its directory does not change, whatever the other packages,
\* the remotes and failing git commands do: the directory is a shared source.
THEOREM Implements ==
  ASSUME Agreement
  PROVE  Spec => ImplementsShared
<1>1. Init => Shared!Init
  BY DEF Init, Volatile, Shared!Init
<1>2. IInv /\ [Next]_vars => [Shared!Next]_(Shared!vars)
  BY RefinementStep
<1> QED
  BY <1>1, <1>2, Invariance, PTL DEF Spec, ImplementsShared, Shared!Spec


-----------------------------------------------------------------------------
(* Downloads, with the state of their own.                                 *)

CONSTANTS Files, File, Contents, Want, NoHash, NoFile
VARIABLES at, mutex, digest, dl

D == INSTANCE Download WITH pc <- at, lock <- mutex, hash <- digest

\* The run is committed to the hash of everyone who is past the check.
Committed ==
  \A u \in Units :
    at[u] \in {"look", "verify", "fetched"} /\ Want[u] # NoHash
      => digest[File[u]] = Want[u]

DownloadIInv == D!TypeOK /\ D!Exclusive /\ Committed /\ D!FetchedStays

\* No step leaves the types.
LEMMA DownloadTypeStep ==
  ASSUME D!Parameters, D!TypeOK, [D!Next]_(D!vars)
  PROVE  D!TypeOK'
<1> USE DEF D!Parameters, D!TypeOK
<1>1. ASSUME NEW u \in Units, D!Call(u) \/ D!Refetch(u) PROVE D!TypeOK'
  BY <1>1 DEF D!Call, D!Refetch, D!Goto
<1>2. ASSUME NEW u \in Units, D!Lock(u) PROVE D!TypeOK'
  BY <1>2 DEF D!Lock, D!Goto
<1>3. ASSUME NEW u \in Units, D!Refuse(u) \/ D!GetFails(u) \/ D!Verified(u) PROVE D!TypeOK'
  BY <1>3 DEF D!Refuse, D!GetFails, D!Verified, D!Goto, D!Unlock
<1>4. ASSUME NEW u \in Units, D!Commit(u) PROVE D!TypeOK'
  BY <1>4 DEF D!Commit, D!Goto
<1>5. ASSUME NEW u \in Units, D!Have(u) PROVE D!TypeOK'
  BY <1>5 DEF D!Have, D!Goto
<1>6. ASSUME NEW u \in Units, NEW c \in Contents, D!Get(u, c) PROVE D!TypeOK'
  BY <1>6 DEF D!Get, D!Goto
<1>7. ASSUME NEW u \in Units, D!Mismatch(u) PROVE D!TypeOK'
  BY <1>7 DEF D!Mismatch, D!Goto, D!Unlock
<1>8. CASE D!Restart
  BY <1>8 DEF D!Restart
<1>9. CASE UNCHANGED D!vars
  BY <1>9 DEF D!vars
<1> QED
  BY <1>1, <1>2, <1>3, <1>4, <1>5, <1>6, <1>7, <1>8, <1>9 DEF D!Next, D!Fetch

\* Who is inside holds the mutex; so nobody else is inside with the same file.
LEMMA DownloadExclusiveStep ==
  ASSUME D!Parameters, D!TypeOK, D!Exclusive, [D!Next]_(D!vars)
  PROVE  D!Exclusive'
<1> SUFFICES ASSUME NEW v \in Units, at'[v] \in {"commit", "look", "verify"}
             PROVE  mutex'[File[v]] = v
  BY DEF D!Exclusive
<1> USE DEF D!Parameters, D!TypeOK, D!Exclusive
<1>1. ASSUME NEW u \in Units, D!Call(u) \/ D!Refetch(u) PROVE mutex'[File[v]] = v
  BY <1>1 DEF D!Call, D!Refetch, D!Goto
<1>2. ASSUME NEW u \in Units, D!Lock(u) PROVE mutex'[File[v]] = v
  BY <1>2 DEF D!Lock, D!Goto
<1>3. ASSUME NEW u \in Units, D!Refuse(u) \/ D!GetFails(u) \/ D!Verified(u) \/ D!Mismatch(u)
      PROVE  mutex'[File[v]] = v
  <2>1. at[u] \in {"commit", "look", "verify"} /\ mutex[File[u]] = u /\ v # u
    BY <1>3 DEF D!Refuse, D!GetFails, D!Verified, D!Mismatch, D!Goto
  <2>2. at[v] \in {"commit", "look", "verify"} /\ mutex[File[v]] = v /\ File[v] # File[u]
    BY <1>3, <2>1 DEF D!Refuse, D!GetFails, D!Verified, D!Mismatch, D!Goto
  <2> QED
    BY <1>3, <2>2 DEF D!Refuse, D!GetFails, D!Verified, D!Mismatch, D!Unlock
<1>4. ASSUME NEW u \in Units, D!Commit(u) \/ D!Have(u) PROVE mutex'[File[v]] = v
  BY <1>4 DEF D!Commit, D!Have, D!Goto
<1>5. ASSUME NEW u \in Units, NEW c \in Contents, D!Get(u, c) PROVE mutex'[File[v]] = v
  BY <1>5 DEF D!Get, D!Goto
<1>6. CASE D!Restart
  BY <1>6 DEF D!Restart
<1>7. CASE UNCHANGED D!vars
  BY <1>7 DEF D!vars
<1> QED
  BY <1>1, <1>2, <1>3, <1>4, <1>5, <1>6, <1>7 DEF D!Next, D!Fetch

\* A commitment is kept until the run ends.
LEMMA DownloadCommittedStep ==
  ASSUME D!Parameters, D!TypeOK, Committed, [D!Next]_(D!vars)
  PROVE  Committed'
<1> SUFFICES ASSUME NEW v \in Units, at'[v] \in {"look", "verify", "fetched"},
                    Want[v] # NoHash
             PROVE  digest'[File[v]] = Want[v]
  BY DEF Committed
<1> USE DEF D!Parameters, D!TypeOK, Committed
<1>1. ASSUME NEW u \in Units, D!Commit(u) PROVE digest'[File[v]] = Want[v]
  <2>1. CASE v = u
    BY <1>1, <2>1 DEF D!Commit
  <2>2. CASE v # u
    <3>1. digest[File[v]] = Want[v]
      BY <1>1, <2>2 DEF D!Commit, D!Goto
    <3> QED
      BY <1>1, <3>1 DEF D!Commit, D!Conflict
  <2> QED
    BY <2>1, <2>2
<1>2. ASSUME NEW u \in Units,
             D!Call(u) \/ D!Refetch(u) \/ D!Lock(u) \/ D!Refuse(u) \/ D!Have(u) \/ D!GetFails(u)
               \/ D!Verified(u) \/ D!Mismatch(u)
      PROVE  digest'[File[v]] = Want[v]
  BY <1>2 DEF D!Call, D!Refetch, D!Lock, D!Refuse, D!Have, D!GetFails, D!Verified,
    D!Mismatch, D!Goto
<1>3. ASSUME NEW u \in Units, NEW c \in Contents, D!Get(u, c) PROVE digest'[File[v]] = Want[v]
  BY <1>3 DEF D!Get, D!Goto
<1>4. CASE D!Restart
  BY <1>4 DEF D!Restart
<1>5. CASE UNCHANGED D!vars
  BY <1>5 DEF D!vars
<1> QED
  BY <1>1, <1>2, <1>3, <1>4, <1>5 DEF D!Next, D!Fetch

\* A file is only written when there is none, and only removed by a package
\* whose hash is the one everybody is committed to.
LEMMA DownloadFetchedStep ==
  ASSUME D!Parameters, D!TypeOK, Committed, D!FetchedStays, [D!Next]_(D!vars)
  PROVE  D!FetchedStays'
<1> SUFFICES ASSUME NEW v \in Units, at'[v] = "fetched", Want[v] # NoHash
             PROVE  dl'[File[v]] = Want[v]
  BY DEF D!FetchedStays
<1> USE DEF D!Parameters, D!TypeOK, D!FetchedStays
<1>1. ASSUME NEW u \in Units, D!Verified(u) PROVE dl'[File[v]] = Want[v]
  BY <1>1 DEF D!Verified, D!Matches, D!Goto
<1>2. ASSUME NEW u \in Units, D!Mismatch(u) PROVE dl'[File[v]] = Want[v]
  <2>1. at[v] = "fetched" /\ dl[File[v]] = Want[v] /\ digest[File[v]] = Want[v]
    BY <1>2 DEF D!Mismatch, D!Goto, Committed
  <2>2. Want[u] # NoHash /\ digest[File[u]] = Want[u] /\ dl[File[u]] # Want[u]
    BY <1>2 DEF D!Mismatch, D!Matches, Committed
  <2>3. File[v] # File[u]
    BY <2>1, <2>2
  <2> QED
    BY <1>2, <2>1, <2>3 DEF D!Mismatch
<1>3. ASSUME NEW u \in Units, NEW c \in Contents, D!Get(u, c) PROVE dl'[File[v]] = Want[v]
  <2>1. at[v] = "fetched" /\ dl[File[v]] = Want[v] /\ Want[v] # NoFile
    BY <1>3 DEF D!Get, D!Goto
  <2> QED
    BY <1>3, <2>1 DEF D!Get
<1>4. ASSUME NEW u \in Units,
             D!Call(u) \/ D!Refetch(u) \/ D!Lock(u) \/ D!Refuse(u) \/ D!Commit(u) \/ D!Have(u)
               \/ D!GetFails(u)
      PROVE  dl'[File[v]] = Want[v]
  BY <1>4 DEF D!Call, D!Refetch, D!Lock, D!Refuse, D!Commit, D!Have, D!GetFails, D!Goto
<1>5. CASE D!Restart
  BY <1>5 DEF D!Restart
<1>6. CASE UNCHANGED D!vars
  BY <1>6 DEF D!vars
<1> QED
  BY <1>1, <1>2, <1>3, <1>4, <1>5, <1>6 DEF D!Next, D!Fetch

\* The inductive invariant of the downloads.
THEOREM DownloadInvariance ==
  ASSUME D!Parameters
  PROVE  D!Spec => []DownloadIInv
<1>1. D!Init => DownloadIInv
  BY DEF D!Parameters, D!Init, DownloadIInv, D!TypeOK, D!Exclusive, Committed, D!FetchedStays
<1>2. DownloadIInv /\ [D!Next]_(D!vars) => DownloadIInv'
  BY DownloadTypeStep, DownloadExclusiveStep, DownloadCommittedStep,
    DownloadFetchedStep DEF DownloadIInv
<1> QED
  BY <1>1, <1>2, PTL DEF D!Spec

\* fetch.cpp:106-184: the state of the fetches, the locks and dl/ keeps its types.
THEOREM DownloadTypeCorrect ==
  ASSUME D!Parameters
  PROVE  D!Spec => []D!TypeOK
BY DownloadInvariance, PTL DEF DownloadIInv

\* fetch.cpp:119: the mutex of a file name keeps its users apart.
THEOREM ExclusiveHolds ==
  ASSUME D!Parameters
  PROVE  D!Spec => []D!Exclusive
BY DownloadInvariance, PTL DEF DownloadIInv

\* fetch.cpp:110-137, 169-180: a verified file stays until it is extracted.
THEOREM FetchedStaysHolds ==
  ASSUME D!Parameters
  PROVE  D!Spec => []D!FetchedStays
BY DownloadInvariance, PTL DEF DownloadIInv

\* fetch.cpp:111-112: one file name serves one hash in a run.
THEOREM NoConflictHolds ==
  ASSUME D!Parameters
  PROVE  D!Spec => []D!NoConflict
<1>1. DownloadIInv => D!NoConflict
  BY DEF DownloadIInv, Committed, D!NoConflict
<1> QED
  BY <1>1, DownloadInvariance, PTL

FilesHeld == [u \in Units |-> IF at[u] = "fetched" /\ Want[u] # NoHash THEN Want[u] ELSE NoFile]

\* A step of the downloads is a step of SharedSource: a unit is told that it has
\* its file, some units are done, or a file nobody was told about changes.
LEMMA DownloadSharedStep ==
  ASSUME D!Parameters, DownloadIInv, DownloadIInv', [D!Next]_(D!vars)
  PROVE  [D!Shared!Next]_(D!Shared!vars)
<1> USE DEF D!Parameters, D!Shared!Next, D!Shared!vars, D!Shared!Hold, D!Shared!Release,
            D!Shared!Change
<1> DEFINE Told == \E v \in Units : /\ FilesHeld[v] = NoFile
                                   /\ FilesHeld' = [FilesHeld EXCEPT ![v] = dl[File[v]]]
                                   /\ dl' = dl
           Done == /\ \E S \in SUBSET Units :
                        FilesHeld' = [v \in Units |-> IF v \in S THEN NoFile ELSE FilesHeld[v]]
                   /\ dl' = dl
           Changed == /\ \A v \in Units : FilesHeld[v] # NoFile => dl'[File[v]] = dl[File[v]]
                      /\ FilesHeld' = FilesHeld
<1> SUFFICES Told \/ Done \/ Changed
  BY DEF FilesHeld
<1> USE DEF DownloadIInv, D!TypeOK
<1>1. ASSUME NEW u \in Units, D!Verified(u), Want[u] # NoHash
      PROVE  /\ FilesHeld[u] = NoFile /\ FilesHeld' = [FilesHeld EXCEPT ![u] = dl[File[u]]]
             /\ dl' = dl
  <2>1. /\ at[u] = "verify" /\ dl[File[u]] = Want[u]
        /\ at' = [at EXCEPT ![u] = "fetched"] /\ dl' = dl
    BY <1>1 DEF D!Verified, D!Matches, D!Goto
  <2>2. \A v \in Units : at'[v] = IF v = u THEN "fetched" ELSE at[v]
    BY <2>1
  <2>3. FilesHeld' = [v \in Units |-> IF v = u THEN dl[File[u]] ELSE FilesHeld[v]]
    BY <1>1, <2>1, <2>2 DEF FilesHeld
  <2>4. FilesHeld[u] = NoFile /\ FilesHeld = [v \in Units |-> FilesHeld[v]]
    BY <2>1 DEF FilesHeld
  <2> QED
    BY <2>1, <2>3, <2>4
<1>2. ASSUME NEW u \in Units, D!Refetch(u) PROVE Done
  <2>1. {u} \in SUBSET Units
    OBVIOUS
  <2>2. FilesHeld' = [v \in Units |-> IF v \in {u} THEN NoFile ELSE FilesHeld[v]] /\ dl' = dl
    BY <1>2 DEF D!Refetch, D!Goto, FilesHeld
  <2> QED
    BY <2>1, <2>2
<1>3. ASSUME D!Restart PROVE Done
  <2>1. FilesHeld' = [v \in Units |-> IF v \in Units THEN NoFile ELSE FilesHeld[v]] /\ dl' = dl
    BY <1>3 DEF D!Restart, FilesHeld
  <2> QED
    BY <2>1
<1>4. ASSUME NEW u \in Units,
             \/ D!Call(u) \/ D!Lock(u) \/ D!Refuse(u) \/ D!Commit(u) \/ D!Have(u) \/ D!GetFails(u)
             \/ D!Verified(u) /\ Want[u] = NoHash
      PROVE  FilesHeld' = FilesHeld /\ dl' = dl
  BY <1>4 DEF D!Call, D!Lock, D!Refuse, D!Commit, D!Have, D!GetFails, D!Verified, D!Goto, FilesHeld
<1>5. ASSUME NEW u \in Units, D!Mismatch(u) \/ \E c \in Contents : D!Get(u, c)
      PROVE  FilesHeld' = FilesHeld
  BY <1>5 DEF D!Mismatch, D!Get, D!Goto, FilesHeld
<1>6. ASSUME FilesHeld' = FilesHeld PROVE Changed
  <2> SUFFICES ASSUME NEW v \in Units, FilesHeld[v] # NoFile
               PROVE  dl'[File[v]] = dl[File[v]]
    BY <1>6
  <2>1. at[v] = "fetched" /\ Want[v] # NoHash
    BY DEF FilesHeld
  <2>2. FilesHeld'[v] # NoFile
    BY <1>6
  <2>3. at'[v] = "fetched"
    BY <2>2 DEF FilesHeld
  <2> QED
    BY <2>1, <2>3 DEF D!FetchedStays
<1>7. CASE UNCHANGED D!vars
  BY <1>7 DEF D!vars, FilesHeld
<1>8. ASSUME NEW u \in Units, D!Verified(u) \/ D!Refetch(u) PROVE Told \/ Done \/ Changed
  <2>1. CASE D!Refetch(u)
    BY <1>2, <2>1
  <2>2. CASE D!Verified(u) /\ Want[u] # NoHash
    BY <1>1, <2>2
  <2>3. CASE D!Verified(u) /\ Want[u] = NoHash
    BY <1>4, <1>6, <2>3
  <2> QED
    BY <1>8, <2>1, <2>2, <2>3
<1>9. ASSUME NEW u \in Units, D!Call(u) \/ D!Fetch(u) \/ D!Refetch(u)
      PROVE  Told \/ Done \/ Changed
  <2>1. CASE D!Verified(u) \/ D!Refetch(u)
    BY <1>8, <2>1
  <2>2. CASE \/ D!Call(u) \/ D!Lock(u) \/ D!Refuse(u) \/ D!Commit(u) \/ D!Have(u) \/ D!GetFails(u)
             \/ D!Mismatch(u) \/ \E c \in Contents : D!Get(u, c)
    BY <1>4, <1>5, <1>6, <2>2
  <2> QED
    BY <1>9, <2>1, <2>2 DEF D!Fetch
<1> HIDE DEF Told, Done, Changed
<1> QED
  BY <1>3, <1>6, <1>7, <1>9 DEF D!Next

\* fetch.cpp:106-184: downloads keep the promise of SharedSource.
THEOREM DownloadImplements ==
  ASSUME D!Parameters
  PROVE  D!Spec => D!ImplementsShared
<1>1. D!Init => D!Shared!Init
  BY DEF D!Init, D!Shared!Init
<1>2. DownloadIInv /\ DownloadIInv' /\ [D!Next]_(D!vars) => [D!Shared!Next]_(D!Shared!vars)
  BY DownloadSharedStep
<1> QED
  BY <1>1, <1>2, DownloadInvariance, PTL DEF D!Spec, D!ImplementsShared, D!Shared!Spec
===============================================================================
