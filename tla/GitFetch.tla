------------------------------ MODULE GitFetch -------------------------------
(***************************************************************************)
(* GitExtractionUnit: HASH(), called when a package writes its extraction  *)
(* info, extract(), and the fetch() behind both; the GitDir of each source *)
(* directory (its mutex and the refspec the run is committed to); and what *)
(* later runs find, the clones under source/.                              *)
(*                                                                         *)
(* Of git the module keeps where commits are: upstream, known locally,     *)
(* what a refspec resolves to, HEAD, and what is checked out.              *)
(***************************************************************************)
CONSTANTS
  Units,     \* the git units of all packages
  Dirs,      \* the directories under source/
  Dir,       \* Dir[u]: local of unit u
  Uris,
  Uri,       \* Uri[u]: where u wants its commits from
  Refspec,   \* Refspec[u]: a commit id, "HEAD", or one of the two branches
  Digest,    \* Digest[u]: the hash in the package's Digest file, or None
  Commits,
  Existing,  \* directories the developer cloned before the first run
  None,
  Nobody

Names == {"HEAD", "branch", "origin/branch"}

ASSUME GitAssumption ==
  /\ Dir \in [Units -> Dirs]
  /\ Uri \in [Units -> Uris]
  /\ Refspec \in [Units -> Commits \cup Names]
  /\ Digest \in [Units -> Commits \cup {None}]
  /\ Existing \subseteq Dirs
  /\ Commits \cap Names = {}
  /\ None \notin Commits \cup Names /\ None \notin Uris
  /\ Nobody \notin Units

VARIABLES
  pc,       \* where HASH(), extract() or the fetch() behind them is
  caller,   \* which of the two called fetch()
  hash,     \* hash of each unit, as .extraction.info has it
  fetched,  \* fetched of each unit
  copied,   \* what the unit has copied into the work directory, None if nothing
  lock,     \* GitDir::lock
  refspec,  \* GitDir::refspec
  repo,     \* the clone in each directory
  upstream  \* what is at each uri

unitVars == <<caller, hash, fetched, copied>>
dirVars == <<lock, refspec>>
vars == <<pc, unitVars, dirVars, repo, upstream>>

Clones == [origin : Uris \cup {None}, remote : Commits \cup {None},
           branch : Commits \cup {None}, head : Commits \cup {None},
           tree : Commits \cup {None}, known : SUBSET Commits]

NoClone == [origin |-> None, remote |-> None, branch |-> None, head |-> None,
            tree |-> None, known |-> {}]

\* A directory that is there is a whole clone.
TypeOK ==
  /\ pc \in [Units -> {"idle", "waiting", "open", "update", "look", "fetch",
                       "checkout", "verify", "hashed", "ready", "copied", "failed"}]
  /\ caller \in [Units -> {"HASH", "extract"}]
  /\ hash \in [Units -> Commits \cup {None}]
  /\ fetched \in [Units -> BOOLEAN]
  /\ copied \in [Units -> Commits \cup {None}]
  /\ lock \in [Dirs -> Units \cup {Nobody}]
  /\ refspec \in [Dirs -> Commits \cup Names \cup {None}]
  /\ repo \in [Dirs -> Clones]
  /\ \A d \in Dirs : repo[d] = NoClone \/ None \notin {repo[d].origin, repo[d].head}
  /\ upstream \in [Uris -> [tip : Commits, has : SUBSET Commits]]

\* A clone of what is at a uri, with or without its tip checked out.
CloneOf(uri, checkedOut) ==
  [origin |-> uri, remote |-> upstream[uri].tip, branch |-> upstream[uri].tip,
   head |-> upstream[uri].tip, known |-> upstream[uri].has,
   tree |-> IF checkedOut THEN upstream[uri].tip ELSE None]

\* The objects of a new process.
Volatile ==
  [pc |-> [u \in Units |-> "idle"], caller |-> [u \in Units |-> "HASH"],
   hash |-> [u \in Units |-> None], fetched |-> [u \in Units |-> FALSE],
   copied |-> [u \in Units |-> None], lock |-> [d \in Dirs |-> Nobody],
   refspec |-> [d \in Dirs |-> None]]

Init ==
  /\ pc = Volatile.pc /\ caller = Volatile.caller /\ hash = Volatile.hash
  /\ fetched = Volatile.fetched /\ copied = Volatile.copied
  /\ lock = Volatile.lock /\ refspec = Volatile.refspec
  /\ upstream \in [Uris -> {[tip |-> c, has |-> {c}] : c \in Commits}]
  /\ repo \in [Dirs -> {NoClone} \cup {CloneOf(uri, TRUE) : uri \in Uris}]
  /\ \A d \in Dirs : repo[d] # NoClone <=> d \in Existing

-----------------------------------------------------------------------------
\* What git answers and does.

\* git cat-file -e, git rev-parse: the commit a refspec is, or None.
Resolve(clone, r) ==
  CASE r = "HEAD" -> clone.head
    [] r = "branch" -> clone.branch
    [] r = "origin/branch" -> clone.remote
    [] OTHER -> IF r \in clone.known THEN r ELSE None

\* git fetch origin --tags: neither HEAD nor the local branch moves.
Updated(clone) ==
  [clone EXCEPT !.remote = upstream[clone.origin].tip,
                !.known = @ \cup upstream[clone.origin].has]

-----------------------------------------------------------------------------
\* Outside of the program.

\* Somebody pushes a commit to a uri some package fetches from.
Push(uri, c) ==
  /\ \E u \in Units : Uri[u] = uri
  /\ c \notin upstream[uri].has
  /\ upstream' = [upstream EXCEPT ![uri] = [tip |-> c, has |-> @.has \cup {c}]]
  /\ UNCHANGED <<pc, unitVars, dirVars, repo>>

\* Between two runs the developer fetches and checks out something else in a
\* directory of his own.
CheckoutByHand(d, c) ==
  /\ pc = Volatile.pc
  /\ c \in upstream[repo[d].origin].has
  /\ repo' = [repo EXCEPT ![d] = [Updated(@) EXCEPT !.head = c, !.tree = c]]
  /\ UNCHANGED <<pc, unitVars, dirVars, upstream>>

\* The run ends or is killed, and another one starts.
Restart ==
  /\ pc' = Volatile.pc /\ caller' = Volatile.caller /\ hash' = Volatile.hash
  /\ fetched' = Volatile.fetched /\ copied' = Volatile.copied
  /\ lock' = Volatile.lock /\ refspec' = Volatile.refspec
  /\ UNCHANGED <<repo, upstream>>

-----------------------------------------------------------------------------
\* fetch(), with HASH() and extract() around it.

At(u, place) == pc[u] = place
Goto(u, place) == pc' = [pc EXCEPT ![u] = place]
Unlock(u) == lock' = [lock EXCEPT ![Dir[u]] = Nobody]
Clone(u) == repo[Dir[u]]

\* HASH(): a commit id or the Digest file says it, or fetch() has to find out.
AskHash(u) ==
  /\ pc[u] \in {"idle", "hashed"}
  /\ IF Refspec[u] \in Commits \/ Digest[u] # None
     THEN /\ hash' = [hash EXCEPT ![u] = IF Refspec[u] \in Commits THEN Refspec[u] ELSE Digest[u]]
          /\ Goto(u, "hashed")
          /\ UNCHANGED caller
     ELSE /\ caller' = [caller EXCEPT ![u] = "HASH"]
          /\ Goto(u, "waiting")
          /\ UNCHANGED hash
  /\ UNCHANGED <<fetched, copied, dirVars, repo, upstream>>

\* extract(): fetch first, unless HASH() had to.
Extract(u) ==
  /\ At(u, "hashed")
  /\ Goto(u, IF fetched[u] THEN "ready" ELSE "waiting")
  /\ caller' = [caller EXCEPT ![u] = "extract"]
  /\ UNCHANGED <<hash, fetched, copied, dirVars, repo, upstream>>

\* cp of the directory into the work directory, without its lock.
Copy(u) ==
  /\ At(u, "ready")
  /\ copied' = [copied EXCEPT ![u] = Clone(u).tree]
  /\ Goto(u, "copied")
  /\ UNCHANGED <<caller, hash, fetched, dirVars, repo, upstream>>

\* fetch() returns: HASH() does not look at what.
Return(u, ok) ==
  /\ Goto(u, IF caller[u] = "HASH" THEN "hashed" ELSE IF ok THEN "ready" ELSE "failed")
  /\ Unlock(u)

\* The mutex is free; whoever takes it reads the refspec under it.
Enter(u) == At(u, "waiting") /\ lock[Dir[u]] = Nobody
Lock(u) == lock' = [lock EXCEPT ![Dir[u]] = u]

Conflict(u) == refspec[Dir[u]] \notin {None, Refspec[u]}

\* Another package has checked out another refspec.
Refuse(u) ==
  /\ Enter(u) /\ Conflict(u)
  /\ Return(u, FALSE)
  /\ UNCHANGED <<unitVars, refspec, repo, upstream>>

\* Mutant: the first package's refspec is not recorded.
CommitNothing(u) ==
  /\ Enter(u) /\ ~Conflict(u)
  /\ Lock(u)
  /\ Goto(u, "open")
  /\ UNCHANGED <<unitVars, refspec, repo, upstream>>

\* The first package to come commits everybody to its refspec.
Commit(u) ==
  /\ Enter(u) /\ ~Conflict(u)
  /\ Lock(u)
  /\ refspec' = [refspec EXCEPT ![Dir[u]] = Refspec[u]]
  /\ Goto(u, "open")
  /\ UNCHANGED <<unitVars, repo, upstream>>

\* The directory is not there: git clone -n.
CloneUpstream(u) ==
  /\ At(u, "open") /\ Clone(u) = NoClone
  /\ repo' = [repo EXCEPT ![Dir[u]] = CloneOf(Uri[u], FALSE)]
  /\ Goto(u, "checkout")
  /\ UNCHANGED <<unitVars, dirVars, upstream>>

\* updateOrigin(): another uri is made the origin ...
UpdateOrigin(u) ==
  /\ At(u, "open") /\ Clone(u) # NoClone
  /\ repo' = [repo EXCEPT ![Dir[u]].origin = Uri[u]]
  /\ Goto(u, IF Clone(u).origin = Uri[u] THEN "look" ELSE "update")
  /\ UNCHANGED <<unitVars, dirVars, upstream>>

\* ... and fetched from.
UpdateFetch(u) ==
  /\ At(u, "update")
  /\ repo' = [repo EXCEPT ![Dir[u]] = Updated(@)]
  /\ Goto(u, "look")
  /\ UNCHANGED <<unitVars, dirVars, upstream>>

\* git cat-file -e
Look(u) ==
  /\ At(u, "look")
  /\ Goto(u, IF Resolve(Clone(u), Refspec[u]) = None THEN "fetch" ELSE "checkout")
  /\ UNCHANGED <<unitVars, dirVars, repo, upstream>>

FetchOrigin(u) ==
  /\ At(u, "fetch")
  /\ repo' = [repo EXCEPT ![Dir[u]] = Updated(@)]
  /\ Goto(u, "checkout")
  /\ UNCHANGED <<unitVars, dirVars, upstream>>

\* HEAD is left alone, and so is a local branch, which must be what HEAD is at.
Stay(u) ==
  /\ At(u, "checkout") /\ Refspec[u] \in {"HEAD", "branch"}
  /\ Resolve(Clone(u), Refspec[u]) = Clone(u).head
  /\ Goto(u, "verify")
  /\ UNCHANGED <<unitVars, dirVars, repo, upstream>>

\* git checkout --detach
Checkout(u) ==
  /\ At(u, "checkout") /\ Refspec[u] \notin {"HEAD", "branch"}
  /\ LET commit == Resolve(Clone(u), Refspec[u])
     IN  /\ commit # None
         /\ repo' = [repo EXCEPT ![Dir[u]].head = commit, ![Dir[u]].tree = commit]
  /\ Goto(u, "verify")
  /\ UNCHANGED <<unitVars, dirVars, upstream>>

\* Mutant: a clone that fails leaves its directory.
ThrowsPartial(u) ==
  /\ pc[u] \in {"open", "update", "fetch", "checkout"}
  /\ repo' = [repo EXCEPT ![Dir[u]].origin = Uri[u]]
  /\ Goto(u, "failed")
  /\ Unlock(u)
  /\ UNCHANGED <<unitVars, refspec, upstream>>

\* A git command fails, or HEAD is off somewhere else: an exception.
Throws(u) ==
  /\ pc[u] \in {"open", "update", "fetch", "checkout"}
  /\ Goto(u, "failed")
  /\ Unlock(u)
  /\ UNCHANGED <<unitVars, refspec, repo, upstream>>

\* Mutant: the commit is not compared with the hash the package has.
VerifyNothing(u) ==
  /\ At(u, "verify")
  /\ hash' = [hash EXCEPT ![u] = IF @ = None THEN Clone(u).head ELSE @]
  /\ fetched' = [fetched EXCEPT ![u] = TRUE]
  /\ Return(u, TRUE)
  /\ UNCHANGED <<caller, copied, refspec, repo, upstream>>

\* The commit is compared with the hash there is, or is the hash.
Verify(u) ==
  /\ At(u, "verify")
  /\ LET ok == hash[u] \in {None, Clone(u).head}
     IN  /\ hash' = [hash EXCEPT ![u] = IF @ = None THEN Clone(u).head ELSE @]
         /\ fetched' = [fetched EXCEPT ![u] = ok]
         /\ Return(u, ok)
  /\ UNCHANGED <<caller, copied, refspec, repo, upstream>>

Fetch(u) ==
  \/ Refuse(u) \/ Commit(u)
  \/ CloneUpstream(u) \/ UpdateOrigin(u) \/ UpdateFetch(u)
  \/ Look(u) \/ FetchOrigin(u)
  \/ Stay(u) \/ Checkout(u)
  \/ Throws(u)
  \/ Verify(u)

Next ==
  \/ \E u \in Units : AskHash(u) \/ Extract(u) \/ Copy(u) \/ Fetch(u)
  \/ \E uri \in Uris, c \in Commits : Push(uri, c)
  \/ \E d \in Existing, c \in Commits : CheckoutByHand(d, c)
  \/ Restart

Spec == Init /\ [][Next]_vars

-----------------------------------------------------------------------------
\* Properties.

\* git.cpp:322-336, extraction.cpp:59-61: what a package is built from is what
\* its extraction info says, whatever was pushed or fetched since it said so.
BuiltFromHash ==
  \A u \in Units : At(u, "copied") => copied[u] = hash[u]

\* A package that was told its directory is there finds it as it was told.
Shared == INSTANCE SharedSource WITH
  Users <- Units,
  Place <- Dir,
  Nothing <- None,
  content <- [d \in Dirs |-> repo[d].tree],
  held <- [u \in Units |-> IF fetched[u] THEN hash[u] ELSE None]
ImplementsShared == Shared!Spec
==============================================================================
