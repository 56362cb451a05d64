---------------------------- MODULE Incremental -----------------------------
(***************************************************************************)
(* What is rebuilt, over any number of runs of buildsys with several       *)
(* packages that see each other's build information                        *)
(* (src/package.cpp 326-390, 440-588, 683-888 and 902-1032).               *)
(*                                                                         *)
(* A run builds in dependency order and a package at once; Scheduler and   *)
(* PackageBuild have the threads, BuildInfo the stops in the middle of a   *)
(* package, the build cache and tars that are removed.  A file is what it  *)
(* says: .build.info the description it holds, a tar or .output.info what  *)
(* was built.  One value stands for both tars of a package.                *)
(***************************************************************************)
EXTENDS Integers, Sequences, FiniteSets, Functions

CONSTANTS
    Packages, Base,
    Depends,        \* the dependencies of each package, in order
    Sources,        \* the versions the packages' sources may have
    Shows,          \* what of its version can be seen in a package's output
    Embedding,      \* packages whose output contains what they were built on
    Intercepting,   \* packages with intercept({staging = true})
    Gathering,      \* packages with fetch({method = 'deps'})
    DirectOnly,     \* and listedonly = true
    InterceptingInstall,
    Hashing,        \* packages with hashoutput()
    Local,          \* packages with fetch({method = 'link'}) or 'copy'
    Orders          \* the <<forced packages, clean>> of a run

Dependencies(p) == Range(Depends[p])

(* Everything the base package needs is there, and nothing needs itself:   *)
(* parsing follows the dependencies from the base package, and what is on  *)
(* a cycle is never ready to be built.                                     *)
ASSUME GraphAssumption ==
    /\ IsFiniteSet(Packages) /\ Base \in Packages
    /\ Depends \in [Packages -> Seq(Packages)]
    /\ \A S \in SUBSET Packages :
         Base \in S /\ (\A p \in S : Dependencies(p) \subseteq S) => S = Packages
    /\ \A S \in SUBSET Packages : S # {} => \E p \in S : Dependencies(p) \cap S = {}
    /\ \A p \in Packages : Base \notin Dependencies(p)
    /\ \A order \in Orders : order[1] \subseteq Packages /\ order[2] \in BOOLEAN

(* What the Lua files must see to.  buildInfo of a package that hashes its *)
(* output says what was built: it does not show that something under it    *)
(* changed unless that is in the output too, so such a package must either *)
(* contain what it was built on or keep it from its dependents.  What is   *)
(* linked or gathered is rebuilt without a change of its description, so   *)
(* what depends on it must look at its output.                             *)
ASSUME IncrementalAssumption ==
    /\ Local \subseteq Hashing /\ Gathering \subseteq Hashing \cup {Base}
    /\ \A p \in Hashing \ Embedding : Depends[p] # <<>> => p \in Intercepting

VARIABLES
    src,        \* the version each package's sources have
    forced,     \* Package::forced_packages
    clean,      \* --clean
    running,
    built,      \* `built' of each package, in this run
    wasBuilt,   \* `was_built'
    hash,       \* buildinfo_hash, by what was hashed
    info,       \* .build.info
    output,     \* .output.info
    tar,        \* the tars
    settled,    \* nothing has changed since a run that built everything
    tainted     \* a run was forced, and no clean build of everything has ended since

runVars == <<src, forced, clean, running>>
flagVars == <<built, wasBuilt, hash>>
diskVars == <<info, output, tar>>
history == <<settled, tainted>>
vars == <<runVars, flagVars, diskVars, history>>

None == <<>>
NoRun == [p \in Packages |-> None]

-----------------------------------------------------------------------------
(* What the traversals fill their set with: the dependencies of a package  *)
(* and of all that is in the set and does not stop them (Traversals has    *)
(* the loops).                                                             *)
Closed(S, stops) == \A d \in S \ stops : Dependencies(d) \subseteq S

Reached(p, stops) ==
    {q \in Packages : \A S \in SUBSET Packages :
        Dependencies(p) \subseteq S /\ Closed(S, stops) => q \in S}

Staging == [p \in Packages |-> Reached(p, Intercepting)]
StagingPackages(p) == Staging[p]

Depended ==
    [p \in Packages |-> IF p \in DirectOnly THEN Dependencies(p) ELSE Reached(p, InterceptingInstall)]
DependedPackages(p) == Depended[p]

(* prepareBuildDirs and extractInstallDepends: what the commands find.     *)
Found(p) == StagingPackages(p) \cup (IF p \in Gathering THEN DependedPackages(p) ELSE {})

(* What the commands make of the sources and of what they find.            *)
Made(p, version, found) ==
    [of |-> p, shows |-> Shows[p][version], with |-> IF p \in Embedding THEN found ELSE {}]

(* A package with a unit of the kinds link, copy or deps is always built.  *)
CodeUpdated(p) == p \in Local \cup Gathering

Init ==
    /\ src \in Sources
    /\ forced = {} /\ clean = FALSE /\ running = FALSE
    /\ built = {} /\ wasBuilt = {}
    /\ hash = NoRun /\ info = NoRun /\ output = NoRun /\ tar = NoRun
    /\ settled = FALSE /\ tainted = FALSE

-----------------------------------------------------------------------------
StartRun(versions, order) ==
    /\ ~running
    /\ src' = versions /\ forced' = order[1] /\ clean' = order[2]
    /\ running' = TRUE
    /\ settled' = (settled /\ versions = src /\ ~order[2])
    /\ tainted' = (tainted \/ order[1] # {})
    /\ UNCHANGED <<flagVars, diskVars>>

(* The process ends, and with it what it knew.                             *)
Ended ==
    /\ running' = FALSE /\ forced' = {} /\ clean' = FALSE
    /\ built' = {} /\ wasBuilt' = {} /\ hash' = NoRun

(* canBuild; without it build() would see to the dependencies itself.      *)
Ready(p) == running /\ p \notin built /\ Dependencies(p) \subseteq built

Suppressed(p) == forced # {} /\ p \notin forced

Existing(p) == info[p]

Suppress(p) ==
    /\ Ready(p) /\ Suppressed(p)
    /\ hash' = [hash EXCEPT ![p] = Existing(p)]
    /\ built' = built \cup {p}
    /\ UNCHANGED <<runVars, wasBuilt, diskVars, history>>

(* buildInfo of a dependency                                               *)
BuildInfoOf(d) == IF d \in Hashing THEN output[d] ELSE hash[d]

(* prepareBuildInfo; what is linked or copied is not described.            *)
Description(p) ==
    [src |-> IF p \in Local THEN "" ELSE src[p],
     deps |-> [i \in DOMAIN Depends[p] |-> BuildInfoOf(Depends[p][i])]]

Described(p) == \A d \in Dependencies(p) : BuildInfoOf(d) # None

Before(p, file) == IF clean THEN None ELSE file[p]

Same(p) == ~CodeUpdated(p) /\ tar[p] # None /\ Before(p, info) = Description(p)

(* Mutant: the hash of the description is left for a build to work out.    *)
NotRequiredUnhashed(p) ==
    /\ Ready(p) /\ ~Suppressed(p) /\ Described(p) /\ Same(p)
    /\ built' = built \cup {p}
    /\ UNCHANGED <<runVars, wasBuilt, hash, diskVars, history>>

NotRequired(p) ==
    /\ Ready(p) /\ ~Suppressed(p) /\ Described(p) /\ Same(p)
    /\ hash' = [hash EXCEPT ![p] = Description(p)]
    /\ built' = built \cup {p}
    /\ UNCHANGED <<runVars, wasBuilt, diskVars, history>>

(* Mutant: the description of a package that hashes its output is not      *)
(* kept, as its dependents do not look at it.                              *)
PromotedUnhashed(p) == IF p \in Hashing THEN Before(p, info) ELSE Description(p)

Promoted(p) == Description(p)

Build(p) ==
    /\ Ready(p) /\ ~Suppressed(p) /\ Described(p) /\ ~Same(p)
    /\ \A q \in Found(p) : tar[q] # None
    /\ LET new == Made(p, src[p], {tar[q] : q \in Found(p)})
       IN  /\ tar' = [tar EXCEPT ![p] = new]
           /\ output' = [output EXCEPT ![p] = IF p \in Hashing THEN new ELSE None]
    /\ info' = [info EXCEPT ![p] = Promoted(p)]
    /\ hash' = [hash EXCEPT ![p] = Description(p)]
    /\ built' = built \cup {p} /\ wasBuilt' = wasBuilt \cup {p}
    /\ UNCHANGED <<runVars, history>>

(* Mutant: the description is kept before the commands run.                *)
FailPromoted(p) ==
    /\ Ready(p) /\ ~Suppressed(p) /\ ~(Described(p) /\ Same(p))
    /\ info' = [info EXCEPT ![p] = IF Described(p) THEN Description(p) ELSE @]
    /\ output' = [output EXCEPT ![p] = Before(p, output)]
    /\ Ended /\ settled' = FALSE
    /\ UNCHANGED <<src, tar, tainted>>

(* A dependency that was never built, a tar that is not there or a command *)
(* that fails: by then the directory has been cleaned.                     *)
Fail(p) ==
    /\ Ready(p) /\ ~Suppressed(p) /\ ~(Described(p) /\ Same(p))
    /\ info' = [info EXCEPT ![p] = Before(p, info)]
    /\ output' = [output EXCEPT ![p] = Before(p, output)]
    /\ Ended /\ settled' = FALSE
    /\ UNCHANGED <<src, tar, tainted>>

EndRun ==
    /\ running /\ Base \in built
    /\ Ended /\ settled' = (forced = {}) /\ tainted' = (tainted /\ ~(clean /\ forced = {}))
    /\ UNCHANGED <<src, diskVars>>

Next ==
    \/ \E versions \in Sources, order \in Orders : StartRun(versions, order)
    \/ \E p \in Packages : Suppress(p) \/ NotRequired(p) \/ Build(p) \/ Fail(p)
    \/ EndRun

Spec == Init /\ [][Next]_vars

-----------------------------------------------------------------------------
(* What a build of everything from nothing would make of the same sources. *)
FromScratch[p \in Packages] == Made(p, src[p], {FromScratch[q] : q \in Found(p)})

TypeOK ==
    /\ src \in Sources
    /\ wasBuilt \subseteq built /\ built \subseteq Packages
    /\ \A p \in Packages :
         /\ \A d \in {info[p], hash[p]} \ {None} : DOMAIN d.deps = DOMAIN Depends[p]
         /\ \A made \in {tar[p], output[p]} \ {None} : made.of = p
         /\ output[p] # None => p \in Hashing /\ output[p] = tar[p]
         /\ p \in built => hash[p] # None \/ Suppressed(p)

(* A package that an ordinary run takes for built is what a build of       *)
(* everything from nothing would make of the same sources, whatever was    *)
(* built, failed or cleaned before: what is not rebuilt would come out the *)
(* same (package.cpp 467-533 and 631-681).  Not so after a forced run,     *)
(* until a clean run without forced packages has built everything.         *)
AllUpToDate ==
    forced = {} /\ (tainted => clean) => \A p \in built : tar[p] = FromScratch[p]

(* A run after one that built everything, with nothing changed, runs the   *)
(* commands of packages only that are always to be built (package.cpp      *)
(* 631-681, 984-1020).                                                     *)
NothingToDo == running /\ settled /\ forced = {} => \A p \in wasBuilt : CodeUpdated(p)
=============================================================================
