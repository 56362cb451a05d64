----------------------------- MODULE PackageBuild ----------------------------
(***************************************************************************)
(* Package::build inside the build threads: a recursive call per           *)
(* dependency with the dependency's lock held, the second call with        *)
(* locally = true for dependencies that must really be built, suppressed   *)
(* packages (forced mode), --fetch-only, and what the threads share on     *)
(* disk: the staging tar of each package, which is read without its lock.  *)
(*                                                                         *)
(* A thread is a stack of calls; a step acts on the call on top.  The      *)
(* scheduler is reduced to when it may start a package (module Scheduler   *)
(* has the rest; a second thread for a package would only find it built).  *)
(***************************************************************************)
EXTENDS Integers, Sequences, FiniteSets

CONSTANTS
  Packages,
  Deps,        \* Deps[p]: the packages p depends on
  Locally,     \* Locally[p]: those of them with locally = true
  Intercept,   \* the packages with intercept_staging set
  Suppressions, \* the sets of packages a run's forced packages may leave out
  CleanFirst,  \* the packages with clean_before_build set
  Leftovers    \* what earlier runs may have left of a package

NoThread == "no thread"

ASSUME PackageBuildAssumption ==
  /\ IsFiniteSet(Packages) /\ NoThread \notin Packages
  /\ Deps \in [Packages -> SUBSET Packages]
  /\ Locally \in [Packages -> SUBSET Packages]
  /\ \A p \in Packages : Locally[p] \subseteq Deps[p]
  /\ \A S \in SUBSET Packages : S # {} => \E p \in S : Deps[p] \cap S = {}
  /\ Intercept \subseteq Packages
  /\ Suppressions \subseteq SUBSET Packages
  /\ CleanFirst \subseteq Packages
  /\ Leftovers \subseteq [newInfo : BOOLEAN, info : BOOLEAN, tar : {"none", "whole"}]

VARIABLES
  built,     \* Package::built
  wasBuilt,  \* Package::was_built
  lock,      \* Package::lock: the package whose thread holds it, or NoThread
  hash,      \* buildinfo_hash: "empty", "set", or "writing"
  newInfo,   \* .build.info.new exists
  info,      \* .build.info exists
  tar,       \* output/.../staging/<package>.tar: "none", "partial" or "whole"
  torn,      \* the packages that were built with a partial tar extracted
  stack,     \* stack[t]: the calls of Package::build in thread t
  status,    \* what the scheduler knows of each thread
  failed,    \* World::failed
  suppressed, \* the packages should_suppress_building() is true for
  fetchOnly  \* --fetch-only

\* What the command line has set.
optionVars == <<suppressed, fetchOnly>>
vars == <<built, wasBuilt, lock, hash, newInfo, info, tar, torn, stack,
          status, failed, optionVars>>

Places == {"enter", "deps", "suppress", "prepare", "hashing", "check", "local",
           "fetch", "staging", "commands", "packing", "commit", "fail"}

Calls == [pkg : Packages, locally : BOOLEAN, at : Places, todo : SUBSET Packages]

\* A package that was built in this run is built.
TypeOK ==
  /\ built \in [Packages -> BOOLEAN]
  /\ wasBuilt \in [Packages -> BOOLEAN]
  /\ lock \in [Packages -> Packages \cup {NoThread}]
  /\ hash \in [Packages -> {"empty", "set", "writing"}]
  /\ newInfo \in [Packages -> BOOLEAN]
  /\ info \in [Packages -> BOOLEAN]
  /\ tar \in [Packages -> {"none", "partial", "whole"}]
  /\ torn \subseteq Packages
  /\ stack \in [Packages -> Seq(Calls)]
  /\ status \in [Packages -> {"idle", "running", "failing", "ended"}]
  /\ failed \in BOOLEAN
  /\ suppressed \subseteq Packages /\ fetchOnly \in BOOLEAN
  /\ \A p \in Packages : wasBuilt[p] => built[p]

\* The files of earlier runs may be there; whether they fit is not asked here.
\* A .build.info.new that was left behind is written again before anything
\* looks at it, except with --fetch-only.
Init ==
  /\ built = [p \in Packages |-> FALSE]
  /\ wasBuilt = [p \in Packages |-> FALSE]
  /\ lock = [p \in Packages |-> NoThread]
  /\ hash = [p \in Packages |-> "empty"]
  /\ suppressed \in Suppressions /\ fetchOnly \in BOOLEAN
  /\ \E left \in [Packages -> Leftovers] :
       /\ newInfo = [p \in Packages |-> fetchOnly /\ left[p].newInfo]
       /\ info = [p \in Packages |-> left[p].info]
       /\ tar = [p \in Packages |-> left[p].tar]
  /\ torn = {}
  /\ stack = [p \in Packages |-> <<>>]
  /\ status = [p \in Packages |-> "idle"]
  /\ failed = FALSE

-----------------------------------------------------------------------------
\* Calls and returns.

Call(p, locally) == [pkg |-> p, locally |-> locally, at |-> "enter", todo |-> {}]

Top(t) == Head(stack[t])

\* The call on top of t is at `place'.
At(t, place) == stack[t] # <<>> /\ Top(t).at = place

\* The call on top goes on at `place' with `todo' left for its loop.
Goto(t, place, todo) ==
  stack' = [stack EXCEPT ![t] = <<[Head(@) EXCEPT !.at = place, !.todo = todo]>> \o Tail(@)]

\* Nested call for d, which leaves the loop of the caller.
Recurse(t, d, locally) ==
  stack' = [stack EXCEPT ![t] =
    <<Call(d, locally), [Top(t) EXCEPT !.todo = Top(t).todo \ {d}]>> \o Tail(@)]

\* The unique_lock of the call on top is released, if it holds one.
Release(t) ==
  lock' = [lock EXCEPT ![Top(t).pkg] = IF @ = t THEN NoThread ELSE @]

\* return true
ReturnTrue(t) ==
  /\ stack' = [stack EXCEPT ![t] = Tail(@)]
  /\ Release(t)

\* The packages whose staging tars p's build extracts (getStagingPackages):
\* its dependencies, and theirs where they do not intercept.
StagingPackages(p) ==
  {q \in Packages : \A S \in SUBSET Packages :
     (Deps[p] \subseteq S /\ \A s \in S \ Intercept : Deps[s] \subseteq S) => q \in S}

diskVars == <<hash, newInfo, info, tar, torn>>
flagVars == <<built, wasBuilt>>
worldVars == <<status, failed, optionVars>>

-----------------------------------------------------------------------------
\* The scheduler and build_thread.

Start(p) ==
  /\ ~failed
  /\ status[p] = "idle"
  /\ ~built[p] /\ \A d \in Deps[p] : built[d]
  /\ status' = [status EXCEPT ![p] = "running"]
  /\ stack' = [stack EXCEPT ![p] = <<Call(p, FALSE)>>]
  /\ UNCHANGED <<flagVars, lock, diskVars, failed, optionVars>>

\* build() returned true: packageFinished and threadEnded.
Finished(t) ==
  /\ status[t] = "running" /\ stack[t] = <<>>
  /\ status' = [status EXCEPT ![t] = "ended"]
  /\ UNCHANGED <<flagVars, lock, diskVars, stack, failed, optionVars>>

\* build() returned false or threw: setFailed and threadEnded.
SetFailed(t) ==
  /\ status[t] = "failing" /\ stack[t] = <<>>
  /\ status' = [status EXCEPT ![t] = "ended"]
  /\ failed' = TRUE
  /\ UNCHANGED <<flagVars, lock, diskVars, stack, optionVars>>

-----------------------------------------------------------------------------
\* Package::build, on the call on top of thread t.

\* Mutant: the lock is not taken.
EnterUnlocked(t) ==
  /\ At(t, "enter")
  /\ LET c == Top(t)
         p == c.pkg
     IN  /\ IF (c.locally /\ wasBuilt[p]) \/ (~c.locally /\ built[p])
            THEN stack' = [stack EXCEPT ![t] = Tail(@)] /\ UNCHANGED lock
            ELSE Goto(t, "deps", Deps[p]) /\ lock' = [lock EXCEPT ![p] = t]
  /\ UNCHANGED <<flagVars, diskVars, worldVars>>

\* Mutant: a call with locally = true always builds.
EnterAgain(t) ==
  /\ At(t, "enter")
  /\ LET c == Top(t)
         p == c.pkg
     IN  /\ lock[p] = NoThread
         /\ IF ~c.locally /\ built[p]
            THEN stack' = [stack EXCEPT ![t] = Tail(@)] /\ UNCHANGED lock
            ELSE Goto(t, "deps", Deps[p]) /\ lock' = [lock EXCEPT ![p] = t]
  /\ UNCHANGED <<flagVars, diskVars, worldVars>>

\* Takes the lock; "already built, pretend to successfully build".
Enter(t) ==
  /\ At(t, "enter")
  /\ LET c == Top(t)
         p == c.pkg
     IN  /\ lock[p] = NoThread
         /\ IF (c.locally /\ wasBuilt[p]) \/ (~c.locally /\ built[p])
            THEN stack' = [stack EXCEPT ![t] = Tail(@)] /\ UNCHANGED lock
            ELSE Goto(t, "deps", Deps[p]) /\ lock' = [lock EXCEPT ![p] = t]
  /\ UNCHANGED <<flagVars, diskVars, worldVars>>

\* build(false, fetchOnly) of each dependency.
DependLoop(t) ==
  /\ At(t, "deps")
  /\ \/ \E d \in Top(t).todo : Recurse(t, d, FALSE)
     \/ Top(t).todo = {} /\ Goto(t, "suppress", {})
  /\ UNCHANGED <<flagVars, lock, diskVars, worldVars>>

\* Suppressed: the hash of whatever .build.info is there, and built = true.
\* Otherwise the work directory may be cleaned first.
Suppress(t) ==
  /\ At(t, "suppress")
  /\ LET p == Top(t).pkg
     IN  IF p \in suppressed
         THEN /\ hash' = [hash EXCEPT ![p] = IF info[p] THEN "set" ELSE "empty"]
              /\ built' = [built EXCEPT ![p] = TRUE]
              /\ ReturnTrue(t)
              /\ UNCHANGED <<newInfo, info>>
         ELSE /\ newInfo' = [newInfo EXCEPT ![p] = @ /\ p \notin CleanFirst]
              /\ info' = [info EXCEPT ![p] = @ /\ p \notin CleanFirst]
              /\ Goto(t, "prepare", {})
              /\ UNCHANGED <<built, lock, hash>>
  /\ UNCHANGED <<wasBuilt, tar, torn, worldVars>>

\* prepareBuildInfo has assembled the description (buildInfoPrepared).
Prepared(p) == hash[p] # "empty"

\* prepareBuildInfo is skipped, or finds the file an earlier call has written.
PrepareNothing(t) ==
  /\ At(t, "prepare")
  /\ fetchOnly \/ (Prepared(Top(t).pkg) /\ newInfo[Top(t).pkg])
  /\ Goto(t, "check", {})
  /\ UNCHANGED <<flagVars, lock, diskVars, worldVars>>

\* Mutant: an empty hash of a dependency is used like any other.
PrepareBlind(t) ==
  /\ At(t, "prepare") /\ ~fetchOnly
  /\ newInfo' = [newInfo EXCEPT ![Top(t).pkg] = TRUE]
  /\ hash' = [hash EXCEPT ![Top(t).pkg] = "writing"]
  /\ Goto(t, "hashing", {})
  /\ UNCHANGED <<flagVars, lock, info, tar, torn, worldVars>>

\* prepareBuildInfo writes .build.info.new.  The first time it needs the
\* hashes of the dependencies, which it reads without their locks.
Prepare(t) ==
  /\ At(t, "prepare") /\ ~fetchOnly
  /\ LET p == Top(t).pkg
     IN  /\ IF Prepared(p) THEN ~newInfo[p] ELSE \A d \in Deps[p] : hash[d] # "empty"
         /\ newInfo' = [newInfo EXCEPT ![p] = TRUE]
         /\ hash' = [hash EXCEPT ![p] = "writing"]
  /\ Goto(t, "hashing", {})
  /\ UNCHANGED <<flagVars, lock, info, tar, torn, worldVars>>

\* A dependency's hash is empty, or is being written and read as empty.
PrepareThrows(t) ==
  /\ At(t, "prepare") /\ ~fetchOnly
  /\ ~Prepared(Top(t).pkg)
  /\ \E d \in Deps[Top(t).pkg] : hash[d] # "set"
  /\ Goto(t, "fail", {})
  /\ UNCHANGED <<flagVars, lock, diskVars, worldVars>>

HashWritten(t) ==
  /\ At(t, "hashing")
  /\ hash' = [hash EXCEPT ![Top(t).pkg] = "set"]
  /\ Goto(t, "check", {})
  /\ UNCHANGED <<flagVars, lock, newInfo, info, tar, torn, worldVars>>

\* shouldBuild: the tars exist and .build.info.new equals .build.info.
NotRequired(t) ==
  /\ At(t, "check") /\ ~Top(t).locally
  /\ LET p == Top(t).pkg
     IN  /\ newInfo[p] /\ info[p] /\ tar[p] # "none"
         /\ built' = [built EXCEPT ![p] = TRUE]
  /\ ReturnTrue(t)
  /\ UNCHANGED <<wasBuilt, diskVars, worldVars>>

\* shouldBuild restores the package from the build cache (fetchFrom): each
\* file is renamed into place, and .build.info.new becomes .build.info.
Restored(t) ==
  /\ At(t, "check") /\ ~Top(t).locally
  /\ LET p == Top(t).pkg
     IN  /\ hash[p] = "set"
         /\ tar' = [tar EXCEPT ![p] = "whole"]
         /\ newInfo' = [newInfo EXCEPT ![p] = FALSE]
         /\ info' = [info EXCEPT ![p] = TRUE]
         /\ built' = [built EXCEPT ![p] = TRUE]
  /\ ReturnTrue(t)
  /\ UNCHANGED <<wasBuilt, hash, torn, worldVars>>

\* Building is required, or asked for with locally = true.  A restore that
\* failed half-way may have replaced the tar.
Required(t) ==
  /\ At(t, "check")
  /\ LET p == Top(t).pkg
     IN  \/ UNCHANGED tar
         \/ /\ ~Top(t).locally /\ hash[p] = "set"
            /\ tar' = [tar EXCEPT ![p] = "whole"]
  /\ Goto(t, "local", Locally[Top(t).pkg])
  /\ UNCHANGED <<flagVars, lock, hash, newInfo, info, torn, worldVars>>

\* Mutant: the second call is made without locally.
LocalLoopWeak(t) ==
  /\ At(t, "local")
  /\ \/ \E d \in Top(t).todo : Recurse(t, d, FALSE)
     \/ Top(t).todo = {} /\ Goto(t, "fetch", {})
  /\ UNCHANGED <<flagVars, lock, diskVars, worldVars>>

\* build(true, fetchOnly) of the dependencies that have to be built locally.
LocalLoop(t) ==
  /\ At(t, "local")
  /\ \/ \E d \in Top(t).todo : Recurse(t, d, TRUE)
     \/ Top(t).todo = {} /\ Goto(t, "fetch", {})
  /\ UNCHANGED <<flagVars, lock, diskVars, worldVars>>

\* Mutant: --fetch-only does not stop after the fetch.
FetchAndGoOn(t) ==
  /\ At(t, "fetch")
  /\ Goto(t, "fail", {}) \/ Goto(t, "staging", StagingPackages(Top(t).pkg))
  /\ UNCHANGED <<flagVars, lock, diskVars, worldVars>>

\* fetch() and, unless --fetch-only, the extraction of the sources.
FetchAndExtract(t) ==
  /\ At(t, "fetch")
  /\ \/ Goto(t, "fail", {})
     \/ IF fetchOnly THEN Goto(t, "commit", {})
        ELSE Goto(t, "staging", StagingPackages(Top(t).pkg))
  /\ UNCHANGED <<flagVars, lock, diskVars, worldVars>>

\* prepareBuildDirs extracts one staging tar, in any order; a partial one is
\* an error for tar or a staging directory that lacks files.
ExtractStaging(t) ==
  /\ At(t, "staging")
  /\ \/ \E q \in Top(t).todo :
          \/ /\ tar[q] # "none"
             /\ Goto(t, "staging", Top(t).todo \ {q})
             /\ torn' = IF tar[q] = "partial" THEN torn \cup {Top(t).pkg} ELSE torn
          \/ /\ tar[q] # "whole"
             /\ Goto(t, "fail", {})
             /\ UNCHANGED torn
     \/ Top(t).todo = {} /\ Goto(t, "commands", {}) /\ UNCHANGED torn
  /\ UNCHANGED <<flagVars, lock, hash, newInfo, info, tar, worldVars>>

\* The commands run; packageNewStaging opens the package's tar in place.
RunCommands(t) ==
  /\ At(t, "commands")
  /\ \/ Goto(t, "fail", {}) /\ UNCHANGED tar
     \/ Goto(t, "packing", {}) /\ tar' = [tar EXCEPT ![Top(t).pkg] = "partial"]
  /\ UNCHANGED <<flagVars, lock, hash, newInfo, info, torn, worldVars>>

\* The tar is complete, or it (or packageNewInstall) fails.
Packed(t) ==
  /\ At(t, "packing")
  /\ \/ Goto(t, "commit", {}) /\ tar' = [tar EXCEPT ![Top(t).pkg] = "whole"]
     \/ Goto(t, "fail", {}) /\ tar' = [tar EXCEPT ![Top(t).pkg] = "whole"]
     \/ Goto(t, "fail", {}) /\ UNCHANGED tar
  /\ UNCHANGED <<flagVars, lock, hash, newInfo, info, torn, worldVars>>

\* Mutant: built is not set after a real build.
CommitForgets(t) ==
  /\ At(t, "commit")
  /\ fetchOnly \/ newInfo[Top(t).pkg]
  /\ IF fetchOnly THEN UNCHANGED <<newInfo, info>>
     ELSE /\ newInfo' = [newInfo EXCEPT ![Top(t).pkg] = FALSE]
          /\ info' = [info EXCEPT ![Top(t).pkg] = TRUE]
  /\ wasBuilt' = [wasBuilt EXCEPT ![Top(t).pkg] = TRUE]
  /\ ReturnTrue(t)
  /\ UNCHANGED <<built, hash, tar, torn, worldVars>>

\* updateBuildInfo, then the flags.
Commit(t) ==
  /\ At(t, "commit")
  /\ fetchOnly \/ newInfo[Top(t).pkg]
  /\ IF fetchOnly THEN UNCHANGED <<newInfo, info>>
     ELSE /\ newInfo' = [newInfo EXCEPT ![Top(t).pkg] = FALSE]
          /\ info' = [info EXCEPT ![Top(t).pkg] = TRUE]
  /\ built' = [built EXCEPT ![Top(t).pkg] = TRUE]
  /\ wasBuilt' = [wasBuilt EXCEPT ![Top(t).pkg] = TRUE]
  /\ ReturnTrue(t)
  /\ UNCHANGED <<hash, tar, torn, worldVars>>

\* updateBuildInfo throws: the rename has nothing to rename, or hashing the
\* output fails after it.
CommitThrows(t) ==
  /\ At(t, "commit") /\ ~fetchOnly
  /\ newInfo' = [newInfo EXCEPT ![Top(t).pkg] = FALSE]
  /\ info' \in {info, [info EXCEPT ![Top(t).pkg] = TRUE]}
  /\ Goto(t, "fail", {})
  /\ UNCHANGED <<flagVars, lock, hash, tar, torn, worldVars>>

\* Mutant: what failed is tried again.
FailRetries(t) ==
  /\ At(t, "fail")
  /\ Goto(t, "fetch", {})
  /\ UNCHANGED <<flagVars, lock, diskVars, worldVars>>

\* return false, or an exception: the caller fails too.
Fail(t) ==
  /\ At(t, "fail")
  /\ stack' = [stack EXCEPT ![t] =
       IF Len(stack[t]) = 1 THEN <<>>
       ELSE <<[stack[t][2] EXCEPT !.at = "fail"]>> \o Tail(Tail(stack[t]))]
  /\ status' = [status EXCEPT ![t] = IF Len(stack[t]) = 1 THEN "failing" ELSE @]
  /\ Release(t)
  /\ UNCHANGED <<flagVars, diskVars, failed, optionVars>>

Build(t) ==
  \/ Enter(t)
  \/ DependLoop(t)
  \/ Suppress(t)
  \/ PrepareNothing(t) \/ Prepare(t) \/ PrepareThrows(t) \/ HashWritten(t)
  \/ NotRequired(t) \/ Restored(t) \/ Required(t)
  \/ LocalLoop(t)
  \/ FetchAndExtract(t)
  \/ ExtractStaging(t)
  \/ RunCommands(t)
  \/ Packed(t)
  \/ Commit(t) \/ CommitThrows(t)
  \/ Fail(t)

Ended ==
  /\ \A t \in Packages : status[t] \in {"idle", "ended"}
  /\ failed \/ \A t \in Packages : status[t] = "ended" \/ built[t]
  /\ UNCHANGED vars

Next ==
  \/ \E t \in Packages : Start(t) \/ Build(t) \/ Finished(t) \/ SetFailed(t)
  \/ Ended

Spec == Init /\ [][Next]_vars

\* Every command ends, and a thread that waits for a mutex gets it in the end.
Fairness ==
  \A t \in Packages : SF_vars(Build(t) \/ Finished(t) \/ SetFailed(t))

FairSpec == Spec /\ Fairness

-----------------------------------------------------------------------------
\* Properties.

InCalls(t) == {stack[t][i] : i \in DOMAIN stack[t]}
Past(c, places) == c.at \in places
Working == {"fetch", "staging", "commands", "packing", "commit"}

\* package.cpp:912: the lock is held for the whole build, whoever the thread
\* is: two calls never work on one package, and no lock is left behind.
OneBuilder ==
  /\ \A t, u \in Packages : \A c \in InCalls(t), e \in InCalls(u) :
       (c.pkg = e.pkg /\ ~Past(c, {"enter"}) /\ ~Past(e, {"enter"})) => t = u /\ c = e
  /\ \A p \in Packages : lock[p] # NoThread =>
       \E c \in InCalls(lock[p]) : c.pkg = p /\ ~Past(c, {"enter"})

\* package.cpp:961: when a package is built, the dependencies it wants built
\* locally have been built in this run, by whichever thread, except those
\* that are suppressed.
LocalReally ==
  \A t \in Packages : \A c \in InCalls(t) :
    Past(c, Working) => \A d \in Locally[c.pkg] : wasBuilt[d] \/ d \in suppressed

\* Nobody builds a package a second time, however many packages want it
\* built locally.
BuiltOnce ==
  \A t \in Packages : \A c \in InCalls(t) : Past(c, Working) => ~wasBuilt[c.pkg]

\* package.cpp:495-521: no package decides or builds with the hash of a
\* dependency missing, in forced mode neither; and when updateBuildInfo renames
\* .build.info.new it is there, also after a cache restore and a locally
\* triggered rebuild.
InputsThere ==
  \A t \in Packages :
    /\ At(t, "commit") /\ ~fetchOnly => newInfo[Top(t).pkg]
    /\ \A c \in InCalls(t) :
         Past(c, {"hashing", "check", "local"} \cup Working) /\ ~fetchOnly
           => \A d \in Deps[c.pkg] : hash[d] # "empty"

\* In forced mode only the forced packages change, also when one of them
\* wants another package built locally (package.cpp:927-934).  --fetch-only
\* skips building and packing on every path, the nested and the locally
\* triggered calls included (package.cpp:950, 980): no tar changes, and no
\* .build.info except by the cleaning a package asks for.
ModesKept ==
  [][/\ \A p \in suppressed : UNCHANGED <<tar[p], info[p], wasBuilt[p]>>
     /\ fetchOnly => /\ UNCHANGED tar
                     /\ \A p \in Packages \ CleanFirst : info'[p] = info[p]]_vars

\* No package is built on a staging tar another thread is rewriting.
NoTornStaging == torn = {}

\* Every thread comes to its end: the nested locks cannot deadlock.
ThreadsEnd == \A t \in Packages : status[t] = "running" ~> status[t] = "ended"
=============================================================================
