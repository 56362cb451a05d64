------------------------------ MODULE Scheduler ------------------------------
(***************************************************************************)
(* The build scheduler: World::basePackage's build loop, the detached      *)
(* build threads it starts (build_thread), and the condition variable they *)
(* meet on.  Package::build is taken at the grain the scheduler can see:   *)
(* the package's lock, the flags `built' and `building' in the order the   *)
(* code writes them, and its outcome.  What a build does on disk is the    *)
(* subject of other modules.                                               *)
(*                                                                         *)
(* cond_lock: a critical section of a thread is one action; the scheduler  *)
(* holds it between SchedObserve and SchedStart or SchedWait (sched =      *)
(* "scan"), because topoNext reads flags that threads write without it.    *)
(***************************************************************************)
EXTENDS Integers, FiniteSets

CONSTANTS
  Packages,      \* the packages found by the parse phase
  Base,          \* the base package
  Deps,          \* Deps[p]: the packages p depends on
  ThreadsLimit   \* --parallel-packages; 0 is "no limit"

\* get_cycled_packages has refused every cyclic graph before the loop starts.
Acyclic ==
  \A S \in SUBSET Packages : S # {} => \E p \in S : Deps[p] \cap S = {}

\* Every package came from a depend() call of a package reached from Base.
ReachableFromBase ==
  \A S \in SUBSET Packages :
    (Base \in S /\ \A p \in S : Deps[p] \subseteq S) => S = Packages

ASSUME SchedulerAssumption ==
  /\ IsFiniteSet(Packages)
  /\ Base \in Packages
  /\ Deps \in [Packages -> SUBSET Packages]
  /\ Acyclic
  /\ ReachableFromBase
  /\ ThreadsLimit \in Nat

\* The threads a package can have.  Invariant StartsBounded says two suffice.
Slots == {1, 2}
Threads == Packages \X Slots

VARIABLES
  built,           \* Package::built
  building,        \* Package::building
  lock,            \* Package::lock: the slot of the thread that holds it, or 0
  pc,              \* where each build thread is
  running,         \* World::threads_running
  failed,          \* World::failed
  failedPackages,  \* World::failed_packages
  keepGoing,       \* World::keepGoing, as the command line sets it
  sched,           \* where the scheduler is
  unbuilt,         \* the packages topoNext can have seen not built
  ready,           \* the packages it had to return unless they get built
  result           \* what basePackage returned

threadVars == <<built, building, lock, pc, running, failed, failedPackages, keepGoing>>
schedVars == <<sched, unbuilt, ready, result, keepGoing>>
vars == <<built, building, lock, pc, running, failed, failedPackages, keepGoing,
          sched, unbuilt, ready, result>>

TypeOK ==
  /\ built \in [Packages -> BOOLEAN]
  /\ building \in [Packages -> BOOLEAN]
  /\ lock \in [Packages -> {0} \cup Slots]
  /\ pc \in [Threads -> {"idle", "build", "work", "commit", "finish",
                         "fail", "end", "gone"}]
  /\ running \in Nat
  /\ failed \in BOOLEAN
  /\ failedPackages \subseteq Packages
  /\ keepGoing \in BOOLEAN
  /\ sched \in {"check", "lock", "scan", "waiting", "drain", "drainWait",
                "return", "done"}
  /\ unbuilt \subseteq Packages
  /\ ready \subseteq Packages
  /\ result \in {"none", "ok", "failed"}

Init ==
  /\ built = [p \in Packages |-> FALSE]
  /\ building = [p \in Packages |-> FALSE]
  /\ lock = [p \in Packages |-> 0]
  /\ pc = [t \in Threads |-> "idle"]
  /\ running = 0
  /\ failed = FALSE
  /\ failedPackages = {}
  /\ keepGoing \in BOOLEAN
  /\ sched = "check"
  /\ unbuilt = {}
  /\ ready = {}
  /\ result = "none"

-----------------------------------------------------------------------------
\* The scheduler thread.

\* while(!isFailed() && !base_package->isBuilt()): read without cond_lock.
SchedCheck ==
  /\ sched = "check"
  /\ sched' = IF ~failed /\ ~built[Base] THEN "lock"
              ELSE IF keepGoing THEN "drain" ELSE "return"
  /\ UNCHANGED <<threadVars, unbuilt, ready, result>>

\* Mutant: the comparison with --parallel-packages is off by one.
HasCapacityOffByOne == ThreadsLimit = 0 \/ running <= ThreadsLimit

HasCapacity == ThreadsLimit = 0 \/ running < ThreadsLimit

\* Takes cond_lock, has no thread to give, and sleeps.
SchedWaitFull ==
  /\ sched = "lock"
  /\ ~HasCapacity
  /\ sched' = "waiting"
  /\ UNCHANGED <<threadVars, unbuilt, ready, result>>

\* Mutant: a dependency that is being built counts as built.
CanBuildEarly(p) == built[p] \/ \A d \in Deps[p] : built[d] \/ building[d]

CanBuild(p) == built[p] \/ \A d \in Deps[p] : built[d]

\* topoNext can return p: !isBuilt() is its first read of p.
Candidate(p) == p \in unbuilt /\ ~building[p] /\ CanBuild(p)

\* Takes cond_lock; topoNext begins to read the flags, package by package,
\* while threads go on writing them.
SchedObserve ==
  /\ sched = "lock"
  /\ HasCapacity
  /\ sched' = "scan"
  /\ unbuilt' = {p \in Packages : ~built[p]}
  /\ ready' = {p \in Packages : ~built[p] /\ ~building[p] /\ CanBuild(p)}
  /\ UNCHANGED <<threadVars, result>>

\* topoNext returns p: setBuilding, threadStarted, a new detached thread.
SchedStart(p, n) ==
  /\ sched = "scan"
  /\ Candidate(p)
  /\ pc[<<p, n>>] = "idle"
  /\ \A m \in Slots : m < n => pc[<<p, m>>] # "idle"
  /\ pc' = [pc EXCEPT ![<<p, n>>] = "build"]
  /\ building' = [building EXCEPT ![p] = TRUE]
  /\ running' = running + 1
  /\ sched' = "check"
  /\ unbuilt' = {}
  /\ ready' = {}
  /\ UNCHANGED <<built, lock, failed, failedPackages, keepGoing, result>>

\* topoNext returns nullptr: the scheduler sleeps and releases cond_lock.
\* What was not ready when the scan began may be so by now.
SchedWait ==
  /\ sched = "scan"
  /\ \A p \in ready : built[p]
  /\ sched' = "waiting"
  /\ unbuilt' = {}
  /\ ready' = {}
  /\ UNCHANGED <<threadVars, result>>

\* Mutant: the drain loop forgets the last thread.
SchedDrainButOne ==
  /\ sched = "drain"
  /\ sched' = IF ~built[Base] /\ running > 1 THEN "drainWait" ELSE "return"
  /\ UNCHANGED <<threadVars, unbuilt, ready, result>>

\* The --keep-going loop, evaluated under cond_lock.
SchedDrain ==
  /\ sched = "drain"
  /\ sched' = IF ~built[Base] /\ running > 0 THEN "drainWait" ELSE "return"
  /\ UNCHANGED <<threadVars, unbuilt, ready, result>>

\* return !this->failed
SchedReturn ==
  /\ sched = "return"
  /\ sched' = "done"
  /\ result' = IF failed THEN "failed" ELSE "ok"
  /\ UNCHANGED <<threadVars, unbuilt, ready>>

\* Where a scheduler that wakes from cond.wait goes on.
Awake == [s \in {"waiting", "drainWait"} |-> IF s = "waiting" THEN "check" ELSE "drain"]

\* condition_variable::wait may return without a notification.
SpuriousWake ==
  /\ sched \in DOMAIN Awake
  /\ sched' = Awake[sched]
  /\ UNCHANGED <<threadVars, unbuilt, ready, result>>

Sched ==
  \/ SchedCheck
  \/ SchedObserve
  \/ SchedWaitFull
  \/ \E p \in Packages, n \in Slots : SchedStart(p, n)
  \/ SchedWait
  \/ SchedDrain
  \/ SchedReturn

-----------------------------------------------------------------------------
\* A build thread <<p, n>>.

\* A thread can enter a critical section of cond_lock.
CondLockFree == sched # "scan"

\* cond.notify_all() in a critical section: wakes the scheduler if it sleeps.
NotifyAll ==
  /\ sched' = IF sched \in DOMAIN Awake THEN Awake[sched] ELSE sched
  /\ UNCHANGED <<unbuilt, ready, result, keepGoing>>

\* Mutant: without the "already built" early return.
BuildEnterAgain(p, n) ==
  /\ pc[<<p, n>>] = "build"
  /\ lock[p] = 0
  /\ lock' = [lock EXCEPT ![p] = n]
  /\ pc' = [pc EXCEPT ![<<p, n>>] = "work"]
  /\ UNCHANGED <<built, building, running, failed, failedPackages, schedVars>>

\* Package::build takes the package's lock; if another thread has built the
\* package it returns true at once.  The recursive calls on dependencies
\* find them built (DependenciesFirst).
BuildEnter(p, n) ==
  /\ pc[<<p, n>>] = "build"
  /\ lock[p] = 0
  /\ lock' = [lock EXCEPT ![p] = IF built[p] THEN 0 ELSE n]
  /\ pc' = [pc EXCEPT ![<<p, n>>] = IF built[p] THEN "finish" ELSE "work"]
  /\ UNCHANGED <<built, building, running, failed, failedPackages, schedVars>>

\* Suppressed, or shouldBuild() says it is not required: built = true only.
BuildNotRequired(p, n) ==
  /\ pc[<<p, n>>] = "work"
  /\ built' = [built EXCEPT ![p] = TRUE]
  /\ lock' = [lock EXCEPT ![p] = 0]
  /\ pc' = [pc EXCEPT ![<<p, n>>] = "finish"]
  /\ UNCHANGED <<building, running, failed, failedPackages, schedVars>>

\* The whole build ran.  building = false comes first ...
BuildClear(p, n) ==
  /\ pc[<<p, n>>] = "work"
  /\ building' = [building EXCEPT ![p] = FALSE]
  /\ pc' = [pc EXCEPT ![<<p, n>>] = "commit"]
  /\ UNCHANGED <<built, lock, running, failed, failedPackages, schedVars>>

\* ... then built = true, and the lock is released.
BuildCommit(p, n) ==
  /\ pc[<<p, n>>] = "commit"
  /\ built' = [built EXCEPT ![p] = TRUE]
  /\ lock' = [lock EXCEPT ![p] = 0]
  /\ pc' = [pc EXCEPT ![<<p, n>>] = "finish"]
  /\ UNCHANGED <<building, running, failed, failedPackages, schedVars>>

\* build() returns false or throws; `building' stays set.
BuildFail(p, n) ==
  /\ pc[<<p, n>>] = "work"
  /\ lock' = [lock EXCEPT ![p] = 0]
  /\ pc' = [pc EXCEPT ![<<p, n>>] = "fail"]
  /\ UNCHANGED <<built, building, running, failed, failedPackages, schedVars>>

PackageFinished(p, n) ==
  /\ pc[<<p, n>>] = "finish"
  /\ CondLockFree
  /\ pc' = [pc EXCEPT ![<<p, n>>] = "end"]
  /\ NotifyAll
  /\ UNCHANGED <<built, building, lock, running, failed, failedPackages>>

\* Mutant: the failure path gives the thread back a second time.
SetFailedEnds(p, n) ==
  /\ pc[<<p, n>>] = "fail"
  /\ CondLockFree
  /\ failedPackages' = failedPackages \cup {p}
  /\ failed' = TRUE
  /\ running' = running - 1
  /\ pc' = [pc EXCEPT ![<<p, n>>] = "end"]
  /\ NotifyAll
  /\ UNCHANGED <<built, building, lock>>

SetFailed(p, n) ==
  /\ pc[<<p, n>>] = "fail"
  /\ CondLockFree
  /\ failedPackages' = failedPackages \cup {p}
  /\ failed' = TRUE
  /\ pc' = [pc EXCEPT ![<<p, n>>] = "end"]
  /\ NotifyAll
  /\ UNCHANGED <<built, building, lock, running>>

\* Mutant: the thread ends without a notification.
ThreadEndedSilent(p, n) ==
  /\ pc[<<p, n>>] = "end"
  /\ CondLockFree
  /\ running' = running - 1
  /\ pc' = [pc EXCEPT ![<<p, n>>] = "gone"]
  /\ UNCHANGED <<built, building, lock, failed, failedPackages, schedVars>>

ThreadEnded(p, n) ==
  /\ pc[<<p, n>>] = "end"
  /\ CondLockFree
  /\ running' = running - 1
  /\ pc' = [pc EXCEPT ![<<p, n>>] = "gone"]
  /\ NotifyAll
  /\ UNCHANGED <<built, building, lock, failed, failedPackages>>

Thread(p, n) ==
  \/ BuildEnter(p, n)
  \/ BuildNotRequired(p, n)
  \/ BuildClear(p, n)
  \/ BuildCommit(p, n)
  \/ BuildFail(p, n)
  \/ PackageFinished(p, n)
  \/ SetFailed(p, n)
  \/ ThreadEnded(p, n)

\* basePackage has returned and no thread is left.
Terminated ==
  /\ sched = "done"
  /\ \A t \in Threads : pc[t] \in {"idle", "gone"}
  /\ UNCHANGED vars

Next ==
  \/ Sched
  \/ SpuriousWake
  \/ \E p \in Packages, n \in Slots : Thread(p, n)
  \/ Terminated

Spec == Init /\ [][Next]_vars

\* Every command a build runs terminates, no thread is starved of a mutex it
\* competes for again and again; a spurious wake-up is never owed.
Fairness ==
  /\ WF_vars(Sched)
  /\ \A p \in Packages, n \in Slots : SF_vars(Thread(p, n))

FairSpec == Spec /\ Fairness

-----------------------------------------------------------------------------
\* Properties.

Live(t) == pc[t] \notin {"idle", "gone"}
Decided == failed \/ built[Base]

\* A thread works on a package (Package::build after its dependency loop)
\* only when every dependency is built, and what is built stays closed
\* under dependencies, although topoNext reads the flags without the locks.
DependenciesFirst ==
  \A p \in Packages :
    (built[p] \/ \E n \in Slots : Live(<<p, n>>)) => \A d \in Deps[p] : built[d]

\* A package is worked on by the holder of its lock only, and never again
\* once it is built, even when the scheduler has started it twice.
OneBuilder ==
  \A p \in Packages, n \in Slots :
    pc[<<p, n>>] \in {"work", "commit"} => lock[p] = n /\ ~built[p]

\* threads_running counts the threads between their start and threadEnded,
\* and never exceeds --parallel-packages.
ThreadsCounted ==
  /\ running = Cardinality({t \in Threads : Live(t)})
  /\ ThreadsLimit # 0 => running <= ThreadsLimit

\* No third thread is ever started for a package: whenever topoNext picks a
\* package, its second slot is free (so Slots loses no behaviour).
StartsBounded ==
  sched = "scan" =>
    \A p \in Packages : Candidate(p) => pc[<<p, 2>>] = "idle"

\* A failed package is never built or started again, and failed_packages is
\* not empty exactly when the failed flag is set.
FailedStaysFailed ==
  /\ failed <=> failedPackages # {}
  /\ \A p \in failedPackages :
       /\ ~built[p] /\ building[p]
       /\ pc[<<p, 1>>] \in {"end", "gone"} /\ pc[<<p, 2>>] = "idle"

\* When basePackage returns true, everything is built, nothing has failed and
\* no thread is still inside the working part of Package::build.
QuietOnSuccess ==
  result = "ok" =>
    /\ ~failed
    /\ \A p \in Packages : built[p]
    /\ \A t \in Threads : pc[t] \notin {"work", "commit", "fail"}

\* buildsys.h:1061-1066: with --keep-going, packages being built are finished
\* before a failed build returns: no thread is between start and threadEnded.
DrainedOnFailure ==
  (keepGoing /\ result = "failed") => \A t \in Threads : ~Live(t)

\* A sleeping scheduler can still be woken by a thread: in the drain loop
\* always, in the main loop as long as nothing has failed and the base is not
\* built.  After that it may sleep alone for ever (OutcomeReturned).
SleepHasWaker ==
  /\ sched = "waiting" /\ ~Decided => \E t \in Threads : Live(t)
  /\ sched = "drainWait" => \E t \in Threads : Live(t)

\* Some package fails or the base gets built: until then no package is left
\* waiting for a notification that was missed or a slot never given back.
\* Whether basePackage then returns is the question of OutcomeReturned.
NoStarvation == <>Decided

\* The --keep-going loop always ends: it tests its condition under cond_lock,
\* so it cannot miss the wake-up of the last thread.
DrainEnds == sched \in {"drain", "drainWait"} ~> (result # "none")

\* Seen by its caller, the scheduler is BuildOrder: the packages that are
\* built and those in failed_packages change in dependency order only, and
\* basePackage answers as BuildOrder may.
Order == INSTANCE BuildOrder WITH
  done <- {p \in Packages : built[p]},
  bad <- failedPackages
ImplementsOrder == Order!Spec

\* buildsys.h:1092-1095: setFailed wakes the scheduler "so it observes the
\* failure promptly".  It does not when it already sleeps on an older look.
FailureObserved == failed ~> (result # "none")

\* functional-test/CMakeLists.txt:4-5 runs a build to its end and looks at its
\* output then: once the base is built, basePackage returns.
SuccessReturned == built[Base] ~> (result # "none")
=============================================================================
