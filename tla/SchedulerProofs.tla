--------------------------- MODULE SchedulerProofs ---------------------------
(***************************************************************************)
(* Proofs about Scheduler, for every finite acyclic dependency graph,      *)
(* every thread limit, with and without --keep-going.                      *)
(***************************************************************************)
EXTENDS Scheduler, TLAPS, FiniteSetTheorems

LiveThreads == {t \in Threads : Live(t)}

\* One package: how its flags, its lock and its two threads go together.
\* Only the first thread ever works on it; a second one finds it built.
PackageInv(p) ==
  LET a == pc[<<p, 1>>]
      b == pc[<<p, 2>>]
  IN  /\ a = "idle" => ~built[p] /\ ~building[p] /\ b = "idle"
      /\ a \in {"build", "work", "fail"} => building[p] /\ ~built[p] /\ b = "idle"
      /\ a = "commit" => ~built[p] /\ b \in {"idle", "build"}
      /\ a = "finish" => built[p]
      /\ a \in {"end", "gone"} => built[p] \/ p \in failedPackages
      /\ b \in {"idle", "build", "finish", "end", "gone"}
      /\ b \in {"finish", "end", "gone"} => built[p]
      /\ b # "idle" => building[p]
      /\ lock[p] = IF a \in {"work", "commit"} THEN 1 ELSE 0
      /\ p \in failedPackages =>
           ~built[p] /\ building[p] /\ a \in {"end", "gone"} /\ b = "idle"

\* A package is started after its dependencies are built.
OrderInv == \A p \in Packages :
  pc[<<p, 1>>] # "idle" => \A d \in Deps[p] : built[d]

FailureInv == failed <=> failedPackages # {}

\* threads_running is the number of live threads, within the limit.
CountInv ==
  /\ running = Cardinality(LiveThreads)
  /\ ThreadsLimit # 0 => running <= ThreadsLimit
  /\ sched = "scan" => HasCapacity

\* What the scheduler knows from where it is.
SchedInv ==
  /\ sched \in {"drain", "drainWait", "return", "done"} => Decided
  /\ sched = "done" <=> result # "none"
  /\ result = "ok" => built[Base]
  /\ result = "failed" => failed
  /\ keepGoing /\ sched \in {"return", "done"} => built[Base] \/ running = 0

\* A scan during which no thread is live has seen the flags as they are.
ScanInv ==
  (sched = "scan" /\ LiveThreads = {}) =>
    ready = {p \in Packages : ~built[p] /\ ~building[p] /\ CanBuild(p)}

IInv ==
  /\ TypeOK
  /\ \A p \in Packages : PackageInv(p)
  /\ OrderInv
  /\ FailureInv
  /\ CountInv
  /\ SchedInv
  /\ ScanInv
  /\ SleepHasWaker

-----------------------------------------------------------------------------
(* The live threads and their number.                                      *)

\* There are finitely many build threads, and the counter is their number.
LEMMA ThreadsFinite ==
  ASSUME IInv
  PROVE  /\ IsFiniteSet(LiveThreads)
         /\ running \in Nat
         /\ running > 0 <=> LiveThreads # {}
<1>1. IsFiniteSet(Slots)
  <2>1. IsFiniteSet({} \cup {1}) /\ IsFiniteSet(({} \cup {1}) \cup {2})
    BY FS_EmptySet, FS_AddElement
  <2>2. Slots = ({} \cup {1}) \cup {2}
    BY DEF Slots
  <2> QED BY <2>1, <2>2
<1>2. IsFiniteSet(Threads)
  BY <1>1, FS_Product, SchedulerAssumption DEF Threads
<1>3. IsFiniteSet(LiveThreads)
  BY <1>2, FS_Subset DEF LiveThreads
<1>4. Cardinality(LiveThreads) \in Nat
  BY <1>3, FS_CardinalityType
<1>5. running = Cardinality(LiveThreads)
  BY DEF IInv, CountInv
<1> QED BY <1>3, <1>4, <1>5, FS_EmptySet

\* A start adds one live thread, threadEnded takes one away, and no other
\* step changes the set.
LEMMA StartAddsThread ==
  ASSUME IInv, NEW p \in Packages, NEW n \in Slots, SchedStart(p, n)
  PROVE  /\ LiveThreads' = LiveThreads \cup {<<p, n>>}
         /\ <<p, n>> \notin LiveThreads
         /\ Cardinality(LiveThreads') = Cardinality(LiveThreads) + 1
<1>1. <<p, n>> \in Threads
  BY DEF Threads
<1>2. pc' = [pc EXCEPT ![<<p, n>>] = "build"] /\ pc[<<p, n>>] = "idle"
  BY DEF SchedStart
<1>3. pc \in [Threads -> {"idle", "build", "work", "commit", "finish", "fail", "end", "gone"}]
  BY DEF IInv, TypeOK
<1>4. \A t \in Threads : pc'[t] = IF t = <<p, n>> THEN "build" ELSE pc[t]
  BY <1>2, <1>3
<1>5. LiveThreads' = LiveThreads \cup {<<p, n>>} /\ <<p, n>> \notin LiveThreads
  BY <1>1, <1>2, <1>4 DEF LiveThreads, Live
<1> QED BY <1>5, FS_AddElement, ThreadsFinite

\* threadEnded takes exactly one thread away.
LEMMA EndRemovesThread ==
  ASSUME IInv, NEW p \in Packages, NEW n \in Slots, ThreadEnded(p, n)
  PROVE  /\ LiveThreads' = LiveThreads \ {<<p, n>>}
         /\ <<p, n>> \in LiveThreads
         /\ Cardinality(LiveThreads') = Cardinality(LiveThreads) - 1
<1>1. <<p, n>> \in Threads
  BY DEF Threads
<1>2. pc' = [pc EXCEPT ![<<p, n>>] = "gone"] /\ pc[<<p, n>>] = "end"
  BY DEF ThreadEnded
<1>3. pc \in [Threads -> {"idle", "build", "work", "commit", "finish", "fail", "end", "gone"}]
  BY DEF IInv, TypeOK
<1>4. \A t \in Threads : pc'[t] = IF t = <<p, n>> THEN "gone" ELSE pc[t]
  BY <1>2, <1>3
<1>5. LiveThreads' = LiveThreads \ {<<p, n>>} /\ <<p, n>> \in LiveThreads
  BY <1>1, <1>2, <1>4 DEF LiveThreads, Live
<1> QED BY <1>5, FS_RemoveElement, ThreadsFinite

\* The steps of a thread that stays live.
Working(p, n) ==
  \/ BuildEnter(p, n)
  \/ BuildNotRequired(p, n)
  \/ BuildClear(p, n)
  \/ BuildCommit(p, n)
  \/ BuildFail(p, n)
  \/ PackageFinished(p, n)
  \/ SetFailed(p, n)

\* A step inside Package::build neither adds nor ends a thread.
LEMMA WorkKeepsThreads ==
  ASSUME IInv, NEW p \in Packages, NEW n \in Slots, Working(p, n)
  PROVE  LiveThreads' = LiveThreads /\ <<p, n>> \in LiveThreads /\ running' = running
<1>1. <<p, n>> \in Threads
  BY DEF Threads
<1>3. pc \in [Threads -> {"idle", "build", "work", "commit", "finish", "fail", "end", "gone"}]
  BY DEF IInv, TypeOK
<1>2. /\ pc[<<p, n>>] \in {"build", "work", "commit", "finish", "fail"}
      /\ \E s \in {"work", "commit", "finish", "fail", "end"} :
            pc' = [pc EXCEPT ![<<p, n>>] = s]
      /\ running' = running
  BY DEF Working, BuildEnter, BuildNotRequired, BuildClear, BuildCommit, BuildFail,
         PackageFinished, SetFailed
<1>4. PICK s \in {"work", "commit", "finish", "fail", "end"} :
        \A t \in Threads : pc'[t] = IF t = <<p, n>> THEN s ELSE pc[t]
  BY <1>2, <1>3
<1>5. LiveThreads' = LiveThreads /\ <<p, n>> \in LiveThreads
  BY <1>1, <1>2, <1>4 DEF LiveThreads, Live
<1> QED BY <1>2, <1>5

\* The kinds of step, as the proofs below split them.
LEMMA Steps ==
  ASSUME Next
  PROVE  \/ \E p \in Packages, n \in Slots : SchedStart(p, n)
         \/ \E p \in Packages, n \in Slots : Working(p, n)
         \/ \E p \in Packages, n \in Slots : ThreadEnded(p, n)
         \/ SchedCheck \/ SchedObserve \/ SchedWaitFull \/ SchedWait
         \/ SchedDrain \/ SchedReturn \/ SpuriousWake
         \/ UNCHANGED vars
BY DEF Next, Sched, Thread, Working, Terminated
-----------------------------------------------------------------------------
(* Each part of IInv is preserved.                                         *)

\* Every step keeps the types of the scheduler's and the threads' state.
LEMMA TypeStep ==
  ASSUME IInv, [Next]_vars
  PROVE  TypeOK'
<1> USE DEF TypeOK
<1>1. TypeOK /\ running \in Nat
  BY DEF IInv
<1>2. CASE \E p \in Packages, n \in Slots : SchedStart(p, n)
  BY <1>1, <1>2 DEF SchedStart, Threads
<1>3. CASE \E p \in Packages, n \in Slots : Working(p, n)
  <2> PICK p \in Packages, n \in Slots : Working(p, n)
    BY <1>3
  <2>1. CASE PackageFinished(p, n) \/ SetFailed(p, n)
    BY <1>1, <2>1 DEF PackageFinished, SetFailed, NotifyAll, Awake
  <2>2. CASE BuildEnter(p, n) \/ BuildFail(p, n)
    BY <1>1, <2>2 DEF BuildEnter, BuildFail, schedVars
  <2>3. CASE BuildNotRequired(p, n) \/ BuildClear(p, n) \/ BuildCommit(p, n)
    BY <1>1, <2>3 DEF BuildNotRequired, BuildClear, BuildCommit, schedVars
  <2> QED BY <2>1, <2>2, <2>3 DEF Working
<1>4. CASE \E p \in Packages, n \in Slots : ThreadEnded(p, n)
  <2> PICK p \in Packages, n \in Slots : ThreadEnded(p, n)
    BY <1>4
  <2>1. LiveThreads # {}
    BY EndRemovesThread
  <2>2. running \in Nat /\ running > 0
    BY <2>1, ThreadsFinite
  <2>3. running' \in Nat
    BY <2>2 DEF ThreadEnded
  <2> QED BY <1>1, <2>3 DEF ThreadEnded, NotifyAll, Awake
<1>5. CASE SchedCheck \/ SchedObserve \/ SchedWaitFull \/ SchedWait
  BY <1>1, <1>5 DEF SchedCheck, SchedObserve, SchedWaitFull, SchedWait, threadVars
<1>6. CASE SchedDrain \/ SchedReturn \/ SpuriousWake
  BY <1>1, <1>6 DEF SchedDrain, SchedReturn, SpuriousWake, Awake, threadVars
<1>7. CASE UNCHANGED vars
  BY <1>1, <1>7 DEF vars
<1> QED BY <1>2, <1>3, <1>4, <1>5, <1>6, <1>7, Steps

\* The steps of the scheduler leave everything a thread writes alone.
LEMMA SchedulerSteps ==
  ASSUME SchedCheck \/ SchedObserve \/ SchedWaitFull \/ SchedWait
           \/ SchedDrain \/ SchedReturn \/ SpuriousWake \/ UNCHANGED vars
  PROVE  UNCHANGED threadVars
BY DEF SchedCheck, SchedObserve, SchedWaitFull, SchedWait, SchedDrain,
       SchedReturn, SpuriousWake, vars, threadVars

\* Every step keeps what the flags of a package say of its threads.
LEMMA PackageStep ==
  ASSUME IInv, [Next]_vars, NEW q \in Packages
  PROVE  PackageInv(q)'
<1> USE DEF PackageInv, Threads, Slots
<1>1. TypeOK /\ PackageInv(q) /\ \A p \in Packages : PackageInv(p)
  BY DEF IInv
<1> USE <1>1 DEF TypeOK
<1>2. CASE \E p \in Packages, n \in Slots : SchedStart(p, n)
  BY <1>2 DEF SchedStart, Candidate
<1>3. CASE \E p \in Packages, n \in Slots : Working(p, n)
  <2> PICK p \in Packages, n \in Slots : Working(p, n)
    BY <1>3
  <2>1. CASE BuildEnter(p, n)
    BY <2>1 DEF BuildEnter
  <2>2. CASE BuildNotRequired(p, n)
    BY <2>2 DEF BuildNotRequired
  <2>3. CASE BuildClear(p, n)
    BY <2>3 DEF BuildClear
  <2>4. CASE BuildCommit(p, n)
    BY <2>4 DEF BuildCommit
  <2>5. CASE BuildFail(p, n)
    BY <2>5 DEF BuildFail
  <2>6. CASE PackageFinished(p, n)
    BY <2>6 DEF PackageFinished
  <2>7. CASE SetFailed(p, n)
    BY <2>7 DEF SetFailed
  <2> QED BY <2>1, <2>2, <2>3, <2>4, <2>5, <2>6, <2>7 DEF Working
<1>4. CASE \E p \in Packages, n \in Slots : ThreadEnded(p, n)
  BY <1>4 DEF ThreadEnded
<1>5. CASE UNCHANGED threadVars
  BY <1>5 DEF threadVars
<1> QED BY <1>2, <1>3, <1>4, <1>5, Steps, SchedulerSteps
\* What is built stays built.
LEMMA BuiltStays ==
  ASSUME IInv, [Next]_vars, NEW q \in Packages, built[q]
  PROVE  built'[q]
<1> USE DEF TypeOK, IInv
<1>1. CASE \E p \in Packages, n \in Slots : Working(p, n)
  BY <1>1 DEF Working, BuildEnter, BuildNotRequired, BuildClear, BuildCommit, BuildFail,
              PackageFinished, SetFailed
<1>2. CASE \E p \in Packages, n \in Slots : SchedStart(p, n) \/ ThreadEnded(p, n)
  BY <1>2 DEF SchedStart, ThreadEnded
<1>3. CASE UNCHANGED threadVars
  BY <1>3 DEF threadVars
<1> QED BY <1>1, <1>2, <1>3, Steps, SchedulerSteps

\* Every step keeps: a package that was started had its dependencies built.
LEMMA OrderStep ==
  ASSUME IInv, [Next]_vars
  PROVE  OrderInv'
<1> SUFFICES ASSUME NEW q \in Packages, pc'[<<q, 1>>] # "idle", NEW d \in Deps[q]
             PROVE  built'[d]
  BY DEF OrderInv
<1>1. d \in Packages
  BY SchedulerAssumption
<1>2. CASE pc[<<q, 1>>] # "idle"
  BY <1>1, <1>2, BuiltStays DEF IInv, OrderInv
<1>3. CASE pc[<<q, 1>>] = "idle"
  <2>1. PICK p \in Packages, n \in Slots : SchedStart(p, n)
    <3>1. <<q, 1>> \in Threads /\ TypeOK
      BY DEF Threads, Slots, IInv
    <3>2. CASE \E p \in Packages, n \in Slots : Working(p, n)
      BY <1>3, <3>1, <3>2 DEF Working, BuildEnter, BuildNotRequired, BuildClear,
           BuildCommit, BuildFail, PackageFinished, SetFailed, TypeOK
    <3>3. CASE \E p \in Packages, n \in Slots : ThreadEnded(p, n)
      BY <1>3, <3>1, <3>3 DEF ThreadEnded, TypeOK
    <3>4. CASE UNCHANGED threadVars
      BY <1>3, <3>4 DEF threadVars
    <3> QED BY <3>2, <3>3, <3>4, Steps, SchedulerSteps
  <2>2. p = q
    BY <1>3, <2>1 DEF SchedStart, IInv, TypeOK, Threads, Slots
  <2>3. CanBuild(q) /\ ~built[q]
    BY <1>3, <2>1, <2>2 DEF SchedStart, Candidate, IInv, PackageInv
  <2> QED BY <1>1, <2>3, BuiltStays DEF CanBuild
<1> QED BY <1>2, <1>3

\* Every step keeps: World::failed says whether a package is listed as failed.
LEMMA FailureStep ==
  ASSUME IInv, [Next]_vars
  PROVE  FailureInv'
<1> USE DEF FailureInv, IInv
<1>1. CASE \E p \in Packages, n \in Slots : Working(p, n)
  BY <1>1 DEF Working, BuildEnter, BuildNotRequired, BuildClear, BuildCommit, BuildFail,
              PackageFinished, SetFailed
<1>2. CASE \E p \in Packages, n \in Slots : SchedStart(p, n) \/ ThreadEnded(p, n)
  BY <1>2 DEF SchedStart, ThreadEnded
<1>3. CASE UNCHANGED threadVars
  BY <1>3 DEF threadVars
<1> QED BY <1>1, <1>2, <1>3, Steps, SchedulerSteps

\* Every step keeps threads_running the number of threads, within the limit.
LEMMA CountStep ==
  ASSUME IInv, [Next]_vars
  PROVE  CountInv'
<1>1. /\ running \in Nat /\ ThreadsLimit \in Nat
      /\ running = Cardinality(LiveThreads)
      /\ ThreadsLimit # 0 => running <= ThreadsLimit
      /\ sched = "scan" => HasCapacity
  BY ThreadsFinite, SchedulerAssumption DEF IInv, CountInv
<1>2. CASE \E p \in Packages, n \in Slots : SchedStart(p, n)
  <2>1. PICK p \in Packages, n \in Slots : SchedStart(p, n)
    BY <1>2
  <2>2. sched = "scan" /\ sched' = "check" /\ running' = running + 1
    BY <2>1 DEF SchedStart
  <2>3. Cardinality(LiveThreads') = Cardinality(LiveThreads) + 1
    BY <2>1, StartAddsThread
  <2> QED BY <1>1, <2>2, <2>3 DEF CountInv, HasCapacity
<1>3. CASE \E p \in Packages, n \in Slots : Working(p, n)
  <2>1. PICK p \in Packages, n \in Slots : Working(p, n)
    BY <1>3
  <2>2. sched' = "scan" => sched = "scan"
    BY <2>1 DEF Working, BuildEnter, BuildNotRequired, BuildClear, BuildCommit, BuildFail,
           PackageFinished, SetFailed, NotifyAll, Awake, schedVars
  <2>3. LiveThreads' = LiveThreads /\ running' = running
    BY <2>1, WorkKeepsThreads
  <2> QED BY <1>1, <2>2, <2>3 DEF CountInv, HasCapacity
<1>4. CASE \E p \in Packages, n \in Slots : ThreadEnded(p, n)
  <2>1. PICK p \in Packages, n \in Slots : ThreadEnded(p, n)
    BY <1>4
  <2>2. sched' # "scan" /\ running' = running - 1
    BY <2>1 DEF ThreadEnded, CondLockFree, NotifyAll, Awake
  <2>3. Cardinality(LiveThreads') = Cardinality(LiveThreads) - 1
    BY <2>1, EndRemovesThread
  <2> QED BY <1>1, <2>2, <2>3 DEF CountInv
<1>5. ASSUME UNCHANGED threadVars, sched' = "scan" => HasCapacity
      PROVE  CountInv'
  BY <1>1, <1>5 DEF threadVars, LiveThreads, Live, CountInv, HasCapacity
<1>6. CASE SchedCheck \/ SchedObserve \/ SchedWaitFull \/ SchedWait
  <2>1. sched' = "scan" => HasCapacity
    BY <1>6 DEF SchedCheck, SchedObserve, SchedWaitFull, SchedWait
  <2> QED BY <1>5, <1>6, <2>1, SchedulerSteps
<1>7. CASE SchedDrain \/ SchedReturn \/ SpuriousWake \/ UNCHANGED vars
  <2>1. sched' = "scan" => HasCapacity
    BY <1>1, <1>7 DEF SchedDrain, SchedReturn, SpuriousWake, Awake, vars
  <2> QED BY <1>5, <1>7, <2>1, SchedulerSteps
<1> QED BY <1>2, <1>3, <1>4, <1>6, <1>7, Steps

\* Everything is built once the base package is.
LEMMA BaseLast ==
  ASSUME IInv, built[Base]
  PROVE  \A p \in Packages : built[p]
<1> DEFINE B == {p \in Packages : built[p]}
<1>1. \A p \in B : Deps[p] \subseteq B
  <2> SUFFICES ASSUME NEW p \in B, NEW d \in Deps[p]
               PROVE  d \in B
    OBVIOUS
  <2>1. p \in Packages /\ d \in Packages
    BY SchedulerAssumption
  <2>2. pc[<<p, 1>>] # "idle"
    BY <2>1 DEF IInv, PackageInv
  <2> QED BY <2>1, <2>2 DEF IInv, OrderInv
<1>2. Base \in B /\ B \in SUBSET Packages
  BY SchedulerAssumption
<1>3. B = Packages
  BY <1>1, <1>2, SchedulerAssumption DEF ReachableFromBase
<1> QED BY <1>3

\* Once the loop of basePackage has its answer, the answer stands.
LEMMA DecidedStays ==
  ASSUME IInv, [Next]_vars, Decided
  PROVE  Decided' /\ (built[Base] => built'[Base]) /\ (failed => failed')
<1>1. Base \in Packages
  BY SchedulerAssumption
<1>2. built[Base] => built'[Base]
  BY <1>1, BuiltStays
<1>3. failed => failed'
  <2>1. CASE \E p \in Packages, n \in Slots : Working(p, n)
    BY <2>1 DEF Working, BuildEnter, BuildNotRequired, BuildClear, BuildCommit, BuildFail,
                PackageFinished, SetFailed
  <2>2. CASE \E p \in Packages, n \in Slots : SchedStart(p, n) \/ ThreadEnded(p, n)
    BY <2>2 DEF SchedStart, ThreadEnded
  <2>3. CASE UNCHANGED threadVars
    BY <2>3 DEF threadVars
  <2> QED BY <2>1, <2>2, <2>3, Steps, SchedulerSteps
<1> QED BY <1>2, <1>3 DEF Decided

\* Threads only ever move the scheduler out of cond.wait.
LEMMA ThreadsWake ==
  ASSUME NEW p \in Packages, NEW n \in Slots, Working(p, n) \/ ThreadEnded(p, n)
  PROVE  /\ sched' = sched \/ (sched = "waiting" /\ sched' = "check")
                           \/ (sched = "drainWait" /\ sched' = "drain")
         /\ UNCHANGED <<unbuilt, ready, result, keepGoing>>
BY DEF Working, BuildEnter, BuildNotRequired, BuildClear, BuildCommit, BuildFail,
       PackageFinished, SetFailed, ThreadEnded, NotifyAll, Awake, schedVars

\* Every step keeps what the place of the scheduler says of the outcome.
LEMMA SchedStep ==
  ASSUME IInv, [Next]_vars
  PROVE  SchedInv'
<1>1. SchedInv /\ TypeOK
  BY DEF IInv
<1>2. ASSUME NEW p \in Packages, NEW n \in Slots, Working(p, n) \/ ThreadEnded(p, n)
      PROVE  SchedInv'
  <2>1. running # 0
    <3>1. LiveThreads # {}
      BY <1>2, WorkKeepsThreads, EndRemovesThread
    <3> QED BY <3>1, ThreadsFinite
  <2> QED BY <1>1, <1>2, <2>1, ThreadsWake, DecidedStays DEF SchedInv, Decided
<1>3. CASE \E p \in Packages, n \in Slots : SchedStart(p, n)
  BY <1>1, <1>3, DecidedStays DEF SchedStart, SchedInv, Decided
<1>4. ASSUME UNCHANGED threadVars
      PROVE  Decided' = Decided /\ built'[Base] = built[Base] /\ running' = running
               /\ failed' = failed /\ keepGoing' = keepGoing
  BY <1>4 DEF threadVars, Decided
<1>5. CASE SchedCheck \/ SchedObserve \/ SchedWaitFull \/ SchedWait
  <2>1. UNCHANGED threadVars
    BY <1>5, SchedulerSteps
  <2> QED BY <1>1, <1>4, <1>5, <2>1
          DEF SchedInv, SchedCheck, SchedObserve, SchedWaitFull, SchedWait, Decided
<1>6. CASE SchedDrain \/ SchedReturn
  <2>1. UNCHANGED threadVars
    BY <1>6, SchedulerSteps
  <2>2. running \in Nat
    BY ThreadsFinite
  <2> QED BY <1>1, <1>4, <1>6, <2>1, <2>2 DEF SchedInv, SchedDrain, SchedReturn, Decided
<1>7. CASE SpuriousWake \/ UNCHANGED vars
  <2>1. UNCHANGED threadVars
    BY <1>7, SchedulerSteps
  <2> QED BY <1>1, <1>4, <1>7, <2>1 DEF SchedInv, SpuriousWake, Awake, vars, Decided
<1> QED BY <1>2, <1>3, <1>5, <1>6, <1>7, Steps

\* Every step keeps: a scan with no live thread has seen the flags as they are.
LEMMA ScanStep ==
  ASSUME IInv, [Next]_vars
  PROVE  ScanInv'
<1> DEFINE Ready == {p \in Packages : ~built[p] /\ ~building[p] /\ CanBuild(p)}
<1>1. ScanInv
  BY DEF IInv
<1>2. CASE \E p \in Packages, n \in Slots : SchedStart(p, n)
  BY <1>2 DEF SchedStart, ScanInv
<1>3. CASE \E p \in Packages, n \in Slots : Working(p, n)
  BY <1>3, WorkKeepsThreads DEF ScanInv
<1>4. CASE \E p \in Packages, n \in Slots : ThreadEnded(p, n)
  BY <1>4, ThreadsWake DEF ScanInv, ThreadEnded, CondLockFree
<1>5. ASSUME UNCHANGED threadVars
      PROVE  LiveThreads' = LiveThreads /\ Ready' = Ready
  BY <1>5 DEF threadVars, LiveThreads, Live, CanBuild
<1>6. CASE SchedObserve
  <2>1. ready' = Ready /\ UNCHANGED threadVars
    BY <1>6 DEF SchedObserve
  <2> QED BY <1>5, <2>1 DEF ScanInv
<1>7. CASE SchedCheck \/ SchedWaitFull \/ SchedWait \/ SchedDrain \/ SchedReturn
             \/ SpuriousWake
  <2>1. sched' # "scan"
    BY <1>7 DEF SchedCheck, SchedWaitFull, SchedWait, SchedDrain, SchedReturn,
                SpuriousWake, Awake
  <2> QED BY <2>1 DEF ScanInv
<1>8. CASE UNCHANGED vars
  <2>1. UNCHANGED threadVars /\ sched' = sched /\ ready' = ready
    BY <1>8 DEF vars, threadVars
  <2> QED BY <1>1, <1>5, <2>1 DEF ScanInv
<1> QED BY <1>2, <1>3, <1>4, <1>6, <1>7, <1>8, Steps

\* Without a live thread and a failure, a package that is not built is ready
\* or waits for one that is not built; the graph is acyclic.
LEMMA NobodyLeft ==
  ASSUME IInv, LiveThreads = {}, ~failed,
         \A p \in Packages : ~built[p] /\ ~building[p] => ~CanBuild(p)
  PROVE  built[Base]
<1> DEFINE U == {p \in Packages : ~built[p]}
<1>1. ASSUME NEW p \in U
      PROVE  ~building[p]
  <2>1. <<p, 1>> \in Threads /\ <<p, 2>> \in Threads
    BY DEF Threads, Slots
  <2>2. pc[<<p, 1>>] \in {"idle", "gone"} /\ pc[<<p, 2>>] \in {"idle", "gone"}
    BY <2>1 DEF LiveThreads, Live
  <2>3. failedPackages = {}
    BY DEF IInv, FailureInv
  <2> QED BY <2>2, <2>3 DEF IInv, PackageInv
<1>2. ASSUME U # {}
      PROVE  FALSE
  <2>1. PICK p \in U : Deps[p] \cap U = {}
    BY <1>2, SchedulerAssumption DEF Acyclic
  <2>2. \A d \in Deps[p] : built[d]
    BY <2>1, SchedulerAssumption
  <2> QED BY <1>1, <2>1, <2>2 DEF CanBuild
<1> QED BY <1>2, SchedulerAssumption

\* Every step keeps: a scheduler that sleeps in the main loop has a running
\* thread to wake it, unless the outcome is decided.
LEMMA MainSleepStep ==
  ASSUME IInv, [Next]_vars, sched' = "waiting", LiveThreads' = {}
  PROVE  Decided'
<1>1. CASE \E p \in Packages, n \in Slots : SchedStart(p, n)
  BY <1>1 DEF SchedStart
<1>2. CASE \E p \in Packages, n \in Slots : Working(p, n)
  BY <1>2, WorkKeepsThreads
<1>3. CASE \E p \in Packages, n \in Slots : ThreadEnded(p, n)
  BY <1>3 DEF ThreadEnded, NotifyAll, Awake
<1>4. ASSUME UNCHANGED threadVars
      PROVE  LiveThreads = {} /\ (Decided => Decided')
  BY <1>4 DEF threadVars, LiveThreads, Live, Decided
<1>5. CASE SchedWait
  <2>1. LiveThreads = {} /\ (Decided => Decided')
    BY <1>4, <1>5, SchedulerSteps
  <2>2. ready = {p \in Packages : ~built[p] /\ ~building[p] /\ CanBuild(p)}
    BY <1>5, <2>1 DEF SchedWait, IInv, ScanInv
  <2>3. \A p \in Packages : ~built[p] /\ ~building[p] => ~CanBuild(p)
    BY <1>5, <2>2 DEF SchedWait
  <2> QED BY <2>1, <2>3, NobodyLeft DEF Decided
<1>6. CASE SchedWaitFull
  <2>1. LiveThreads = {}
    BY <1>4, <1>6, SchedulerSteps
  <2>2. running = 0
    BY <2>1, ThreadsFinite
  <2> QED BY <1>6, <2>2, SchedulerAssumption DEF SchedWaitFull, HasCapacity
<1>7. CASE SchedCheck \/ SchedObserve \/ SchedDrain \/ SchedReturn \/ SpuriousWake
  BY <1>7 DEF SchedCheck, SchedObserve, SchedDrain, SchedReturn, SpuriousWake, Awake
<1>8. CASE UNCHANGED vars
  <2>1. LiveThreads = {} /\ (Decided => Decided') /\ sched = "waiting"
    BY <1>4, <1>8, SchedulerSteps DEF vars
  <2> QED BY <2>1 DEF IInv, SleepHasWaker, LiveThreads
<1> QED BY <1>1, <1>2, <1>3, <1>5, <1>6, <1>7, <1>8, Steps

\* Every step keeps: a scheduler that sleeps in the drain loop has a running
\* thread to wake it.  It tested the counter in the critical section it sleeps
\* from, and the end of a thread takes it out of its sleep.
LEMMA DrainSleepStep ==
  ASSUME IInv, [Next]_vars, sched' = "drainWait"
  PROVE  LiveThreads' # {}
<1>1. sched = "drainWait" => LiveThreads # {}
  BY DEF IInv, SleepHasWaker, LiveThreads
<1>2. CASE \E p \in Packages, n \in Slots : SchedStart(p, n)
  BY <1>2 DEF SchedStart
<1>3. CASE \E p \in Packages, n \in Slots : ThreadEnded(p, n)
  BY <1>3 DEF ThreadEnded, NotifyAll, Awake
<1>4. CASE \E p \in Packages, n \in Slots : Working(p, n)
  BY <1>4, WorkKeepsThreads
<1>5. ASSUME UNCHANGED threadVars
      PROVE  LiveThreads' = LiveThreads
  BY <1>5 DEF threadVars, LiveThreads, Live
<1>6. CASE SchedDrain
  <2>1. running > 0
    BY <1>6 DEF SchedDrain
  <2> QED BY <1>5, <1>6, <2>1, SchedulerSteps, ThreadsFinite
<1>7. CASE SchedCheck \/ SchedObserve \/ SchedWaitFull \/ SchedWait \/ SchedReturn \/ SpuriousWake
  BY <1>7 DEF SchedCheck, SchedObserve, SchedWaitFull, SchedWait, SchedReturn, SpuriousWake, Awake
<1>8. CASE UNCHANGED vars
  BY <1>1, <1>5, <1>8 DEF vars, threadVars
<1> QED BY <1>2, <1>3, <1>4, <1>6, <1>7, <1>8, Steps

\* Every step keeps both.
LEMMA SleepStep ==
  ASSUME IInv, [Next]_vars
  PROVE  SleepHasWaker'
<1>1. sched' = "waiting" /\ LiveThreads' = {} => Decided'
  BY MainSleepStep
<1>2. sched' = "drainWait" => LiveThreads' # {}
  BY DrainSleepStep
<1> QED BY <1>1, <1>2 DEF SleepHasWaker, LiveThreads

-----------------------------------------------------------------------------
(* The theorems.                                                           *)

\* Before the first scan nothing runs and nothing is built.
LEMMA InitIInv == Init => IInv
<1> SUFFICES ASSUME Init
             PROVE  IInv
  OBVIOUS
<1>1. TypeOK
  BY DEF Init, TypeOK
<1>2. LiveThreads = {}
  BY DEF Init, LiveThreads, Live
<1>3. \A p \in Packages : PackageInv(p)
  BY DEF Init, PackageInv, Threads, Slots
<1>4. OrderInv
  BY DEF Init, OrderInv, Threads, Slots
<1>5. CountInv
  BY <1>2, FS_EmptySet, SchedulerAssumption DEF Init, CountInv
<1> QED BY <1>1, <1>3, <1>4, <1>5
        DEF Init, IInv, FailureInv, SchedInv, ScanInv, SleepHasWaker

\* IInv is an invariant of the scheduler.
THEOREM Invariance == Spec => []IInv
<1>1. IInv /\ [Next]_vars => IInv'
  <2> SUFFICES ASSUME IInv, [Next]_vars
               PROVE  IInv'
    OBVIOUS
  <2>1. \A p \in Packages : PackageInv(p)'
    BY PackageStep
  <2> QED BY <2>1, TypeStep, OrderStep, FailureStep, CountStep, SchedStep, ScanStep,
             SleepStep DEF IInv
<1> QED BY <1>1, InitIInv, PTL DEF Spec

\* Every variable has its type; threads_running never goes below zero.
THEOREM TypeCorrect == Spec => []TypeOK
BY Invariance, PTL DEF IInv

\* world.cpp, topoNext and canBuild: a package is worked on, or built, only
\* when everything it depends on is built.
THEOREM DependenciesFirstHolds == Spec => []DependenciesFirst
<1>1. IInv => DependenciesFirst
  <2> SUFFICES ASSUME IInv, NEW p \in Packages,
                      built[p] \/ \E n \in Slots : Live(<<p, n>>)
               PROVE  \A d \in Deps[p] : built[d]
    BY DEF DependenciesFirst
  <2>1. pc[<<p, 1>>] # "idle"
    BY DEF IInv, PackageInv, Live, Slots
  <2> QED BY <2>1 DEF IInv, OrderInv
<1> QED BY <1>1, Invariance, PTL

\* Package::build: nobody works on a package without its lock, or on a
\* package that is built.
THEOREM OneBuilderHolds == Spec => []OneBuilder
<1>1. IInv => OneBuilder
  BY DEF IInv, PackageInv, OneBuilder, Slots
<1> QED BY <1>1, Invariance, PTL

\* threads_running is the number of threads between thr.detach() and
\* threadEnded(), and --parallel-packages bounds it.
THEOREM ThreadsCountedHolds == Spec => []ThreadsCounted
<1>1. IInv => ThreadsCounted
  BY DEF IInv, CountInv, ThreadsCounted, LiveThreads
<1> QED BY <1>1, Invariance, PTL

\* The scheduler never starts a third thread for a package.
THEOREM StartsBoundedHolds == Spec => []StartsBounded
<1>1. IInv => StartsBounded
  BY DEF IInv, PackageInv, StartsBounded, Candidate
<1> QED BY <1>1, Invariance, PTL

\* setFailed is final: what has failed is not built or started afterwards.
THEOREM FailedStaysFailedHolds == Spec => []FailedStaysFailed
<1>1. IInv => FailedStaysFailed
  BY DEF IInv, TypeOK, PackageInv, FailureInv, FailedStaysFailed
<1> QED BY <1>1, Invariance, PTL

\* basePackage returns true only when everything is built and nothing failed.
THEOREM QuietOnSuccessHolds == Spec => []QuietOnSuccess
<1>1. IInv => QuietOnSuccess
  <2> SUFFICES ASSUME IInv, result = "ok"
               PROVE  /\ ~failed
                      /\ \A p \in Packages : built[p]
                      /\ \A t \in Threads : pc[t] \notin {"work", "commit", "fail"}
    BY DEF QuietOnSuccess
  <2>1. \A p \in Packages : built[p]
    BY BaseLast DEF IInv, SchedInv
  <2>2. failedPackages = {}
    BY <2>1 DEF IInv, TypeOK, PackageInv
  <2>3. ~failed
    BY <2>2 DEF IInv, FailureInv
  <2>4. \A p \in Packages : /\ pc[<<p, 1>>] \notin {"work", "commit", "fail"}
                            /\ pc[<<p, 2>>] \notin {"work", "commit", "fail"}
    <3> SUFFICES ASSUME NEW p \in Packages
                 PROVE  /\ pc[<<p, 1>>] \notin {"work", "commit", "fail"}
                        /\ pc[<<p, 2>>] \notin {"work", "commit", "fail"}
      OBVIOUS
    <3>1. built[p] /\ PackageInv(p)
      BY <2>1 DEF IInv
    <3> QED BY <3>1 DEF PackageInv
  <2>5. \A t \in Threads : \E p \in Packages : t = <<p, 1>> \/ t = <<p, 2>>
    BY DEF Threads, Slots
  <2> QED BY <2>1, <2>3, <2>4, <2>5
<1> QED BY <1>1, Invariance, PTL

\* With --keep-going, a failed basePackage leaves no thread behind.
THEOREM DrainedOnFailureHolds == Spec => []DrainedOnFailure
<1>1. IInv => DrainedOnFailure
  <2> SUFFICES ASSUME IInv, keepGoing, result = "failed"
               PROVE  \A t \in Threads : ~Live(t)
    BY DEF DrainedOnFailure
  <2>1. failedPackages # {}
    BY DEF IInv, SchedInv, FailureInv
  <2>2. ~built[Base]
    BY <2>1, BaseLast DEF IInv, TypeOK, PackageInv
  <2>3. running = 0
    BY <2>2 DEF IInv, SchedInv
  <2> QED BY <2>3, ThreadsFinite DEF LiveThreads
<1> QED BY <1>1, Invariance, PTL

\* The drain loop of basePackage never sleeps with nothing left to wake it; the
\* main loop does so only after something has failed or the base is built.
THEOREM SleepHasWakerHolds == Spec => []SleepHasWaker
BY Invariance, PTL DEF IInv

\* The scheduler implements BuildOrder: packages become built, or fail, in
\* dependency order, and the result that is returned fits them.
THEOREM Refinement == Spec => ImplementsOrder
<1> DEFINE Done == {p \in Packages : built[p]}
<1>1. Init => Order!Init
  BY DEF Init, Order!Init
<1>2. ASSUME IInv, [Next]_vars
      PROVE  [Order!Next]_(Order!vars)
  <2>1. ASSUME NEW p \in Packages, p \notin Done \cup failedPackages,
               \A d \in Deps[p] : built[d]
        PROVE  Order!InTurn(p)
    <3>1. Deps[p] \subseteq Done
      BY <2>1, SchedulerAssumption
    <3>2. result # "ok"
      BY <1>2, <2>1, BaseLast DEF IInv, SchedInv
    <3> QED BY <2>1, <3>1, <3>2 DEF Order!InTurn
  <2>2. CASE \E p \in Packages, n \in Slots : SchedStart(p, n) \/ ThreadEnded(p, n)
    BY <2>2, ThreadsWake DEF SchedStart, ThreadEnded, Order!vars
  <2>3. CASE \E p \in Packages, n \in Slots : Working(p, n)
    <3> PICK p \in Packages, n \in Slots : Working(p, n)
      BY <2>3
    <3> USE DEF TypeOK
    <3>0. TypeOK /\ PackageInv(p) /\ n \in {1, 2} /\ UNCHANGED result
      BY <1>2, ThreadsWake DEF IInv, Slots
    <3>1. CASE BuildEnter(p, n) \/ BuildClear(p, n) \/ BuildFail(p, n)
                 \/ PackageFinished(p, n)
      BY <3>0, <3>1 DEF BuildEnter, BuildClear, BuildFail, PackageFinished, Order!vars
    <3>2. CASE BuildNotRequired(p, n) \/ BuildCommit(p, n)
      <4>1. n = 1 /\ pc[<<p, 1>>] \in {"work", "commit"}
        BY <3>0, <3>2 DEF BuildNotRequired, BuildCommit, PackageInv
      <4>2. ~built[p] /\ p \notin failedPackages
        BY <3>0, <4>1 DEF PackageInv
      <4>3. \A d \in Deps[p] : built[d]
        BY <1>2, <4>1 DEF IInv, OrderInv
      <4>4. Order!InTurn(p)
        BY <2>1, <4>2, <4>3
      <4>5. Done' = Done \cup {p} /\ UNCHANGED failedPackages
        BY <3>0, <3>2 DEF BuildNotRequired, BuildCommit
      <4> QED BY <3>0, <4>4, <4>5 DEF Order!Next, Order!Build
    <3>3. CASE SetFailed(p, n)
      <4>1. n = 1 /\ pc[<<p, 1>>] = "fail"
        BY <3>0, <3>3 DEF SetFailed, PackageInv
      <4>2. ~built[p] /\ p \notin failedPackages
        BY <3>0, <4>1 DEF PackageInv
      <4>3. \A d \in Deps[p] : built[d]
        BY <1>2, <4>1 DEF IInv, OrderInv
      <4>4. Order!InTurn(p)
        BY <2>1, <4>2, <4>3
      <4>5. failedPackages' = failedPackages \cup {p} /\ UNCHANGED Done
        BY <3>3 DEF SetFailed
      <4> QED BY <3>0, <4>4, <4>5 DEF Order!Next, Order!Fail
    <3> QED BY <3>1, <3>2, <3>3 DEF Working
  <2>4. CASE SchedReturn
    <3>1. Decided /\ result = "none"
      BY <1>2, <2>4 DEF SchedReturn, IInv, SchedInv
    <3>2. UNCHANGED <<Done, failedPackages>>
      BY <2>4 DEF SchedReturn, threadVars
    <3>3. CASE failed
      BY <1>2, <2>4, <3>1, <3>2, <3>3
         DEF SchedReturn, IInv, FailureInv, Order!Next, Order!ReturnFailed
    <3>4. CASE ~failed
      <4>1. Done = Packages /\ failedPackages = {}
        BY <1>2, <3>1, <3>4, BaseLast DEF Decided, IInv, FailureInv
      <4> QED BY <2>4, <3>1, <3>2, <3>4, <4>1
              DEF SchedReturn, Order!Next, Order!ReturnOk
    <3> QED BY <3>3, <3>4
  <2>5. CASE SchedCheck \/ SchedObserve \/ SchedWaitFull \/ SchedWait \/ SchedDrain
               \/ SpuriousWake \/ UNCHANGED vars
    <3>1. UNCHANGED threadVars
      BY <2>5, SchedulerSteps
    <3>2. UNCHANGED result
      BY <2>5 DEF SchedCheck, SchedObserve, SchedWaitFull, SchedWait, SchedDrain,
                  SpuriousWake, vars
    <3> QED BY <3>1, <3>2 DEF threadVars, Order!vars
  <2>6. CASE Next
    BY <2>2, <2>3, <2>4, <2>5, <2>6, Steps
  <2> QED BY <1>2, <2>5, <2>6
<1> QED BY <1>1, <1>2, Invariance, PTL DEF Spec, ImplementsOrder, Order!Spec
=============================================================================
