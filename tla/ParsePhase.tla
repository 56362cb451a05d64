------------------------------ MODULE ParsePhase -----------------------------
(***************************************************************************)
(* The parse phase: process_packages, the detached process_package threads *)
(* it starts, the PackageQueue between them, and what basePackage decides  *)
(* afterwards (abort on a failure, abort on a dependency loop, go on).     *)
(*                                                                         *)
(* A package's Lua file runs with features and options that are not        *)
(* modelled: it may name any of Names[p] in depend(), or fail at any       *)
(* point.  ParseOk and ParseThrow pick the dependencies it records.        *)
(* Critical sections of PackageQueue::lock and Package::lock are actions.  *)
(***************************************************************************)
EXTENDS Integers, Sequences, FiniteSets

CONSTANTS
  Packages,  \* the packages that have a Lua file
  Base,      \* the base package
  Names      \* Names[p]: the packages the Lua file of p may depend on

ASSUME ParseAssumption ==
  /\ IsFiniteSet(Packages)
  /\ Base \in Packages
  /\ Names \in [Packages -> SUBSET Packages]

\* Base is queued without being marked, so it can have a second thread.
\* Invariant ParsedOnce says nobody has a third.
Slots == {1, 2}
Threads == Packages \X Slots

VARIABLES
  queue,      \* PackageQueue::queue
  started,    \* PackageQueue::started
  finished,   \* PackageQueue::finished
  marked,     \* the packages with processing_queued set
  depends,    \* Package::depends, as a set
  pc,         \* where each process_package thread is
  left,       \* the dependencies its loop has still to look at
  toPush,     \* the dependency it has marked and will push, if any
  main,       \* where process_packages, then basePackage, is
  toProcess,  \* the package popped, if any
  failed,     \* World::failed
  result      \* what comes out of the phase

queueVars == <<queue, started, finished>>
mainVars == <<main, toProcess, result>>
vars == <<queue, started, finished, marked, depends, pc, left, toPush,
          main, toProcess, failed, result>>

TypeOK ==
  /\ queue \in Seq(Packages)
  /\ started \in Nat /\ finished \in 0 .. started
  /\ marked \subseteq Packages
  /\ depends \in [Packages -> SUBSET Packages]
  /\ pc \in [Threads -> {"idle", "parse", "loop", "push", "fail", "end", "gone"}]
  /\ left \in [Threads -> SUBSET Packages]
  /\ toPush \in [Threads -> SUBSET Packages]
  /\ main \in {"check", "pop", "start", "wait", "asleep", "judge", "done"}
  /\ toProcess \in SUBSET Packages
  /\ failed \in BOOLEAN
  /\ result \in {"none", "failed", "loop", "complete", "crashed"}

\* pq.push(p): the base package is in the queue, but not marked.
Init ==
  /\ queue = <<Base>>
  /\ started = 0 /\ finished = 0
  /\ marked = {}
  /\ depends = [p \in Packages |-> {}]
  /\ pc = [t \in Threads |-> "idle"]
  /\ left = [t \in Threads |-> {}]
  /\ toPush = [t \in Threads |-> {}]
  /\ main = "check"
  /\ toProcess = {}
  /\ failed = FALSE
  /\ result = "none"

-----------------------------------------------------------------------------
\* The main thread.

\* Mutant: the queue alone decides.
AllDoneEmpty == queue = <<>>

AllDone == started = finished /\ queue = <<>>

\* while(!pq.done())
MainCheck ==
  /\ main = "check"
  /\ main' = IF AllDone THEN "judge" ELSE "pop"
  /\ UNCHANGED <<queueVars, marked, depends, pc, left, toPush, toProcess, failed, result>>

\* pq.pop(); nullptr when the queue is empty.
MainPop ==
  /\ main = "pop"
  /\ \/ /\ queue = <<>>
        /\ main' = "wait"
        /\ UNCHANGED <<queue, toProcess>>
     \/ /\ queue # <<>>
        /\ toProcess' = {Head(queue)}
        /\ queue' = Tail(queue)
        /\ main' = "start"
  /\ UNCHANGED <<started, finished, marked, depends, pc, left, toPush, failed, result>>

\* pq.start() and a new detached thread.
MainStart(p, n) ==
  /\ main = "start"
  /\ p \in toProcess
  /\ pc[<<p, n>>] = "idle"
  /\ \A m \in Slots : m < n => pc[<<p, m>>] # "idle"
  /\ started' = started + 1
  /\ pc' = [pc EXCEPT ![<<p, n>>] = "parse"]
  /\ toProcess' = {}
  /\ main' = "wait"
  /\ UNCHANGED <<queue, finished, marked, depends, left, toPush, failed, result>>

MustWait == started # finished /\ queue = <<>>

\* pq.wait()
MainWait ==
  /\ main = "wait"
  /\ main' = IF MustWait THEN "asleep" ELSE "check"
  /\ UNCHANGED <<queueVars, marked, depends, pc, left, toPush, toProcess, failed, result>>

\* condition_variable::wait may return without a notification.
SpuriousWake ==
  /\ main = "asleep"
  /\ main' = "check"
  /\ UNCHANGED <<queueVars, marked, depends, pc, left, toPush, toProcess, failed, result>>

\* get_cycled_packages: the depth-first search finds a back edge.
Loop == \E S \in SUBSET Packages : S # {} /\ \A p \in S : depends[p] \cap S # {}

\* basePackage aborts on a failure or a loop, before it builds anything.
Outcome == IF failed THEN "failed" ELSE IF Loop THEN "loop" ELSE "complete"

Judge ==
  /\ main = "judge"
  /\ main' = "done"
  /\ result' = Outcome
  /\ UNCHANGED <<queueVars, marked, depends, pc, left, toPush, toProcess, failed>>

Main ==
  \/ MainCheck
  \/ MainPop
  \/ \E p \in Packages, n \in Slots : MainStart(p, n)
  \/ MainWait
  \/ Judge

-----------------------------------------------------------------------------
\* A process_package thread <<p, n>>.

\* The Lua file ran; the loop over getDepends() begins.
ParseOk(p, n, D) ==
  /\ pc[<<p, n>>] = "parse"
  /\ depends' = [depends EXCEPT ![p] = @ \cup D]
  /\ left' = [left EXCEPT ![<<p, n>>] = depends[p] \cup D]
  /\ pc' = [pc EXCEPT ![<<p, n>>] = "loop"]
  /\ UNCHANGED <<queueVars, marked, toPush, mainVars, failed>>

\* The Lua file, or a depend() in it, throws: what it had recorded stays.
ParseThrow(p, n, D) ==
  /\ pc[<<p, n>>] = "parse"
  /\ depends' = [depends EXCEPT ![p] = @ \cup D]
  /\ pc' = [pc EXCEPT ![<<p, n>>] = "fail"]
  /\ UNCHANGED <<queueVars, marked, left, toPush, mainVars, failed>>

\* Mutant: the test of the mark is dropped.
MarkAlways(p, n, d) ==
  /\ pc[<<p, n>>] = "loop"
  /\ d \in left[<<p, n>>]
  /\ left' = [left EXCEPT ![<<p, n>>] = @ \ {d}]
  /\ marked' = marked \cup {d}
  /\ toPush' = [toPush EXCEPT ![<<p, n>>] = {d}]
  /\ pc' = [pc EXCEPT ![<<p, n>>] = "push"]
  /\ UNCHANGED <<queueVars, depends, mainVars, failed>>

\* dp->setProcessingQueued()
Mark(p, n, d) ==
  /\ pc[<<p, n>>] = "loop"
  /\ d \in left[<<p, n>>]
  /\ left' = [left EXCEPT ![<<p, n>>] = @ \ {d}]
  /\ marked' = marked \cup {d}
  /\ toPush' = [toPush EXCEPT ![<<p, n>>] = {d} \ marked]
  /\ pc' = [pc EXCEPT ![<<p, n>>] = IF d \in marked THEN "loop" ELSE "push"]
  /\ UNCHANGED <<queueVars, depends, mainVars, failed>>

\* pq->push(dp): no notification.
Push(p, n, d) ==
  /\ pc[<<p, n>>] = "push"
  /\ d \in toPush[<<p, n>>]
  /\ queue' = Append(queue, d)
  /\ toPush' = [toPush EXCEPT ![<<p, n>>] = {}]
  /\ pc' = [pc EXCEPT ![<<p, n>>] = "loop"]
  /\ UNCHANGED <<started, finished, marked, depends, left, mainVars, failed>>

\* Mutant: the failure path finishes, and finish() runs once more after it.
SetFailedFinishes(p, n) ==
  /\ pc[<<p, n>>] = "fail"
  /\ failed' = TRUE
  /\ finished' = finished + 1
  /\ pc' = [pc EXCEPT ![<<p, n>>] = "end"]
  /\ UNCHANGED <<queue, started, marked, depends, left, toPush, mainVars>>

SetFailed(p, n) ==
  /\ pc[<<p, n>>] = "fail"
  /\ failed' = TRUE
  /\ pc' = [pc EXCEPT ![<<p, n>>] = "end"]
  /\ UNCHANGED <<queueVars, marked, depends, left, toPush, mainVars>>

\* Mutant: a thread that failed does not count itself finished.
FinishUnlessFailed(p, n) ==
  /\ pc[<<p, n>>] = "loop" /\ left[<<p, n>>] = {}
  /\ finished' = finished + 1
  /\ main' = IF main = "asleep" THEN "check" ELSE main
  /\ pc' = [pc EXCEPT ![<<p, n>>] = "gone"]
  /\ UNCHANGED <<queue, started, marked, depends, left, toPush, toProcess, failed, result>>

\* Mutant: finish() is called before the loop over the dependencies.
FinishEarly(p, n) ==
  /\ pc[<<p, n>>] \in {"loop", "end"}
  /\ finished' = finished + 1
  /\ main' = IF main = "asleep" THEN "check" ELSE main
  /\ pc' = [pc EXCEPT ![<<p, n>>] = "gone"]
  /\ UNCHANGED <<queue, started, marked, depends, left, toPush, toProcess, failed, result>>

\* pq->finish(), with or without a failure; wakes the main thread.
Finish(p, n) ==
  /\ \/ pc[<<p, n>>] = "loop" /\ left[<<p, n>>] = {}
     \/ pc[<<p, n>>] = "end"
  /\ finished' = finished + 1
  /\ main' = IF main = "asleep" THEN "check" ELSE main
  /\ pc' = [pc EXCEPT ![<<p, n>>] = "gone"]
  /\ UNCHANGED <<queue, started, marked, depends, left, toPush, toProcess, failed, result>>

Thread(p, n) ==
  \/ \E D \in SUBSET Names[p] : ParseOk(p, n, D) \/ ParseThrow(p, n, D)
  \/ \E d \in Packages : Mark(p, n, d) \/ Push(p, n, d)
  \/ SetFailed(p, n)
  \/ Finish(p, n)

\* Two threads process one package at a time, sharing its lua_State and its
\* lists without a lock: undefined, so the program may also crash.
Crash ==
  /\ result = "none"
  /\ \E p \in Packages :
       /\ pc[<<p, 1>>] \in {"parse", "loop", "push"}
       /\ pc[<<p, 2>>] = "parse"
  /\ result' = "crashed"
  /\ UNCHANGED <<queueVars, marked, depends, pc, left, toPush, main, toProcess, failed>>

Running == result # "crashed"

Stopped ==
  /\ result # "none"
  /\ UNCHANGED vars

Next ==
  \/ Running /\ Main
  \/ Running /\ SpuriousWake
  \/ Running /\ \E p \in Packages, n \in Slots : Thread(p, n)
  \/ Crash
  \/ Stopped

Spec == Init /\ [][Next]_vars

\* Every Lua file terminates and the threads are scheduled.
Fairness ==
  /\ WF_vars(Running /\ Main)
  /\ \A p \in Packages, n \in Slots : WF_vars(Running /\ Thread(p, n))

FairSpec == Spec /\ Fairness

-----------------------------------------------------------------------------
\* Properties.

Live(t) == pc[t] \notin {"idle", "gone"}
Occurrences(p) == Cardinality({i \in DOMAIN queue : queue[i] = p})

\* A package other than the base is queued and parsed once, whoever marks it
\* first; the base, which is queued without a mark, at most twice.  A base that
\* was parsed twice is never built: something it needs depends on it, and that
\* is a loop.
ParsedOnce ==
  /\ \A p \in Packages :
       /\ Occurrences(p) + Cardinality(toProcess \cap {p})
            + Cardinality({n \in Slots : pc[<<p, n>>] # "idle"})
          <= IF p = Base THEN 2 ELSE 1
       /\ p # Base => pc[<<p, 2>>] = "idle"
  /\ pc[<<Base, 2>>] # "idle" => result # "complete"

\* When the phase decides, the PackageQueue (a local of process_packages) is
\* used by nobody and nothing is left in it.
QuietAtJudge ==
  main \in {"judge", "done"} =>
    /\ queue = <<>>
    /\ \A t \in Threads : ~Live(t)

\* The packages a build would see.
Found == {Base} \cup UNION {depends[p] : p \in Packages}

\* world.cpp:116-120: the build starts only from a complete, loop-free graph:
\* every package found was parsed to its end, and none of them failed.
CompleteGraph ==
  result = "complete" =>
    /\ ~failed
    /\ \A p \in Found : pc[<<p, 1>>] = "gone"
    /\ \A S \in SUBSET Found : S # {} => \E p \in S : depends[p] \cap S = {}

\* The main thread sleeps only while a thread has still to call finish().
SleepHasWaker == main = "asleep" => \E t \in Threads : Live(t)

\* Nothing fails behind basePackage's back after it has looked at `failed'.
FailureSeen == [][(main \in {"judge", "done"}) => failed' = failed]_vars

\* The parse phase ends, however many packages fail.
ParseEnds == <>(result # "none")
=============================================================================
