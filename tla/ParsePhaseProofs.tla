--------------------------- MODULE ParsePhaseProofs --------------------------
(***************************************************************************)
(* Proofs about ParsePhase, for any finite set of packages and any graph   *)
(* their Lua files describe.                                               *)
(***************************************************************************)
EXTENDS ParsePhase, TLAPS, FiniteSetTheorems, FunctionTheorems

LiveThreads == {t \in Threads : Live(t)}
Queued == {queue[i] : i \in 1 .. Len(queue)}

\* started and finished differ by the number of live threads.
CountInv ==
  /\ started \in Nat /\ finished \in Nat
  /\ started = finished + Cardinality(LiveThreads)

\* What the main thread knows from where it is.
MainInv ==
  /\ main \in {"judge", "done"} => LiveThreads = {} /\ queue = <<>> /\ toProcess = {}
  /\ main = "start" \/ toProcess = {}
  /\ \A x, y \in toProcess : x = y
  /\ main = "asleep" => LiveThreads # {}
  /\ result \notin {"none", "crashed"} => main = "done"
  /\ result = "complete" => ~failed /\ ~Loop

\* Only a live thread holds dependencies it has still to look at or push.
HandInv ==
  \A t \in Threads :
    /\ left[t] # {} => pc[t] \in {"loop", "push"}
    /\ toPush[t] # {} => pc[t] = "push"
    /\ \A x, y \in toPush[t] : x = y

\* A marked package, and the base, is on its way to a thread or has one.
MarkInv ==
  \A p \in marked \cup {Base} :
    \/ pc[<<p, 1>>] # "idle"
    \/ p \in Queued \cup toProcess
    \/ \E t \in Threads : p \in toPush[t]

\* Unless something failed, a dependency that was recorded is marked or is
\* still to be looked at by a thread of the package that recorded it.
DependInv ==
  \/ failed
  \/ \E t \in Threads : pc[t] = "fail"
  \/ \A p \in Packages : depends[p] \subseteq marked \cup left[<<p, 1>>] \cup left[<<p, 2>>]

IInv ==
  /\ TypeOK
  /\ CountInv
  /\ MainInv
  /\ HandInv
  /\ MarkInv
  /\ DependInv

-----------------------------------------------------------------------------
(* Threads and their number.                                               *)

\* The steps of a thread other than its last.
Working(p, n) ==
  \/ \E D \in SUBSET Packages : ParseOk(p, n, D) \/ ParseThrow(p, n, D)
  \/ \E d \in Packages : Mark(p, n, d) \/ Push(p, n, d)
  \/ SetFailed(p, n)

\* The steps of the main thread other than a start.
Deciding == MainCheck \/ MainPop \/ MainWait \/ SpuriousWake \/ Judge

\* Next, by what happens to the set of live threads.
LEMMA Steps ==
  ASSUME Next
  PROVE  \/ \E p \in Packages, n \in Slots : MainStart(p, n)
         \/ \E p \in Packages, n \in Slots : Working(p, n)
         \/ \E p \in Packages, n \in Slots : Finish(p, n)
         \/ Deciding
         \/ Crash
         \/ UNCHANGED vars
<1>1. \A p \in Packages : SUBSET Names[p] \subseteq SUBSET Packages
  BY ParseAssumption
<1> QED BY <1>1 DEF Next, Main, Thread, Working, Deciding, Stopped

\* The set of live threads is finite.
LEMMA ThreadsFinite == IsFiniteSet(LiveThreads) /\ Cardinality(LiveThreads) \in Nat
<1>1. IsFiniteSet(Slots)
  <2>1. IsFiniteSet({} \cup {1}) /\ IsFiniteSet(({} \cup {1}) \cup {2})
    BY FS_EmptySet, FS_AddElement
  <2>2. Slots = ({} \cup {1}) \cup {2}
    BY DEF Slots
  <2> QED BY <2>1, <2>2
<1>2. IsFiniteSet(Threads)
  BY <1>1, FS_Product, ParseAssumption DEF Threads
<1>3. IsFiniteSet(LiveThreads)
  BY <1>2, FS_Subset DEF LiveThreads
<1> QED BY <1>3, FS_CardinalityType

\* A start adds a live thread.
LEMMA StartAddsThread ==
  ASSUME TypeOK, NEW p \in Packages, NEW n \in Slots, MainStart(p, n)
  PROVE  Cardinality(LiveThreads') = Cardinality(LiveThreads) + 1
<1>1. <<p, n>> \in Threads /\ pc[<<p, n>>] = "idle"
  BY DEF Threads, MainStart
<1>2. \A t \in Threads : pc'[t] = IF t = <<p, n>> THEN "parse" ELSE pc[t]
  BY DEF MainStart, TypeOK
<1>3. LiveThreads' = LiveThreads \cup {<<p, n>>} /\ <<p, n>> \notin LiveThreads
  BY <1>1, <1>2 DEF LiveThreads, Live
<1> QED BY <1>3, FS_AddElement, ThreadsFinite

\* finish() takes one away.
LEMMA FinishRemovesThread ==
  ASSUME TypeOK, NEW p \in Packages, NEW n \in Slots, Finish(p, n)
  PROVE  /\ LiveThreads # {}
         /\ Cardinality(LiveThreads') = Cardinality(LiveThreads) - 1
<1>1. <<p, n>> \in Threads /\ pc[<<p, n>>] \in {"loop", "end"}
  BY DEF Threads, Finish
<1>2. \A t \in Threads : pc'[t] = IF t = <<p, n>> THEN "gone" ELSE pc[t]
  BY DEF Finish, TypeOK
<1>3. LiveThreads' = LiveThreads \ {<<p, n>>} /\ <<p, n>> \in LiveThreads
  BY <1>1, <1>2 DEF LiveThreads, Live
<1> QED BY <1>3, FS_RemoveElement, ThreadsFinite

\* Every other step of a thread leaves the set as it is.
LEMMA WorkKeepsThreads ==
  ASSUME TypeOK, NEW p \in Packages, NEW n \in Slots, Working(p, n)
  PROVE  /\ LiveThreads' = LiveThreads /\ LiveThreads # {}
         /\ UNCHANGED <<started, finished, mainVars>>
<1>1. <<p, n>> \in Threads
  BY DEF Threads
<1>2. /\ pc[<<p, n>>] \in {"parse", "loop", "push", "fail"}
      /\ \E s \in {"loop", "push", "fail", "end"} : pc' = [pc EXCEPT ![<<p, n>>] = s]
      /\ UNCHANGED <<started, finished, mainVars>>
  BY DEF Working, ParseOk, ParseThrow, Mark, Push, SetFailed, queueVars
<1>3. PICK s \in {"loop", "push", "fail", "end"} :
        \A t \in Threads : pc'[t] = IF t = <<p, n>> THEN s ELSE pc[t]
  BY <1>2 DEF TypeOK
<1>4. LiveThreads' = LiveThreads /\ <<p, n>> \in LiveThreads
  BY <1>1, <1>2, <1>3 DEF LiveThreads, Live
<1> QED BY <1>2, <1>4

-----------------------------------------------------------------------------
(* Each part of IInv is preserved.                                         *)

\* Every variable keeps its type.
LEMMA TypeStep ==
  ASSUME IInv, [Next]_vars
  PROVE  TypeOK'
<1> USE DEF TypeOK
<1>1. TypeOK /\ started \in Nat /\ finished \in Nat
      /\ started = finished + Cardinality(LiveThreads) /\ Cardinality(LiveThreads) \in Nat
  BY ThreadsFinite DEF IInv, CountInv
<1>2. CASE \E p \in Packages, n \in Slots : MainStart(p, n)
  BY <1>1, <1>2 DEF MainStart, Threads
<1>3. CASE \E p \in Packages, n \in Slots : Working(p, n)
  <2>0. PICK p \in Packages, n \in Slots : Working(p, n)
    BY <1>3
  <2>1. CASE \E D \in SUBSET Packages : ParseOk(p, n, D)
    BY <1>1, <2>1 DEF ParseOk, queueVars, mainVars, Threads
  <2>2. CASE \E D \in SUBSET Packages : ParseThrow(p, n, D)
    BY <1>1, <2>2 DEF ParseThrow, queueVars, mainVars, Threads
  <2>3. CASE \E d \in Packages : Mark(p, n, d)
    BY <1>1, <2>3 DEF Mark, queueVars, mainVars, Threads
  <2>4. CASE \E d \in Packages : Push(p, n, d)
    BY <1>1, <2>4 DEF Push, mainVars, Threads
  <2>5. CASE SetFailed(p, n)
    BY <1>1, <2>5 DEF SetFailed, queueVars, mainVars
  <2> QED BY <2>0, <2>1, <2>2, <2>3, <2>4, <2>5 DEF Working
<1>4. CASE \E p \in Packages, n \in Slots : Finish(p, n)
  <2>0. PICK p \in Packages, n \in Slots : Finish(p, n)
    BY <1>4
  <2>1. Cardinality(LiveThreads') = Cardinality(LiveThreads) - 1 /\ Cardinality(LiveThreads') \in Nat
    <3>1. Cardinality(LiveThreads') = Cardinality(LiveThreads) - 1
      BY <1>1, <2>0, FinishRemovesThread
    <3>2. Cardinality(LiveThreads) # 0
      BY <1>1, <2>0, FinishRemovesThread, ThreadsFinite, FS_EmptySet
    <3> QED BY <1>1, <3>1, <3>2
  <2>2. started' = started /\ finished' = finished + 1
    BY <2>0 DEF Finish
  <2>3. finished' \in 0 .. started'
    BY <1>1, <2>1, <2>2
  <2> QED BY <1>1, <2>0, <2>2, <2>3 DEF Finish
<1>5. CASE Deciding
  <2>1. CASE MainPop
    <3>1. CASE queue # <<>>
      <4>1. Head(queue) \in Packages /\ Tail(queue) \in Seq(Packages)
        BY <1>1, <3>1
      <4> QED BY <1>1, <2>1, <3>1, <4>1 DEF MainPop
    <3> QED BY <1>1, <2>1, <3>1 DEF MainPop
  <2>2. CASE MainCheck \/ MainWait \/ SpuriousWake \/ Judge
    BY <1>1, <2>2 DEF MainCheck, MainWait, SpuriousWake, Judge, Outcome, queueVars
  <2> QED BY <1>5, <2>1, <2>2 DEF Deciding
<1>6. CASE Crash
  BY <1>1, <1>6 DEF Crash, queueVars
<1>7. CASE UNCHANGED vars
  BY <1>1, <1>7 DEF vars
<1> QED BY <1>2, <1>3, <1>4, <1>5, <1>6, <1>7, Steps

\* started - finished stays the number of live threads.
LEMMA CountStep ==
  ASSUME IInv, [Next]_vars
  PROVE  CountInv'
<1>1. /\ TypeOK /\ started \in Nat /\ finished \in Nat
      /\ started = finished + Cardinality(LiveThreads) /\ Cardinality(LiveThreads) \in Nat
  BY ThreadsFinite DEF IInv, CountInv
<1>2. CASE \E p \in Packages, n \in Slots : MainStart(p, n)
  <2>1. PICK p \in Packages, n \in Slots : MainStart(p, n)
    BY <1>2
  <2>2. Cardinality(LiveThreads') = Cardinality(LiveThreads) + 1
    BY <1>1, <2>1, StartAddsThread
  <2>3. started' = started + 1 /\ finished' = finished
    BY <2>1 DEF MainStart
  <2> QED BY <1>1, <2>2, <2>3 DEF CountInv
<1>3. CASE \E p \in Packages, n \in Slots : Working(p, n)
  <2>1. LiveThreads' = LiveThreads /\ UNCHANGED <<started, finished>>
    BY <1>1, <1>3, WorkKeepsThreads
  <2> QED BY <1>1, <2>1 DEF CountInv
<1>4. CASE \E p \in Packages, n \in Slots : Finish(p, n)
  <2>1. PICK p \in Packages, n \in Slots : Finish(p, n)
    BY <1>4
  <2>2. Cardinality(LiveThreads') = Cardinality(LiveThreads) - 1
    BY <1>1, <2>1, FinishRemovesThread
  <2>3. started' = started /\ finished' = finished + 1
    BY <2>1 DEF Finish
  <2> QED BY <1>1, <2>2, <2>3 DEF CountInv
<1>5. CASE Deciding \/ Crash \/ UNCHANGED vars
  <2>1. UNCHANGED <<pc, started, finished>>
    BY <1>5 DEF Deciding, MainCheck, MainPop, MainWait, SpuriousWake, Judge, Crash, vars,
                queueVars
  <2> QED BY <1>1, <2>1 DEF CountInv, LiveThreads, Live
<1> QED BY <1>2, <1>3, <1>4, <1>5, Steps

\* Nobody is live exactly when the counters agree.
LEMMA CountersAgree ==
  ASSUME IInv
  PROVE  started = finished <=> LiveThreads = {}
<1>1. started = finished <=> Cardinality(LiveThreads) = 0
  BY ThreadsFinite DEF IInv, CountInv
<1> QED BY <1>1, ThreadsFinite, FS_EmptySet

\* What the main thread knows stays true.
LEMMA MainStep ==
  ASSUME IInv, [Next]_vars
  PROVE  MainInv'
<1>1. TypeOK /\ MainInv
  BY DEF IInv
<1>2. CASE \E p \in Packages, n \in Slots : MainStart(p, n)
  BY <1>1, <1>2 DEF MainStart, MainInv
<1>3. CASE \E p \in Packages, n \in Slots : Working(p, n)
  <2>1. LiveThreads' = LiveThreads /\ LiveThreads # {} /\ UNCHANGED mainVars
    BY <1>1, <1>3, WorkKeepsThreads
  <2> QED BY <1>1, <2>1 DEF MainInv, mainVars
<1>4. CASE \E p \in Packages, n \in Slots : Finish(p, n)
  <2>1. LiveThreads # {} /\ UNCHANGED <<result, toProcess, queue, failed, depends>>
    BY <1>1, <1>4, FinishRemovesThread DEF Finish
  <2>2. main' = IF main = "asleep" THEN "check" ELSE main
    BY <1>4 DEF Finish
  <2> QED BY <1>1, <2>1, <2>2 DEF MainInv
<1>5. CASE Deciding
  <2>1. LiveThreads' = LiveThreads /\ UNCHANGED <<failed, depends>> /\ Loop' = Loop
    BY <1>5 DEF Deciding, MainCheck, MainPop, MainWait, SpuriousWake, Judge,
                LiveThreads, Live, Loop
  <2>2. CASE MainCheck
    BY <1>1, <2>1, <2>2, CountersAgree DEF MainCheck, MainInv, AllDone, queueVars
  <2>3. CASE MainPop
    BY <1>1, <2>1, <2>3 DEF MainPop, MainInv
  <2>4. CASE MainWait
    BY <1>1, <2>1, <2>4, CountersAgree DEF MainWait, MainInv, MustWait, queueVars
  <2>5. CASE SpuriousWake
    BY <1>1, <2>1, <2>5 DEF SpuriousWake, MainInv, queueVars
  <2>6. CASE Judge
    BY <1>1, <2>1, <2>6 DEF Judge, MainInv, Outcome, queueVars
  <2> QED BY <1>5, <2>2, <2>3, <2>4, <2>5, <2>6 DEF Deciding
<1>6. CASE Crash
  BY <1>1, <1>6 DEF Crash, MainInv, queueVars, LiveThreads, Live
<1>7. CASE UNCHANGED vars
  BY <1>1, <1>7 DEF vars, MainInv, LiveThreads, Live, Loop
<1> QED BY <1>2, <1>3, <1>4, <1>5, <1>6, <1>7, Steps

\* Only live threads hold dependencies.
LEMMA HandStep ==
  ASSUME IInv, [Next]_vars
  PROVE  HandInv'
<1> SUFFICES ASSUME NEW t \in Threads
             PROVE  /\ left'[t] # {} => pc'[t] \in {"loop", "push"}
                    /\ toPush'[t] # {} => pc'[t] = "push"
                    /\ \A x, y \in toPush'[t] : x = y
  BY DEF HandInv
<1>1. /\ TypeOK
      /\ left[t] # {} => pc[t] \in {"loop", "push"}
      /\ toPush[t] # {} => pc[t] = "push"
      /\ \A x, y \in toPush[t] : x = y
  BY DEF IInv, HandInv
<1>a. ASSUME NEW p \in Packages, NEW n \in Slots
      PROVE  <<p, n>> \in Threads
  BY DEF Threads
<1> USE <1>1, <1>a DEF TypeOK
<1>2. CASE \E p \in Packages, n \in Slots : MainStart(p, n)
  BY <1>2 DEF MainStart
<1>3. CASE \E p \in Packages, n \in Slots : Working(p, n)
  <2>0. PICK p \in Packages, n \in Slots : Working(p, n)
    BY <1>3
  <2>1. CASE \E D \in SUBSET Packages : ParseOk(p, n, D)
    BY <2>1 DEF ParseOk
  <2>2. CASE \E D \in SUBSET Packages : ParseThrow(p, n, D)
    BY <2>2 DEF ParseThrow
  <2>3. CASE \E d \in Packages : Mark(p, n, d)
    BY <2>3 DEF Mark
  <2>4. CASE \E d \in Packages : Push(p, n, d)
    BY <2>4 DEF Push
  <2>5. CASE SetFailed(p, n)
    BY <2>5 DEF SetFailed
  <2> QED BY <2>0, <2>1, <2>2, <2>3, <2>4, <2>5 DEF Working
<1>4. CASE \E p \in Packages, n \in Slots : Finish(p, n)
  BY <1>4 DEF Finish
<1>5. CASE Deciding \/ Crash \/ UNCHANGED vars
  BY <1>5 DEF Deciding, MainCheck, MainPop, MainWait, SpuriousWake, Judge, Crash, vars
<1> QED BY <1>2, <1>3, <1>4, <1>5, Steps

\* push() adds its argument to the packages in the queue, ...
LEMMA QueueAppend ==
  ASSUME NEW q \in Seq(Packages), NEW d \in Packages
  PROVE  {Append(q, d)[i] : i \in 1 .. Len(Append(q, d))}
           = {q[i] : i \in 1 .. Len(q)} \cup {d}
<1>1. Len(Append(q, d)) = Len(q) + 1 /\ Append(q, d)[Len(q) + 1] = d /\ Len(q) \in Nat
  OBVIOUS
<1>2. \A i \in 1 .. Len(q) : Append(q, d)[i] = q[i]
  OBVIOUS
<1> QED BY <1>1, <1>2

\* ... and pop() takes none but the first out.
LEMMA QueueTail ==
  ASSUME NEW q \in Seq(Packages), q # <<>>
  PROVE  {q[i] : i \in 1 .. Len(q)} \subseteq {Head(q)} \cup {Tail(q)[i] : i \in 1 .. Len(Tail(q))}
<1>1. Len(q) \in Nat /\ Len(q) > 0 /\ Head(q) = q[1] /\ Len(Tail(q)) = Len(q) - 1
  OBVIOUS
<1>2. \A i \in 1 .. Len(Tail(q)) : Tail(q)[i] = q[i + 1]
  OBVIOUS
<1>3. ASSUME NEW i \in 1 .. Len(q), i # 1
      PROVE  \E j \in 1 .. Len(Tail(q)) : q[i] = Tail(q)[j]
  <2>1. i - 1 \in 1 .. Len(Tail(q)) /\ (i - 1) + 1 = i
    BY <1>1, <1>3
  <2>2. Tail(q)[i - 1] = q[(i - 1) + 1]
    BY <1>2, <2>1
  <2> QED BY <2>1, <2>2
<1> QED BY <1>1, <1>3

\* A marked package is never lost.
LEMMA MarkStep ==
  ASSUME IInv, [Next]_vars
  PROVE  MarkInv'
<1>1. TypeOK /\ MarkInv /\ MainInv /\ HandInv
  BY DEF IInv
<1> USE <1>1 DEF TypeOK
<1>0. ASSUME NEW q \in Packages, pc[<<q, 1>>] # "idle"
      PROVE  pc'[<<q, 1>>] # "idle"
  <2>1. <<q, 1>> \in Threads
    BY DEF Threads, Slots
  <2>2. CASE \E p \in Packages, n \in Slots : MainStart(p, n) \/ Working(p, n) \/ Finish(p, n)
    <3>1. PICK p \in Packages, n \in Slots : MainStart(p, n) \/ Working(p, n) \/ Finish(p, n)
      BY <2>2
    <3>2. \E s \in {"parse", "loop", "push", "fail", "end", "gone"} :
            pc' = [pc EXCEPT ![<<p, n>>] = s]
      BY <3>1 DEF MainStart, Working, ParseOk, ParseThrow, Mark, Push, SetFailed, Finish
    <3> QED BY <1>0, <2>1, <3>2
  <2>3. CASE Deciding \/ Crash \/ UNCHANGED vars
    BY <1>0, <2>3 DEF Deciding, MainCheck, MainPop, MainWait, SpuriousWake, Judge, Crash, vars
  <2> QED BY <2>2, <2>3, Steps
<1>2. CASE \E p \in Packages, n \in Slots : MainStart(p, n)
  <2>0. PICK p \in Packages, n \in Slots : MainStart(p, n)
    BY <1>2
  <2>1. UNCHANGED <<marked, queue, toPush>> /\ toProcess \subseteq {p}
    BY <2>0 DEF MainStart, MainInv
  <2>2. pc'[<<p, 1>>] # "idle"
    BY <2>0 DEF MainStart, Threads, Slots
  <2> QED BY <1>0, <2>1, <2>2, ParseAssumption DEF MarkInv, Queued
<1>3. ASSUME NEW p \in Packages, NEW n \in Slots, UNCHANGED <<marked, queue, toPush, toProcess>>
      PROVE  MarkInv'
  BY <1>0, <1>3, ParseAssumption DEF MarkInv, Queued
<1>4. CASE \E p \in Packages, n \in Slots : Working(p, n)
  <2>0. PICK p \in Packages, n \in Slots : Working(p, n)
    BY <1>4
  <2>1. CASE \E D \in SUBSET Packages : ParseOk(p, n, D) \/ ParseThrow(p, n, D)
    BY <1>3, <2>1 DEF ParseOk, ParseThrow, queueVars, mainVars
  <2>2. CASE \E d \in Packages : Mark(p, n, d)
    <3>0. PICK d \in Packages : Mark(p, n, d)
      BY <2>2
    <3>1. toPush[<<p, n>>] = {} /\ <<p, n>> \in Threads
      BY <3>0 DEF Mark, HandInv, Threads
    <3>2. marked' = marked \cup {d} /\ UNCHANGED <<queue, toProcess>>
      BY <3>0 DEF Mark, queueVars, mainVars
    <3>3. \A t \in Threads : toPush'[t] = IF t = <<p, n>> THEN {d} \ marked ELSE toPush[t]
      BY <3>0 DEF Mark
    <3>4. \A q \in marked \cup {Base} : \A t \in Threads : q \in toPush[t] => q \in toPush'[t]
      BY <3>1, <3>3
    <3>5. d \notin marked => d \in toPush'[<<p, n>>]
      BY <3>1, <3>3
    <3>6. ASSUME NEW q \in marked \cup {Base}
          PROVE  \/ pc'[<<q, 1>>] # "idle"
                 \/ q \in Queued' \cup toProcess'
                 \/ \E t \in Threads : q \in toPush'[t]
      BY <1>0, <3>2, <3>4, ParseAssumption DEF MarkInv, Queued
    <3> QED BY <3>1, <3>2, <3>5, <3>6 DEF MarkInv
  <2>3. CASE \E d \in Packages : Push(p, n, d)
    <3>0. PICK d \in Packages : Push(p, n, d)
      BY <2>3
    <3>1. <<p, n>> \in Threads /\ toPush[<<p, n>>] \subseteq {d}
      BY <3>0 DEF Push, HandInv, Threads
    <3>2. Queued' = Queued \cup {d}
      BY <3>0, QueueAppend DEF Push, Queued
    <3>3. UNCHANGED <<marked, toProcess>>
      BY <3>0 DEF Push, mainVars
    <3>4. \A t \in Threads : toPush'[t] = IF t = <<p, n>> THEN {} ELSE toPush[t]
      BY <3>0 DEF Push
    <3> QED BY <1>0, <3>1, <3>2, <3>3, <3>4, ParseAssumption DEF MarkInv
  <2>4. CASE SetFailed(p, n)
    BY <1>3, <2>4 DEF SetFailed, queueVars, mainVars
  <2> QED BY <2>0, <2>1, <2>2, <2>3, <2>4 DEF Working
<1>5. CASE \E p \in Packages, n \in Slots : Finish(p, n)
  BY <1>3, <1>5 DEF Finish
<1>6. CASE MainPop
  <2>1. UNCHANGED <<marked, toPush>>
    BY <1>6 DEF MainPop
  <2>2. toProcess = {}
    BY <1>6 DEF MainPop, MainInv
  <2>4. CASE queue # <<>>
    <3>1. queue' = Tail(queue) /\ toProcess' = {Head(queue)}
      BY <1>6, <2>4 DEF MainPop
    <3>2. Queued \subseteq {Head(queue)} \cup Queued'
      <4>1. Queued' = {Tail(queue)[i] : i \in 1 .. Len(Tail(queue))}
        BY <3>1 DEF Queued
      <4>2. {queue[i] : i \in 1 .. Len(queue)}
              \subseteq {Head(queue)} \cup {Tail(queue)[i] : i \in 1 .. Len(Tail(queue))}
        BY <2>4, QueueTail
      <4> QED BY <4>1, <4>2 DEF Queued
    <3> QED BY <1>0, <2>1, <2>2, <3>1, <3>2, ParseAssumption DEF MarkInv
  <2>5. CASE queue = <<>>
    BY <1>3, <1>6, <2>1, <2>5, ParseAssumption DEF MainPop, Slots
  <2> QED BY <2>4, <2>5
<1>7. CASE MainCheck \/ MainWait \/ SpuriousWake \/ Judge \/ Crash \/ UNCHANGED vars
  <2>1. UNCHANGED <<marked, queue, toPush, toProcess>>
    BY <1>7 DEF MainCheck, MainWait, SpuriousWake, Judge, Crash, vars, queueVars
  <2> QED BY <1>3, <2>1, ParseAssumption DEF Slots
<1> QED BY <1>2, <1>4, <1>5, <1>6, <1>7, Steps DEF Deciding

\* A recorded dependency is marked in the end, unless something failed.
LEMMA DependStep ==
  ASSUME IInv, [Next]_vars
  PROVE  DependInv'
<1>1. TypeOK /\ DependInv
  BY DEF IInv
<1>a. ASSUME NEW p \in Packages, NEW n \in Slots
      PROVE  <<p, n>> \in Threads /\ n \in {1, 2}
             /\ \A q \in Packages : <<q, 1>> \in Threads /\ <<q, 2>> \in Threads
  BY DEF Threads, Slots
<1> USE <1>1 DEF TypeOK
<1>2. CASE \E p \in Packages, n \in Slots : MainStart(p, n)
  <2>0. PICK p \in Packages, n \in Slots : MainStart(p, n)
    BY <1>2
  <2>1. <<p, n>> \in Threads /\ pc[<<p, n>>] = "idle"
        /\ \A t \in Threads : t # <<p, n>> => pc'[t] = pc[t]
    BY <2>0, <1>a DEF MainStart
  <2>2. \A t \in Threads : pc[t] = "fail" => pc'[t] = "fail"
    BY <2>1
  <2>3. UNCHANGED <<failed, marked, depends, left>>
    BY <2>0 DEF MainStart
  <2> QED BY <2>2, <2>3 DEF DependInv
<1>3. CASE \E p \in Packages, n \in Slots : Working(p, n)
  <2>0. PICK p \in Packages, n \in Slots : Working(p, n)
    BY <1>3
  <2>1. CASE \E D \in SUBSET Packages : ParseOk(p, n, D)
    BY <1>a, <2>1 DEF ParseOk, DependInv
  <2>2. CASE \E D \in SUBSET Packages : ParseThrow(p, n, D)
    BY <1>a, <2>2 DEF ParseThrow, DependInv
  <2>3. CASE \E d \in Packages : Mark(p, n, d)
    <3>0. PICK d \in Packages : Mark(p, n, d)
      BY <2>3
    <3>1. \A t \in Threads : pc[t] = "fail" => pc'[t] = "fail"
      BY <1>a, <3>0 DEF Mark
    <3>2. \A t \in Threads : left'[t] = IF t = <<p, n>> THEN left[t] \ {d} ELSE left[t]
      BY <1>a, <3>0 DEF Mark
    <3>3. \A t \in Threads : left[t] \subseteq left'[t] \cup {d}
      BY <3>2
    <3>4. d \in marked' /\ marked \subseteq marked' /\ UNCHANGED <<failed, depends>>
      BY <3>0 DEF Mark
    <3>5. ASSUME NEW q \in Packages,
                 depends[q] \subseteq marked \cup left[<<q, 1>>] \cup left[<<q, 2>>]
          PROVE  depends'[q] \subseteq marked' \cup left'[<<q, 1>>] \cup left'[<<q, 2>>]
      <4>1. left[<<q, 1>>] \subseteq left'[<<q, 1>>] \cup {d}
            /\ left[<<q, 2>>] \subseteq left'[<<q, 2>>] \cup {d}
        BY <1>a, <3>3, <2>0
      <4> QED BY <3>4, <3>5, <4>1
    <3> QED BY <3>1, <3>4, <3>5 DEF DependInv
  <2>4. CASE \E d \in Packages : Push(p, n, d)
    BY <1>a, <2>4 DEF Push, DependInv
  <2>5. CASE SetFailed(p, n)
    BY <2>5 DEF SetFailed, DependInv
  <2> QED BY <2>0, <2>1, <2>2, <2>3, <2>4, <2>5 DEF Working
<1>4. CASE \E p \in Packages, n \in Slots : Finish(p, n)
  BY <1>4 DEF Finish, DependInv
<1>5. CASE Deciding \/ Crash \/ UNCHANGED vars
  BY <1>5 DEF Deciding, MainCheck, MainPop, MainWait, SpuriousWake, Judge, Crash, vars,
              DependInv
<1> QED BY <1>2, <1>3, <1>4, <1>5, Steps

-----------------------------------------------------------------------------
(* The theorems.                                                           *)

\* Only the base package is queued, and nothing runs.
LEMMA InitIInv == Init => IInv
<1> SUFFICES ASSUME Init
             PROVE  IInv
  OBVIOUS
<1>1. TypeOK
  <2>1. <<Base>> \in Seq(Packages)
    BY ParseAssumption
  <2>2. [p \in Packages |-> {}] \in [Packages -> SUBSET Packages]
        /\ [t \in Threads |-> {}] \in [Threads -> SUBSET Packages]
    OBVIOUS
  <2>3. pc \in [Threads -> {"idle", "parse", "loop", "push", "fail", "end", "gone"}]
    BY DEF Init
  <2>4. 0 \in Nat /\ 0 \in 0 .. 0
    OBVIOUS
  <2> QED BY <2>1, <2>2, <2>3, <2>4 DEF Init, TypeOK
<1>2. LiveThreads = {}
  BY DEF Init, LiveThreads, Live
<1>3. CountInv
  BY <1>2, FS_EmptySet DEF Init, CountInv
<1>4. HandInv
  BY DEF Init, HandInv
<1>5. MarkInv
  BY DEF Init, MarkInv, Queued
<1>6. DependInv
  BY DEF Init, DependInv, Threads, Slots
<1> QED BY <1>1, <1>3, <1>4, <1>5, <1>6 DEF Init, IInv, MainInv

\* IInv is an invariant of the parse phase.
THEOREM Invariance == Spec => []IInv
<1>1. IInv /\ [Next]_vars => IInv'
  BY TypeStep, CountStep, MainStep, HandStep, MarkStep, DependStep DEF IInv
<1> QED BY <1>1, InitIInv, PTL DEF Spec

\* Every variable has its type; no thread finishes that was not started.
THEOREM TypeCorrect == Spec => []TypeOK
BY Invariance, PTL DEF IInv

\* process_packages returns only when no thread uses its PackageQueue.
THEOREM QuietAtJudgeHolds == Spec => []QuietAtJudge
<1>1. IInv => QuietAtJudge
  BY DEF IInv, MainInv, QuietAtJudge, LiveThreads
<1> QED BY <1>1, Invariance, PTL

\* PackageQueue::wait sleeps only while a finish() is still to come.
THEOREM SleepHasWakerHolds == Spec => []SleepHasWaker
<1>1. IInv => SleepHasWaker
  BY DEF IInv, MainInv, SleepHasWaker, LiveThreads
<1> QED BY <1>1, Invariance, PTL

\* basePackage goes on to build only when every package that can be found
\* has been parsed, none failed, and there is no dependency loop.
THEOREM CompleteGraphHolds == Spec => []CompleteGraph
<1>1. IInv => CompleteGraph
  <2> SUFFICES ASSUME IInv, result = "complete"
               PROVE  /\ ~failed
                      /\ \A p \in Found : pc[<<p, 1>>] = "gone"
                      /\ \A S \in SUBSET Found :
                           S # {} => \E p \in S : depends[p] \cap S = {}
    BY DEF CompleteGraph
  <2>1. ~failed /\ ~Loop /\ LiveThreads = {} /\ queue = <<>> /\ toProcess = {} /\ TypeOK
    BY DEF IInv, MainInv
  <2>2. \A t \in Threads : pc[t] \in {"idle", "gone"} /\ left[t] = {} /\ toPush[t] = {}
    BY <2>1 DEF LiveThreads, Live, IInv, HandInv
  <2>3. \A p \in Packages : depends[p] \subseteq marked
    <3>1. \A p \in Packages : <<p, 1>> \in Threads /\ <<p, 2>> \in Threads
      BY DEF Threads, Slots
    <3> QED BY <2>1, <2>2, <3>1 DEF IInv, DependInv
  <2>4. Found \subseteq marked \cup {Base} /\ Found \subseteq Packages
    BY <2>1, <2>3, ParseAssumption DEF Found, TypeOK
  <2>5. Queued = {}
    BY <2>1 DEF Queued
  <2>6. \A p \in Found : pc[<<p, 1>>] = "gone"
    BY <2>1, <2>2, <2>4, <2>5 DEF IInv, MarkInv, Threads, Slots
  <2>7. \A S \in SUBSET Found : S # {} => \E p \in S : depends[p] \cap S = {}
    BY <2>1, <2>4 DEF Loop
  <2> QED BY <2>1, <2>6, <2>7
<1> QED BY <1>1, Invariance, PTL

\* isFailed() is final when basePackage reads it.
THEOREM FailureSeenHolds == Spec => FailureSeen
<1>1. IInv /\ [Next]_vars => [(main \in {"judge", "done"}) => failed' = failed]_vars
  <2> SUFFICES ASSUME IInv, [Next]_vars, main \in {"judge", "done"}
               PROVE  failed' = failed
    OBVIOUS
  <2>1. LiveThreads = {} /\ TypeOK
    BY DEF IInv, MainInv
  <2>2. CASE \E p \in Packages, n \in Slots : Working(p, n)
    BY <2>1, <2>2, WorkKeepsThreads
  <2>3. CASE \E p \in Packages, n \in Slots : MainStart(p, n) \/ Finish(p, n)
    BY <2>3 DEF MainStart, Finish
  <2>4. CASE Deciding \/ Crash \/ UNCHANGED vars
    BY <2>4 DEF Deciding, MainCheck, MainPop, MainWait, SpuriousWake, Judge, Crash, vars
  <2> QED BY <2>2, <2>3, <2>4, Steps
<1> QED BY <1>1, Invariance, PTL DEF Spec, FailureSeen

-----------------------------------------------------------------------------
(* Who is parsed, and how often.                                           *)

\* A package in the queue, popped, being parsed or about to be pushed was
\* marked for it; the base was queued without a mark, once.
Started(p) == {n \in Slots : pc[<<p, n>>] # "idle"}
Holding(p) == {t \in Threads : p \in toPush[t]}
Allowed(p) == (IF p \in marked THEN 1 ELSE 0) + (IF p = Base THEN 1 ELSE 0)

OnceInv ==
  \A p \in Packages :
    Occurrences(p) + Cardinality(toProcess \cap {p}) + Cardinality(Started(p))
      + Cardinality(Holding(p)) = Allowed(p)

\* Whatever is marked was found from the base, through packages that were
\* started and the dependencies they recorded.
Closed(S) == \A p \in S : depends[p] \subseteq S

FoundInv ==
  /\ \A p \in Packages : pc[<<p, 2>>] # "idle" => pc[<<p, 1>>] # "idle"
  /\ \A t \in Threads : left[t] \subseteq depends[t[1]]
  /\ \A d \in marked : \E p \in Packages :
       d \in depends[p] /\ \E n \in Slots : pc[<<p, n>>] # "idle"
  /\ \A S \in SUBSET Packages :
       Base \in S /\ Closed(S) =>
         /\ marked \cup Queued \cup toProcess \subseteq S
         /\ \A t \in Threads : pc[t] # "idle" => t[1] \in S
         /\ \A t \in Threads : toPush[t] \subseteq S

\* The sets counted are finite.
LEMMA CountsFinite ==
  ASSUME TypeOK, NEW p \in Packages
  PROVE  /\ IsFiniteSet(Holding(p)) /\ Cardinality(Holding(p)) \in Nat
         /\ IsFiniteSet(Started(p)) /\ Cardinality(Started(p)) \in Nat
         /\ IsFiniteSet(toProcess \cap {p}) /\ Cardinality(toProcess \cap {p}) \in Nat
         /\ Occurrences(p) \in Nat
<1>1. IsFiniteSet(Slots)
  <2>1. IsFiniteSet({} \cup {1}) /\ IsFiniteSet(({} \cup {1}) \cup {2})
    BY FS_EmptySet, FS_AddElement
  <2>2. Slots = ({} \cup {1}) \cup {2}
    BY DEF Slots
  <2> QED BY <2>1, <2>2
<1>2. IsFiniteSet(Threads)
  BY <1>1, FS_Product, ParseAssumption DEF Threads
<1>3. IsFiniteSet({i \in DOMAIN queue : queue[i] = p})
  <2>1. DOMAIN queue = 1 .. Len(queue) /\ Len(queue) \in Nat
    BY DEF TypeOK
  <2>2. IsFiniteSet(1 .. Len(queue))
    BY <2>1, FS_Interval
  <2> QED BY <2>1, <2>2, FS_Subset
<1>4. IsFiniteSet({p})
  BY FS_Singleton
<1>5. IsFiniteSet(Holding(p)) /\ IsFiniteSet(Started(p)) /\ IsFiniteSet(toProcess \cap {p})
  BY <1>1, <1>2, <1>4, FS_Subset DEF Holding, Started
<1> QED BY <1>3, <1>5, FS_CardinalityType DEF Occurrences

\* push() adds one occurrence of its argument and none of the others, ...
LEMMA AppendOccurs ==
  ASSUME NEW q \in Seq(Packages), NEW d \in Packages, NEW p \in Packages
  PROVE  Cardinality({i \in DOMAIN Append(q, d) : Append(q, d)[i] = p})
           = Cardinality({i \in DOMAIN q : q[i] = p}) + IF p = d THEN 1 ELSE 0
<1> DEFINE A == {i \in DOMAIN q : q[i] = p}
           B == {i \in DOMAIN Append(q, d) : Append(q, d)[i] = p}
<1>1. /\ DOMAIN q = 1 .. Len(q) /\ Len(q) \in Nat
      /\ DOMAIN Append(q, d) = 1 .. (Len(q) + 1)
      /\ Append(q, d)[Len(q) + 1] = d
      /\ \A i \in 1 .. Len(q) : Append(q, d)[i] = q[i]
  OBVIOUS
<1>2. B = IF p = d THEN A \cup {Len(q) + 1} ELSE A
  <2>1. \A i : i \in 1 .. (Len(q) + 1) <=> i \in 1 .. Len(q) \/ i = Len(q) + 1
    BY <1>1
  <2> QED BY <1>1, <2>1
<1>3. Len(q) + 1 \notin A
  BY <1>1
<1>4. IsFiniteSet(A) /\ Cardinality(A) \in Nat
  <2>1. IsFiniteSet(1 .. Len(q))
    BY <1>1, FS_Interval
  <2>2. IsFiniteSet(A)
    BY <1>1, <2>1, FS_Subset
  <2> QED BY <2>2, FS_CardinalityType
<1>5. Cardinality(B) = Cardinality(A) + IF p = d THEN 1 ELSE 0
  <2> HIDE DEF A, B
  <2>1. CASE p = d
    <3>1. B = A \cup {Len(q) + 1}
      BY <1>2, <2>1
    <3>2. Cardinality(A \cup {Len(q) + 1}) = Cardinality(A) + 1
      BY <1>3, <1>4, FS_AddElement
    <3> QED BY <2>1, <3>1, <3>2
  <2>2. CASE p # d
    BY <1>2, <1>4, <2>2
  <2> QED BY <2>1, <2>2
<1> QED BY <1>5

\* ... and pop() takes one of the first away.
LEMMA TailOccurs ==
  ASSUME NEW q \in Seq(Packages), q # <<>>, NEW p \in Packages
  PROVE  Cardinality({i \in DOMAIN q : q[i] = p})
           = Cardinality({i \in DOMAIN Tail(q) : Tail(q)[i] = p})
               + IF p = Head(q) THEN 1 ELSE 0
<1> DEFINE A == {i \in DOMAIN q : q[i] = p}
           R == A \ {1}
           B == {i \in DOMAIN Tail(q) : Tail(q)[i] = p}
           f == [i \in B |-> i + 1]
<1>1. /\ DOMAIN q = 1 .. Len(q) /\ Len(q) \in Nat /\ Len(q) > 0
      /\ DOMAIN Tail(q) = 1 .. (Len(q) - 1)
      /\ Head(q) = q[1]
      /\ \A i \in 1 .. (Len(q) - 1) : Tail(q)[i] = q[i + 1]
  OBVIOUS
<1>2. IsFiniteSet(A) /\ IsFiniteSet(B) /\ IsFiniteSet(R)
  <2>1. IsFiniteSet(1 .. Len(q)) /\ IsFiniteSet(1 .. (Len(q) - 1))
    BY <1>1, FS_Interval
  <2> QED BY <1>1, <2>1, FS_Subset
<1>3. f \in Bijection(B, R)
  <2>1. \A i \in B : i + 1 \in R /\ i \in Nat
    <3>1. \A n \in Nat : \A i \in 1 .. (n - 1) : i + 1 \in 1 .. n /\ i + 1 # 1 /\ i \in Nat
      OBVIOUS
    <3> QED BY <1>1, <3>1
  <2>2. \A j \in R : \E i \in B : j = i + 1
    <3>1. \A n \in Nat : \A j \in 1 .. n : j # 1 => j - 1 \in 1 .. (n - 1) /\ j = (j - 1) + 1
      OBVIOUS
    <3>2. ASSUME NEW j \in R
          PROVE  j - 1 \in B /\ j = (j - 1) + 1
      <4>1. j \in 1 .. Len(q) /\ j # 1 /\ q[j] = p
        BY <1>1
      <4>2. j - 1 \in 1 .. (Len(q) - 1) /\ j = (j - 1) + 1
        BY <1>1, <3>1, <4>1
      <4>3. Tail(q)[j - 1] = q[j]
        BY <1>1, <4>2
      <4> QED BY <1>1, <4>1, <4>2, <4>3
    <3> HIDE DEF B, R
    <3> QED BY <3>2
  <2>3. f \in [B -> R]
    BY <2>1
  <2>4. \A i, j \in B : f[i] = f[j] => i = j
    <3>1. \A i, j \in Nat : i + 1 = j + 1 => i = j
      OBVIOUS
    <3> QED BY <2>1, <3>1
  <2>5. \A j \in R : \E i \in B : f[i] = j
    BY <2>2
  <2> HIDE DEF f, B, R
  <2> QED BY <2>3, <2>4, <2>5, Fun_IsBij
<1>4. Cardinality(B) = Cardinality(R)
  <2> HIDE DEF B, R, f
  <2> QED BY <1>2, <1>3, FS_Bijection DEF ExistsBijection
<1>5. /\ Cardinality(R) = IF 1 \in A THEN Cardinality(A) - 1 ELSE Cardinality(A)
      /\ Cardinality(A) \in Nat
  <2> HIDE DEF A
  <2> QED BY <1>2, FS_RemoveElement, FS_CardinalityType
<1>6. 1 \in A <=> p = Head(q)
  BY <1>1
<1>7. Cardinality(A) = Cardinality(B) + IF p = Head(q) THEN 1 ELSE 0
  <2> HIDE DEF A, B, R
  <2> QED BY <1>4, <1>5, <1>6
<1> QED BY <1>7

\* The counts agree in the initial state, ...
LEMMA OnceInit == Init => OnceInv
<1> SUFFICES ASSUME Init, NEW p \in Packages
             PROVE  Occurrences(p) + Cardinality(toProcess \cap {p})
                      + Cardinality(Started(p)) + Cardinality(Holding(p)) = Allowed(p)
  BY DEF OnceInv
<1>1. Holding(p) = {} /\ Started(p) = {} /\ toProcess \cap {p} = {}
  BY DEF Init, Holding, Started, Threads
<1>2. {i \in DOMAIN queue : queue[i] = p} = IF p = Base THEN {1} ELSE {}
  <2>1. queue = <<Base>> /\ DOMAIN queue = {1} /\ queue[1] = Base
    BY DEF Init
  <2> QED BY <2>1
<1>3. Occurrences(p) = IF p = Base THEN 1 ELSE 0
  BY <1>2, FS_EmptySet, FS_Singleton DEF Occurrences
<1>4. Allowed(p) = IF p = Base THEN 1 ELSE 0
  BY DEF Init, Allowed
<1> QED BY <1>1, <1>3, <1>4, FS_EmptySet

\* ... and every step that takes a package from one place puts it in the next.
LEMMA OnceStep ==
  ASSUME IInv, OnceInv, [Next]_vars
  PROVE  OnceInv'
<1> SUFFICES ASSUME NEW q \in Packages
             PROVE  Occurrences(q)' + Cardinality(toProcess' \cap {q})
                      + Cardinality(Started(q)') + Cardinality(Holding(q)')
                      = Allowed(q)'
  BY DEF OnceInv
<1> DEFINE Sum == Occurrences(q) + Cardinality(toProcess \cap {q})
                    + Cardinality(Started(q)) + Cardinality(Holding(q))
<1>1. TypeOK /\ MainInv /\ HandInv /\ Sum = Allowed(q)
  BY DEF IInv, OnceInv
<1>2. /\ Cardinality(Holding(q)) \in Nat /\ Cardinality(Started(q)) \in Nat
      /\ Cardinality(toProcess \cap {q}) \in Nat /\ Occurrences(q) \in Nat
      /\ IsFiniteSet(Holding(q)) /\ IsFiniteSet(Started(q))
  BY <1>1, CountsFinite
<1>3. Cardinality({}) = 0 /\ Cardinality({q}) = 1
  BY FS_EmptySet, FS_Singleton
<1>a. ASSUME UNCHANGED queue
      PROVE  Occurrences(q)' = Occurrences(q)
  BY <1>a DEF Occurrences
<1>b. ASSUME NEW p \in Packages, NEW n \in Slots, NEW s, pc' = [pc EXCEPT ![<<p, n>>] = s],
             pc[<<p, n>>] # "idle", s # "idle"
      PROVE  Started(q)' = Started(q)
  <2>1. \A t \in Threads : pc'[t] # "idle" <=> pc[t] # "idle"
    BY <1>1, <1>b DEF TypeOK
  <2> QED BY <2>1 DEF Started, Threads
<1>4. CASE \E p \in Packages, n \in Slots : MainStart(p, n)
  <2>0. PICK p \in Packages, n \in Slots : MainStart(p, n)
    BY <1>4
  <2>1. Holding(q)' = Holding(q) /\ Allowed(q)' = Allowed(q) /\ Occurrences(q)' = Occurrences(q)
    BY <2>0, <1>a DEF MainStart, Holding, Allowed
  <2>2. \A t \in Threads : pc'[t] = IF t = <<p, n>> THEN "parse" ELSE pc[t]
    BY <1>1, <2>0 DEF MainStart, TypeOK
  <2>3. toProcess = {p} /\ toProcess' = {} /\ <<p, n>> \in Threads /\ pc[<<p, n>>] = "idle"
    BY <1>1, <2>0 DEF MainStart, MainInv, Threads
  <2>4. CASE p = q
    <3>1. Started(q)' = Started(q) \cup {n} /\ n \notin Started(q)
      BY <2>2, <2>3, <2>4 DEF Started, Threads
    <3>2. Cardinality(Started(q)') = Cardinality(Started(q)) + 1
      BY <1>2, <3>1, FS_AddElement
    <3>3. toProcess \cap {q} = {q} /\ toProcess' \cap {q} = {}
      BY <2>3, <2>4
    <3>4. Cardinality(toProcess \cap {q}) = 1 /\ Cardinality(toProcess' \cap {q}) = 0
      BY <1>3, <3>3
    <3> QED BY <1>1, <1>2, <2>1, <3>2, <3>4
  <2>5. CASE p # q
    <3>1. Started(q)' = Started(q)
      BY <2>2, <2>5 DEF Started, Threads
    <3>2. toProcess \cap {q} = {} /\ toProcess' \cap {q} = {}
      BY <2>3, <2>5
    <3> QED BY <1>1, <2>1, <3>1, <3>2
  <2> QED BY <2>4, <2>5
<1>5. CASE MainPop
  <2>1. Holding(q)' = Holding(q) /\ Allowed(q)' = Allowed(q) /\ Started(q)' = Started(q)
    BY <1>5 DEF MainPop, Holding, Allowed, Started
  <2>2. CASE queue = <<>>
    <3>1. UNCHANGED <<queue, toProcess>>
      BY <1>5, <2>2 DEF MainPop
    <3> QED BY <1>1, <1>a, <2>1, <3>1
  <2>3. CASE queue # <<>>
    <3>1. toProcess' = {Head(queue)} /\ queue' = Tail(queue) /\ toProcess = {}
      BY <1>1, <1>5, <2>3 DEF MainPop, MainInv
    <3>2. Occurrences(q) = Occurrences(q)' + IF q = Head(queue) THEN 1 ELSE 0
      BY <1>1, <2>3, <3>1, TailOccurs DEF Occurrences, TypeOK
    <3>3. Occurrences(q)' \in Nat
      <4>1. TypeOK'
        BY TypeStep
      <4>2. IsFiniteSet({i \in DOMAIN queue' : queue'[i] = q})
        <5>1. DOMAIN queue' = 1 .. Len(queue') /\ Len(queue') \in Nat
          BY <4>1 DEF TypeOK
        <5>2. IsFiniteSet(1 .. Len(queue'))
          BY <5>1, FS_Interval
        <5> QED BY <5>1, <5>2, FS_Subset
      <4> QED BY <4>2, FS_CardinalityType DEF Occurrences
    <3>4. toProcess \cap {q} = {} /\ toProcess' \cap {q} = IF q = Head(queue) THEN {q} ELSE {}
      BY <3>1
    <3>5. Cardinality(toProcess \cap {q}) = 0
          /\ Cardinality(toProcess' \cap {q}) = IF q = Head(queue) THEN 1 ELSE 0
      BY <1>3, <3>4
    <3> QED BY <1>1, <1>2, <2>1, <3>2, <3>3, <3>5
  <2> QED BY <2>2, <2>3
<1>6. CASE \E p \in Packages, n \in Slots, D \in SUBSET Packages : ParseOk(p, n, D) \/ ParseThrow(p, n, D)
  <2>1. Started(q)' = Started(q)
    BY <1>6, <1>b DEF ParseOk, ParseThrow
  <2> QED BY <1>1, <1>6, <1>a, <2>1 DEF ParseOk, ParseThrow, Holding, Allowed, queueVars, mainVars
<1>7. CASE \E p \in Packages, n \in Slots, d \in Packages : Mark(p, n, d)
  <2>0. PICK p \in Packages, n \in Slots, d \in Packages : Mark(p, n, d)
    BY <1>7
  <2>1. Started(q)' = Started(q) /\ Occurrences(q)' = Occurrences(q) /\ toProcess' = toProcess
    BY <2>0, <1>a, <1>b DEF Mark, queueVars, mainVars
  <2>2. <<p, n>> \in Threads /\ toPush[<<p, n>>] = {} /\ marked' = marked \cup {d}
    BY <1>1, <2>0 DEF Mark, HandInv, Threads
  <2>3. \A t \in Threads : toPush'[t] = IF t = <<p, n>> THEN {d} \ marked ELSE toPush[t]
    BY <1>1, <2>0 DEF Mark, TypeOK
  <2>4. CASE q = d /\ d \notin marked
    <3>1. Holding(q)' = Holding(q) \cup {<<p, n>>} /\ <<p, n>> \notin Holding(q)
      BY <2>2, <2>3, <2>4 DEF Holding
    <3>2. Cardinality(Holding(q)') = Cardinality(Holding(q)) + 1
      BY <1>2, <3>1, FS_AddElement
    <3>3. Allowed(q)' = Allowed(q) + 1
      <4>1. q \notin marked /\ q \in marked'
        BY <2>2, <2>4
      <4> QED BY <4>1 DEF Allowed
    <3> QED BY <1>1, <1>2, <2>1, <3>2, <3>3
  <2>5. CASE q # d \/ d \in marked
    <3>1. Holding(q)' = Holding(q) /\ Allowed(q)' = Allowed(q)
      BY <2>2, <2>3, <2>5 DEF Holding, Allowed
    <3> QED BY <1>1, <2>1, <3>1
  <2> QED BY <2>4, <2>5
<1>8. CASE \E p \in Packages, n \in Slots, d \in Packages : Push(p, n, d)
  <2>0. PICK p \in Packages, n \in Slots, d \in Packages : Push(p, n, d)
    BY <1>8
  <2>1. Started(q)' = Started(q) /\ Allowed(q)' = Allowed(q) /\ toProcess' = toProcess
    BY <2>0, <1>b DEF Push, mainVars, Allowed
  <2>2. <<p, n>> \in Threads /\ toPush[<<p, n>>] = {d}
    BY <1>1, <2>0 DEF Push, HandInv, Threads
  <2>3. \A t \in Threads : toPush'[t] = IF t = <<p, n>> THEN {} ELSE toPush[t]
    BY <1>1, <2>0 DEF Push, TypeOK
  <2>4. Occurrences(q)' = Occurrences(q) + IF q = d THEN 1 ELSE 0
    <3>1. queue \in Seq(Packages) /\ queue' = Append(queue, d)
      BY <1>1, <2>0 DEF Push, TypeOK
    <3> QED BY <3>1, AppendOccurs DEF Occurrences
  <2>5. CASE q = d
    <3>1. Holding(q)' = Holding(q) \ {<<p, n>>} /\ <<p, n>> \in Holding(q)
      BY <2>2, <2>3, <2>5 DEF Holding
    <3>2. Cardinality(Holding(q) \ {<<p, n>>}) = Cardinality(Holding(q)) - 1
      BY <1>2, <3>1, FS_RemoveElement
    <3> QED BY <1>1, <1>2, <2>1, <2>4, <2>5, <3>1, <3>2
  <2>6. CASE q # d
    <3>1. Holding(q)' = Holding(q)
      BY <2>2, <2>3, <2>6 DEF Holding
    <3> QED BY <1>1, <1>2, <2>1, <2>4, <2>6, <3>1
  <2> QED BY <2>5, <2>6
<1>9. CASE \E p \in Packages, n \in Slots : SetFailed(p, n) \/ Finish(p, n)
  <2>1. Started(q)' = Started(q)
    BY <1>9, <1>b DEF SetFailed, Finish
  <2> QED BY <1>1, <1>9, <1>a, <2>1 DEF SetFailed, Finish, Holding, Allowed, queueVars, mainVars
<1>10. CASE MainCheck \/ MainWait \/ SpuriousWake \/ Judge \/ Crash \/ UNCHANGED vars
  <2>1. UNCHANGED <<queue, toProcess, pc, marked, toPush>>
    BY <1>10 DEF MainCheck, MainWait, SpuriousWake, Judge, Crash, vars, queueVars
  <2> QED BY <1>1, <1>a, <2>1 DEF Started, Holding, Allowed
<1> QED BY <1>4, <1>5, <1>6, <1>7, <1>8, <1>9, <1>10, Steps DEF Working, Deciding

\* A step of a thread or of the main thread only starts threads and records
\* dependencies.
LEMMA Grows ==
  ASSUME IInv, [Next]_vars
  PROVE  /\ \A t \in Threads : pc[t] # "idle" => pc'[t] # "idle"
         /\ \A p \in Packages : depends[p] \subseteq depends'[p]
         /\ \A S \in SUBSET Packages : Closed(S)' => Closed(S)
<1>1. TypeOK
  BY DEF IInv
<1>2. \A t \in Threads : pc[t] # "idle" => pc'[t] # "idle"
  <2>1. CASE \E p \in Packages, n \in Slots : MainStart(p, n) \/ Working(p, n) \/ Finish(p, n)
    <3>1. PICK p \in Packages, n \in Slots : MainStart(p, n) \/ Working(p, n) \/ Finish(p, n)
      BY <2>1
    <3>2. \E s \in {"parse", "loop", "push", "fail", "end", "gone"} :
            pc' = [pc EXCEPT ![<<p, n>>] = s]
      BY <3>1 DEF MainStart, Working, ParseOk, ParseThrow, Mark, Push, SetFailed, Finish
    <3> QED BY <1>1, <3>2 DEF TypeOK
  <2>2. CASE Deciding \/ Crash \/ UNCHANGED vars
    BY <2>2 DEF Deciding, MainCheck, MainPop, MainWait, SpuriousWake, Judge, Crash, vars
  <2> QED BY <2>1, <2>2, Steps
<1>3. \A p \in Packages : depends[p] \subseteq depends'[p]
  <2>1. CASE \E p \in Packages, n \in Slots, D \in SUBSET Packages :
               ParseOk(p, n, D) \/ ParseThrow(p, n, D)
    BY <1>1, <2>1 DEF ParseOk, ParseThrow, TypeOK
  <2>2. CASE \E p \in Packages, n \in Slots, d \in Packages :
               \/ MainStart(p, n) \/ Mark(p, n, d) \/ Push(p, n, d)
               \/ SetFailed(p, n) \/ Finish(p, n)
    BY <2>2 DEF MainStart, Mark, Push, SetFailed, Finish
  <2>3. CASE Deciding \/ Crash \/ UNCHANGED vars
    BY <2>3 DEF Deciding, MainCheck, MainPop, MainWait, SpuriousWake, Judge, Crash, vars
  <2> QED BY <2>1, <2>2, <2>3, ParseAssumption, Steps DEF Working
<1> QED BY <1>2, <1>3 DEF Closed

\* Nothing is found in the initial state but the base package.
LEMMA FoundInit == Init => FoundInv
<1> SUFFICES ASSUME Init
             PROVE  FoundInv
  OBVIOUS
<1>1. Queued = {Base}
  BY DEF Init, Queued
<1>2. \A t \in Threads : pc[t] = "idle" /\ left[t] = {} /\ toPush[t] = {}
  BY DEF Init
<1>3. \A p \in Packages : <<p, 2>> \in Threads
  BY DEF Threads, Slots
<1>4. marked = {} /\ toProcess = {}
  BY DEF Init
<1> QED BY <1>1, <1>2, <1>3, <1>4 DEF FoundInv

\* A thread finds its own dependencies only.
LEMMA FoundStep ==
  ASSUME IInv, FoundInv, [Next]_vars
  PROVE  FoundInv'
<1>1. /\ TypeOK /\ MainInv
      /\ \A t \in Threads : left[t] \subseteq depends[t[1]] /\ t[1] \in Packages
      /\ \A d \in marked : \E p \in Packages :
           d \in depends[p] /\ \E n \in Slots : pc[<<p, n>>] # "idle"
  BY DEF IInv, FoundInv, Threads
<1>a. ASSUME NEW p \in Packages, NEW n \in Slots
      PROVE  <<p, n>> \in Threads /\ <<p, n>>[1] = p
  BY DEF Threads
<1>2. \A t \in Threads : left'[t] \subseteq depends'[t[1]]
  <2>1. CASE \E p \in Packages, n \in Slots, D \in SUBSET Packages :
               ParseOk(p, n, D) \/ ParseThrow(p, n, D)
    <3>1. PICK p \in Packages, n \in Slots, D \in SUBSET Packages :
            ParseOk(p, n, D) \/ ParseThrow(p, n, D)
      BY <2>1
    <3>2. \A t \in Threads : left'[t] \subseteq left[t]
            \/ (t = <<p, n>> /\ left'[t] = depends'[p])
      <4>1. <<p, n>> \in Threads /\ p \in Packages
              /\ depends \in [Packages -> SUBSET Packages] /\ left \in [Threads -> SUBSET Packages]
        BY <1>1, <1>a DEF TypeOK
      <4>2. depends'[p] = depends[p] \cup D
        BY <3>1, <4>1 DEF ParseOk, ParseThrow
      <4>3. left' = left \/ left' = [left EXCEPT ![<<p, n>>] = depends'[p]]
        BY <3>1, <4>2 DEF ParseOk, ParseThrow
      <4> QED BY <4>1, <4>3
    <3> QED BY <1>1, <1>a, <3>2, Grows
  <2>2. CASE \E p \in Packages, n \in Slots, d \in Packages :
               \/ MainStart(p, n) \/ Mark(p, n, d) \/ Push(p, n, d)
               \/ SetFailed(p, n) \/ Finish(p, n)
    <3>1. left' = left \/ \E t \in Threads, d \in Packages :
                             left' = [left EXCEPT ![t] = left[t] \ {d}]
      BY <1>a, <2>2 DEF MainStart, Mark, Push, SetFailed, Finish
    <3>2. left \in [Threads -> SUBSET Packages]
      BY <1>1 DEF TypeOK
    <3>3. \A t \in Threads : left'[t] \subseteq left[t]
      BY <3>1, <3>2
    <3> QED BY <1>1, <3>3, Grows
  <2>3. CASE Deciding \/ Crash \/ UNCHANGED vars
    <3>1. UNCHANGED <<left, depends>>
      BY <2>3 DEF Deciding, MainCheck, MainPop, MainWait, SpuriousWake, Judge, Crash, vars
    <3> QED BY <1>1, <3>1
  <2> QED BY <2>1, <2>2, <2>3, ParseAssumption, Steps DEF Working
<1>3. ASSUME NEW d \in marked'
      PROVE  \E p \in Packages : d \in depends'[p] /\ \E n \in Slots : pc'[<<p, n>>] # "idle"
  <2>1. CASE d \in marked
    <3>1. PICK p \in Packages, n \in Slots : d \in depends[p] /\ pc[<<p, n>>] # "idle"
      BY <1>1, <2>1
    <3>2. d \in depends'[p] /\ pc'[<<p, n>>] # "idle"
      BY <1>a, <3>1, Grows
    <3> QED BY <3>2
  <2>2. CASE d \notin marked
    <3>0. marked' # marked
      BY <1>3, <2>2
    <3>1. PICK p \in Packages, n \in Slots : Mark(p, n, d)
      <4>1. CASE \E p \in Packages, n \in Slots, e \in Packages : Mark(p, n, e)
        <5>1. PICK p \in Packages, n \in Slots, e \in Packages : Mark(p, n, e)
          BY <4>1
        <5>2. e = d
          BY <1>3, <2>2, <5>1 DEF Mark
        <5> QED BY <5>1, <5>2
      <4>2. CASE \E p \in Packages, n \in Slots, D \in SUBSET Packages, e \in Packages :
                   \/ ParseOk(p, n, D) \/ ParseThrow(p, n, D) \/ Push(p, n, e)
                   \/ SetFailed(p, n) \/ Finish(p, n) \/ MainStart(p, n)
        BY <3>0, <4>2 DEF ParseOk, ParseThrow, Push, SetFailed, Finish, MainStart
      <4>3. CASE Deciding \/ Crash \/ UNCHANGED vars
        BY <3>0, <4>3 DEF Deciding, MainCheck, MainPop, MainWait, SpuriousWake, Judge, Crash, vars
      <4> QED BY <4>1, <4>2, <4>3, ParseAssumption, Steps DEF Working
    <3>2. d \in depends[p] /\ pc[<<p, n>>] = "loop"
      BY <1>1, <1>a, <3>1 DEF Mark
    <3>3. d \in depends'[p] /\ pc'[<<p, n>>] # "idle"
      BY <1>a, <3>2, Grows
    <3> QED BY <3>3
  <2> QED BY <2>1, <2>2
<1>4. ASSUME NEW S \in SUBSET Packages, Base \in S, Closed(S)'
      PROVE  /\ marked' \cup Queued' \cup toProcess' \subseteq S
             /\ \A t \in Threads : pc'[t] # "idle" => t[1] \in S
             /\ \A t \in Threads : toPush'[t] \subseteq S
  <2>1. /\ marked \cup Queued \cup toProcess \subseteq S
        /\ \A t \in Threads : pc[t] # "idle" => t[1] \in S
        /\ \A t \in Threads : toPush[t] \subseteq S
        /\ Closed(S)
    <3>1. Closed(S)
      BY <1>4, Grows
    <3> QED BY <1>4, <3>1 DEF FoundInv
  <2>2. CASE \E p \in Packages, n \in Slots : MainStart(p, n)
    BY <1>1, <1>a, <2>1, <2>2 DEF MainStart, TypeOK, Queued
  <2>3. CASE \E p \in Packages, n \in Slots, d \in Packages : Mark(p, n, d)
    <3>1. PICK p \in Packages, n \in Slots, d \in Packages : Mark(p, n, d)
      BY <2>3
    <3>2. d \in S /\ pc[<<p, n>>] # "idle"
      <4>1. d \in depends[p] /\ p \in S /\ pc[<<p, n>>] # "idle"
        BY <1>1, <1>a, <2>1, <3>1 DEF Mark
      <4> QED BY <2>1, <4>1 DEF Closed
    <3>3. Queued' = Queued /\ toProcess' = toProcess /\ marked' = marked \cup {d}
          /\ \A t \in Threads : toPush'[t] \subseteq toPush[t] \cup {d}
      BY <1>1, <3>1 DEF Mark, Queued, queueVars, mainVars, TypeOK
    <3>4. \A t \in Threads : pc'[t] # "idle" => pc[t] # "idle"
      BY <1>1, <1>a, <3>1, <3>2 DEF Mark, TypeOK
    <3> QED BY <2>1, <3>2, <3>3, <3>4
  <2>4. CASE \E p \in Packages, n \in Slots, d \in Packages : Push(p, n, d)
    <3>1. PICK p \in Packages, n \in Slots, d \in Packages : Push(p, n, d)
      BY <2>4
    <3>2. Queued' = Queued \cup {d} /\ d \in S
      BY <1>1, <1>a, <2>1, <3>1, QueueAppend DEF Push, Queued, TypeOK
    <3>3. \A t \in Threads : pc'[t] # "idle" => pc[t] # "idle"
      BY <1>1, <1>a, <3>1 DEF Push, TypeOK
    <3> QED BY <1>1, <2>1, <3>1, <3>2, <3>3 DEF Push, mainVars, TypeOK
  <2>5. CASE \E p \in Packages, n \in Slots, D \in SUBSET Packages :
               \/ ParseOk(p, n, D) \/ ParseThrow(p, n, D) \/ SetFailed(p, n) \/ Finish(p, n)
    <3>1. UNCHANGED <<queue, toProcess, marked, toPush>>
      BY <2>5 DEF ParseOk, ParseThrow, SetFailed, Finish, queueVars, mainVars
    <3>2. \A t \in Threads : pc'[t] # "idle" => pc[t] # "idle"
      BY <1>1, <1>a, <2>5 DEF ParseOk, ParseThrow, SetFailed, Finish, TypeOK
    <3> QED BY <2>1, <3>1, <3>2 DEF Queued
  <2>6. CASE MainPop
    <3>1. UNCHANGED <<marked, pc, toPush>>
      BY <2>6 DEF MainPop
    <3>2. CASE queue = <<>>
      BY <2>1, <2>6, <3>1, <3>2 DEF MainPop, Queued
    <3>3. CASE queue # <<>>
      <4>1. toProcess' = {Head(queue)} /\ queue' = Tail(queue)
        BY <2>6, <3>3 DEF MainPop
      <4>2. Head(queue) = queue[1] /\ 1 \in 1 .. Len(queue)
            /\ \A i \in 1 .. Len(Tail(queue)) : i + 1 \in 1 .. Len(queue) /\ Tail(queue)[i] = queue[i + 1]
        BY <1>1, <3>3 DEF TypeOK
      <4>3. {Head(queue)} \subseteq Queued /\ Queued' \subseteq Queued
        BY <4>1, <4>2 DEF Queued
      <4> QED BY <2>1, <3>1, <4>1, <4>3
    <3> QED BY <3>2, <3>3
  <2>7. CASE MainCheck \/ MainWait \/ SpuriousWake \/ Judge \/ Crash \/ UNCHANGED vars
    <3>1. UNCHANGED <<queue, toProcess, pc, marked, toPush>>
      BY <2>7 DEF MainCheck, MainWait, SpuriousWake, Judge, Crash, vars, queueVars
    <3> QED BY <2>1, <3>1 DEF Queued
  <2> QED BY <2>2, <2>3, <2>4, <2>5, <2>6, <2>7, Steps DEF Working, Deciding
<1>5. ASSUME NEW p \in Packages, pc'[<<p, 2>>] # "idle"
      PROVE  pc'[<<p, 1>>] # "idle"
  <2>1. <<p, 1>> \in Threads /\ <<p, 2>> \in Threads /\ 1 \in Slots
    BY DEF Threads, Slots
  <2>2. CASE pc[<<p, 2>>] # "idle"
    BY <2>1, <2>2, Grows DEF FoundInv
  <2>3. CASE pc[<<p, 2>>] = "idle"
    <3>1. CASE \E q \in Packages, n \in Slots : MainStart(q, n)
      <4>1. PICK q \in Packages, n \in Slots : MainStart(q, n)
        BY <3>1
      <4>2. q = p /\ n = 2
        BY <1>1, <1>5, <2>1, <2>3, <4>1 DEF MainStart, TypeOK
      <4>3. pc[<<p, 1>>] # "idle"
        BY <2>1, <4>1, <4>2 DEF MainStart
      <4> QED BY <2>1, <4>3, Grows
    <3>2. CASE \E q \in Packages, n \in Slots : Working(q, n) \/ Finish(q, n)
      <4>1. PICK q \in Packages, n \in Slots : Working(q, n) \/ Finish(q, n)
        BY <3>2
      <4>2. pc[<<q, n>>] # "idle" /\ \E s : pc' = [pc EXCEPT ![<<q, n>>] = s]
        BY <4>1 DEF Working, ParseOk, ParseThrow, Mark, Push, SetFailed, Finish
      <4> QED BY <1>1, <1>5, <2>1, <2>3, <4>2 DEF TypeOK
    <3>3. CASE Deciding \/ Crash \/ UNCHANGED vars
      BY <1>5, <2>3, <3>3 DEF Deciding, MainCheck, MainPop, MainWait, SpuriousWake, Judge, Crash, vars
    <3> QED BY <3>1, <3>2, <3>3, Steps
  <2> QED BY <2>2, <2>3
<1> QED BY <1>2, <1>3, <1>4, <1>5 DEF FoundInv

\* When the base package is marked, what names it was found from it: a loop.
LEMMA MarkedBaseLoops ==
  ASSUME TypeOK, FoundInv, Base \in marked
  PROVE  Loop
<1> DEFINE U == {q \in Packages : \E C \in SUBSET Packages : q \in C /\ Closed(C) /\ Base \notin C}
           S == Packages \ U
<1>1. U \subseteq Packages /\ Base \notin U /\ Base \in S /\ S \in SUBSET Packages
  BY ParseAssumption
<1>2. \A q \in Packages : depends[q] \subseteq Packages
  BY DEF TypeOK
<1>3. Closed(U)
  <2> SUFFICES ASSUME NEW q \in U, NEW d \in depends[q]
               PROVE  d \in U
    BY DEF Closed
  <2>1. PICK C \in SUBSET Packages : q \in C /\ Closed(C) /\ Base \notin C
    OBVIOUS
  <2> QED BY <1>2, <2>1 DEF Closed
<1>4. ASSUME NEW q \in S, depends[q] \cap S = {}
      PROVE  FALSE
  <2>1. depends[q] \subseteq U /\ q \in Packages /\ q \notin U
    BY <1>2, <1>4
  <2>2. Closed(U \cup {q})
    BY <1>3, <2>1 DEF Closed
  <2>3. CASE q # Base
    BY <1>1, <2>1, <2>2, <2>3
  <2>4. CASE q = Base
    <3>1. PICK p \in Packages, n \in Slots : Base \in depends[p] /\ pc[<<p, n>>] # "idle"
      BY DEF FoundInv
    <3>2. <<p, n>> \in Threads /\ <<p, n>>[1] = p
      BY DEF Threads
    <3>3. U \cup {Base} \in SUBSET Packages
      BY <1>1
    <3>4. p \in U \cup {Base}
      <4> HIDE DEF U
      <4> QED BY <2>2, <2>4, <3>1, <3>2, <3>3 DEF FoundInv
    <3>5. Base \in U
      <4> HIDE DEF U
      <4> QED BY <1>3, <2>1, <2>4, <3>1, <3>4 DEF Closed
    <3> QED BY <1>1, <3>5
  <2> QED BY <2>3, <2>4
<1> HIDE DEF S
<1>5. S # {} /\ S \subseteq Packages /\ \A q \in S : depends[q] \cap S # {}
  BY <1>1, <1>4
<1> QED BY <1>5 DEF Loop

\* PackageQueue::push and processing_queued: no package has two threads but the
\* base package, and when that has two the phase does not end well.
THEOREM ParsedOnceHolds == Spec => []ParsedOnce
<1>1. IInv /\ OnceInv /\ FoundInv /\ [Next]_vars => (OnceInv /\ FoundInv)'
  BY OnceStep, FoundStep
<1>2. IInv /\ OnceInv /\ FoundInv => ParsedOnce
  <2> SUFFICES ASSUME IInv, OnceInv, FoundInv
               PROVE  ParsedOnce
    OBVIOUS
  <2>1. TypeOK /\ MainInv
    BY DEF IInv
  <2>2. ASSUME NEW p \in Packages
        PROVE  /\ Occurrences(p) + Cardinality(toProcess \cap {p}) + Cardinality(Started(p))
                    <= Allowed(p)
               /\ Cardinality(Started(p)) <= Allowed(p)
    <3>1. Allowed(p) \in Nat
      BY DEF Allowed
    <3>2. Occurrences(p) + Cardinality(toProcess \cap {p}) + Cardinality(Started(p))
            + Cardinality(Holding(p)) = Allowed(p)
      BY DEF OnceInv
    <3>3. \A i, j, k, l \in Nat : i + j + k <= i + j + k + l /\ k <= i + j + k + l
      OBVIOUS
    <3> QED BY <2>1, <3>1, <3>2, <3>3, CountsFinite
  <2>3. ASSUME NEW p \in Packages, pc[<<p, 2>>] # "idle"
        PROVE  p = Base /\ Base \in marked
    <3>1. Started(p) = Slots
      <4>1. pc[<<p, 1>>] # "idle"
        BY <2>3 DEF FoundInv
      <4> QED BY <2>3, <4>1 DEF Started, Slots
    <3>2. Cardinality(Slots) = 2
      <4>1. Slots = {1} \cup {2} /\ 2 \notin {1}
        BY DEF Slots
      <4>2. IsFiniteSet({1}) /\ Cardinality({1}) = 1
        BY FS_Singleton
      <4>3. Cardinality({1} \cup {2}) = Cardinality({1}) + 1
        BY <4>1, <4>2, FS_AddElement
      <4> QED BY <4>1, <4>2, <4>3
    <3>3. 2 <= Allowed(p)
      BY <2>2, <3>1, <3>2
    <3> QED BY <3>3 DEF Allowed
  <2>4. \A p \in Packages : Allowed(p) <= IF p = Base THEN 2 ELSE 1
    BY DEF Allowed
  <2>5. \A p \in Packages : Occurrences(p) + Cardinality(toProcess \cap {p})
                               + Cardinality(Started(p)) <= IF p = Base THEN 2 ELSE 1
    <3> SUFFICES ASSUME NEW p \in Packages
                 PROVE  Occurrences(p) + Cardinality(toProcess \cap {p})
                          + Cardinality(Started(p)) <= IF p = Base THEN 2 ELSE 1
      OBVIOUS
    <3>1. \A i, j, k, l, m \in Nat : i + j + k <= l /\ l <= m => i + j + k <= m
      OBVIOUS
    <3>2. Allowed(p) \in Nat /\ (IF p = Base THEN 2 ELSE 1) \in Nat
      BY DEF Allowed
    <3> QED BY <2>1, <2>2, <2>4, <3>1, <3>2, CountsFinite
  <2>6. pc[<<Base, 2>>] # "idle" => result # "complete"
    BY <2>1, <2>3, MarkedBaseLoops, ParseAssumption DEF MainInv
  <2> QED BY <2>3, <2>5, <2>6 DEF ParsedOnce, Started
<1> QED BY <1>1, <1>2, Invariance, OnceInit, FoundInit, PTL DEF Spec
=============================================================================
