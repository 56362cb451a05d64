-------------------------- MODULE PackageBuildProofs --------------------------
(***************************************************************************)
(* Package::build for any packages, any dependencies, any leftovers and    *)
(* any options.  The stacks of the threads are followed first, by the few  *)
(* ways in which a step can move them; what the calls on them have made    *)
(* sure of comes after that.                                               *)
(***************************************************************************)
EXTENDS PackageBuild, TLAPS

\* Only the call on top of a stack does something.
Nesting ==
  \A t \in Packages : \A i \in 2 .. Len(stack[t]) : stack[t][i].at \in {"deps", "local"}

\* A call that is past `enter' holds the lock of its package ...
Holding ==
  \A t \in Packages : \A i \in 1 .. Len(stack[t]) :
    stack[t][i].at # "enter" => lock[stack[t][i].pkg] = t

\* ... which no call below it is for.
Distinct ==
  \A t \in Packages : \A i, j \in 1 .. Len(stack[t]) :
    i < j /\ stack[t][i].at # "enter" => stack[t][i].pkg # stack[t][j].pkg

\* A lock that is held is held by such a call.
Held ==
  \A p \in Packages : lock[p] # NoThread =>
    \E i \in 1 .. Len(stack[lock[p]]) :
      stack[lock[p]][i].pkg = p /\ stack[lock[p]][i].at # "enter"

Idle == \A t \in Packages : status[t] # "running" => stack[t] = <<>>

StackInv == Nesting /\ Holding /\ Distinct /\ Held /\ Idle

-----------------------------------------------------------------------------
(* The ways in which a step moves the stacks.                              *)

Advance(t) ==
  /\ stack[t] # <<>> /\ Top(t).at # "enter"
  /\ \E place \in Places \ {"enter"}, todo \in SUBSET Packages : Goto(t, place, todo)
  /\ UNCHANGED <<lock, status>>

Acquire(t) ==
  /\ At(t, "enter") /\ lock[Top(t).pkg] = NoThread
  /\ \E todo \in SUBSET Packages : Goto(t, "deps", todo)
  /\ lock' = [lock EXCEPT ![Top(t).pkg] = t]
  /\ UNCHANGED status

Nest(t) ==
  /\ stack[t] # <<>> /\ Top(t).at \in {"deps", "local"}
  /\ \E d \in Packages, locally \in BOOLEAN : Recurse(t, d, locally)
  /\ UNCHANGED <<lock, status>>

Leave(t) ==
  /\ At(t, "enter")
  /\ stack' = [stack EXCEPT ![t] = Tail(@)]
  /\ UNCHANGED <<lock, status>>

Return(t) ==
  /\ stack[t] # <<>> /\ Top(t).at # "enter"
  /\ ReturnTrue(t)
  /\ UNCHANGED status

Begin(t) ==
  /\ status[t] = "idle"
  /\ status' = [status EXCEPT ![t] = "running"]
  /\ stack' = [stack EXCEPT ![t] = <<Call(t, FALSE)>>]
  /\ UNCHANGED lock

End(t) ==
  /\ stack[t] = <<>>
  /\ status' = [status EXCEPT ![t] = "ended"]
  /\ UNCHANGED <<stack, lock>>

Move(t) ==
  Advance(t) \/ Acquire(t) \/ Nest(t) \/ Leave(t) \/ Return(t) \/ Fail(t) \/ Begin(t) \/ End(t)

\* The stack is a sequence of calls, and its top its first.
LEMMA TopCall ==
  ASSUME TypeOK, NEW t \in Packages, stack[t] # <<>>
  PROVE  /\ stack[t] \in Seq(Calls) /\ Len(stack[t]) \in Nat /\ Len(stack[t]) >= 1
         /\ Top(t) = stack[t][1] /\ Top(t) \in Calls
         /\ Top(t).pkg \in Packages /\ Top(t).at \in Places /\ Top(t).locally \in BOOLEAN
         /\ Top(t).todo \in SUBSET Packages
<1>1. stack[t] \in Seq(Calls)
  BY DEF TypeOK
<1>2. Len(stack[t]) \in Nat /\ Len(stack[t]) >= 1 /\ Top(t) = stack[t][1] /\ Top(t) \in Calls
  BY <1>1 DEF Top
<1> QED
  BY <1>1, <1>2 DEF Calls

LEMMA GotoStack ==
  ASSUME TypeOK, NEW t \in Packages, stack[t] # <<>>,
         NEW place \in Places, NEW todo \in SUBSET Packages, Goto(t, place, todo)
  PROVE  /\ stack' \in [Packages -> Seq(Calls)]
         /\ \A u \in Packages : u # t => stack'[u] = stack[u]
         /\ Len(stack'[t]) = Len(stack[t])
         /\ stack'[t][1] = [stack[t][1] EXCEPT !.at = place, !.todo = todo]
         /\ \A i \in 2 .. Len(stack[t]) : stack'[t][i] = stack[t][i]
<1> DEFINE c == [stack[t][1] EXCEPT !.at = place, !.todo = todo]
<1>1. stack[t] \in Seq(Calls) /\ Len(stack[t]) \in Nat /\ Len(stack[t]) >= 1 /\ stack[t][1] \in Calls
  BY TopCall
<1>2. c \in Calls
  BY <1>1 DEF Calls
<1>3. Tail(stack[t]) \in Seq(Calls) /\ Len(Tail(stack[t])) = Len(stack[t]) - 1
      /\ \A i \in 1 .. Len(stack[t]) - 1 : Tail(stack[t])[i] = stack[t][i + 1]
  BY <1>1
<1>4. stack' = [stack EXCEPT ![t] = <<c>> \o Tail(stack[t])]
  BY <1>1 DEF Goto, TypeOK
<1> HIDE DEF c
<1> DEFINE new == <<c>> \o Tail(stack[t])
<1>5. new \in Seq(Calls) /\ Len(new) = Len(stack[t]) /\ new[1] = c
      /\ \A i \in 2 .. Len(stack[t]) : new[i] = stack[t][i]
  BY <1>1, <1>2, <1>3
<1>6. stack' = [stack EXCEPT ![t] = new]
  BY <1>4
<1> HIDE DEF new
<1>7. stack' \in [Packages -> Seq(Calls)] /\ stack'[t] = new /\ \A u \in Packages : u # t => stack'[u] = stack[u]
  BY <1>5, <1>6 DEF TypeOK
<1> QED
  BY <1>5, <1>7 DEF c

\* Goto changes the call on top of one stack only, and not its package.
LEMMA GotoCalls ==
  ASSUME TypeOK, NEW t \in Packages, stack[t] # <<>>,
         NEW place \in Places, NEW todo \in SUBSET Packages, Goto(t, place, todo)
  PROVE  /\ stack' \in [Packages -> Seq(Calls)]
         /\ 1 \in 1 .. Len(stack[t]) /\ Top(t) = stack[t][1]
         /\ stack'[t][1].pkg = stack[t][1].pkg /\ stack'[t][1].locally = stack[t][1].locally
         /\ stack'[t][1].at = place /\ stack'[t][1].todo = todo
         /\ \A u \in Packages :
              /\ Len(stack'[u]) = Len(stack[u])
              /\ \A i \in 1 .. Len(stack[u]) : ~(u = t /\ i = 1) => stack'[u][i] = stack[u][i]
              /\ \A i \in 1 .. Len(stack[u]) : stack'[u][i].pkg = stack[u][i].pkg
<1>1. /\ stack[t][1] \in Calls /\ Len(stack[t]) \in Nat /\ Len(stack[t]) >= 1 /\ Top(t) = stack[t][1]
  BY TopCall
<1>2. /\ stack' \in [Packages -> Seq(Calls)]
      /\ \A u \in Packages : u # t => stack'[u] = stack[u]
      /\ Len(stack'[t]) = Len(stack[t])
      /\ stack'[t][1] = [stack[t][1] EXCEPT !.at = place, !.todo = todo]
      /\ \A i \in 2 .. Len(stack[t]) : stack'[t][i] = stack[t][i]
  BY GotoStack, Zenon
<1>3. /\ stack'[t][1].pkg = stack[t][1].pkg /\ stack'[t][1].locally = stack[t][1].locally
      /\ stack'[t][1].at = place /\ stack'[t][1].todo = todo
  BY <1>1, <1>2 DEF Calls
<1>4. 1 \in 1 .. Len(stack[t]) /\ \A i \in 1 .. Len(stack[t]) : i = 1 \/ i \in 2 .. Len(stack[t])
  <2>1. \A n \in Nat : n >= 1 => 1 \in 1 .. n /\ \A i \in 1 .. n : i = 1 \/ i \in 2 .. n
    OBVIOUS
  <2> QED
    BY <1>1, <2>1, Zenon
<1>5. ASSUME NEW u \in Packages
      PROVE  /\ Len(stack'[u]) = Len(stack[u])
             /\ \A i \in 1 .. Len(stack[u]) : ~(u = t /\ i = 1) => stack'[u][i] = stack[u][i]
             /\ \A i \in 1 .. Len(stack[u]) : stack'[u][i].pkg = stack[u][i].pkg
  <2>1. CASE u # t
    BY <1>2, <2>1, Zenon
  <2>2. CASE u = t
    BY <1>2, <1>3, <1>4, <2>2, Zenon
  <2> QED
    BY <2>1, <2>2
<1> QED
  BY <1>1, <1>2, <1>3, <1>4, <1>5, Zenon

LEMMA PopStack ==
  ASSUME TypeOK, NEW t \in Packages, stack[t] # <<>>, stack' = [stack EXCEPT ![t] = Tail(@)]
  PROVE  /\ stack' \in [Packages -> Seq(Calls)]
         /\ \A u \in Packages : u # t => stack'[u] = stack[u]
         /\ Len(stack'[t]) = Len(stack[t]) - 1
         /\ \A i \in 1 .. Len(stack'[t]) : stack'[t][i] = stack[t][i + 1]
<1>1. stack[t] \in Seq(Calls) /\ Len(stack[t]) \in Nat /\ Len(stack[t]) >= 1
  BY TopCall
<1>2. Tail(stack[t]) \in Seq(Calls) /\ Len(Tail(stack[t])) = Len(stack[t]) - 1
      /\ \A i \in 1 .. Len(stack[t]) - 1 : Tail(stack[t])[i] = stack[t][i + 1]
  BY <1>1
<1>3. stack'[t] = Tail(stack[t]) /\ \A u \in Packages : u # t => stack'[u] = stack[u]
  BY DEF TypeOK
<1>4. stack' \in [Packages -> Seq(Calls)]
  BY <1>2 DEF TypeOK
<1> QED
  BY <1>2, <1>3, <1>4

LEMMA RecurseStack ==
  ASSUME TypeOK, NEW t \in Packages, stack[t] # <<>>,
         NEW d \in Packages, NEW locally \in BOOLEAN, Recurse(t, d, locally)
  PROVE  /\ stack' \in [Packages -> Seq(Calls)]
         /\ \A u \in Packages : u # t => stack'[u] = stack[u]
         /\ Len(stack'[t]) = Len(stack[t]) + 1
         /\ stack'[t][1] = Call(d, locally)
         /\ stack'[t][2] = [stack[t][1] EXCEPT !.todo = stack[t][1].todo \ {d}]
         /\ \A i \in 3 .. Len(stack'[t]) : stack'[t][i] = stack[t][i - 1]
<1> DEFINE b == Call(d, locally)
           c == [stack[t][1] EXCEPT !.todo = stack[t][1].todo \ {d}]
<1>1. stack[t] \in Seq(Calls) /\ Len(stack[t]) \in Nat /\ Len(stack[t]) >= 1 /\ stack[t][1] \in Calls
  BY TopCall
<1>2. b \in Calls /\ c \in Calls
  BY <1>1 DEF Calls, Call, Places
<1>3. Tail(stack[t]) \in Seq(Calls) /\ Len(Tail(stack[t])) = Len(stack[t]) - 1
      /\ \A i \in 1 .. Len(stack[t]) - 1 : Tail(stack[t])[i] = stack[t][i + 1]
  BY <1>1
<1>4. stack' = [stack EXCEPT ![t] = <<b, c>> \o Tail(stack[t])]
  <2>1. Top(t) = stack[t][1]
    BY TopCall
  <2> QED
    BY <2>1, Zenon DEF Recurse
<1> HIDE DEF b, c
<1> DEFINE new == <<b, c>> \o Tail(stack[t])
<1>5. new \in Seq(Calls) /\ Len(new) = Len(stack[t]) + 1 /\ new[1] = b /\ new[2] = c
      /\ \A i \in 3 .. Len(stack[t]) + 1 : new[i] = stack[t][i - 1]
  BY <1>1, <1>2, <1>3
<1>6. stack' = [stack EXCEPT ![t] = new]
  BY <1>4
<1> HIDE DEF new
<1>7. stack' \in [Packages -> Seq(Calls)] /\ stack'[t] = new /\ \A u \in Packages : u # t => stack'[u] = stack[u]
  BY <1>5, <1>6 DEF TypeOK
<1> QED
  BY <1>5, <1>7 DEF b, c

LEMMA FailStack ==
  ASSUME TypeOK, NEW t \in Packages, Fail(t)
  PROVE  /\ stack' \in [Packages -> Seq(Calls)]
         /\ \A u \in Packages : u # t => stack'[u] = stack[u]
         /\ Len(stack'[t]) = Len(stack[t]) - 1
         /\ Len(stack[t]) > 1 => stack'[t][1] = [stack[t][2] EXCEPT !.at = "fail"]
         /\ \A i \in 2 .. Len(stack'[t]) : stack'[t][i] = stack[t][i + 1]
<1>1. stack[t] \in Seq(Calls) /\ Len(stack[t]) \in Nat /\ Len(stack[t]) >= 1
  BY TopCall DEF Fail, At
<1>2. CASE Len(stack[t]) = 1
  <2>1. stack' = [stack EXCEPT ![t] = <<>>]
    BY <1>2 DEF Fail, TypeOK
  <2>2. stack' \in [Packages -> Seq(Calls)] /\ stack'[t] = <<>> /\ \A u \in Packages : u # t => stack'[u] = stack[u]
    BY <2>1 DEF TypeOK
  <2>3. Len(stack'[t]) = 0
    BY <2>2
  <2> QED
    BY <1>2, <2>2, <2>3
<1>3. CASE Len(stack[t]) > 1 /\ Len(stack[t]) # 1
  <2> DEFINE c == [stack[t][2] EXCEPT !.at = "fail"]
             rest == Tail(Tail(stack[t]))
  <2>1. c \in Calls
    <3>1. stack[t][2] \in Calls
      BY <1>1, <1>3
    <3> QED
      BY <3>1 DEF Calls, Places
  <2>2. Tail(stack[t]) \in Seq(Calls) /\ Len(Tail(stack[t])) = Len(stack[t]) - 1
        /\ \A i \in 1 .. Len(stack[t]) - 1 : Tail(stack[t])[i] = stack[t][i + 1]
    BY <1>1
  <2>3. rest \in Seq(Calls) /\ Len(rest) = Len(stack[t]) - 2
        /\ \A i \in 1 .. Len(stack[t]) - 2 : rest[i] = stack[t][i + 2]
    <3> DEFINE more == Tail(stack[t])
    <3>1. more \in Seq(Calls) /\ Len(more) = Len(stack[t]) - 1
          /\ \A i \in 1 .. Len(stack[t]) - 1 : more[i] = stack[t][i + 1]
      BY <2>2
    <3>2. rest = Tail(more)
      OBVIOUS
    <3> HIDE DEF more, rest
    <3>3. rest \in Seq(Calls) /\ Len(rest) = Len(more) - 1
          /\ \A i \in 1 .. Len(more) - 1 : rest[i] = more[i + 1]
      BY <1>1, <1>3, <3>1, <3>2
    <3> QED
      BY <1>1, <1>3, <3>1, <3>3
  <2>4. stack' = [stack EXCEPT ![t] = <<c>> \o rest]
    BY <1>3, Zenon DEF Fail
  <2> HIDE DEF c, rest
  <2> DEFINE new == <<c>> \o rest
  <2>5. new \in Seq(Calls) /\ Len(new) = Len(stack[t]) - 1 /\ new[1] = c
        /\ \A i \in 2 .. Len(stack[t]) - 1 : new[i] = stack[t][i + 1]
    <3>1. PICK n \in Nat : n = Len(stack[t]) /\ n > 1
      BY <1>1, <1>3
    <3>2. rest \in Seq(Calls) /\ Len(rest) = n - 2 /\ \A i \in 1 .. n - 2 : rest[i] = stack[t][i + 2]
      BY <2>3, <3>1
    <3>3. new \in Seq(Calls) /\ Len(new) = n - 1 /\ new[1] = c
          /\ \A i \in 2 .. n - 1 : new[i] = rest[i - 1]
      BY <3>1, <3>2, <2>1
    <3>4. \A i \in 2 .. n - 1 : new[i] = stack[t][i + 1]
      BY <3>1, <3>2, <3>3
    <3> QED
      BY <3>1, <3>3, <3>4
  <2>6. stack' = [stack EXCEPT ![t] = new]
    BY <2>4
  <2> HIDE DEF new
  <2>7. stack' \in [Packages -> Seq(Calls)] /\ stack'[t] = new /\ \A u \in Packages : u # t => stack'[u] = stack[u]
    BY <2>5, <2>6 DEF TypeOK
  <2> QED
    BY <2>5, <2>7 DEF c
<1>4. Len(stack[t]) = 1 \/ (Len(stack[t]) > 1 /\ Len(stack[t]) # 1)
  <2>1. \A n \in Nat : n >= 1 => n = 1 \/ (n > 1 /\ n # 1)
    OBVIOUS
  <2> QED
    BY <1>1, <2>1, Zenon
<1> QED
  BY <1>4, <1>2, <1>3

\* Every step of a thread is one of these moves.
LEMMA Moves ==
  ASSUME TypeOK, NEW t \in Packages, Start(t) \/ Build(t) \/ Finished(t) \/ SetFailed(t)
  PROVE  Move(t)
<1> USE DEF worldVars
<1>1. CASE Start(t)
  BY <1>1 DEF Start, Move, Begin
<1>2. CASE Finished(t)
  BY <1>2 DEF Finished, Move, End
<1>3. CASE SetFailed(t)
  BY <1>3 DEF SetFailed, Move, End
<1>4. CASE Fail(t)
  BY <1>4 DEF Move
<1>5. ASSUME stack[t] # <<>>
      PROVE  Deps[Top(t).pkg] \in SUBSET Packages /\ Locally[Top(t).pkg] \in SUBSET Packages
             /\ StagingPackages(Top(t).pkg) \in SUBSET Packages
             /\ \A q : Top(t).todo \ {q} \in SUBSET Packages
             /\ \A d \in Top(t).todo : d \in Packages
             /\ {} \in SUBSET Packages
  BY <1>5, TopCall, PackageBuildAssumption DEF StagingPackages
<1>6. CASE Enter(t)
  BY <1>5, <1>6, Zenon DEF Enter, At, Move, Acquire, Leave
<1>7. CASE DependLoop(t) \/ LocalLoop(t)
  BY <1>5, <1>7 DEF DependLoop, LocalLoop, At, Move, Nest, Advance, Places
<1>8. CASE Suppress(t)
  BY <1>5, <1>8 DEF Suppress, At, Move, Return, Advance, Places
<1>9. CASE PrepareNothing(t) \/ Prepare(t) \/ PrepareThrows(t) \/ HashWritten(t)
  BY <1>5, <1>9 DEF PrepareNothing, Prepare, PrepareThrows, HashWritten, At, Move, Advance, Places
<1>10. CASE NotRequired(t) \/ Restored(t) \/ Commit(t)
  BY <1>10 DEF NotRequired, Restored, Commit, At, Move, Return
<1>11. CASE Required(t) \/ FetchAndExtract(t)
  BY <1>5, <1>11 DEF Required, FetchAndExtract, At, Move, Advance, Places
<1>12. CASE ExtractStaging(t)
  BY <1>5, <1>12 DEF ExtractStaging, At, Move, Advance, Places
<1>13. CASE RunCommands(t) \/ Packed(t) \/ CommitThrows(t)
  BY <1>5, <1>13 DEF RunCommands, Packed, CommitThrows, At, Move, Advance, Places
<1> QED
  BY <1>1, <1>2, <1>3, <1>4, <1>6, <1>7, <1>8, <1>9, <1>10, <1>11, <1>12, <1>13 DEF Build

-----------------------------------------------------------------------------
(* The stacks and the locks.                                               *)

LEMMA AdvanceKeeps ==
  ASSUME TypeOK, StackInv, NEW t \in Packages, Advance(t)
  PROVE  StackInv'
<1> USE DEF StackInv
<1>1. PICK place \in Places, todo \in SUBSET Packages : place # "enter" /\ Goto(t, place, todo)
  BY DEF Advance
<1>2. /\ 1 \in 1 .. Len(stack[t]) /\ stack[t][1].at # "enter" /\ stack'[t][1].at # "enter"
      /\ lock' = lock /\ status' = status /\ stack[t] # <<>>
      /\ \A u \in Packages :
           /\ Len(stack'[u]) = Len(stack[u])
           /\ \A i \in 1 .. Len(stack[u]) : ~(u = t /\ i = 1) => stack'[u][i] = stack[u][i]
           /\ \A i \in 1 .. Len(stack[u]) : stack'[u][i].pkg = stack[u][i].pkg
  BY <1>1, GotoCalls DEF Advance
<1>3. \A u \in Packages : u # t => stack'[u] = stack[u]
  BY <1>1, GotoStack DEF Advance
<1>4. \A u \in Packages : \A i \in 1 .. Len(stack[u]) :
        (stack'[u][i].at = "enter") <=> (stack[u][i].at = "enter")
  BY <1>2
<1>5. Nesting'
  BY <1>2 DEF Nesting
<1>6. Holding'
  BY <1>2, <1>4 DEF Holding
<1>7. Distinct'
  BY <1>2, <1>4 DEF Distinct
<1>8. Held'
  <2> SUFFICES ASSUME NEW q \in Packages, lock[q] # NoThread
               PROVE  \E i \in 1 .. Len(stack'[lock[q]]) :
                        stack'[lock[q]][i].pkg = q /\ stack'[lock[q]][i].at # "enter"
    BY <1>2 DEF Held
  <2>1. lock[q] \in Packages
    BY DEF TypeOK
  <2>2. PICK i \in 1 .. Len(stack[lock[q]]) : stack[lock[q]][i].pkg = q /\ stack[lock[q]][i].at # "enter"
    BY DEF Held
  <2> QED
    BY <2>1, <2>2, <1>2, <1>4
<1>9. Idle'
  BY <1>2, <1>3 DEF Idle
<1> QED
  BY <1>5, <1>6, <1>7, <1>8, <1>9

LEMMA AcquireKeeps ==
  ASSUME TypeOK, StackInv, NEW t \in Packages, Acquire(t)
  PROVE  StackInv'
<1> USE DEF StackInv
<1>1. PICK todo \in SUBSET Packages : Goto(t, "deps", todo)
  BY DEF Acquire
<1> DEFINE p == stack[t][1].pkg
<1>2. /\ 1 \in 1 .. Len(stack[t]) /\ stack[t][1].at = "enter" /\ stack'[t][1].at = "deps"
      /\ stack'[t][1].pkg = p /\ stack[t] # <<>> /\ Top(t).pkg = p
      /\ \A u \in Packages :
           /\ Len(stack'[u]) = Len(stack[u])
           /\ \A i \in 1 .. Len(stack[u]) : ~(u = t /\ i = 1) => stack'[u][i] = stack[u][i]
           /\ \A i \in 1 .. Len(stack[u]) : stack'[u][i].pkg = stack[u][i].pkg
  BY <1>1, GotoCalls DEF Acquire, At, Places
<1>3. \A u \in Packages : u # t => stack'[u] = stack[u]
  BY <1>1, GotoStack DEF Acquire, At, Places
<1>4. p \in Packages
  BY <1>2, TopCall
<1> HIDE DEF p
<1>5. lock[p] = NoThread /\ lock'[p] = t /\ (\A q \in Packages : q # p => lock'[q] = lock[q])
      /\ status' = status /\ NoThread \notin Packages
  BY <1>2, <1>4, PackageBuildAssumption DEF Acquire, TypeOK
<1>6. \A u \in Packages : \A i \in 1 .. Len(stack[u]) :
        stack[u][i].at # "enter" => stack[u][i].pkg # p
  BY <1>5 DEF Holding
<1>7. Nesting'
  BY <1>2 DEF Nesting
<1>8. Holding'
  <2> SUFFICES ASSUME NEW u \in Packages, NEW i \in 1 .. Len(stack'[u]), stack'[u][i].at # "enter"
               PROVE  lock'[stack'[u][i].pkg] = u
    BY DEF Holding
  <2>1. CASE u = t /\ i = 1
    BY <2>1, <1>2, <1>5
  <2>2. CASE ~(u = t /\ i = 1)
    <3>1. i \in 1 .. Len(stack[u]) /\ stack'[u][i] = stack[u][i]
      BY <2>2, <1>2
    <3>2. stack[u][i].pkg # p /\ stack[u][i].pkg \in Packages
      <4>1. stack[u] \in Seq(Calls)
        BY DEF TypeOK
      <4>2. stack[u][i] \in Calls
        BY <3>1, <4>1
      <4> QED
        BY <3>1, <4>2, <1>6 DEF Calls
    <3> QED
      BY <3>1, <3>2, <1>5 DEF Holding
  <2> QED
    BY <2>1, <2>2
<1>9. Distinct'
  <2> SUFFICES ASSUME NEW u \in Packages, NEW i \in 1 .. Len(stack'[u]), NEW j \in 1 .. Len(stack'[u]),
                      i < j, stack'[u][i].at # "enter"
               PROVE  stack'[u][i].pkg # stack'[u][j].pkg
    BY DEF Distinct
  <2>1. i \in 1 .. Len(stack[u]) /\ j \in 1 .. Len(stack[u]) /\ j \in 2 .. Len(stack[u])
        /\ stack'[u][j] = stack[u][j]
    BY <1>2
  <2>2. CASE u = t /\ i = 1
    <3>1. stack[u][j].at # "enter"
      BY <2>1 DEF Nesting
    <3> QED
      BY <3>1, <2>1, <2>2, <1>2, <1>6
  <2>3. CASE ~(u = t /\ i = 1)
    BY <2>3, <2>1, <1>2 DEF Distinct
  <2> QED
    BY <2>2, <2>3
<1>10. Held'
  <2> SUFFICES ASSUME NEW q \in Packages, lock'[q] # NoThread
               PROVE  \E i \in 1 .. Len(stack'[lock'[q]]) :
                        stack'[lock'[q]][i].pkg = q /\ stack'[lock'[q]][i].at # "enter"
    BY DEF Held
  <2>1. CASE q = p
    <3>1. lock'[q] = t /\ 1 \in 1 .. Len(stack'[t]) /\ stack'[t][1].pkg = q /\ stack'[t][1].at # "enter"
      BY <2>1, <1>2, <1>5
    <3> QED
      BY <3>1, Zenon
  <2>2. CASE q # p
    <3>1. lock'[q] = lock[q] /\ lock[q] \in Packages
      BY <2>2, <1>5 DEF TypeOK
    <3>2. PICK i \in 1 .. Len(stack[lock[q]]) : stack[lock[q]][i].pkg = q /\ stack[lock[q]][i].at # "enter"
      BY <3>1 DEF Held
    <3>3. ~(lock[q] = t /\ i = 1)
      BY <3>2, <2>2 DEF p
    <3> QED
      BY <3>1, <3>2, <3>3, <1>2
  <2> QED
    BY <2>1, <2>2
<1>11. Idle'
  BY <1>2, <1>3, <1>5 DEF Idle
<1> QED
  BY <1>7, <1>8, <1>9, <1>10, <1>11

\* The call on top is gone; the one below it is now on top, perhaps changed.
Dropped(t) ==
  /\ \A u \in Packages : u # t => stack'[u] = stack[u]
  /\ \A i \in 1 .. Len(stack'[t]) :
       /\ i + 1 \in 2 .. Len(stack[t])
       /\ stack'[t][i].pkg = stack[t][i + 1].pkg
       /\ stack'[t][i].locally = stack[t][i + 1].locally
       /\ (stack'[t][i].at = "enter") <=> (stack[t][i + 1].at = "enter")
       /\ i \in 2 .. Len(stack'[t]) => stack'[t][i] = stack[t][i + 1]
  /\ \A i \in 2 .. Len(stack[t]) :
       /\ i - 1 \in 1 .. Len(stack'[t])
       /\ stack'[t][i - 1].pkg = stack[t][i].pkg
       /\ (stack'[t][i - 1].at = "enter") <=> (stack[t][i].at = "enter")

LEMMA PopDrops ==
  ASSUME TypeOK, NEW t \in Packages, stack[t] # <<>>, stack' = [stack EXCEPT ![t] = Tail(@)]
  PROVE  Dropped(t) /\ \A i \in 1 .. Len(stack'[t]) : stack'[t][i] = stack[t][i + 1]
<1>1. /\ \A u \in Packages : u # t => stack'[u] = stack[u]
      /\ Len(stack'[t]) = Len(stack[t]) - 1 /\ Len(stack[t]) \in Nat
      /\ \A i \in 1 .. Len(stack'[t]) : stack'[t][i] = stack[t][i + 1]
  BY PopStack, TopCall
<1> HIDE DEF Calls
<1>2. \A n \in Nat : /\ \A i \in 1 .. n - 1 : i + 1 \in 2 .. n
                     /\ \A i \in 2 .. n : i - 1 \in 1 .. n - 1 /\ (i - 1) + 1 = i
  OBVIOUS
<1>3. /\ \A i \in 1 .. Len(stack'[t]) : i + 1 \in 2 .. Len(stack[t])
      /\ \A i \in 2 .. Len(stack[t]) : i - 1 \in 1 .. Len(stack'[t]) /\ (i - 1) + 1 = i
  BY <1>1, <1>2, Zenon
<1>4. \A i \in 2 .. Len(stack[t]) : stack'[t][i - 1] = stack[t][i]
  BY <1>1, <1>3, Zenon
<1> QED
  BY <1>1, <1>3, <1>4, Zenon DEF Dropped

LEMMA FailDrops ==
  ASSUME TypeOK, Nesting, NEW t \in Packages, Fail(t)
  PROVE  Dropped(t) /\ (1 \in 1 .. Len(stack'[t]) => stack'[t][1].at = "fail")
<1>1. /\ \A u \in Packages : u # t => stack'[u] = stack[u]
      /\ Len(stack'[t]) = Len(stack[t]) - 1
      /\ Len(stack[t]) > 1 => stack'[t][1] = [stack[t][2] EXCEPT !.at = "fail"]
      /\ \A i \in 2 .. Len(stack'[t]) : stack'[t][i] = stack[t][i + 1]
  BY FailStack, Zenon
<1>2. stack[t] # <<>> /\ Len(stack[t]) \in Nat /\ stack[t] \in Seq(Calls)
  BY TopCall DEF Fail, At
<1>3. \A n \in Nat : /\ \A i \in 1 .. n - 1 : i + 1 \in 2 .. n /\ n > 1 /\ 2 \in 1 .. n /\ (i = 1 \/ i \in 2 .. n - 1)
                     /\ \A i \in 2 .. n : i - 1 \in 1 .. n - 1 /\ (i - 1) + 1 = i
  OBVIOUS
<1>4. /\ \A i \in 1 .. Len(stack'[t]) :
           /\ i + 1 \in 2 .. Len(stack[t]) /\ Len(stack[t]) > 1 /\ 2 \in 1 .. Len(stack[t])
           /\ (i = 1 \/ i \in 2 .. Len(stack'[t]))
      /\ \A i \in 2 .. Len(stack[t]) : i - 1 \in 1 .. Len(stack'[t]) /\ (i - 1) + 1 = i
  BY <1>1, <1>2, <1>3, Zenon
<1>5. ASSUME 1 \in 1 .. Len(stack'[t])
      PROVE  stack'[t][1].pkg = stack[t][1 + 1].pkg /\ stack'[t][1].at = "fail"
             /\ stack'[t][1].locally = stack[t][1 + 1].locally /\ stack[t][1 + 1].at # "enter"
  <2>1. Len(stack[t]) > 1 /\ 2 \in 1 .. Len(stack[t]) /\ 2 \in 2 .. Len(stack[t]) /\ 1 + 1 = 2
    BY <1>4, <1>5
  <2>2. stack[t][2] \in Calls
    BY <1>2, <2>1
  <2>3. stack[t][2].at # "enter"
    BY <2>1 DEF Nesting
  <2> QED
    BY <1>1, <2>1, <2>2, <2>3 DEF Calls
<1>6. ASSUME NEW i \in 1 .. Len(stack'[t])
      PROVE  /\ i + 1 \in 2 .. Len(stack[t])
             /\ stack'[t][i].pkg = stack[t][i + 1].pkg
             /\ stack'[t][i].locally = stack[t][i + 1].locally
             /\ (stack'[t][i].at = "enter") <=> (stack[t][i + 1].at = "enter")
             /\ i \in 2 .. Len(stack'[t]) => stack'[t][i] = stack[t][i + 1]
  <2>1. CASE i = 1
    BY <1>1, <1>4, <1>5, <2>1
  <2>2. CASE i \in 2 .. Len(stack'[t])
    BY <1>1, <1>4, <2>2
  <2> QED
    BY <1>4, <2>1, <2>2, Zenon
<1>7. ASSUME NEW i \in 2 .. Len(stack[t])
      PROVE  /\ i - 1 \in 1 .. Len(stack'[t])
             /\ stack'[t][i - 1].pkg = stack[t][i].pkg
             /\ (stack'[t][i - 1].at = "enter") <=> (stack[t][i].at = "enter")
  <2>1. i - 1 \in 1 .. Len(stack'[t]) /\ (i - 1) + 1 = i
    BY <1>4, Zenon
  <2> QED
    BY <2>1, <1>6, Zenon
<1> QED
  BY <1>1, <1>5, <1>6, <1>7, Zenon DEF Dropped

\* The call on top holds its lock, and lets it go.
LEMMA DropKeeps ==
  ASSUME TypeOK, StackInv, NEW t \in Packages, stack[t] # <<>>, Top(t).at # "enter",
         Dropped(t), Release(t)
  PROVE  Nesting' /\ Holding' /\ Distinct' /\ Held'
<1> USE DEF StackInv
<1> DEFINE p == stack[t][1].pkg
<1>1. Top(t) = stack[t][1] /\ p \in Packages /\ 1 \in 1 .. Len(stack[t])
  BY TopCall
<1>2. lock[p] = t /\ lock' = [lock EXCEPT ![p] = NoThread]
  BY <1>1 DEF Release, Holding
<1> HIDE DEF p
<1>3. /\ \A u \in Packages : u # t => stack'[u] = stack[u]
      /\ \A i \in 1 .. Len(stack'[t]) :
           /\ i + 1 \in 2 .. Len(stack[t])
           /\ stack'[t][i].pkg = stack[t][i + 1].pkg
           /\ (stack'[t][i].at = "enter") <=> (stack[t][i + 1].at = "enter")
           /\ i \in 2 .. Len(stack'[t]) => stack'[t][i] = stack[t][i + 1]
      /\ \A i \in 2 .. Len(stack[t]) :
           /\ i - 1 \in 1 .. Len(stack'[t])
           /\ stack'[t][i - 1].pkg = stack[t][i].pkg
           /\ (stack'[t][i - 1].at = "enter") <=> (stack[t][i].at = "enter")
  BY DEF Dropped
<1>4. \A q \in Packages : q # p => lock'[q] = lock[q]
  BY <1>2 DEF TypeOK
<1>5. \A n : \A i \in 2 .. n : i \in 1 .. n /\ 1 < i
  OBVIOUS
<1>6. \A i \in 2 .. Len(stack[t]) : i \in 1 .. Len(stack[t]) /\ stack[t][i].pkg # p
  BY <1>1, <1>5 DEF Distinct, p
<1>7. Nesting'
  <2> SUFFICES ASSUME NEW u \in Packages, NEW i \in 2 .. Len(stack'[u])
               PROVE  stack'[u][i].at \in {"deps", "local"}
    BY DEF Nesting
  <2>1. CASE u # t
    BY <2>1, <1>3 DEF Nesting
  <2>2. CASE u = t
    <3>1. i \in 1 .. Len(stack'[t]) /\ stack'[t][i] = stack[t][i + 1] /\ i + 1 \in 2 .. Len(stack[t])
      BY <2>2, <1>3, <1>5
    <3> QED
      BY <3>1, <2>2, Zenon DEF Nesting
  <2> QED
    BY <2>1, <2>2
<1>8. \A u \in Packages : \A i \in 1 .. Len(stack[u]) : stack[u][i].pkg \in Packages
  <2> SUFFICES ASSUME NEW u \in Packages, NEW i \in 1 .. Len(stack[u])
               PROVE  stack[u][i].pkg \in Packages
    OBVIOUS
  <2>1. stack[u] \in Seq(Calls)
    BY DEF TypeOK
  <2>2. stack[u][i] \in Calls
    BY <2>1
  <2> QED
    BY <2>2 DEF Calls
<1>9. Holding'
  <2> SUFFICES ASSUME NEW u \in Packages, NEW i \in 1 .. Len(stack'[u]), stack'[u][i].at # "enter"
               PROVE  lock'[stack'[u][i].pkg] = u
    BY DEF Holding
  <2>1. CASE u # t
    <3>1. stack'[u] = stack[u]
      BY <2>1, <1>3
    <3>2. lock[stack[u][i].pkg] = u
      BY <3>1 DEF Holding
    <3> QED
      BY <2>1, <3>1, <3>2, <1>2, <1>4, <1>8
  <2>2. CASE u = t
    <3> DEFINE k == i + 1
    <3>1. k \in 2 .. Len(stack[t]) /\ stack'[t][i].pkg = stack[t][k].pkg /\ stack[t][k].at # "enter"
      BY <2>2, <1>3
    <3> HIDE DEF k
    <3>2. k \in 1 .. Len(stack[t]) /\ lock[stack[t][k].pkg] = t /\ stack[t][k].pkg # p
      BY <3>1, <1>6 DEF Holding
    <3> QED
      BY <2>2, <3>1, <3>2, <1>4, <1>8
  <2> QED
    BY <2>1, <2>2
<1>10. Distinct'
  <2> SUFFICES ASSUME NEW u \in Packages, NEW i \in 1 .. Len(stack'[u]), NEW j \in 1 .. Len(stack'[u]),
                      i < j, stack'[u][i].at # "enter"
               PROVE  stack'[u][i].pkg # stack'[u][j].pkg
    BY DEF Distinct
  <2>1. CASE u # t
    BY <2>1, <1>3 DEF Distinct
  <2>2. CASE u = t
    <3> DEFINE k == i + 1
               l == j + 1
    <3>1. /\ k \in 2 .. Len(stack[t]) /\ stack'[t][i].pkg = stack[t][k].pkg /\ stack[t][k].at # "enter"
          /\ l \in 2 .. Len(stack[t]) /\ stack'[t][j].pkg = stack[t][l].pkg
      BY <2>2, <1>3
    <3>2. k < l
      OBVIOUS
    <3> HIDE DEF k, l
    <3> QED
      BY <2>2, <3>1, <3>2, <1>6 DEF Distinct
  <2> QED
    BY <2>1, <2>2
<1>11. Held'
  <2> SUFFICES ASSUME NEW q \in Packages, lock'[q] # NoThread
               PROVE  \E i \in 1 .. Len(stack'[lock'[q]]) :
                        stack'[lock'[q]][i].pkg = q /\ stack'[lock'[q]][i].at # "enter"
    BY DEF Held
  <2>1. q # p
    BY <1>1, <1>2 DEF TypeOK
  <2>2. lock'[q] = lock[q] /\ lock[q] \in Packages
    BY <2>1, <1>4 DEF TypeOK
  <2>3. PICK i \in 1 .. Len(stack[lock[q]]) : stack[lock[q]][i].pkg = q /\ stack[lock[q]][i].at # "enter"
    BY <2>2 DEF Held
  <2>4. CASE lock[q] # t
    BY <2>2, <2>3, <2>4, <1>3
  <2>5. CASE lock[q] = t
    <3>1. i \in 2 .. Len(stack[t])
      BY <2>1, <2>3, <2>5 DEF p
    <3> DEFINE k == i - 1
    <3>2. k \in 1 .. Len(stack'[t]) /\ stack'[t][k].pkg = q /\ stack'[t][k].at # "enter"
      BY <3>1, <2>3, <2>5, <1>3
    <3> HIDE DEF k
    <3> QED
      BY <3>2, <2>2, <2>5
  <2> QED
    BY <2>4, <2>5
<1> QED
  BY <1>7, <1>9, <1>10, <1>11

\* A thread with calls left is running.
LEMMA RunningCalls ==
  ASSUME StackInv, NEW t \in Packages, stack[t] # <<>>,
         \A u \in Packages : u # t => stack'[u] = stack[u], status' = status
  PROVE  Idle'
BY DEF StackInv, Idle

LEMMA ReturnKeeps ==
  ASSUME TypeOK, StackInv, NEW t \in Packages, Return(t)
  PROVE  StackInv'
<1>1. Dropped(t) /\ stack[t] # <<>> /\ Release(t) /\ Top(t).at # "enter" /\ status' = status
  BY PopDrops DEF Return, ReturnTrue
<1>2. Nesting' /\ Holding' /\ Distinct' /\ Held'
  BY <1>1, DropKeeps
<1>3. Idle'
  BY <1>1, RunningCalls DEF Dropped
<1> QED
  BY <1>2, <1>3 DEF StackInv

LEMMA FailKeeps ==
  ASSUME TypeOK, StackInv, NEW t \in Packages, Fail(t)
  PROVE  StackInv'
<1>1. Dropped(t) /\ stack[t] # <<>> /\ Release(t) /\ Top(t).at # "enter"
  BY FailDrops DEF Fail, At, StackInv
<1>2. Nesting' /\ Holding' /\ Distinct' /\ Held'
  BY <1>1, DropKeeps
<1>3. Idle'
  <2>1. CASE Len(stack[t]) = 1
    <3>1. stack'[t] = <<>> /\ \A u \in Packages : u # t => stack'[u] = stack[u] /\ status'[u] = status[u]
      BY <2>1 DEF Fail, TypeOK
    <3> QED
      BY <3>1 DEF StackInv, Idle
  <2>2. CASE Len(stack[t]) # 1
    <3>1. status' = status
      BY <2>2 DEF Fail, TypeOK
    <3> QED
      BY <1>1, <3>1, RunningCalls DEF Dropped
  <2> QED
    BY <2>1, <2>2
<1> QED
  BY <1>2, <1>3 DEF StackInv

LEMMA LeaveKeeps ==
  ASSUME TypeOK, StackInv, NEW t \in Packages, Leave(t)
  PROVE  StackInv'
<1> USE DEF StackInv
<1>1. stack[t] # <<>> /\ stack[t][1].at = "enter" /\ lock' = lock /\ status' = status
  BY TopCall DEF Leave, At
<1>2. Dropped(t) /\ \A i \in 1 .. Len(stack'[t]) : stack'[t][i] = stack[t][i + 1]
  BY <1>1, PopDrops DEF Leave
<1>3. \A u \in Packages : u # t => stack'[u] = stack[u]
  BY <1>2 DEF Dropped
<1>4. \A i \in 1 .. Len(stack'[t]) : i + 1 \in 2 .. Len(stack[t]) /\ stack'[t][i] = stack[t][i + 1]
  BY <1>2 DEF Dropped
<1>5. \A i \in 2 .. Len(stack[t]) :
        /\ i - 1 \in 1 .. Len(stack'[t])
        /\ stack'[t][i - 1].pkg = stack[t][i].pkg
        /\ (stack'[t][i - 1].at = "enter") <=> (stack[t][i].at = "enter")
  BY <1>2 DEF Dropped
<1>6. \A n : \A i \in 2 .. n : i \in 1 .. n /\ 1 < i
  OBVIOUS
<1>7. Nesting'
  BY <1>3, <1>4, <1>6 DEF Nesting
<1>8. Holding'
  BY <1>1, <1>3, <1>4, <1>6 DEF Holding
<1>9. Distinct'
  <2> SUFFICES ASSUME NEW u \in Packages, NEW i \in 1 .. Len(stack'[u]), NEW j \in 1 .. Len(stack'[u]),
                      i < j, stack'[u][i].at # "enter"
               PROVE  stack'[u][i].pkg # stack'[u][j].pkg
    BY DEF Distinct
  <2>1. CASE u # t
    BY <2>1, <1>3 DEF Distinct
  <2>2. CASE u = t
    <3> DEFINE k == i + 1
               l == j + 1
    <3>1. /\ k \in 2 .. Len(stack[t]) /\ stack'[t][i] = stack[t][k]
          /\ l \in 2 .. Len(stack[t]) /\ stack'[t][j] = stack[t][l]
      BY <2>2, <1>4
    <3>2. k < l
      OBVIOUS
    <3> HIDE DEF k, l
    <3> QED
      BY <2>2, <3>1, <3>2, <1>6 DEF Distinct
  <2> QED
    BY <2>1, <2>2
<1>10. Held'
  <2> SUFFICES ASSUME NEW q \in Packages, lock[q] # NoThread
               PROVE  \E i \in 1 .. Len(stack'[lock[q]]) :
                        stack'[lock[q]][i].pkg = q /\ stack'[lock[q]][i].at # "enter"
    BY <1>1 DEF Held
  <2>1. lock[q] \in Packages
    BY DEF TypeOK
  <2>2. PICK i \in 1 .. Len(stack[lock[q]]) : stack[lock[q]][i].pkg = q /\ stack[lock[q]][i].at # "enter"
    BY DEF Held
  <2>3. CASE lock[q] # t
    BY <2>1, <2>2, <2>3, <1>3
  <2>4. CASE lock[q] = t
    <3>1. i \in 2 .. Len(stack[t])
      BY <2>2, <2>4, <1>1
    <3> DEFINE k == i - 1
    <3>2. k \in 1 .. Len(stack'[t]) /\ stack'[t][k].pkg = q /\ stack'[t][k].at # "enter"
      BY <3>1, <2>2, <2>4, <1>5
    <3> HIDE DEF k
    <3> QED
      BY <3>2, <2>4
  <2> QED
    BY <2>3, <2>4
<1>11. Idle'
  BY <1>1, <1>3, RunningCalls
<1> QED
  BY <1>7, <1>8, <1>9, <1>10, <1>11

\* Recurse pushes one call and takes its package off the loop of the caller.
LEMMA RecurseCalls ==
  ASSUME TypeOK, NEW t \in Packages, stack[t] # <<>>,
         NEW d \in Packages, NEW locally \in BOOLEAN, Recurse(t, d, locally)
  PROVE  /\ \A u \in Packages : u # t => stack'[u] = stack[u]
         /\ 1 \in 1 .. Len(stack'[t]) /\ 2 \in 1 .. Len(stack'[t]) /\ 1 \in 1 .. Len(stack[t])
         /\ stack'[t][1] = Call(d, locally)
         /\ stack'[t][2].pkg = stack[t][1].pkg /\ stack'[t][2].at = stack[t][1].at
         /\ stack'[t][2].todo = stack[t][1].todo \ {d} /\ stack'[t][2].locally = stack[t][1].locally
         /\ \A i \in 1 .. Len(stack'[t]) : i = 1 \/ i = 2 \/ (i - 1 \in 2 .. Len(stack[t]) /\ i - 1 # 1 /\ stack'[t][i] = stack[t][i - 1])
         /\ \A i \in 1 .. Len(stack[t]) :
              /\ i + 1 \in 1 .. Len(stack'[t])
              /\ stack'[t][i + 1].pkg = stack[t][i].pkg /\ stack'[t][i + 1].at = stack[t][i].at
<1>1. /\ \A u \in Packages : u # t => stack'[u] = stack[u]
      /\ Len(stack'[t]) = Len(stack[t]) + 1
      /\ stack'[t][1] = Call(d, locally)
      /\ stack'[t][2] = [stack[t][1] EXCEPT !.todo = stack[t][1].todo \ {d}]
      /\ \A i \in 3 .. Len(stack'[t]) : stack'[t][i] = stack[t][i - 1]
  BY RecurseStack
<1>2. stack[t][1] \in Calls /\ Len(stack[t]) \in Nat /\ Len(stack[t]) >= 1
  BY TopCall
<1>3. /\ stack'[t][2].pkg = stack[t][1].pkg /\ stack'[t][2].at = stack[t][1].at
      /\ stack'[t][2].todo = stack[t][1].todo \ {d} /\ stack'[t][2].locally = stack[t][1].locally
  BY <1>1, <1>2 DEF Calls
<1>4. \A n \in Nat : n >= 1 =>
        /\ 1 \in 1 .. n + 1 /\ 2 \in 1 .. n + 1 /\ 1 \in 1 .. n
        /\ \A i \in 1 .. n + 1 : i = 1 \/ i = 2 \/ (i \in 3 .. n + 1 /\ i - 1 \in 2 .. n /\ i - 1 # 1)
        /\ \A i \in 1 .. n : /\ i + 1 \in 1 .. n + 1
                             /\ (i + 1) - 1 = i
                             /\ (i = 1 /\ i + 1 = 2) \/ i + 1 \in 3 .. n + 1
  OBVIOUS
<1>5. /\ 1 \in 1 .. Len(stack'[t]) /\ 2 \in 1 .. Len(stack'[t]) /\ 1 \in 1 .. Len(stack[t])
      /\ \A i \in 1 .. Len(stack'[t]) :
           i = 1 \/ i = 2 \/ (i \in 3 .. Len(stack'[t]) /\ i - 1 \in 2 .. Len(stack[t]) /\ i - 1 # 1)
      /\ \A i \in 1 .. Len(stack[t]) : /\ i + 1 \in 1 .. Len(stack'[t])
                                       /\ (i + 1) - 1 = i
                                       /\ (i = 1 /\ i + 1 = 2) \/ i + 1 \in 3 .. Len(stack'[t])
  BY <1>1, <1>2, <1>4, Zenon
<1>6. ASSUME NEW i \in 1 .. Len(stack[t])
      PROVE  /\ i + 1 \in 1 .. Len(stack'[t])
             /\ stack'[t][i + 1].pkg = stack[t][i].pkg /\ stack'[t][i + 1].at = stack[t][i].at
  <2>1. CASE i = 1 /\ i + 1 = 2
    BY <2>1, <1>3, <1>5, Zenon
  <2>2. CASE i + 1 \in 3 .. Len(stack'[t])
    <3> DEFINE k == i + 1
    <3>1. k \in 3 .. Len(stack'[t]) /\ k - 1 = i /\ k \in 1 .. Len(stack'[t])
      BY <2>2, <1>5
    <3> HIDE DEF k
    <3>2. stack'[t][k] = stack[t][i]
      BY <3>1, <1>1
    <3> QED
      BY <3>1, <3>2, Zenon DEF k
  <2> QED
    BY <2>1, <2>2, <1>5, Zenon
<1> QED
  BY <1>1, <1>3, <1>5, <1>6, Zenon

LEMMA NestKeeps ==
  ASSUME TypeOK, StackInv, NEW t \in Packages, Nest(t)
  PROVE  StackInv'
<1> USE DEF StackInv
<1>1. PICK d \in Packages, locally \in BOOLEAN : Recurse(t, d, locally)
  BY DEF Nest
<1>2. stack[t] # <<>> /\ stack[t][1].at \in {"deps", "local"} /\ lock' = lock /\ status' = status
  BY TopCall DEF Nest
<1>3. \A u \in Packages : u # t => stack'[u] = stack[u]
  BY <1>1, <1>2, RecurseCalls
<1>4. stack'[t][1].at = "enter" /\ stack'[t][2].at = stack[t][1].at /\ stack'[t][2].pkg = stack[t][1].pkg
      /\ 1 \in 1 .. Len(stack[t])
  <2>1. Call(d, locally).at = "enter"
    BY DEF Call
  <2> QED
    BY <1>1, <1>2, <2>1, RecurseCalls
<1>5. \A i \in 1 .. Len(stack'[t]) : i = 1 \/ i = 2 \/ (i - 1 \in 2 .. Len(stack[t]) /\ i - 1 # 1 /\ stack'[t][i] = stack[t][i - 1])
  BY <1>1, <1>2, RecurseCalls
<1>6. \A i \in 1 .. Len(stack[t]) :
        /\ i + 1 \in 1 .. Len(stack'[t])
        /\ stack'[t][i + 1].pkg = stack[t][i].pkg /\ stack'[t][i + 1].at = stack[t][i].at
  BY <1>1, <1>2, RecurseCalls
<1>7. \A n : \A i \in 2 .. n : i \in 1 .. n /\ i # 1
  OBVIOUS
\* The call that is now at place i was at place i - 1, or is new.
<1>8. \A i \in 1 .. Len(stack'[t]) :
        i = 1 \/ (i - 1 \in 1 .. Len(stack[t]) /\ stack'[t][i].pkg = stack[t][i - 1].pkg
                 /\ stack'[t][i].at = stack[t][i - 1].at)
  BY <1>4, <1>5, <1>7
<1>9. Nesting'
  <2> SUFFICES ASSUME NEW u \in Packages, NEW i \in 2 .. Len(stack'[u])
               PROVE  stack'[u][i].at \in {"deps", "local"}
    BY DEF Nesting
  <2>1. CASE u # t
    BY <2>1, <1>3 DEF Nesting
  <2>2. CASE u = t
    <3>1. i \in 1 .. Len(stack'[t]) /\ i # 1
      BY <2>2, <1>7
    <3> QED
      BY <3>1, <2>2, <1>2, <1>4, <1>5 DEF Nesting
  <2> QED
    BY <2>1, <2>2
<1>10. Holding'
  <2> SUFFICES ASSUME NEW u \in Packages, NEW i \in 1 .. Len(stack'[u]), stack'[u][i].at # "enter"
               PROVE  lock[stack'[u][i].pkg] = u
    BY <1>2 DEF Holding
  <2>1. CASE u # t
    BY <2>1, <1>3 DEF Holding
  <2>2. CASE u = t
    <3> DEFINE k == i - 1
    <3>1. k \in 1 .. Len(stack[t]) /\ stack'[t][i].pkg = stack[t][k].pkg /\ stack[t][k].at # "enter"
      BY <2>2, <1>4, <1>8
    <3> HIDE DEF k
    <3> QED
      BY <3>1, <2>2 DEF Holding
  <2> QED
    BY <2>1, <2>2
<1>11. Distinct'
  <2> SUFFICES ASSUME NEW u \in Packages, NEW i \in 1 .. Len(stack'[u]), NEW j \in 1 .. Len(stack'[u]),
                      i < j, stack'[u][i].at # "enter"
               PROVE  stack'[u][i].pkg # stack'[u][j].pkg
    BY DEF Distinct
  <2>1. CASE u # t
    BY <2>1, <1>3 DEF Distinct
  <2>2. CASE u = t
    <3> DEFINE k == i - 1
               l == j - 1
    <3>1. i # 1 /\ j # 1
      BY <2>2, <1>4
    <3>2. /\ k \in 1 .. Len(stack[t]) /\ stack'[t][i].pkg = stack[t][k].pkg /\ stack[t][k].at # "enter"
          /\ l \in 1 .. Len(stack[t]) /\ stack'[t][j].pkg = stack[t][l].pkg
      BY <2>2, <3>1, <1>8
    <3>3. k < l
      OBVIOUS
    <3> HIDE DEF k, l
    <3> QED
      BY <2>2, <3>2, <3>3 DEF Distinct
  <2> QED
    BY <2>1, <2>2
<1>12. Held'
  <2> SUFFICES ASSUME NEW q \in Packages, lock[q] # NoThread
               PROVE  \E i \in 1 .. Len(stack'[lock[q]]) :
                        stack'[lock[q]][i].pkg = q /\ stack'[lock[q]][i].at # "enter"
    BY <1>2 DEF Held
  <2>1. lock[q] \in Packages
    BY DEF TypeOK
  <2>2. PICK i \in 1 .. Len(stack[lock[q]]) : stack[lock[q]][i].pkg = q /\ stack[lock[q]][i].at # "enter"
    BY DEF Held
  <2>3. CASE lock[q] # t
    BY <2>1, <2>2, <2>3, <1>3
  <2>4. CASE lock[q] = t
    <3> DEFINE k == i + 1
    <3>1. k \in 1 .. Len(stack'[t]) /\ stack'[t][k].pkg = q /\ stack'[t][k].at # "enter"
      BY <2>2, <2>4, <1>6
    <3> HIDE DEF k
    <3> QED
      BY <3>1, <2>4
  <2> QED
    BY <2>3, <2>4
<1>13. Idle'
  BY <1>2, <1>3, RunningCalls
<1> QED
  BY <1>9, <1>10, <1>11, <1>12, <1>13

LEMMA BeginKeeps ==
  ASSUME TypeOK, StackInv, NEW t \in Packages, Begin(t)
  PROVE  StackInv'
<1> USE DEF StackInv
<1>1. stack[t] = <<>> /\ stack'[t] = <<Call(t, FALSE)>> /\ lock' = lock
      /\ \A u \in Packages : u # t => stack'[u] = stack[u] /\ status'[u] = status[u]
  BY DEF Begin, Idle, TypeOK
<1>2. stack'[t][1].at = "enter" /\ Len(stack'[t]) = 1
  BY <1>1 DEF Call
<1>3. \A i \in 1 .. 1 : i = 1 /\ i \notin 2 .. 1
  OBVIOUS
<1>4. Nesting'
  <2> SUFFICES ASSUME NEW u \in Packages, NEW i \in 2 .. Len(stack'[u])
               PROVE  stack'[u][i].at \in {"deps", "local"}
    BY DEF Nesting
  <2>1. CASE u = t
    <3>1. i \in 2 .. 1
      BY <2>1, <1>2
    <3> QED
      BY <3>1
  <2>2. CASE u # t
    BY <2>2, <1>1 DEF Nesting
  <2> QED
    BY <2>1, <2>2
<1>5. Holding'
  <2> SUFFICES ASSUME NEW u \in Packages, NEW i \in 1 .. Len(stack'[u]), stack'[u][i].at # "enter"
               PROVE  lock[stack'[u][i].pkg] = u
    BY <1>1 DEF Holding
  <2>1. u # t
    BY <1>2, <1>3
  <2> QED
    BY <2>1, <1>1 DEF Holding
<1>6. Distinct'
  <2> SUFFICES ASSUME NEW u \in Packages, NEW i \in 1 .. Len(stack'[u]), NEW j \in 1 .. Len(stack'[u]),
                      i < j, stack'[u][i].at # "enter"
               PROVE  stack'[u][i].pkg # stack'[u][j].pkg
    BY DEF Distinct
  <2>1. u # t
    BY <1>2, <1>3
  <2> QED
    BY <2>1, <1>1 DEF Distinct
<1>7. Held'
  <2> SUFFICES ASSUME NEW q \in Packages, lock[q] # NoThread
               PROVE  \E i \in 1 .. Len(stack'[lock[q]]) :
                        stack'[lock[q]][i].pkg = q /\ stack'[lock[q]][i].at # "enter"
    BY <1>1 DEF Held
  <2>1. PICK i \in 1 .. Len(stack[lock[q]]) : stack[lock[q]][i].pkg = q /\ stack[lock[q]][i].at # "enter"
    BY DEF Held
  <2>2. lock[q] # t
    BY <2>1, <1>1
  <2>3. stack'[lock[q]] = stack[lock[q]]
    BY <2>2, <1>1 DEF TypeOK
  <2> QED
    BY <2>1, <2>3
<1>8. Idle'
  BY <1>1 DEF Idle, Begin, TypeOK
<1> QED
  BY <1>4, <1>5, <1>6, <1>7, <1>8

LEMMA StackStep ==
  ASSUME TypeOK, StackInv, NEW t \in Packages, Move(t)
  PROVE  StackInv'
<1>1. CASE End(t)
  BY <1>1 DEF StackInv, End, Nesting, Holding, Distinct, Held, Idle, TypeOK
<1> QED
  BY <1>1, AdvanceKeeps, AcquireKeeps, NestKeeps, LeaveKeeps, ReturnKeeps, FailKeeps, BeginKeeps DEF Move

LEMMA MoveTypes ==
  ASSUME TypeOK, StackInv, NEW t \in Packages, Move(t)
  PROVE  /\ stack' \in [Packages -> Seq(Calls)]
         /\ lock' \in [Packages -> Packages \cup {NoThread}]
         /\ status' \in [Packages -> {"idle", "running", "failing", "ended"}]
<1>1. CASE Advance(t)
  <2>1. PICK place \in Places, todo \in SUBSET Packages : Goto(t, place, todo)
    BY <1>1 DEF Advance
  <2>2. stack' \in [Packages -> Seq(Calls)]
    BY <1>1, <2>1, GotoStack DEF Advance
  <2> QED
    BY <1>1, <2>2 DEF Advance, TypeOK
<1>2. CASE Acquire(t)
  <2>1. PICK todo \in SUBSET Packages : Goto(t, "deps", todo)
    BY <1>2 DEF Acquire
  <2>2. stack' \in [Packages -> Seq(Calls)]
    BY <1>2, <2>1, GotoStack DEF Acquire, At, Places
  <2> QED
    BY <1>2, <2>2 DEF Acquire, TypeOK
<1>3. CASE Nest(t)
  <2>1. PICK d \in Packages, locally \in BOOLEAN : Recurse(t, d, locally)
    BY <1>3 DEF Nest
  <2>2. stack' \in [Packages -> Seq(Calls)]
    BY <1>3, <2>1, RecurseStack DEF Nest
  <2> QED
    BY <1>3, <2>2 DEF Nest, TypeOK
<1>4. CASE Leave(t)
  BY <1>4, PopStack DEF Leave, At, TypeOK
<1>5. CASE Return(t)
  <2>1. stack' \in [Packages -> Seq(Calls)]
    BY <1>5, PopStack DEF Return, ReturnTrue
  <2> QED
    BY <1>5, <2>1 DEF Return, ReturnTrue, Release, TypeOK
<1>6. CASE Fail(t)
  <2>1. stack' \in [Packages -> Seq(Calls)]
    BY <1>6, FailStack
  <2> QED
    BY <1>6, <2>1 DEF Fail, Release, TypeOK
<1>7. CASE Begin(t)
  <2>1. Call(t, FALSE) \in Calls
    BY DEF Call, Calls, Places
  <2>2. \A c \in Calls : <<c>> \in Seq(Calls)
    OBVIOUS
  <2>3. <<Call(t, FALSE)>> \in Seq(Calls)
    BY <2>1, <2>2, Zenon
  <2> QED
    BY <1>7, <2>3 DEF Begin, TypeOK
<1>8. CASE End(t)
  BY <1>8 DEF End, TypeOK
<1> QED
  BY <1>1, <1>2, <1>3, <1>4, <1>5, <1>6, <1>7, <1>8 DEF Move

\* The flags, the hashes and the files keep their types; what was built is built.
LEMMA DataTypes ==
  ASSUME TypeOK, NEW t \in Packages, Start(t) \/ Build(t) \/ Finished(t) \/ SetFailed(t)
  PROVE  /\ built' \in [Packages -> BOOLEAN] /\ wasBuilt' \in [Packages -> BOOLEAN]
         /\ hash' \in [Packages -> {"empty", "set", "writing"}]
         /\ newInfo' \in [Packages -> BOOLEAN] /\ info' \in [Packages -> BOOLEAN]
         /\ tar' \in [Packages -> {"none", "partial", "whole"}]
         /\ torn' \subseteq Packages /\ failed' \in BOOLEAN
         /\ suppressed' \subseteq Packages /\ fetchOnly' \in BOOLEAN
         /\ \A p \in Packages : wasBuilt'[p] => built'[p]
<1> USE DEF TypeOK, worldVars, flagVars, diskVars, optionVars
<1>1. CASE Start(t) \/ Finished(t) \/ SetFailed(t) \/ Fail(t)
  BY <1>1 DEF Start, Finished, SetFailed, Fail
<1>2. CASE Enter(t) \/ DependLoop(t) \/ LocalLoop(t) \/ FetchAndExtract(t) \/ PrepareNothing(t)
           \/ PrepareThrows(t)
  BY <1>2 DEF Enter, DependLoop, LocalLoop, FetchAndExtract, PrepareNothing, PrepareThrows
<1>3. CASE Suppress(t)
  BY <1>3 DEF Suppress
<1>4. CASE Prepare(t) \/ HashWritten(t)
  BY <1>4 DEF Prepare, HashWritten
<1>5. CASE NotRequired(t) \/ Restored(t)
  <2>1. \/ newInfo' = newInfo /\ info' = info /\ tar' = tar
        \/ /\ newInfo' = [newInfo EXCEPT ![Top(t).pkg] = FALSE]
           /\ info' = [info EXCEPT ![Top(t).pkg] = TRUE]
           /\ tar' = [tar EXCEPT ![Top(t).pkg] = "whole"]
    BY <1>5 DEF NotRequired, Restored
  <2>2. /\ newInfo' \in [Packages -> BOOLEAN] /\ info' \in [Packages -> BOOLEAN]
        /\ tar' \in [Packages -> {"none", "partial", "whole"}]
    BY <2>1
  <2>3. built' = [built EXCEPT ![Top(t).pkg] = TRUE] /\ wasBuilt' = wasBuilt
    BY <1>5 DEF NotRequired, Restored
  <2>4. built' \in [Packages -> BOOLEAN] /\ \A p \in Packages : wasBuilt'[p] => built'[p]
    BY <2>3
  <2> QED
    BY <1>5, <2>2, <2>3, <2>4 DEF NotRequired, Restored
<1>6. CASE Required(t) \/ RunCommands(t) \/ Packed(t)
  <2>1. \/ tar' = tar
        \/ tar' = [tar EXCEPT ![Top(t).pkg] = "whole"]
        \/ tar' = [tar EXCEPT ![Top(t).pkg] = "partial"]
    BY <1>6 DEF Required, RunCommands, Packed
  <2>2. tar' \in [Packages -> {"none", "partial", "whole"}]
    BY <2>1
  <2> QED
    BY <1>6, <2>2 DEF Required, RunCommands, Packed
<1>7. CASE ExtractStaging(t)
  <2>1. Top(t).pkg \in Packages
    BY <1>7, TopCall DEF ExtractStaging, At
  <2> QED
    BY <1>7, <2>1 DEF ExtractStaging
<1>8. CASE Commit(t) \/ CommitThrows(t)
  BY <1>8 DEF Commit, CommitThrows
<1> QED
  BY <1>1, <1>2, <1>3, <1>4, <1>5, <1>6, <1>7, <1>8 DEF Build

LEMMA TypeStep ==
  ASSUME TypeOK, StackInv, NEW t \in Packages, Start(t) \/ Build(t) \/ Finished(t) \/ SetFailed(t)
  PROVE  TypeOK'
BY Moves, MoveTypes, DataTypes DEF TypeOK

-----------------------------------------------------------------------------
(* What a call has made sure of, and what it relies on.                    *)

Ready(p, place) ==
  /\ place # "enter" => ~wasBuilt[p]
  /\ p \in suppressed => place \in {"enter", "deps", "suppress", "fail"}
  /\ fetchOnly => place \notin {"hashing", "staging", "commands", "packing"}
  /\ place \in {"hashing", "check", "local"} \cup Working /\ ~fetchOnly =>
       newInfo[p] /\ \A d \in Deps[p] : hash[d] # "empty"
  /\ place \in Working => \A d \in Locally[p] : wasBuilt[d] \/ d \in suppressed

CallInv ==
  \A t \in Packages : \A i \in 1 .. Len(stack[t]) : Ready(stack[t][i].pkg, stack[t][i].at)

\* The second loop is done with d, or the call for d is the one above.
Local(t, i, d) ==
  \/ wasBuilt[d] \/ d \in suppressed
  \/ i # 1 /\ stack[t][i - 1].pkg = d /\ stack[t][i - 1].locally

LocalInv ==
  \A t \in Packages : \A i \in 1 .. Len(stack[t]) :
    stack[t][i].at = "local" =>
      \A d \in Locally[stack[t][i].pkg] \ stack[t][i].todo : Local(t, i, d)

\* A package that is left out has a hash only when its .build.info is there,
\* any other only when its dependencies have theirs.
HashInv ==
  \A p \in Packages : hash[p] # "empty" =>
    IF p \in suppressed THEN info[p]
    ELSE ~fetchOnly /\ \A d \in Deps[p] : hash[d] # "empty"

\* A step of thread t changes the flags and the description of the package
\* its top call holds, if any, and what others rely on only grows.
Confined(t) ==
  /\ suppressed' = suppressed /\ fetchOnly' = fetchOnly
  /\ \A p \in Packages : wasBuilt[p] => wasBuilt'[p]
  /\ \A p \in Packages : hash[p] # "empty" => hash'[p] # "empty"
  /\ \A p \in Packages :
       (newInfo'[p] = newInfo[p] /\ wasBuilt'[p] = wasBuilt[p])
       \/ (stack[t] # <<>> /\ p = Top(t).pkg /\ Top(t).at # "enter")

LEMMA Kept ==
  ASSUME TypeOK, NEW t \in Packages, Confined(t), NEW p \in Packages, NEW place, Ready(p, place),
         place # "enter" => newInfo'[p] = newInfo[p] /\ wasBuilt'[p] = wasBuilt[p]
  PROVE  Ready(p, place)'
<1>1. Deps[p] \subseteq Packages /\ Locally[p] \subseteq Packages
  BY PackageBuildAssumption
<1>2. /\ suppressed' = suppressed /\ fetchOnly' = fetchOnly
      /\ \A d \in Packages : wasBuilt[d] => wasBuilt'[d]
      /\ \A d \in Packages : hash[d] # "empty" => hash'[d] # "empty"
  BY DEF Confined
<1>3. CASE place = "enter"
  BY <1>2, <1>3 DEF Ready, Working
<1>4. CASE place # "enter"
  BY <1>1, <1>2, <1>4 DEF Ready
<1> QED
  BY <1>3, <1>4

\* No other call is for the package that the step works on.
LEMMA OthersReady ==
  ASSUME TypeOK, StackInv, CallInv, NEW t \in Packages, Confined(t),
         NEW u \in Packages, NEW i \in 1 .. Len(stack[u]), ~(u = t /\ i = 1),
         NEW p \in Packages, NEW place, stack[u][i].pkg = p, stack[u][i].at = place
  PROVE  Ready(p, place)'
<1>1. Ready(p, place)
  BY DEF CallInv
<1>2. ASSUME place # "enter"
      PROVE  newInfo'[p] = newInfo[p] /\ wasBuilt'[p] = wasBuilt[p]
  <2>1. lock[p] = u
    BY <1>2 DEF StackInv, Holding
  <2>2. ASSUME stack[t] # <<>>, p = Top(t).pkg, Top(t).at # "enter"
        PROVE  FALSE
    <3>1. stack[t][1].pkg = p /\ stack[t][1].at # "enter" /\ 1 \in 1 .. Len(stack[t])
      BY <2>2, TopCall
    <3>2. lock[p] = t
      BY <3>1 DEF StackInv, Holding
    <3>3. i # 1 /\ u = t
      BY <3>2, <2>1
    <3>4. 1 < i
      BY <3>3
    <3> QED
      BY <3>1, <3>3, <3>4 DEF StackInv, Distinct
  <2> QED
    BY <2>2 DEF Confined
<1> QED
  BY <1>1, <1>2, Kept

\* Every call on a stack is a call.
LEMMA CallTypes ==
  ASSUME TypeOK, NEW u \in Packages, NEW i \in 1 .. Len(stack[u])
  PROVE  stack[u][i] \in Calls /\ stack[u][i].pkg \in Packages /\ stack[u][i].at \in Places
         /\ stack[u][i].todo \subseteq Packages
<1>1. stack[u] \in Seq(Calls)
  BY DEF TypeOK
<1>2. stack[u][i] \in Calls
  BY <1>1
<1> QED
  BY <1>2 DEF Calls

LEMMA GotoStep ==
  ASSUME TypeOK, StackInv, CallInv, LocalInv, NEW t \in Packages, stack[t] # <<>>, Confined(t),
         NEW place \in Places, NEW todo \in SUBSET Packages, Goto(t, place, todo),
         NEW p \in Packages, p = Top(t).pkg, Ready(p, place)',
         place = "local" => Locally[p] \subseteq todo
  PROVE  CallInv' /\ LocalInv'
<1>1. /\ 1 \in 1 .. Len(stack[t]) /\ Top(t) = stack[t][1]
      /\ stack'[t][1].pkg = p /\ stack'[t][1].locally = stack[t][1].locally
      /\ stack'[t][1].at = place /\ stack'[t][1].todo = todo
  BY GotoCalls
<1>2. \A u \in Packages :
        /\ Len(stack'[u]) = Len(stack[u])
        /\ \A i \in 1 .. Len(stack[u]) : ~(u = t /\ i = 1) => stack'[u][i] = stack[u][i]
        /\ \A i \in 1 .. Len(stack[u]) : stack'[u][i].pkg = stack[u][i].pkg
  BY GotoCalls
<1>3. CallInv'
  <2> SUFFICES ASSUME NEW u \in Packages, NEW i \in 1 .. Len(stack'[u])
               PROVE  Ready(stack[u][i].pkg, stack[u][i].at)'
    BY DEF CallInv
  <2>1. CASE u = t /\ i = 1
    BY <2>1, <1>1 DEF Ready
  <2>2. CASE ~(u = t /\ i = 1)
    <3>1. i \in 1 .. Len(stack[u]) /\ stack'[u][i] = stack[u][i]
      BY <2>2, <1>2
    <3>2. PICK q \in Packages, at \in Places : q = stack[u][i].pkg /\ at = stack[u][i].at
      BY <3>1, CallTypes
    <3>3. Ready(q, at)'
      BY <2>2, <3>1, <3>2, OthersReady
    <3> QED
      BY <3>1, <3>2, <3>3 DEF Ready
  <2> QED
    BY <2>1, <2>2
<1>4. LocalInv'
  <2> SUFFICES ASSUME NEW u \in Packages, NEW i \in 1 .. Len(stack'[u]), stack'[u][i].at = "local",
                      NEW d \in Locally[stack'[u][i].pkg] \ stack'[u][i].todo
               PROVE  Local(u, i, d)'
    BY DEF LocalInv
  <2>1. ~(u = t /\ i = 1)
    BY <1>1
  <2>2. i \in 1 .. Len(stack[u]) /\ stack'[u][i] = stack[u][i] /\ stack[u][i].pkg \in Packages
    BY <2>1, <1>2, CallTypes
  <2>3. d \in Packages
    BY <2>2, PackageBuildAssumption
  <2>4. Local(u, i, d)
    BY <2>2 DEF LocalInv
  <2>5. i # 1 => stack'[u][i - 1].pkg = stack[u][i - 1].pkg
                 /\ stack'[u][i - 1].locally = stack[u][i - 1].locally
    <3> SUFFICES ASSUME i # 1
                 PROVE  stack'[u][i - 1].pkg = stack[u][i - 1].pkg
                        /\ stack'[u][i - 1].locally = stack[u][i - 1].locally
      OBVIOUS
    <3> DEFINE k == i - 1
    <3>1. k \in 1 .. Len(stack[u])
      BY <2>2
    <3> HIDE DEF k
    <3>2. stack'[u][k].pkg = stack[u][k].pkg /\ stack'[u][k].locally = stack[u][k].locally
      BY <3>1, <1>1, <1>2
    <3> QED
      BY <3>2 DEF k
  <2> QED
    BY <2>3, <2>4, <2>5 DEF Local, Confined
<1> QED
  BY <1>3, <1>4

LEMMA RecurseStep ==
  ASSUME TypeOK, StackInv, CallInv, LocalInv, NEW t \in Packages, stack[t] # <<>>, Confined(t),
         NEW d \in Packages, NEW locally \in BOOLEAN, Recurse(t, d, locally),
         Top(t).at \in {"deps", "local"}, Top(t).at = "local" => locally,
         newInfo' = newInfo, wasBuilt' = wasBuilt
  PROVE  CallInv' /\ LocalInv'
<1>1. /\ \A u \in Packages : u # t => stack'[u] = stack[u]
      /\ 1 \in 1 .. Len(stack[t])
      /\ stack'[t][1] = Call(d, locally)
      /\ stack'[t][2].pkg = stack[t][1].pkg /\ stack'[t][2].at = stack[t][1].at
      /\ stack'[t][2].todo = stack[t][1].todo \ {d} /\ stack'[t][2].locally = stack[t][1].locally
      /\ \A i \in 1 .. Len(stack'[t]) : i = 1 \/ i = 2 \/ (i - 1 \in 2 .. Len(stack[t]) /\ i - 1 # 1 /\ stack'[t][i] = stack[t][i - 1])
  BY RecurseCalls
<1>2. Top(t) = stack[t][1]
  BY TopCall
<1>3. stack'[t][1].pkg = d /\ stack'[t][1].at = "enter" /\ stack'[t][1].locally = locally
  BY <1>1 DEF Call
<1>4. \A n : \A i \in 2 .. n : i \in 1 .. n
  OBVIOUS
\* The calls that were there are where they were, and their packages untouched.
<1>5. ASSUME NEW u \in Packages, NEW i \in 1 .. Len(stack[u])
      PROVE  Ready(stack[u][i].pkg, stack[u][i].at) /\ stack[u][i].pkg \in Packages
  BY CallTypes DEF CallInv
<1>6. ASSUME NEW p \in Packages, NEW place, Ready(p, place)
      PROVE  Ready(p, place)'
  BY <1>6, Kept
<1>7. CallInv'
  <2> SUFFICES ASSUME NEW u \in Packages, NEW i \in 1 .. Len(stack'[u])
               PROVE  Ready(stack[u][i].pkg, stack[u][i].at)'
    BY DEF CallInv
  <2>1. CASE u = t /\ i = 1
    BY <2>1, <1>3 DEF Ready, Working
  <2>2. CASE ~(u = t /\ i = 1)
    <3>1. PICK k : k \in 1 .. Len(stack[u]) /\ stack'[u][i].pkg = stack[u][k].pkg
                   /\ stack'[u][i].at = stack[u][k].at
      <4>1. CASE u # t
        BY <4>1, <1>1
      <4>2. CASE u = t /\ i = 2
        BY <4>2, <1>1
      <4>3. CASE u = t /\ i - 1 \in 2 .. Len(stack[t]) /\ stack'[t][i] = stack[t][i - 1]
        <5> DEFINE k == i - 1
        <5>1. k \in 1 .. Len(stack[t]) /\ stack'[t][i] = stack[t][k]
          BY <4>3, <1>4
        <5> HIDE DEF k
        <5> QED
          BY <4>3, <5>1
      <4> QED
        BY <2>2, <1>1, <4>1, <4>2, <4>3
    <3>2. PICK q \in Packages, at \in Places : q = stack[u][k].pkg /\ at = stack[u][k].at
      BY <3>1, <1>5, CallTypes
    <3>3. Ready(q, at)
      BY <3>1, <3>2, <1>5
    <3>4. Ready(q, at)'
      BY <3>3, <1>6
    <3> QED
      BY <3>1, <3>2, <3>4 DEF Ready
  <2> QED
    BY <2>1, <2>2
<1>8. LocalInv'
  <2> SUFFICES ASSUME NEW u \in Packages, NEW i \in 1 .. Len(stack'[u]), stack'[u][i].at = "local",
                      NEW e \in Locally[stack'[u][i].pkg] \ stack'[u][i].todo
               PROVE  Local(u, i, e)'
    BY DEF LocalInv
  <2>1. CASE u # t
    <3>1. stack'[u] = stack[u] /\ Local(u, i, e)
      BY <2>1, <1>1 DEF LocalInv
    <3>2. suppressed' = suppressed
      BY DEF Confined
    <3> QED
      BY <3>1, <3>2 DEF Local
  <2>2. CASE u = t /\ i = 1
    BY <2>2, <1>3
  <2>3. CASE u = t /\ i = 2
    <3>1. stack[t][1].at = "local" /\ locally
      BY <2>3, <1>1, <1>2
    <3>2. CASE e = d
      <4>1. stack'[t][1].pkg = e /\ stack'[t][1].locally
        BY <3>1, <3>2, <1>3, Zenon
      <4>2. i # 1 /\ i - 1 = 1
        BY <2>3
      <4> QED
        BY <2>3, <4>1, <4>2, Zenon DEF Local
    <3>3. CASE e # d
      <4>1. e \in Locally[stack[t][1].pkg] \ stack[t][1].todo
        BY <2>3, <3>3, <1>1
      <4>2. Local(t, 1, e)
        BY <4>1, <3>1, <1>1 DEF LocalInv
      <4> QED
        BY <4>2 DEF Local, Confined
    <3> QED
      BY <3>2, <3>3
  <2>4. CASE u = t /\ i - 1 \in 2 .. Len(stack[t]) /\ i - 1 # 1 /\ stack'[t][i] = stack[t][i - 1]
    <3> DEFINE k == i - 1
    <3>1. k \in 1 .. Len(stack[t]) /\ k # 1 /\ k \in 1 .. Len(stack'[t]) /\ i # 1
          /\ stack'[t][i] = stack[t][k]
      BY <2>4, <1>4
    <3> HIDE DEF k
    <3>2. stack'[t][k].pkg = stack[t][k - 1].pkg /\ stack'[t][k].locally = stack[t][k - 1].locally
      <4>1. CASE k = 2
        BY <4>1, <1>1
      <4>2. CASE k # 2
        BY <4>2, <3>1, <1>1
      <4> QED
        BY <4>1, <4>2
    <3>3. Local(t, k, e)
      BY <3>1, <2>4, Zenon DEF LocalInv
    <3>4. \/ wasBuilt'[e] \/ e \in suppressed'
          \/ stack'[t][k].pkg = e /\ stack'[t][k].locally
      BY <3>2, <3>3 DEF Local, Confined
    <3> QED
      BY <2>4, <3>1, <3>4 DEF Local, k
  <2> QED
    BY <2>1, <2>2, <2>3, <2>4, <1>1
<1> QED
  BY <1>7, <1>8

LEMMA PopStep ==
  ASSUME TypeOK, StackInv, CallInv, LocalInv, NEW t \in Packages, stack[t] # <<>>, Confined(t),
         stack' = [stack EXCEPT ![t] = Tail(@)],
         Top(t).locally => wasBuilt'[Top(t).pkg] \/ Top(t).pkg \in suppressed
  PROVE  CallInv' /\ LocalInv'
<1>1. /\ \A u \in Packages : u # t => stack'[u] = stack[u]
      /\ \A i \in 1 .. Len(stack'[t]) : i + 1 \in 2 .. Len(stack[t]) /\ stack'[t][i] = stack[t][i + 1]
  BY PopDrops DEF Dropped
<1>2. Top(t) = stack[t][1] /\ 1 \in 1 .. Len(stack[t])
  BY TopCall
<1>3. \A n : \A i \in 2 .. n : i \in 1 .. n /\ i # 1
  OBVIOUS
\* Every call was there before, on top of another than t's top.
<1>4. ASSUME NEW u \in Packages, NEW i \in 1 .. Len(stack'[u])
      PROVE  \E k \in 1 .. Len(stack[u]) : ~(u = t /\ k = 1) /\ stack'[u][i] = stack[u][k]
  <2>1. CASE u # t
    BY <2>1, <1>1
  <2>2. CASE u = t
    <3> DEFINE k == i + 1
    <3>1. k \in 1 .. Len(stack[t]) /\ k # 1 /\ stack'[t][i] = stack[t][k]
      BY <2>2, <1>1, <1>3
    <3> HIDE DEF k
    <3> QED
      BY <2>2, <3>1
  <2> QED
    BY <2>1, <2>2
<1>5. CallInv'
  <2> SUFFICES ASSUME NEW u \in Packages, NEW i \in 1 .. Len(stack'[u])
               PROVE  Ready(stack[u][i].pkg, stack[u][i].at)'
    BY DEF CallInv
  <2>1. PICK k \in 1 .. Len(stack[u]) : ~(u = t /\ k = 1) /\ stack'[u][i] = stack[u][k]
    BY <1>4
  <2>2. PICK q \in Packages, at \in Places : q = stack[u][k].pkg /\ at = stack[u][k].at
    BY CallTypes
  <2>3. Ready(q, at)'
    BY <2>1, <2>2, OthersReady
  <2> QED
    BY <2>1, <2>2, <2>3 DEF Ready
<1>6. LocalInv'
  <2> SUFFICES ASSUME NEW u \in Packages, NEW i \in 1 .. Len(stack'[u]), stack'[u][i].at = "local",
                      NEW d \in Locally[stack'[u][i].pkg] \ stack'[u][i].todo
               PROVE  Local(u, i, d)'
    BY DEF LocalInv
  <2>1. CASE u # t
    <3>1. stack'[u] = stack[u] /\ Local(u, i, d) /\ stack[u][i].pkg \in Packages
      BY <2>1, <1>1, CallTypes DEF LocalInv
    <3>2. d \in Packages
      <4>1. d \in Locally[stack[u][i].pkg]
        BY <3>1
      <4>2. \A q \in Packages : Locally[q] \subseteq Packages
        BY PackageBuildAssumption
      <4> QED
        BY <3>1, <4>1, <4>2, Zenon
    <3> QED
      BY <3>1, <3>2 DEF Local, Confined
  <2>2. CASE u = t
    <3> DEFINE k == i + 1
    <3>1. /\ k \in 2 .. Len(stack[t]) /\ k \in 1 .. Len(stack[t]) /\ k # 1
          /\ stack'[t][i] = stack[t][k] /\ k - 1 = i
      BY <2>2, <1>1, <1>3
    <3> HIDE DEF k
    <3>2. Local(t, k, d) /\ stack[t][k].pkg \in Packages
      BY <2>2, <3>1, CallTypes DEF LocalInv
    <3>3. d \in Packages
      <4>1. d \in Locally[stack[t][k].pkg]
        BY <2>2, <3>1
      <4> QED
        BY <4>1, <3>2, PackageBuildAssumption
    <3>4. wasBuilt[d] \/ d \in suppressed \/ (stack[t][i].pkg = d /\ stack[t][i].locally)
      BY <3>1, <3>2 DEF Local
    <3>5. CASE i = 1 /\ stack[t][i].pkg = d /\ stack[t][i].locally
      BY <2>2, <3>5, <1>2 DEF Local, Confined
    <3>6. CASE i # 1 /\ stack[t][i].pkg = d /\ stack[t][i].locally
      <4> DEFINE l == i - 1
      <4>1. l \in 1 .. Len(stack'[t]) /\ l + 1 = i
        BY <2>2, <3>6
      <4> HIDE DEF l
      <4>2. stack'[t][l] = stack[t][i]
        BY <4>1, <1>1
      <4> QED
        BY <2>2, <3>6, <4>2 DEF Local, l
    <3> QED
      BY <2>2, <3>3, <3>4, <3>5, <3>6 DEF Local, Confined
  <2> QED
    BY <2>1, <2>2
<1> QED
  BY <1>5, <1>6

LEMMA FailStep ==
  ASSUME TypeOK, StackInv, CallInv, LocalInv, NEW t \in Packages, Fail(t)
  PROVE  CallInv' /\ LocalInv'
<1>1. /\ wasBuilt' = wasBuilt /\ newInfo' = newInfo /\ hash' = hash
      /\ suppressed' = suppressed /\ fetchOnly' = fetchOnly
  BY DEF Fail, flagVars, diskVars, optionVars
<1>2. /\ \A u \in Packages : u # t => stack'[u] = stack[u]
      /\ \A i \in 1 .. Len(stack'[t]) :
           /\ i + 1 \in 2 .. Len(stack[t])
           /\ stack'[t][i].pkg = stack[t][i + 1].pkg
           /\ stack'[t][i].locally = stack[t][i + 1].locally
           /\ i \in 2 .. Len(stack'[t]) => stack'[t][i] = stack[t][i + 1]
      /\ 1 \in 1 .. Len(stack'[t]) => stack'[t][1].at = "fail"
  BY FailDrops DEF Dropped, StackInv
<1>3. \A n : \A i \in 2 .. n : i \in 1 .. n /\ i # 1
  OBVIOUS
<1>4. ASSUME NEW i \in 1 .. Len(stack'[t]), i # 1
      PROVE  stack'[t][i] = stack[t][i + 1]
  BY <1>2, <1>4
<1>5. CallInv'
  <2> SUFFICES ASSUME NEW u \in Packages, NEW i \in 1 .. Len(stack'[u])
               PROVE  Ready(stack[u][i].pkg, stack[u][i].at)'
    BY DEF CallInv
  <2>1. CASE u # t
    <3>1. Ready(stack[u][i].pkg, stack[u][i].at) /\ stack'[u] = stack[u]
      BY <2>1, <1>2 DEF CallInv
    <3> QED
      BY <3>1, <1>1 DEF Ready
  <2>2. CASE u = t
    <3> DEFINE k == i + 1
    <3>1. k \in 2 .. Len(stack[t]) /\ k \in 1 .. Len(stack[t]) /\ stack'[t][i].pkg = stack[t][k].pkg
      BY <2>2, <1>2, <1>3
    <3>2. i # 1 => stack'[t][i] = stack[t][k]
      BY <2>2, <1>4
    <3> HIDE DEF k
    <3>3. Ready(stack[t][k].pkg, stack[t][k].at) /\ stack[t][k].at # "enter"
      BY <3>1 DEF CallInv, StackInv, Nesting
    <3>4. CASE i = 1
      <4>1. stack'[t][i].at = "fail"
        BY <2>2, <3>4, <1>2
      <4> QED
        BY <2>2, <3>1, <3>3, <4>1, <1>1 DEF Ready, Working
    <3>5. CASE i # 1
      BY <2>2, <3>2, <3>3, <3>5, <1>1 DEF Ready
    <3> QED
      BY <3>4, <3>5
  <2> QED
    BY <2>1, <2>2
<1>6. LocalInv'
  <2> SUFFICES ASSUME NEW u \in Packages, NEW i \in 1 .. Len(stack'[u]), stack'[u][i].at = "local",
                      NEW d \in Locally[stack'[u][i].pkg] \ stack'[u][i].todo
               PROVE  Local(u, i, d)'
    BY DEF LocalInv
  <2>1. CASE u # t
    <3>1. stack'[u] = stack[u] /\ Local(u, i, d)
      BY <2>1, <1>2 DEF LocalInv
    <3> QED
      BY <3>1, <1>1 DEF Local
  <2>2. CASE u = t
    <3>1. i # 1
      BY <2>2, <1>2
    <3> DEFINE k == i + 1
               l == i - 1
    <3>2. /\ k \in 2 .. Len(stack[t]) /\ k \in 1 .. Len(stack[t]) /\ k # 1 /\ k - 1 = i
          /\ stack'[t][i] = stack[t][k]
          /\ l \in 1 .. Len(stack'[t]) /\ l + 1 = i
      BY <2>2, <3>1, <1>2, <1>3, <1>4
    <3> HIDE DEF k, l
    <3>3. Local(t, k, d)
      BY <2>2, <3>2 DEF LocalInv
    <3>4. wasBuilt[d] \/ d \in suppressed \/ (stack[t][i].pkg = d /\ stack[t][i].locally)
      BY <3>2, <3>3 DEF Local
    <3>5. stack'[t][l].pkg = stack[t][i].pkg /\ stack'[t][l].locally = stack[t][i].locally
      BY <3>2, <1>2
    <3> QED
      BY <2>2, <3>1, <3>4, <3>5, <1>1 DEF Local, l
  <2> QED
    BY <2>1, <2>2
<1> QED
  BY <1>5, <1>6

\* A thread is started with one call, which has not done anything.
LEMMA StartStep ==
  ASSUME TypeOK, StackInv, CallInv, LocalInv, NEW t \in Packages, Start(t)
  PROVE  CallInv' /\ LocalInv'
<1>1. /\ stack'[t] = <<Call(t, FALSE)>>
      /\ \A u \in Packages : u # t => stack'[u] = stack[u]
      /\ wasBuilt' = wasBuilt /\ newInfo' = newInfo /\ hash' = hash
      /\ suppressed' = suppressed /\ fetchOnly' = fetchOnly
  BY DEF Start, TypeOK, flagVars, diskVars, optionVars
<1>2. /\ stack'[t][1].pkg = t /\ stack'[t][1].at = "enter"
      /\ \A i \in 1 .. Len(stack'[t]) : i = 1
  BY <1>1 DEF Call
<1>3. CallInv'
  <2> SUFFICES ASSUME NEW u \in Packages, NEW i \in 1 .. Len(stack'[u])
               PROVE  Ready(stack[u][i].pkg, stack[u][i].at)'
    BY DEF CallInv
  <2>1. CASE u # t
    <3>1. Ready(stack[u][i].pkg, stack[u][i].at) /\ stack'[u] = stack[u]
      BY <2>1, <1>1 DEF CallInv
    <3> QED
      BY <3>1, <1>1 DEF Ready
  <2>2. CASE u = t
    BY <2>2, <1>2 DEF Ready, Working
  <2> QED
    BY <2>1, <2>2
<1>4. LocalInv'
  <2> SUFFICES ASSUME NEW u \in Packages, NEW i \in 1 .. Len(stack'[u]), stack'[u][i].at = "local",
                      NEW d \in Locally[stack'[u][i].pkg] \ stack'[u][i].todo
               PROVE  Local(u, i, d)'
    BY DEF LocalInv
  <2>1. u # t
    BY <1>2
  <2>2. stack'[u] = stack[u] /\ Local(u, i, d)
    BY <2>1, <1>1 DEF LocalInv
  <2> QED
    BY <2>2, <1>1 DEF Local
<1> QED
  BY <1>3, <1>4

-----------------------------------------------------------------------------
(* What each step does to the data.                                        *)

\* The steps that only move the call on top.
Quiet(t) ==
  \/ Enter(t) \/ DependLoop(t) \/ PrepareNothing(t) \/ PrepareThrows(t) \/ LocalLoop(t)
  \/ FetchAndExtract(t) \/ ExtractStaging(t) \/ Required(t) \/ RunCommands(t) \/ Packed(t) \/ Fail(t)

LEMMA DataStep ==
  ASSUME TypeOK, StackInv, CallInv, HashInv, NEW t \in Packages, Build(t)
  PROVE  Confined(t) /\ HashInv'
<1> USE DEF flagVars, diskVars, worldVars, optionVars
<1> DEFINE p == Top(t).pkg
<1>1. stack[t] # <<>> /\ 1 \in 1 .. Len(stack[t]) /\ p \in Packages /\ Ready(p, Top(t).at)
  <2>1. stack[t] # <<>>
    BY DEF Build, Enter, DependLoop, Suppress, PrepareNothing, Prepare, PrepareThrows, HashWritten,
       NotRequired, Restored, Required, LocalLoop, FetchAndExtract, ExtractStaging, RunCommands,
       Packed, Commit, CommitThrows, Fail, At
  <2>2. Len(stack[t]) >= 1 /\ Len(stack[t]) \in Nat /\ Top(t) = stack[t][1] /\ p \in Packages
    BY <2>1, TopCall
  <2>3. 1 \in 1 .. Len(stack[t])
    BY <2>2
  <2> QED
    BY <2>1, <2>2, <2>3 DEF CallInv
<1>2. Deps[p] \subseteq Packages /\ \A q \in Packages : Deps[q] \subseteq Packages
  BY <1>1, PackageBuildAssumption
<1>3. CASE Quiet(t)
  <2>1. /\ wasBuilt' = wasBuilt /\ newInfo' = newInfo /\ hash' = hash /\ info' = info
        /\ suppressed' = suppressed /\ fetchOnly' = fetchOnly
    BY <1>3 DEF Quiet, Enter, DependLoop, PrepareNothing, PrepareThrows, LocalLoop, FetchAndExtract,
       ExtractStaging, Required, RunCommands, Packed, Fail
  <2> QED
    BY <2>1 DEF Confined, HashInv
<1>4. CASE Suppress(t)
  <2>1. CASE p \in suppressed
    <3>1. /\ hash' = [hash EXCEPT ![p] = IF info[p] THEN "set" ELSE "empty"]
          /\ newInfo' = newInfo /\ info' = info /\ wasBuilt' = wasBuilt
          /\ suppressed' = suppressed /\ fetchOnly' = fetchOnly
      BY <1>4, <2>1 DEF Suppress
    <3>2. \A q \in Packages : q # p => hash'[q] = hash[q]
      BY <3>1 DEF TypeOK
    <3>3. hash'[p] = IF info[p] THEN "set" ELSE "empty"
      BY <1>1, <3>1 DEF TypeOK
    <3>4. hash[p] # "empty" => info[p]
      BY <1>1, <2>1 DEF HashInv
    <3>5. \A q \in Packages : hash[q] # "empty" => hash'[q] # "empty"
      BY <3>2, <3>3, <3>4
    <3>6. Confined(t)
      BY <3>1, <3>5 DEF Confined
    <3>7. HashInv'
      BY <1>2, <2>1, <3>1, <3>2, <3>3, <3>5 DEF HashInv
    <3> QED
      BY <3>6, <3>7
  <2>2. CASE p \notin suppressed
    <3>1. /\ hash' = hash /\ wasBuilt' = wasBuilt
          /\ \A q \in Packages : q # p => newInfo'[q] = newInfo[q] /\ info'[q] = info[q]
          /\ suppressed' = suppressed /\ fetchOnly' = fetchOnly /\ Top(t).at # "enter"
      BY <1>1, <1>4, <2>2 DEF Suppress, At, TypeOK
    <3> QED
      BY <1>1, <2>2, <3>1 DEF Confined, HashInv
  <2> QED
    BY <2>1, <2>2
<1>5. CASE Prepare(t)
  <2>1. /\ hash' = [hash EXCEPT ![p] = "writing"] /\ newInfo' = [newInfo EXCEPT ![p] = TRUE]
        /\ wasBuilt' = wasBuilt /\ info' = info /\ suppressed' = suppressed /\ fetchOnly' = fetchOnly
        /\ Top(t).at = "prepare" /\ ~fetchOnly
        /\ IF Prepared(p) THEN ~newInfo[p] ELSE \A d \in Deps[p] : hash[d] # "empty"
    BY <1>5 DEF Prepare, At
  <2>2. hash'[p] = "writing" /\ \A q \in Packages : q # p => hash'[q] = hash[q] /\ newInfo'[q] = newInfo[q]
    BY <1>1, <2>1 DEF TypeOK
  <2>3. \A q \in Packages : hash[q] # "empty" => hash'[q] # "empty"
    BY <2>2
  <2>4. Confined(t)
    BY <1>1, <2>1, <2>2, <2>3 DEF Confined
  <2>5. p \notin suppressed
    BY <1>1, <2>1 DEF Ready
  <2>6. \A d \in Deps[p] : hash[d] # "empty"
    BY <1>1, <2>1, <2>5 DEF HashInv, Prepared
  <2>7. HashInv'
    BY <1>2, <2>1, <2>2, <2>3, <2>5, <2>6 DEF HashInv
  <2> QED
    BY <2>4, <2>7
<1>6. CASE HashWritten(t)
  <2>1. /\ hash' = [hash EXCEPT ![p] = "set"] /\ newInfo' = newInfo
        /\ wasBuilt' = wasBuilt /\ info' = info /\ suppressed' = suppressed /\ fetchOnly' = fetchOnly
        /\ Top(t).at = "hashing"
    BY <1>6 DEF HashWritten, At
  <2>2. hash'[p] = "set" /\ \A q \in Packages : q # p => hash'[q] = hash[q]
    BY <1>1, <2>1 DEF TypeOK
  <2>3. \A q \in Packages : hash[q] # "empty" => hash'[q] # "empty"
    BY <2>2
  <2>4. Confined(t)
    BY <2>1, <2>3 DEF Confined
  <2>5. p \notin suppressed /\ ~fetchOnly /\ \A d \in Deps[p] : hash[d] # "empty"
    BY <1>1, <2>1 DEF Ready
  <2>6. HashInv'
    BY <1>2, <2>1, <2>2, <2>3, <2>5 DEF HashInv
  <2> QED
    BY <2>4, <2>6
<1>7. CASE NotRequired(t)
  <2>1. /\ wasBuilt' = wasBuilt /\ newInfo' = newInfo /\ hash' = hash /\ info' = info
        /\ suppressed' = suppressed /\ fetchOnly' = fetchOnly
    BY <1>7 DEF NotRequired
  <2> QED
    BY <2>1 DEF Confined, HashInv
<1>8. CASE Restored(t) \/ Commit(t) \/ CommitThrows(t)
  <2>0. hash' = hash /\ suppressed' = suppressed /\ fetchOnly' = fetchOnly /\ Top(t).at # "enter"
    BY <1>8 DEF Restored, Commit, CommitThrows, At
  <2>1. /\ wasBuilt' = wasBuilt \/ wasBuilt' = [wasBuilt EXCEPT ![p] = TRUE]
        /\ newInfo' = newInfo \/ newInfo' = [newInfo EXCEPT ![p] = FALSE]
        /\ info' = info \/ info' = [info EXCEPT ![p] = TRUE]
    BY <1>8 DEF Restored, Commit, CommitThrows
  <2>2. \A q \in Packages :
          /\ wasBuilt[q] => wasBuilt'[q]
          /\ info[q] => info'[q]
          /\ q # p => newInfo'[q] = newInfo[q] /\ wasBuilt'[q] = wasBuilt[q]
    BY <1>1, <2>1 DEF TypeOK
  <2>3. Confined(t)
    BY <1>1, <2>0, <2>2 DEF Confined
  <2>4. HashInv'
    BY <2>0, <2>2 DEF HashInv
  <2> QED
    BY <2>3, <2>4
<1> QED
  BY <1>3, <1>4, <1>5, <1>6, <1>7, <1>8 DEF Build, Quiet

IInv == TypeOK /\ StackInv /\ CallInv /\ LocalInv /\ HashInv

LEMMA BuildStep ==
  ASSUME TypeOK, StackInv, CallInv, LocalInv, HashInv, NEW t \in Packages, Build(t)
  PROVE  CallInv' /\ LocalInv'
<1> USE DEF flagVars, diskVars, worldVars, optionVars
<1>1. stack[t] # <<>>
  BY DEF Build, Enter, DependLoop, Suppress, PrepareNothing, Prepare, PrepareThrows, HashWritten,
     NotRequired, Restored, Required, LocalLoop, FetchAndExtract, ExtractStaging, RunCommands,
     Packed, Commit, CommitThrows, Fail, At
<1>2. Confined(t)
  BY DataStep
<1>3. PICK p \in Packages, at \in Places :
        p = Top(t).pkg /\ at = Top(t).at /\ p = stack[t][1].pkg /\ at = stack[t][1].at
        /\ Top(t).todo \in SUBSET Packages
  BY <1>1, TopCall
<1>4. Ready(p, at) /\ 1 \in 1 .. Len(stack[t])
  <2>1. Len(stack[t]) >= 1 /\ Len(stack[t]) \in Nat
    BY <1>1, TopCall
  <2>2. 1 \in 1 .. Len(stack[t])
    BY <2>1
  <2> QED
    BY <1>3, <2>2 DEF CallInv
<1>5. Deps[p] \in SUBSET Packages /\ Locally[p] \in SUBSET Packages /\ StagingPackages(p) \in SUBSET Packages
      /\ {} \in SUBSET Packages
  BY PackageBuildAssumption DEF StagingPackages
<1>6. suppressed' = suppressed /\ fetchOnly' = fetchOnly
      /\ (\A d \in Packages : wasBuilt[d] => wasBuilt'[d])
      /\ (\A d \in Packages : hash[d] # "empty" => hash'[d] # "empty")
  BY <1>2 DEF Confined
<1>7. CASE Enter(t)
  <2>1. wasBuilt' = wasBuilt /\ at = "enter"
    BY <1>3, <1>7 DEF Enter, At
  <2>2. CASE (Top(t).locally /\ wasBuilt[p]) \/ (~Top(t).locally /\ built[p])
    <3>1. stack' = [stack EXCEPT ![t] = Tail(@)]
      BY <1>3, <1>7, <2>2 DEF Enter
    <3>2. Top(t).locally => wasBuilt'[Top(t).pkg]
      BY <1>3, <2>1, <2>2
    <3> QED
      BY <1>1, <1>2, <3>1, <3>2, PopStep
  <2>3. CASE ~((Top(t).locally /\ wasBuilt[p]) \/ (~Top(t).locally /\ built[p]))
    <3>1. Goto(t, "deps", Deps[p])
      BY <1>3, <1>7, <2>3 DEF Enter
    <3>2. ~wasBuilt[p]
      BY <1>1, <1>3, <2>3, TopCall DEF TypeOK
    <3>3. Ready(p, "deps")'
      BY <3>2, <2>1 DEF Ready, Working
    <3> QED
      BY <1>1, <1>2, <1>3, <1>5, <3>1, <3>3, GotoStep DEF Places
  <2> QED
    BY <2>2, <2>3
<1>8. CASE DependLoop(t)
  <2>1. newInfo' = newInfo /\ wasBuilt' = wasBuilt /\ at = "deps" /\ hash' = hash
    BY <1>3, <1>8 DEF DependLoop, At
  <2>2. CASE \E d \in Top(t).todo : Recurse(t, d, FALSE)
    <3>1. PICK d \in Packages : Recurse(t, d, FALSE)
      BY <2>2, <1>3
    <3> QED
      BY <1>1, <1>2, <1>3, <2>1, <3>1, RecurseStep
  <2>3. CASE Goto(t, "suppress", {})
    <3>1. Ready(p, "suppress")'
      BY <1>4, <1>6, <2>1 DEF Ready, Working
    <3> QED
      BY <1>1, <1>2, <1>3, <1>5, <2>3, <3>1, GotoStep DEF Places
  <2> QED
    BY <1>8, <2>2, <2>3 DEF DependLoop
<1>9. CASE Suppress(t)
  <2>1. wasBuilt' = wasBuilt /\ at = "suppress"
    BY <1>3, <1>9 DEF Suppress, At
  <2>2. CASE p \in suppressed
    <3>1. stack' = [stack EXCEPT ![t] = Tail(@)]
      BY <1>3, <1>9, <2>2 DEF Suppress, ReturnTrue
    <3> QED
      BY <1>1, <1>2, <1>3, <2>2, <3>1, PopStep
  <2>3. CASE p \notin suppressed
    <3>1. Goto(t, "prepare", {})
      BY <1>3, <1>9, <2>3 DEF Suppress
    <3>2. Ready(p, "prepare")'
      BY <1>4, <1>6, <2>1, <2>3 DEF Ready, Working
    <3> QED
      BY <1>1, <1>2, <1>3, <1>5, <3>1, <3>2, GotoStep DEF Places
  <2> QED
    BY <2>2, <2>3
<1>10. CASE PrepareNothing(t)
  <2>1. /\ wasBuilt' = wasBuilt /\ newInfo' = newInfo /\ hash' = hash /\ at = "prepare"
        /\ Goto(t, "check", {})
        /\ fetchOnly \/ (hash[p] # "empty" /\ newInfo[p])
    BY <1>3, <1>10 DEF PrepareNothing, At, Prepared
  <2>2. p \notin suppressed /\ ~wasBuilt[p]
    BY <1>4, <2>1 DEF Ready
  <2>3. ~fetchOnly => newInfo[p] /\ \A d \in Deps[p] : hash[d] # "empty"
    BY <2>1, <2>2 DEF HashInv
  <2>4. Ready(p, "check")'
    BY <1>6, <2>1, <2>2, <2>3 DEF Ready, Working
  <2> QED
    BY <1>1, <1>2, <1>3, <1>5, <2>1, <2>4, GotoStep DEF Places
<1>11. CASE Prepare(t)
  <2>1. /\ wasBuilt' = wasBuilt /\ newInfo' = [newInfo EXCEPT ![p] = TRUE] /\ at = "prepare"
        /\ Goto(t, "hashing", {}) /\ ~fetchOnly
        /\ hash[p] = "empty" => \A d \in Deps[p] : hash[d] # "empty"
    BY <1>3, <1>11 DEF Prepare, At, Prepared
  <2>2. p \notin suppressed /\ ~wasBuilt[p]
    BY <1>4, <2>1 DEF Ready
  <2>3. newInfo'[p] /\ \A d \in Deps[p] : hash'[d] # "empty"
    BY <1>5, <1>6, <2>1, <2>2 DEF HashInv, TypeOK
  <2>4. Ready(p, "hashing")'
    BY <1>6, <2>1, <2>2, <2>3 DEF Ready, Working
  <2> QED
    BY <1>1, <1>2, <1>3, <1>5, <2>1, <2>4, GotoStep DEF Places
<1>12. CASE HashWritten(t)
  <2>1. wasBuilt' = wasBuilt /\ newInfo' = newInfo /\ at = "hashing" /\ Goto(t, "check", {})
    BY <1>3, <1>12 DEF HashWritten, At
  <2>2. Ready(p, "check")'
    BY <1>4, <1>5, <1>6, <2>1 DEF Ready, Working
  <2> QED
    BY <1>1, <1>2, <1>3, <1>5, <2>1, <2>2, GotoStep DEF Places
<1>13. CASE NotRequired(t) \/ Restored(t)
  <2>1. stack' = [stack EXCEPT ![t] = Tail(@)] /\ ~Top(t).locally
    BY <1>13 DEF NotRequired, Restored, ReturnTrue
  <2> QED
    BY <1>1, <1>2, <2>1, PopStep
<1>14. CASE Required(t)
  <2>1. /\ wasBuilt' = wasBuilt /\ newInfo' = newInfo /\ hash' = hash /\ at = "check"
        /\ Goto(t, "local", Locally[p])
    BY <1>3, <1>14 DEF Required, At
  <2>2. Ready(p, "local")'
    BY <1>4, <1>6, <2>1 DEF Ready, Working
  <2> QED
    BY <1>1, <1>2, <1>3, <1>5, <2>1, <2>2, GotoStep DEF Places
<1>15. CASE LocalLoop(t)
  <2>1. newInfo' = newInfo /\ wasBuilt' = wasBuilt /\ at = "local" /\ hash' = hash
    BY <1>3, <1>15 DEF LocalLoop, At
  <2>2. CASE \E d \in Top(t).todo : Recurse(t, d, TRUE)
    <3>1. PICK d \in Packages : Recurse(t, d, TRUE)
      BY <2>2, <1>3
    <3> QED
      BY <1>1, <1>2, <1>3, <2>1, <3>1, RecurseStep
  <2>3. CASE Top(t).todo = {} /\ Goto(t, "fetch", {})
    <3>1. \A d \in Locally[p] : wasBuilt[d] \/ d \in suppressed
      <4>1. stack[t][1].todo = {}
        BY <1>1, <2>3, TopCall
      <4>2. \A d \in Locally[p] : Local(t, 1, d)
        BY <1>3, <1>4, <2>1, <4>1 DEF LocalInv
      <4> QED
        BY <4>2 DEF Local
    <3>2. Ready(p, "fetch")'
      BY <1>4, <1>6, <2>1, <3>1 DEF Ready, Working
    <3> QED
      BY <1>1, <1>2, <1>3, <1>5, <2>3, <3>2, GotoStep DEF Places
  <2> QED
    BY <1>15, <2>2, <2>3 DEF LocalLoop
<1>16. ASSUME Top(t).at \in Working \cup {"prepare"}, wasBuilt' = wasBuilt, Goto(t, "fail", {})
       PROVE  CallInv' /\ LocalInv'
  <2>1. Ready(p, "fail")'
    BY <1>3, <1>4, <1>6, <1>16 DEF Ready, Working
  <2> QED
    BY <1>1, <1>2, <1>3, <1>5, <1>16, <2>1, GotoStep DEF Places
<1>17. CASE PrepareThrows(t) \/ CommitThrows(t)
  BY <1>16, <1>17 DEF PrepareThrows, CommitThrows, At, Working
<1>18. ASSUME NEW place \in {"staging", "commands", "packing", "commit"}, NEW todo \in SUBSET Packages,
              Goto(t, place, todo), at \in Working, hash' = hash, newInfo' = newInfo, wasBuilt' = wasBuilt,
              fetchOnly => place = "commit"
       PROVE  CallInv' /\ LocalInv'
  <2>1. Ready(p, place)'
    BY <1>4, <1>6, <1>18 DEF Ready, Working
  <2>2. place \in Places /\ place # "local"
    BY DEF Places
  <2> QED
    BY <1>1, <1>2, <1>3, <1>18, <2>1, <2>2, GotoStep
<1>19. CASE FetchAndExtract(t)
  <2>1. at = "fetch" /\ wasBuilt' = wasBuilt /\ hash' = hash /\ newInfo' = newInfo
    BY <1>3, <1>19 DEF FetchAndExtract, At
  <2>2. CASE Goto(t, "fail", {})
    BY <1>3, <1>16, <2>1, <2>2 DEF Working
  <2>3. CASE fetchOnly /\ Goto(t, "commit", {})
    BY <1>5, <1>18, <2>1, <2>3 DEF Working
  <2>4. CASE ~fetchOnly /\ Goto(t, "staging", StagingPackages(p))
    BY <1>5, <1>18, <2>1, <2>4 DEF Working
  <2> QED
    BY <1>3, <1>19, <2>2, <2>3, <2>4 DEF FetchAndExtract
<1>20. CASE ExtractStaging(t)
  <2>1. at = "staging" /\ wasBuilt' = wasBuilt /\ hash' = hash /\ newInfo' = newInfo /\ ~fetchOnly
    BY <1>3, <1>4, <1>20 DEF ExtractStaging, At, Ready
  <2>2. CASE Goto(t, "fail", {})
    BY <1>3, <1>16, <2>1, <2>2 DEF Working
  <2>3. CASE \E q \in Top(t).todo : Goto(t, "staging", Top(t).todo \ {q})
    BY <1>3, <1>18, <2>1, <2>3 DEF Working
  <2>4. CASE Goto(t, "commands", {})
    BY <1>5, <1>18, <2>1, <2>4 DEF Working
  <2> QED
    BY <1>20, <2>2, <2>3, <2>4 DEF ExtractStaging
<1>21. CASE RunCommands(t) \/ Packed(t)
  <2>1. at \in {"commands", "packing"} /\ wasBuilt' = wasBuilt /\ hash' = hash /\ newInfo' = newInfo
    BY <1>3, <1>21 DEF RunCommands, Packed, At
  <2>2. ~fetchOnly
    BY <1>4, <2>1 DEF Ready
  <2>3. CASE Goto(t, "fail", {})
    BY <1>3, <1>16, <2>1, <2>3 DEF Working
  <2>4. CASE Goto(t, "packing", {})
    BY <1>5, <1>18, <2>1, <2>2, <2>4 DEF Working
  <2>5. CASE Goto(t, "commit", {})
    BY <1>5, <1>18, <2>1, <2>2, <2>5 DEF Working
  <2> QED
    BY <1>21, <2>3, <2>4, <2>5 DEF RunCommands, Packed
<1>22. CASE Commit(t)
  <2>1. stack' = [stack EXCEPT ![t] = Tail(@)] /\ wasBuilt' = [wasBuilt EXCEPT ![p] = TRUE]
    BY <1>3, <1>22 DEF Commit, ReturnTrue
  <2>2. wasBuilt'[Top(t).pkg]
    BY <1>3, <2>1 DEF TypeOK
  <2> QED
    BY <1>1, <1>2, <2>1, <2>2, PopStep
<1> QED
  BY <1>7, <1>8, <1>9, <1>10, <1>11, <1>12, <1>13, <1>14, <1>15, <1>17, <1>19, <1>20, <1>21, <1>22,
     FailStep DEF Build

-----------------------------------------------------------------------------
(* The theorems.                                                           *)

LEMMA InitInv ==
  Init => IInv
<1> SUFFICES ASSUME Init PROVE IInv
  OBVIOUS
<1>1. \A p \in Packages : stack[p] = <<>> /\ Len(stack[p]) = 0 /\ lock[p] = NoThread
                         /\ hash[p] = "empty" /\ status[p] = "idle" /\ ~wasBuilt[p]
  BY DEF Init
<1>2. TypeOK
  <2>1. suppressed \subseteq Packages
    BY PackageBuildAssumption DEF Init
  <2>2. PICK left \in [Packages -> Leftovers] :
          /\ newInfo = [p \in Packages |-> fetchOnly /\ left[p].newInfo]
          /\ info = [p \in Packages |-> left[p].info]
          /\ tar = [p \in Packages |-> left[p].tar]
    BY DEF Init
  <2>3. \A p \in Packages : left[p].newInfo \in BOOLEAN /\ left[p].info \in BOOLEAN
                           /\ left[p].tar \in {"none", "whole"}
    <3>1. \A p \in Packages : left[p] \in [newInfo : BOOLEAN, info : BOOLEAN, tar : {"none", "whole"}]
      BY PackageBuildAssumption
    <3> QED
      BY <3>1
  <2>4. fetchOnly \in BOOLEAN
    BY DEF Init
  <2>5. /\ newInfo \in [Packages -> BOOLEAN] /\ info \in [Packages -> BOOLEAN]
        /\ tar \in [Packages -> {"none", "partial", "whole"}]
    BY <2>2, <2>3, <2>4
  <2>6. stack \in [Packages -> Seq(Calls)]
    BY DEF Init
  <2>7. /\ built \in [Packages -> BOOLEAN] /\ wasBuilt \in [Packages -> BOOLEAN]
        /\ lock \in [Packages -> Packages \cup {NoThread}]
        /\ hash \in [Packages -> {"empty", "set", "writing"}]
        /\ torn \subseteq Packages /\ failed \in BOOLEAN
        /\ status \in [Packages -> {"idle", "running", "failing", "ended"}]
    BY DEF Init
  <2> QED
    BY <1>1, <2>1, <2>4, <2>5, <2>6, <2>7 DEF TypeOK
<1>3. StackInv
  BY <1>1 DEF StackInv, Nesting, Holding, Distinct, Held, Idle
<1>4. CallInv /\ LocalInv
  BY <1>1 DEF CallInv, LocalInv
<1>5. HashInv
  BY <1>1 DEF HashInv
<1> QED
  BY <1>2, <1>3, <1>4, <1>5 DEF IInv

LEMMA NextInv ==
  IInv /\ [Next]_vars => IInv'
<1> SUFFICES ASSUME TypeOK, StackInv, CallInv, LocalInv, HashInv, [Next]_vars
             PROVE  IInv'
  BY DEF IInv
<1>1. ASSUME UNCHANGED vars
      PROVE  IInv'
  BY <1>1 DEF vars, optionVars, IInv, TypeOK, StackInv, Nesting, Holding, Distinct, Held, Idle,
     CallInv, Ready, LocalInv, Local, HashInv
<1>2. ASSUME NEW t \in Packages, Start(t) \/ Build(t) \/ Finished(t) \/ SetFailed(t)
      PROVE  IInv'
  <2>1. TypeOK' /\ StackInv'
    BY <1>2, TypeStep, Moves, StackStep
  <2>2. CASE Build(t)
    BY <2>1, <2>2, BuildStep, DataStep DEF IInv
  <2>3. ASSUME ~Build(t)
        PROVE  HashInv'
    <3>1. hash' = hash /\ info' = info /\ suppressed' = suppressed /\ fetchOnly' = fetchOnly
      BY <1>2, <2>3 DEF Start, Finished, SetFailed, diskVars, optionVars
    <3> QED
      BY <3>1 DEF HashInv
  <2>4. CASE Start(t)
    BY <2>1, <2>2, <2>3, <2>4, StartStep DEF IInv
  <2>5. CASE Finished(t) \/ SetFailed(t)
    <3>1. /\ stack' = stack /\ wasBuilt' = wasBuilt /\ newInfo' = newInfo /\ hash' = hash
          /\ suppressed' = suppressed /\ fetchOnly' = fetchOnly
      BY <2>5 DEF Finished, SetFailed, flagVars, diskVars, optionVars
    <3>2. CallInv' /\ LocalInv'
      BY <3>1 DEF CallInv, Ready, LocalInv, Local
    <3> QED
      BY <2>1, <2>2, <2>3, <3>2 DEF IInv
  <2> QED
    BY <1>2, <2>2, <2>4, <2>5
<1>3. ASSUME Ended
      PROVE  IInv'
  BY <1>1, <1>3 DEF Ended
<1> QED
  BY <1>1, <1>2, <1>3 DEF Next

\* The strengthening holds throughout, for any graph of packages.
THEOREM Invariance == Spec => []IInv
BY InitInv, NextInv, PTL DEF Spec

\* Every variable of Package::build keeps its type, and was_built implies built.
THEOREM TypeCorrect == Spec => []TypeOK
<1>1. IInv => TypeOK
  BY DEF IInv
<1> QED
  BY <1>1, Invariance, PTL

\* package.cpp:912: two calls never work on the same package, and a lock that
\* is held is held by a call that has taken it, however the calls are nested.
THEOREM OneBuilderHolds == Spec => []OneBuilder
<1>1. IInv => OneBuilder
  <2> SUFFICES ASSUME TypeOK, StackInv PROVE OneBuilder
    BY DEF IInv
  <2>1. ASSUME NEW t \in Packages
        PROVE  DOMAIN stack[t] = 1 .. Len(stack[t])
    <3>1. stack[t] \in Seq(Calls)
      BY DEF TypeOK
    <3> QED
      BY <3>1
  <2>2. ASSUME NEW t \in Packages, NEW u \in Packages, NEW c \in InCalls(t), NEW e \in InCalls(u),
               c.pkg = e.pkg, c.at # "enter", e.at # "enter"
        PROVE  t = u /\ c = e
    <3>1. PICK i \in 1 .. Len(stack[t]) : c = stack[t][i]
      BY <2>1 DEF InCalls
    <3>2. PICK j \in 1 .. Len(stack[u]) : e = stack[u][j]
      BY <2>1 DEF InCalls
    <3>3. lock[c.pkg] = t /\ lock[e.pkg] = u
      BY <2>2, <3>1, <3>2 DEF StackInv, Holding
    <3>4. t = u
      BY <2>2, <3>3
    <3>5. ~(i < j) /\ ~(j < i)
      BY <2>2, <3>1, <3>2, <3>4 DEF StackInv, Distinct
    <3>6. i = j
      BY <3>5
    <3> QED
      BY <3>1, <3>2, <3>4, <3>6
  <2>3. ASSUME NEW p \in Packages, lock[p] # NoThread
        PROVE  \E c \in InCalls(lock[p]) : c.pkg = p /\ c.at # "enter"
    <3>1. PICK i \in 1 .. Len(stack[lock[p]]) :
            stack[lock[p]][i].pkg = p /\ stack[lock[p]][i].at # "enter"
      BY <2>3 DEF StackInv, Held
    <3>2. lock[p] \in Packages
      BY <2>3 DEF TypeOK
    <3>3. stack[lock[p]][i] \in InCalls(lock[p])
      BY <2>1, <3>2 DEF InCalls
    <3> QED
      BY <3>1, <3>3
  <2> QED
    BY <2>2, <2>3 DEF OneBuilder, Past
<1> QED
  BY <1>1, Invariance, PTL

\* A call on a stack is at some place of it, and that place is ready.
LEMMA ReadyCalls ==
  ASSUME IInv, NEW t \in Packages, NEW c \in InCalls(t)
  PROVE  Ready(c.pkg, c.at) /\ c.pkg \in Packages
<1>1. stack[t] \in Seq(Calls)
  BY DEF IInv, TypeOK
<1>2. PICK i \in 1 .. Len(stack[t]) : c = stack[t][i]
  BY <1>1 DEF InCalls
<1> QED
  BY <1>2, CallTypes DEF IInv, CallInv

\* package.cpp:961: whoever builds a package has its locally wanted
\* dependencies built in this run, or they are suppressed.
THEOREM LocalReallyHolds == Spec => []LocalReally
<1>1. IInv => LocalReally
  BY ReadyCalls DEF LocalReally, Ready, Past
<1> QED
  BY <1>1, Invariance, PTL

\* package.cpp:916: a package that was built in this run is not built again.
THEOREM BuiltOnceHolds == Spec => []BuiltOnce
<1>1. IInv => BuiltOnce
  BY ReadyCalls DEF BuiltOnce, Ready, Past, Working
<1> QED
  BY <1>1, Invariance, PTL

\* package.cpp:495-521: the hashes of the dependencies are there while a
\* package is decided on or built, and .build.info.new is there to be renamed.
THEOREM InputsThereHolds == Spec => []InputsThere
<1>1. IInv => InputsThere
  <2> SUFFICES ASSUME IInv, NEW t \in Packages
               PROVE  /\ At(t, "commit") /\ ~fetchOnly => newInfo[Top(t).pkg]
                      /\ \A c \in InCalls(t) :
                           Past(c, {"hashing", "check", "local"} \cup Working) /\ ~fetchOnly
                             => \A d \in Deps[c.pkg] : hash[d] # "empty"
    BY DEF InputsThere
  <2>1. At(t, "commit") => Top(t) \in InCalls(t)
    <3>1. stack[t] \in Seq(Calls)
      BY DEF IInv, TypeOK
    <3> QED
      BY <3>1 DEF At, Top, InCalls
  <2>2. At(t, "commit") /\ ~fetchOnly => newInfo[Top(t).pkg]
    BY <2>1, ReadyCalls DEF At, Ready, Working
  <2>3. \A c \in InCalls(t) :
           Past(c, {"hashing", "check", "local"} \cup Working) /\ ~fetchOnly
             => \A d \in Deps[c.pkg] : hash[d] # "empty"
    BY ReadyCalls DEF Past, Ready
  <2> QED
    BY <2>2, <2>3
<1> QED
  BY <1>1, Invariance, PTL

\* The formula ModesKept says of every step.
ModesStep ==
  /\ \A p \in suppressed : UNCHANGED <<tar[p], info[p], wasBuilt[p]>>
  /\ fetchOnly => /\ UNCHANGED tar
                  /\ \A p \in Packages \ CleanFirst : info'[p] = info[p]

\* package.cpp:927-934, 950, 980: in forced mode nothing of a package that is
\* left out changes, and --fetch-only rewrites no tar and no .build.info,
\* whoever asks for the build and however the calls are nested.
THEOREM ModesKeptHolds == Spec => ModesKept
<1>1. ASSUME IInv, NEW t \in Packages, Build(t)
      PROVE  ModesStep
  <2> USE DEF flagVars, diskVars
  <2>1. TypeOK /\ suppressed \subseteq Packages
    BY <1>1 DEF IInv, TypeOK
  <2>2. stack[t] # <<>>
    BY <1>1 DEF Build, Enter, DependLoop, Suppress, PrepareNothing, Prepare, PrepareThrows, HashWritten,
       NotRequired, Restored, Required, LocalLoop, FetchAndExtract, ExtractStaging, RunCommands,
       Packed, Commit, CommitThrows, Fail, At
  <2> DEFINE p == Top(t).pkg
  <2>3. p \in Packages /\ Ready(p, Top(t).at)
    <3>1. Len(stack[t]) >= 1 /\ Len(stack[t]) \in Nat /\ Top(t) = stack[t][1] /\ p \in Packages
      BY <2>1, <2>2, TopCall
    <3>2. 1 \in 1 .. Len(stack[t])
      BY <3>1
    <3> QED
      BY <1>1, <3>1, <3>2 DEF IInv, CallInv
  <2>4. ASSUME tar' = tar, info' = info, wasBuilt' = wasBuilt
        PROVE  ModesStep
    BY <2>4 DEF ModesStep
  \* Otherwise only the package of the top call changes, and it is not left out.
  <2>5. ASSUME p \notin suppressed, ~fetchOnly,
               \A q \in Packages : q # p => tar'[q] = tar[q] /\ info'[q] = info[q] /\ wasBuilt'[q] = wasBuilt[q]
        PROVE  ModesStep
    BY <2>1, <2>5 DEF ModesStep
  <2>6. CASE Enter(t) \/ DependLoop(t) \/ PrepareNothing(t) \/ PrepareThrows(t) \/ LocalLoop(t)
             \/ FetchAndExtract(t) \/ ExtractStaging(t) \/ NotRequired(t) \/ Prepare(t)
             \/ HashWritten(t) \/ Fail(t)
    BY <2>4, <2>6 DEF Enter, DependLoop, PrepareNothing, PrepareThrows, LocalLoop, FetchAndExtract,
       ExtractStaging, NotRequired, Prepare, HashWritten, Fail
  <2>7. CASE Suppress(t)
    <3>1. CASE p \in suppressed
      BY <2>4, <2>7, <3>1 DEF Suppress
    <3>2. CASE p \notin suppressed
      <4>1. tar' = tar /\ wasBuilt' = wasBuilt /\ info' = [info EXCEPT ![p] = @ /\ p \notin CleanFirst]
        BY <2>7, <3>2 DEF Suppress
      <4>2. \A q \in Packages : q # p \/ q \notin CleanFirst => info'[q] = info[q]
        BY <2>1, <4>1 DEF TypeOK
      <4> QED
        BY <2>1, <3>2, <4>1, <4>2 DEF ModesStep
    <3> QED
      BY <3>1, <3>2
  <2>8. CASE Restored(t) \/ Required(t)
    <3>1. CASE tar' = tar /\ info' = info
      BY <2>4, <2>8, <3>1 DEF Restored, Required
    <3>2. CASE ~(tar' = tar /\ info' = info)
      <4>1. Top(t).at = "check" /\ hash[p] = "set" /\ wasBuilt' = wasBuilt
            /\ tar' = [tar EXCEPT ![p] = "whole"]
            /\ (info' = info \/ info' = [info EXCEPT ![p] = TRUE])
        BY <2>8, <3>2 DEF Restored, Required, At
      <4>2. p \notin suppressed
        BY <2>3, <4>1 DEF Ready
      <4>3. ~fetchOnly
        BY <1>1, <2>3, <4>1, <4>2 DEF IInv, HashInv
      <4>4. \A q \in Packages : q # p => tar'[q] = tar[q] /\ info'[q] = info[q] /\ wasBuilt'[q] = wasBuilt[q]
        BY <2>1, <4>1 DEF TypeOK
      <4> QED
        BY <2>5, <4>2, <4>3, <4>4
    <3> QED
      BY <3>1, <3>2
  <2>9. CASE RunCommands(t) \/ Packed(t)
    <3>1. /\ Top(t).at \in {"commands", "packing"} /\ info' = info /\ wasBuilt' = wasBuilt
          /\ \/ tar' = tar
             \/ tar' = [tar EXCEPT ![p] = "whole"]
             \/ tar' = [tar EXCEPT ![p] = "partial"]
      BY <2>9 DEF RunCommands, Packed, At
    <3>2. p \notin suppressed /\ ~fetchOnly
      BY <2>3, <3>1 DEF Ready
    <3>3. \A q \in Packages : q # p => tar'[q] = tar[q] /\ info'[q] = info[q] /\ wasBuilt'[q] = wasBuilt[q]
      BY <2>1, <3>1 DEF TypeOK
    <3> QED
      BY <2>5, <3>2, <3>3
  <2>10. CASE Commit(t) \/ CommitThrows(t)
    <3>1. /\ Top(t).at = "commit" /\ tar' = tar
          /\ (info' = info \/ (~fetchOnly /\ info' = [info EXCEPT ![p] = TRUE]))
          /\ (wasBuilt' = wasBuilt \/ wasBuilt' = [wasBuilt EXCEPT ![p] = TRUE])
      BY <2>10 DEF Commit, CommitThrows, At
    <3>2. p \notin suppressed
      BY <2>3, <3>1 DEF Ready
    <3>3. \A q \in Packages : q # p => info'[q] = info[q] /\ wasBuilt'[q] = wasBuilt[q]
      BY <2>1, <3>1 DEF TypeOK
    <3> QED
      BY <2>1, <3>1, <3>2, <3>3 DEF ModesStep
  <2> QED
    BY <1>1, <2>6, <2>7, <2>8, <2>9, <2>10 DEF Build
<1>2. IInv /\ [Next]_vars => [ModesStep]_vars
  <2> SUFFICES ASSUME IInv, Next, ~UNCHANGED vars
               PROVE  ModesStep
    BY DEF vars
  <2>1. PICK t \in Packages : Start(t) \/ Build(t) \/ Finished(t) \/ SetFailed(t)
    BY DEF Next, Ended
  <2>2. CASE Start(t) \/ Finished(t) \/ SetFailed(t)
    BY <2>2 DEF Start, Finished, SetFailed, ModesStep, flagVars, diskVars
  <2> QED
    BY <1>1, <2>1, <2>2
<1>3. Spec => [][ModesStep]_vars
  BY <1>2, Invariance, PTL DEF Spec
<1> QED
  BY <1>3 DEF ModesKept, ModesStep

-----------------------------------------------------------------------------
(* The nested locks.                                                       *)

\* A call was made for a dependency of the package below it on the stack, and
\* a loop over dependencies has only those of its package left.
Nested ==
  \A t \in Packages : \A i \in 2 .. Len(stack[t]) :
    stack[t][i - 1].pkg \in Deps[stack[t][i].pkg]

Loops ==
  \A t \in Packages : \A i \in 1 .. Len(stack[t]) :
    stack[t][i].at \in {"deps", "local"} => stack[t][i].todo \subseteq Deps[stack[t][i].pkg]

\* The thread waits for a lock.
Blocked(t) == At(t, "enter") /\ lock[Top(t).pkg] # NoThread

\* package.cpp:913, :941, :961: the locks are taken one inside the other, and
\* while a thread runs there is one that waits for none of them.
NoDeadlock ==
  (\E t \in Packages : status[t] = "running")
    => \E t \in Packages : status[t] = "running" /\ ~Blocked(t)

\* The ways in which a step moves the stacks, with what they leave to do.
LEMMA StackMoves ==
  ASSUME TypeOK, StackInv, NEW t \in Packages, Start(t) \/ Build(t) \/ Finished(t) \/ SetFailed(t)
  PROVE  \/ /\ stack[t] # <<>>
            /\ \E place \in Places, todo \in SUBSET Packages :
                 /\ Goto(t, place, todo)
                 /\ place \in {"deps", "local"} => todo \subseteq Deps[Top(t).pkg]
         \/ /\ stack[t] # <<>> /\ Top(t).at \in {"deps", "local"}
            /\ \E d \in Top(t).todo, locally \in BOOLEAN : Recurse(t, d, locally)
         \/ stack[t] # <<>> /\ stack' = [stack EXCEPT ![t] = Tail(@)]
         \/ Fail(t)
         \/ stack' = [stack EXCEPT ![t] = <<Call(t, FALSE)>>]
         \/ stack' = stack
<1>1. CASE Start(t) \/ Finished(t) \/ SetFailed(t)
  BY <1>1 DEF Start, Finished, SetFailed
<1>2. ASSUME stack[t] # <<>>
      PROVE  Deps[Top(t).pkg] \in SUBSET Packages /\ Locally[Top(t).pkg] \subseteq Deps[Top(t).pkg]
             /\ StagingPackages(Top(t).pkg) \in SUBSET Packages
             /\ \A q : Top(t).todo \ {q} \in SUBSET Packages
             /\ {} \in SUBSET Packages
  BY <1>2, TopCall, PackageBuildAssumption DEF StagingPackages
<1>3. CASE Enter(t)
  <2>1. stack[t] # <<>> /\ "deps" \in Places
    BY <1>3 DEF Enter, At, Places
  <2>2. stack' = [stack EXCEPT ![t] = Tail(@)] \/ Goto(t, "deps", Deps[Top(t).pkg])
    BY <1>3, Zenon DEF Enter
  <2> QED BY <1>2, <2>1, <2>2, Zenon
<1>4. CASE DependLoop(t) \/ LocalLoop(t)
  BY <1>2, <1>4 DEF DependLoop, LocalLoop, At, Places
<1>5. CASE Suppress(t) \/ PrepareNothing(t) \/ Prepare(t) \/ PrepareThrows(t) \/ HashWritten(t)
  BY <1>2, <1>5 DEF Suppress, ReturnTrue, PrepareNothing, Prepare, PrepareThrows, HashWritten, At,
     Places
<1>6. CASE NotRequired(t) \/ Restored(t) \/ Commit(t)
  BY <1>6 DEF NotRequired, Restored, Commit, ReturnTrue, At
<1>7. CASE Required(t)
  <2>1. stack[t] # <<>> /\ Goto(t, "local", Locally[Top(t).pkg])
    BY <1>7 DEF Required, At
  <2>2. Locally[Top(t).pkg] \in SUBSET Packages /\ "local" \in Places
    BY <1>2, <2>1 DEF Places
  <2> QED BY <1>2, <2>1, <2>2
<1>8. CASE FetchAndExtract(t)
  BY <1>2, <1>8 DEF FetchAndExtract, At, Places
<1>10. CASE ExtractStaging(t)
  <2>1. stack[t] # <<>> /\ {"staging", "fail", "commands"} \subseteq Places
    BY <1>10 DEF ExtractStaging, At, Places
  <2>2. \E place \in {"staging", "fail", "commands"}, todo \in SUBSET Packages : Goto(t, place, todo)
    <3>1. \/ \E q : Goto(t, "staging", Top(t).todo \ {q})
          \/ Goto(t, "fail", {}) \/ Goto(t, "commands", {})
      BY <1>10, Zenon DEF ExtractStaging
    <3> QED BY <1>2, <2>1, <3>1, Zenon
  <2> QED BY <2>1, <2>2
<1>9. CASE RunCommands(t) \/ Packed(t) \/ CommitThrows(t)
  BY <1>2, <1>9 DEF RunCommands, Packed, CommitThrows, At, Places
<1> QED BY <1>1, <1>3, <1>4, <1>5, <1>6, <1>7, <1>8, <1>9, <1>10 DEF Build

LEMMA NestedStep ==
  ASSUME TypeOK, StackInv, Nested, Loops, NEW t \in Packages,
         Start(t) \/ Build(t) \/ Finished(t) \/ SetFailed(t)
  PROVE  Nested' /\ Loops'
<1>0. /\ stack[t] # <<>> => Len(stack[t]) \in Nat /\ Len(stack[t]) >= 1
      /\ \A u \in Packages : stack[u] \in Seq(Calls) /\ Len(stack[u]) \in Nat
  BY TopCall DEF TypeOK
<1>a. \A n \in Nat : \A i \in 2 .. n : i - 1 \in 1 .. n /\ i \in 1 .. n
  OBVIOUS
<1>b. ASSUME \A u \in Packages : u # t => stack'[u] = stack[u],
             \A i \in 2 .. Len(stack'[t]) : stack'[t][i - 1].pkg \in Deps[stack'[t][i].pkg],
             \A i \in 1 .. Len(stack'[t]) : stack'[t][i].at \in {"deps", "local"} =>
               stack'[t][i].todo \subseteq Deps[stack'[t][i].pkg]
      PROVE  Nested' /\ Loops'
  <2>1. Nested'
    BY <1>b, Zenon DEF Nested
  <2>2. Loops'
    BY <1>b, Zenon DEF Loops
  <2> QED BY <2>1, <2>2
<1>1. CASE stack[t] # <<>> /\ \E place \in Places, todo \in SUBSET Packages :
             Goto(t, place, todo) /\ (place \in {"deps", "local"} => todo \subseteq Deps[Top(t).pkg])
  <2>1. PICK place \in Places, todo \in SUBSET Packages :
          Goto(t, place, todo) /\ (place \in {"deps", "local"} => todo \subseteq Deps[Top(t).pkg])
    BY <1>1
  <2>2. /\ Top(t) = stack[t][1] /\ stack'[t][1].pkg = stack[t][1].pkg
        /\ stack'[t][1].at = place /\ stack'[t][1].todo = todo
        /\ \A u \in Packages :
             /\ Len(stack'[u]) = Len(stack[u])
             /\ \A i \in 1 .. Len(stack[u]) : ~(u = t /\ i = 1) => stack'[u][i] = stack[u][i]
             /\ \A i \in 1 .. Len(stack[u]) : stack'[u][i].pkg = stack[u][i].pkg
    BY <1>1, <2>1, GotoCalls
  <2>3. ASSUME NEW u \in Packages, NEW i \in 2 .. Len(stack'[u])
        PROVE  stack'[u][i - 1].pkg \in Deps[stack'[u][i].pkg]
    <3>1. Len(stack'[u]) = Len(stack[u]) /\ Len(stack[u]) \in Nat
      BY <1>0, <2>2
    <3>2. i \in 2 .. Len(stack[u]) /\ i - 1 \in 1 .. Len(stack[u]) /\ i \in 1 .. Len(stack[u])
      BY <1>a, <2>3, <3>1, Zenon
    <3>3. stack'[u][i - 1].pkg = stack[u][i - 1].pkg /\ stack'[u][i].pkg = stack[u][i].pkg
      BY <2>2, <3>2, Zenon
    <3> QED BY <3>2, <3>3, Zenon DEF Nested
  <2>4. ASSUME NEW u \in Packages, NEW i \in 1 .. Len(stack'[u]),
               stack'[u][i].at \in {"deps", "local"}
        PROVE  stack'[u][i].todo \subseteq Deps[stack'[u][i].pkg]
    <3>1. CASE u = t /\ i = 1
      BY <2>1, <2>2, <2>4, <3>1
    <3>2. CASE ~(u = t /\ i = 1)
      <4>1. i \in 1 .. Len(stack[u]) /\ stack'[u][i] = stack[u][i]
        BY <2>2, <3>2
      <4> QED BY <2>4, <4>1 DEF Loops
    <3> QED BY <3>1, <3>2
  <2> QED BY <2>3, <2>4, Zenon DEF Nested, Loops
<1>2. CASE /\ stack[t] # <<>> /\ Top(t).at \in {"deps", "local"}
           /\ \E d \in Top(t).todo, locally \in BOOLEAN : Recurse(t, d, locally)
  <2>1. PICK d \in Top(t).todo, locally \in BOOLEAN : Recurse(t, d, locally)
    BY <1>2
  <2>2. /\ Top(t) = stack[t][1] /\ stack[t][1] \in Calls /\ d \in Packages
        /\ Top(t).todo \subseteq Deps[Top(t).pkg]
    <3>1. Top(t) = stack[t][1] /\ stack[t][1] \in Calls /\ d \in Packages /\ 1 \in 1 .. Len(stack[t])
      BY <1>2, <2>1, TopCall
    <3> QED BY <1>2, <3>1 DEF Loops
  <2>3. /\ \A u \in Packages : u # t => stack'[u] = stack[u]
        /\ Len(stack'[t]) = Len(stack[t]) + 1
        /\ stack'[t][1] = Call(d, locally)
        /\ stack'[t][2] = [stack[t][1] EXCEPT !.todo = stack[t][1].todo \ {d}]
        /\ \A i \in 3 .. Len(stack'[t]) : stack'[t][i] = stack[t][i - 1]
    BY <1>2, <2>1, <2>2, RecurseStack
  <2>4. /\ stack'[t][1].pkg = d /\ stack'[t][1].at = "enter"
        /\ stack'[t][2].pkg = stack[t][1].pkg /\ stack'[t][2].at = stack[t][1].at
        /\ stack'[t][2].todo \subseteq stack[t][1].todo
    BY <2>2, <2>3 DEF Call, Calls
  <2>5. \A n \in Nat : \A i \in 1 .. (n + 1) :
          /\ i = 1 \/ i = 2 \/ (i \in 3 .. (n + 1) /\ i - 1 \in 2 .. n)
          /\ i \in 3 .. (n + 1) /\ i # 3 => i - 1 \in 3 .. (n + 1)
          /\ i - 1 \in 2 .. n => i - 1 \in 1 .. n
          /\ 3 - 1 = 2 /\ 2 - 1 = 1
    OBVIOUS
  <2>6. ASSUME NEW i \in 2 .. Len(stack'[t])
        PROVE  stack'[t][i - 1].pkg \in Deps[stack'[t][i].pkg]
    <3>1. CASE i = 2
      BY <2>2, <2>4, <2>5, <3>1, <1>0, <1>2
    <3>2. CASE i = 3
      <4>1. i \in 3 .. Len(stack'[t]) /\ i - 1 = 2 /\ i - 1 \in 2 .. Len(stack[t]) /\ (i - 1) - 1 = 1
        BY <1>0, <1>2, <2>3, <2>6, <3>2
      <4>2. stack'[t][i] = stack[t][i - 1]
        BY <2>3, <4>1
      <4>3. stack[t][1].pkg \in Deps[stack[t][i - 1].pkg]
        BY <4>1 DEF Nested
      <4> QED BY <2>4, <4>1, <4>2, <4>3
    <3>3. CASE i # 2 /\ i # 3
      <4>1. i \in 3 .. Len(stack'[t]) /\ i - 1 \in 3 .. Len(stack'[t]) /\ i - 1 \in 2 .. Len(stack[t])
        BY <1>0, <1>2, <2>3, <2>6, <3>3
      <4>2. stack'[t][i] = stack[t][i - 1] /\ stack'[t][i - 1] = stack[t][(i - 1) - 1]
        BY <2>3, <4>1
      <4> QED BY <4>1, <4>2 DEF Nested
    <3> QED BY <3>1, <3>2, <3>3
  <2>7. ASSUME NEW i \in 1 .. Len(stack'[t]), stack'[t][i].at \in {"deps", "local"}
        PROVE  stack'[t][i].todo \subseteq Deps[stack'[t][i].pkg]
    <3>1. CASE i = 1
      BY <2>4, <2>7, <3>1
    <3>2. CASE i = 2
      BY <2>2, <2>4, <3>2
    <3>3. CASE i # 1 /\ i # 2
      <4>1. i \in 3 .. Len(stack'[t]) /\ i - 1 \in 1 .. Len(stack[t])
        BY <1>0, <1>2, <2>3, <2>7, <3>3
      <4>2. stack'[t][i] = stack[t][i - 1]
        BY <2>3, <4>1
      <4> QED BY <2>7, <4>1, <4>2 DEF Loops
    <3> QED BY <3>1, <3>2, <3>3
  <2> QED BY <1>b, <2>3, <2>6, <2>7, Zenon
<1>3. CASE stack[t] # <<>> /\ stack' = [stack EXCEPT ![t] = Tail(@)]
  <2>1. /\ \A u \in Packages : u # t => stack'[u] = stack[u]
        /\ Len(stack'[t]) = Len(stack[t]) - 1
        /\ \A i \in 1 .. Len(stack'[t]) : stack'[t][i] = stack[t][i + 1]
    BY <1>3, PopStack
  <2>2. ASSUME NEW i \in 1 .. Len(stack'[t])
        PROVE  stack'[t][i] = stack[t][i + 1] /\ i + 1 \in 1 .. Len(stack[t])
    BY <1>0, <1>3, <2>1
  <2>3. ASSUME NEW i \in 2 .. Len(stack'[t])
        PROVE  stack'[t][i - 1].pkg \in Deps[stack'[t][i].pkg]
    <3>1. i - 1 \in 1 .. Len(stack'[t]) /\ i \in 1 .. Len(stack'[t]) /\ (i - 1) + 1 = i
          /\ i + 1 \in 2 .. Len(stack[t]) /\ (i + 1) - 1 = i
      BY <1>0, <1>3, <2>1, <2>3
    <3>2. stack'[t][i - 1] = stack[t][i] /\ stack'[t][i] = stack[t][i + 1]
      BY <2>1, <3>1
    <3>3. stack[t][(i + 1) - 1].pkg \in Deps[stack[t][i + 1].pkg]
      BY <3>1 DEF Nested
    <3> QED BY <3>1, <3>2, <3>3
  <2>4. ASSUME NEW i \in 1 .. Len(stack'[t]), stack'[t][i].at \in {"deps", "local"}
        PROVE  stack'[t][i].todo \subseteq Deps[stack'[t][i].pkg]
    BY <2>2, <2>4 DEF Loops
  <2> QED BY <1>b, <2>1, <2>3, <2>4, Zenon
<1>4. CASE Fail(t)
  <2>1. /\ stack[t] # <<>>
        /\ \A u \in Packages : u # t => stack'[u] = stack[u]
        /\ Len(stack'[t]) = Len(stack[t]) - 1
        /\ Len(stack[t]) > 1 => stack'[t][1] = [stack[t][2] EXCEPT !.at = "fail"]
        /\ \A i \in 2 .. Len(stack'[t]) : stack'[t][i] = stack[t][i + 1]
    BY <1>4, FailStack DEF Fail, At
  <2>2. ASSUME NEW i \in 1 .. Len(stack'[t])
        PROVE  /\ i + 1 \in 1 .. Len(stack[t]) /\ stack'[t][i].pkg = stack[t][i + 1].pkg
               /\ IF i = 1 THEN stack'[t][i].at = "fail" ELSE stack'[t][i] = stack[t][i + 1]
    <3>1. i + 1 \in 1 .. Len(stack[t]) /\ Len(stack[t]) > 1 /\ (i = 1 \/ i \in 2 .. Len(stack'[t]))
      BY <1>0, <2>1
    <3>2. CASE i = 1
      <4>1. stack[t][2] \in Calls /\ i + 1 = 2
        BY <1>0, <3>1, <3>2
      <4> QED BY <2>1, <3>1, <3>2, <4>1 DEF Calls
    <3>3. CASE i # 1
      BY <2>1, <3>1, <3>3
    <3> QED BY <3>2, <3>3
  <2>3. ASSUME NEW i \in 2 .. Len(stack'[t])
        PROVE  stack'[t][i - 1].pkg \in Deps[stack'[t][i].pkg]
    <3>1. i - 1 \in 1 .. Len(stack'[t]) /\ i \in 1 .. Len(stack'[t]) /\ (i - 1) + 1 = i
          /\ i + 1 \in 2 .. Len(stack[t]) /\ (i + 1) - 1 = i
      BY <1>0, <2>1, <2>3
    <3>2. stack'[t][i - 1].pkg = stack[t][i].pkg /\ stack'[t][i].pkg = stack[t][i + 1].pkg
      BY <2>2, <3>1
    <3>3. stack[t][(i + 1) - 1].pkg \in Deps[stack[t][i + 1].pkg]
      BY <3>1 DEF Nested
    <3> QED BY <3>1, <3>2, <3>3
  <2>4. ASSUME NEW i \in 1 .. Len(stack'[t]), stack'[t][i].at \in {"deps", "local"}
        PROVE  stack'[t][i].todo \subseteq Deps[stack'[t][i].pkg]
    <3>1. i + 1 \in 1 .. Len(stack[t]) /\ stack'[t][i] = stack[t][i + 1]
      BY <2>2, <2>4
    <3> QED BY <2>4, <3>1 DEF Loops
  <2> QED BY <1>b, <2>1, <2>3, <2>4, Zenon
<1>5. CASE stack' = [stack EXCEPT ![t] = <<Call(t, FALSE)>>]
  <2>1. /\ \A u \in Packages : u # t => stack'[u] = stack[u]
        /\ Len(stack'[t]) = 1 /\ stack'[t][1].at = "enter"
    BY <1>5 DEF TypeOK, Call
  <2>2. \A i \in 1 .. 1 : i = 1 /\ i \notin 2 .. 1
    OBVIOUS
  <2>3. \A i \in 2 .. 1 : FALSE
    OBVIOUS
  <2> QED BY <2>1, <2>2, <2>3 DEF Nested, Loops
<1>6. CASE stack' = stack
  BY <1>6 DEF Nested, Loops
<1> QED BY <1>1, <1>2, <1>3, <1>4, <1>5, <1>6, StackMoves

\* package.cpp:913, :941, :961: no set of threads can wait for each other's
\* locks, whatever graph the packages form: a chain of waits goes down it.
THEOREM NoDeadlockHolds == Spec => []NoDeadlock
<1>1. Init => Nested /\ Loops
  BY DEF Init, Nested, Loops
<1>2. IInv /\ Nested /\ Loops /\ [Next]_vars => (Nested /\ Loops)'
  <2> SUFFICES ASSUME IInv, Nested, Loops, [Next]_vars
               PROVE  Nested' /\ Loops'
    OBVIOUS
  <2>1. CASE \E t \in Packages : Start(t) \/ Build(t) \/ Finished(t) \/ SetFailed(t)
    BY <2>1, NestedStep DEF IInv
  <2>2. CASE Ended \/ UNCHANGED vars
    BY <2>2 DEF Ended, vars, Nested, Loops
  <2> QED BY <2>1, <2>2 DEF Next
<1>3. IInv /\ Nested => NoDeadlock
  <2> SUFFICES ASSUME TypeOK, StackInv, Nested, NEW r \in Packages, status[r] = "running",
                      \A t \in Packages : status[t] = "running" => Blocked(t)
               PROVE  FALSE
    BY DEF IInv, NoDeadlock
  <2> DEFINE S == {p \in Packages : \E t \in Packages : \E i \in 1 .. Len(stack[t]) :
                                      stack[t][i].pkg = p}
  <2>1. ASSUME NEW t \in Packages, stack[t] # <<>>
        PROVE  /\ Top(t) = stack[t][1] /\ Top(t).at = "enter" /\ lock[Top(t).pkg] # NoThread
               /\ Len(stack[t]) \in Nat /\ 1 \in 1 .. Len(stack[t]) /\ Top(t).pkg \in Packages
    <3>1. Blocked(t)
      BY <2>1 DEF StackInv, Idle
    <3>2. /\ Top(t) = stack[t][1] /\ Len(stack[t]) \in Nat /\ Len(stack[t]) >= 1
          /\ Top(t).pkg \in Packages
      BY <2>1, TopCall
    <3> QED BY <3>1, <3>2 DEF Blocked, At
  <2>2. S # {}
    <3>1. stack[r] # <<>>
      BY DEF Blocked, At
    <3> QED BY <2>1, <3>1
  <2>3. ASSUME NEW t \in Packages, NEW i \in 1 .. Len(stack[t]), i # 1
        PROVE  Deps[stack[t][i].pkg] \cap S # {}
    <3>1. stack[t] \in Seq(Calls) /\ Len(stack[t]) \in Nat
      BY DEF TypeOK
    <3>2. i \in 2 .. Len(stack[t]) /\ i - 1 \in 1 .. Len(stack[t])
      BY <2>3, <3>1
    <3>3. stack[t][i - 1] \in Calls
      BY <3>1, <3>2
    <3>4. stack[t][i - 1].pkg \in S
      BY <3>2, <3>3 DEF Calls
    <3> QED BY <3>2, <3>4 DEF Nested
  <2>4. ASSUME NEW p \in S
        PROVE  Deps[p] \cap S # {}
    <3>0. PICK t \in Packages : \E i \in 1 .. Len(stack[t]) : stack[t][i].pkg = p
      OBVIOUS
    <3>1. PICK i \in 1 .. Len(stack[t]) : stack[t][i].pkg = p
      BY <3>0
    <3>2. CASE i # 1
      BY <2>3, <3>1, <3>2
    <3>3. CASE i = 1
      <4>1. stack[t] # <<>>
        BY <3>1
      <4>2. lock[p] # NoThread
        BY <2>1, <3>1, <3>3, <4>1
      <4>3. PICK j \in 1 .. Len(stack[lock[p]]) :
              stack[lock[p]][j].pkg = p /\ stack[lock[p]][j].at # "enter"
        BY <4>2 DEF StackInv, Held
      <4>4. lock[p] \in Packages
        BY <4>2 DEF TypeOK
      <4>5. j # 1
        <5>1. stack[lock[p]] # <<>>
          BY <4>3
        <5> QED BY <2>1, <4>3, <4>4, <5>1
      <4> QED BY <2>3, <4>3, <4>4, <4>5
    <3> QED BY <3>2, <3>3
  <2> QED
    <3> HIDE DEF S
    <3>1. S \in SUBSET Packages
      BY DEF S
    <3> QED BY <2>2, <2>4, <3>1, PackageBuildAssumption
<1> QED BY <1>1, <1>2, <1>3, Invariance, PTL DEF Spec

-----------------------------------------------------------------------------
(* The staging tars that are read without their locks.                     *)

\* The packages that some package wants built locally.
Wanted == UNION {Locally[p] : p \in Packages}

\* A package whose staging tar is extracted is wanted locally by every package
\* that extracts it, or by none at all.
LocalAgreement == \A p \in Packages : StagingPackages(p) \cap Wanted \subseteq Locally[p]

\* The ways in which a step turns the call on top: it goes on in it, ...
Continues(t) ==
  /\ stack[t] # <<>> /\ Top(t).at # "fail"
  /\ Top(t).at = "enter" => Top(t).locally \/ ~built[Top(t).pkg]
  /\ \E place \in Places, todo \in SUBSET Packages :
       /\ Goto(t, place, todo)
       /\ place = "local" => todo \subseteq Locally[Top(t).pkg]
       /\ place = "staging" => todo \subseteq
            IF Top(t).at = "staging" THEN Top(t).todo ELSE StagingPackages(Top(t).pkg)
       /\ place = "commit" => fetchOnly \/ tar' = [tar EXCEPT ![Top(t).pkg] = "whole"]
       /\ Top(t).at = "packing" => place \in {"commit", "fail"}
  /\ UNCHANGED <<built, wasBuilt, status>>

\* ... calls build for a dependency, ...
Descends(t) ==
  /\ stack[t] # <<>>
  /\ \E d \in Top(t).todo : \/ Top(t).at = "deps" /\ Recurse(t, d, FALSE)
                            \/ Top(t).at = "local" /\ Recurse(t, d, TRUE)
  /\ UNCHANGED <<built, wasBuilt, status>>

\* ... or returns true.
Returns(t) ==
  /\ stack[t] # <<>> /\ stack' = [stack EXCEPT ![t] = Tail(@)]
  /\ \/ Top(t).at = "enter" /\ UNCHANGED <<built, wasBuilt>>
     \/ /\ Top(t).at \in {"suppress", "check", "commit"}
        /\ built' = [built EXCEPT ![Top(t).pkg] = TRUE]
        /\ \/ UNCHANGED wasBuilt
           \/ Top(t).at = "commit" /\ wasBuilt' = [wasBuilt EXCEPT ![Top(t).pkg] = TRUE]
  /\ UNCHANGED status

Stops(t) ==
  /\ stack[t] = <<>> /\ UNCHANGED <<stack, built, wasBuilt>>
  /\ status' = [status EXCEPT ![t] = "ended"]

LEMMA Turns ==
  ASSUME TypeOK, NEW t \in Packages, Start(t) \/ Build(t) \/ Finished(t) \/ SetFailed(t)
  PROVE  Continues(t) \/ Descends(t) \/ Returns(t) \/ Fail(t) \/ Start(t) \/ Stops(t)
<1> USE DEF flagVars, worldVars
<1>1. CASE Start(t) \/ Fail(t)
  BY <1>1
<1>2. CASE Finished(t) \/ SetFailed(t)
  BY <1>2 DEF Finished, SetFailed, Stops
<1>3. ASSUME stack[t] # <<>>
      PROVE  /\ Deps[Top(t).pkg] \in SUBSET Packages /\ Locally[Top(t).pkg] \in SUBSET Packages
             /\ StagingPackages(Top(t).pkg) \in SUBSET Packages
             /\ \A q : Top(t).todo \ {q} \in SUBSET Packages
             /\ {} \in SUBSET Packages
  BY <1>3, TopCall, PackageBuildAssumption DEF StagingPackages
<1>4. CASE Enter(t)
  <2>1. stack[t] # <<>> /\ Top(t).at = "enter" /\ "deps" \in Places /\ UNCHANGED <<built, wasBuilt, status>>
    BY <1>4 DEF Enter, At, Places
  <2>2. CASE (Top(t).locally /\ wasBuilt[Top(t).pkg]) \/ (~Top(t).locally /\ built[Top(t).pkg])
    <3>1. stack' = [stack EXCEPT ![t] = Tail(@)]
      BY <1>4, <2>2, Zenon DEF Enter
    <3> QED BY <2>1, <3>1 DEF Returns
  <2>3. CASE ~((Top(t).locally /\ wasBuilt[Top(t).pkg]) \/ (~Top(t).locally /\ built[Top(t).pkg]))
    <3>1. Goto(t, "deps", Deps[Top(t).pkg])
      BY <1>4, <2>3, Zenon DEF Enter
    <3>2. Top(t).locally \in BOOLEAN
      BY <2>1, TopCall
    <3> QED BY <1>3, <2>1, <2>3, <3>1, <3>2 DEF Continues
  <2> QED BY <2>2, <2>3
<1>5. CASE DependLoop(t) \/ LocalLoop(t)
  BY <1>3, <1>5 DEF DependLoop, LocalLoop, At, Continues, Descends, Places
<1>6. CASE Suppress(t)
  BY <1>3, <1>6 DEF Suppress, ReturnTrue, At, Continues, Returns, Places
<1>7. CASE PrepareNothing(t) \/ Prepare(t) \/ PrepareThrows(t) \/ HashWritten(t)
  BY <1>3, <1>7 DEF PrepareNothing, Prepare, PrepareThrows, HashWritten, At, Continues, Places
<1>8. CASE NotRequired(t) \/ Restored(t) \/ Commit(t)
  BY <1>8 DEF NotRequired, Restored, Commit, ReturnTrue, At, Returns
<1>9. CASE Required(t)
  BY <1>3, <1>9 DEF Required, At, Continues, Places
<1>10. CASE FetchAndExtract(t)
  BY <1>3, <1>10 DEF FetchAndExtract, At, Continues, Places
<1>11. CASE ExtractStaging(t)
  <2>1. stack[t] # <<>> /\ Top(t).at = "staging" /\ UNCHANGED <<built, wasBuilt, status>>
        /\ {"staging", "fail", "commands"} \subseteq Places
    BY <1>11 DEF ExtractStaging, At, Places
  <2>2. \/ \E q : Goto(t, "staging", Top(t).todo \ {q})
        \/ Goto(t, "fail", {}) \/ Goto(t, "commands", {})
    BY <1>11, Zenon DEF ExtractStaging
  <2>3. CASE \E q : Goto(t, "staging", Top(t).todo \ {q})
    <3>1. PICK q : Goto(t, "staging", Top(t).todo \ {q})
      BY <2>3
    <3>2. Top(t).todo \ {q} \in SUBSET Packages
      BY <1>3, <2>1
    <3> QED BY <2>1, <3>1, <3>2 DEF Continues
  <2>4. CASE Goto(t, "fail", {}) \/ Goto(t, "commands", {})
    BY <1>3, <2>1, <2>4 DEF Continues
  <2> QED BY <2>2, <2>3, <2>4
<1>12. CASE RunCommands(t) \/ CommitThrows(t)
  BY <1>3, <1>12 DEF RunCommands, CommitThrows, At, Continues, Places
<1>13. CASE Packed(t)
  BY <1>3, <1>13 DEF Packed, At, Continues, Places
<1> QED BY <1>1, <1>2, <1>4, <1>5, <1>6, <1>7, <1>8, <1>9, <1>10, <1>11, <1>12, <1>13 DEF Build

LEMMA OthersKeep ==
  ASSUME TypeOK, NEW t \in Packages, Start(t) \/ Build(t) \/ Finished(t) \/ SetFailed(t),
         NEW u \in Packages, u # t
  PROVE  stack'[u] = stack[u]
<1>1. CASE Continues(t) \/ Descends(t)
  <2>1. \E s : stack' = [stack EXCEPT ![t] = s]
    BY <1>1, Zenon DEF Continues, Descends, Goto, Recurse
  <2> QED BY <2>1 DEF TypeOK
<1>2. CASE Returns(t) \/ Start(t) \/ Stops(t)
  BY <1>2 DEF Returns, Start, Stops, TypeOK
<1>3. CASE Fail(t)
  BY <1>3, FailStack
<1> QED BY <1>1, <1>2, <1>3, Turns

\* The first call of a thread is for its own package, which is not built; any
\* other is for a package that is built, and does something only when it was
\* wanted locally.
Frame(u, i) ==
  LET c == stack[u][i] IN
  /\ \A d \in Deps[c.pkg] : built[d]
  /\ c.at = "local" => c.todo \subseteq Locally[c.pkg]
  /\ IF i = Len(stack[u]) THEN c.pkg = u /\ ~c.locally /\ ~built[u]
     ELSE built[c.pkg] /\ IF c.locally THEN c.pkg \in Wanted ELSE c.at = "enter"

Frames == \A u \in Packages : \A i \in 1 .. Len(stack[u]) : Frame(u, i)

BuiltBelow == \A p \in Packages : built[p] => \A d \in Deps[p] : built[d]

\* A call keeps its frame when it only gets another index.
LEMMA FrameKept ==
  ASSUME NEW u \in Packages, NEW i, NEW k, Frame(u, i), stack'[u][k] = stack[u][i],
         (k = Len(stack'[u])) <=> (i = Len(stack[u])),
         \A p \in Packages : built[p] => built'[p],
         stack[u][i].pkg \in Packages, built'[u] = built[u] \/ i # Len(stack[u])
  PROVE  Frame(u, k)'
<1>1. Deps[stack[u][i].pkg] \subseteq Packages
  BY PackageBuildAssumption
<1>2. CASE i = Len(stack[u])
  BY <1>1, <1>2 DEF Frame
<1>3. CASE i # Len(stack[u])
  BY <1>1, <1>3 DEF Frame
<1> QED BY <1>2, <1>3

LEMMA FramesStep ==
  ASSUME TypeOK, StackInv, Loops, Frames, BuiltBelow, NEW t \in Packages,
         Start(t) \/ Build(t) \/ Finished(t) \/ SetFailed(t)
  PROVE  Frames' /\ BuiltBelow'
<1>0. /\ \A u \in Packages : stack[u] \in Seq(Calls) /\ Len(stack[u]) \in Nat
      /\ \A p \in Packages : Deps[p] \subseteq Packages /\ Locally[p] \subseteq Deps[p]
  BY PackageBuildAssumption DEF TypeOK
<1>1. ASSUME stack[t] # <<>>
      PROVE  /\ Top(t) = stack[t][1] /\ Top(t) \in Calls /\ Top(t).pkg \in Packages
             /\ 1 \in 1 .. Len(stack[t]) /\ Frame(t, 1)
  <2>1. /\ Top(t) = stack[t][1] /\ Top(t) \in Calls /\ Top(t).pkg \in Packages
        /\ Len(stack[t]) \in Nat /\ Len(stack[t]) >= 1
    BY <1>1, TopCall
  <2> QED BY <2>1 DEF Frames
\* The other threads keep their frames, for no package of theirs gets built.
<1>2. ASSUME \A u \in Packages : u # t => stack'[u] = stack[u],
             \A p \in Packages : built[p] => built'[p],
             \A u \in Packages : u # t => built'[u] = built[u] \/ built[u],
             \A i \in 1 .. Len(stack'[t]) : Frame(t, i)'
      PROVE  Frames'
  <2> SUFFICES ASSUME NEW u \in Packages, u # t, NEW i \in 1 .. Len(stack'[u])
               PROVE  Frame(u, i)'
    BY <1>2 DEF Frames
  <2>1. stack'[u] = stack[u] /\ i \in 1 .. Len(stack[u])
    BY <1>2
  <2>2. Frame(u, i) /\ stack[u][i].pkg \in Packages
    BY <2>1, CallTypes DEF Frames
  <2>3. built'[u] = built[u] \/ i # Len(stack[u])
    BY <1>2, <2>2 DEF Frame
  <2> QED BY <1>2, <2>1, <2>2, <2>3, FrameKept
<1>3. CASE Continues(t)
  <2>1. PICK place \in Places, todo \in SUBSET Packages :
          Goto(t, place, todo) /\ (place = "local" => todo \subseteq Locally[Top(t).pkg])
    BY <1>3 DEF Continues
  <2>2. /\ stack[t] # <<>> /\ built' = built
        /\ Top(t).at = "enter" => Top(t).locally \/ ~built[Top(t).pkg]
    BY <1>3 DEF Continues
  <2>3. /\ stack'[t][1].pkg = Top(t).pkg /\ stack'[t][1].locally = Top(t).locally
        /\ stack'[t][1].at = place /\ stack'[t][1].todo = todo
        /\ \A u \in Packages :
             /\ Len(stack'[u]) = Len(stack[u])
             /\ \A i \in 1 .. Len(stack[u]) : ~(u = t /\ i = 1) => stack'[u][i] = stack[u][i]
    BY <1>1, <2>1, <2>2, GotoCalls
  <2>4. \A u \in Packages : u # t => stack'[u] = stack[u]
    BY <2>1, <2>2, GotoStack, Zenon
  <2>5. Frame(t, 1)'
    BY <1>1, <2>1, <2>2, <2>3 DEF Frame
  <2>6. ASSUME NEW i \in 1 .. Len(stack'[t]), i # 1
        PROVE  Frame(t, i)'
    <3>1. i \in 1 .. Len(stack[t]) /\ stack'[t][i] = stack[t][i] /\ Len(stack'[t]) = Len(stack[t])
      BY <2>3, <2>6
    <3>2. Frame(t, i) /\ stack[t][i].pkg \in Packages
      BY <3>1, CallTypes DEF Frames
    <3> QED BY <2>2, <3>1, <3>2, FrameKept
  <2>7. Frames'
    BY <1>2, <2>2, <2>4, <2>5, <2>6
  <2> QED BY <2>2, <2>7 DEF BuiltBelow
<1>4. CASE Descends(t)
  <2>1. stack[t] # <<>> /\ built' = built
    BY <1>4 DEF Descends
  <2>2. PICK d \in Top(t).todo, locally \in BOOLEAN :
          Recurse(t, d, locally) /\ Top(t).at = IF locally THEN "local" ELSE "deps"
    BY <1>4 DEF Descends
  <2>3. d \in Packages /\ Top(t).todo \subseteq Deps[Top(t).pkg]
        /\ (locally => d \in Locally[Top(t).pkg])
    <3>1. Top(t).todo \subseteq Deps[Top(t).pkg]
      BY <1>1, <2>1, <2>2 DEF Loops
    <3>2. locally => d \in Locally[Top(t).pkg]
      BY <1>1, <2>1, <2>2 DEF Frame
    <3> QED BY <1>0, <1>1, <2>1, <2>2, <3>1, <3>2
  <2>4. /\ \A u \in Packages : u # t => stack'[u] = stack[u]
        /\ Len(stack'[t]) = Len(stack[t]) + 1
        /\ stack'[t][1] = Call(d, locally)
        /\ stack'[t][2] = [stack[t][1] EXCEPT !.todo = stack[t][1].todo \ {d}]
        /\ \A i \in 3 .. Len(stack'[t]) : stack'[t][i] = stack[t][i - 1]
    BY <2>1, <2>2, <2>3, RecurseStack
  <2>5. /\ stack'[t][1].pkg = d /\ stack'[t][1].locally = locally /\ stack'[t][1].at = "enter"
        /\ stack'[t][2].pkg = Top(t).pkg /\ stack'[t][2].locally = Top(t).locally
        /\ stack'[t][2].at = Top(t).at /\ stack'[t][2].todo \subseteq Top(t).todo
    BY <1>1, <2>1, <2>4 DEF Call, Calls
  <2>6. \A n \in Nat : n >= 1 =>
          /\ 1 # n + 1 /\ ((2 = n + 1) <=> (1 = n))
          /\ \A i \in 1 .. (n + 1) : i = 1 \/ i = 2 \/ i \in 3 .. (n + 1)
          /\ \A i \in 3 .. (n + 1) : i - 1 \in 1 .. n /\ ((i = n + 1) <=> (i - 1 = n))
    OBVIOUS
  <2>7. /\ 1 # Len(stack'[t]) /\ ((2 = Len(stack'[t])) <=> (1 = Len(stack[t])))
        /\ \A i \in 1 .. Len(stack'[t]) : i = 1 \/ i = 2 \/ i \in 3 .. Len(stack'[t])
        /\ \A i \in 3 .. Len(stack'[t]) :
             i - 1 \in 1 .. Len(stack[t]) /\ ((i = Len(stack'[t])) <=> (i - 1 = Len(stack[t])))
    <3>1. Len(stack[t]) \in Nat /\ Len(stack[t]) >= 1 /\ Len(stack'[t]) = Len(stack[t]) + 1
      BY <2>1, <2>4, TopCall
    <3>2. PICK n \in Nat : n = Len(stack[t]) /\ n >= 1 /\ Len(stack'[t]) = n + 1
      BY <3>1
    <3>3. /\ 1 # n + 1 /\ ((2 = n + 1) <=> (1 = n))
          /\ \A i \in 1 .. (n + 1) : i = 1 \/ i = 2 \/ i \in 3 .. (n + 1)
          /\ \A i \in 3 .. (n + 1) : i - 1 \in 1 .. n /\ ((i = n + 1) <=> (i - 1 = n))
      BY <2>6, <3>2, Zenon
    <3> QED BY <3>2, <3>3
  <2>8. Frame(t, 1)'
    <3>1. built[d] /\ \A e \in Deps[d] : built[e]
      BY <1>1, <2>1, <2>2, <2>3 DEF Frame, BuiltBelow
    <3>2. locally => d \in Wanted
      BY <1>1, <2>1, <2>3 DEF Wanted
    <3> QED BY <2>1, <2>5, <2>7, <3>1, <3>2 DEF Frame
  <2>9. Frame(t, 2)'
    BY <1>1, <2>1, <2>2, <2>5, <2>7 DEF Frame
  <2>10. ASSUME NEW i \in 3 .. Len(stack'[t])
         PROVE  Frame(t, i)'
    <3>1. PICK k \in 1 .. Len(stack[t]) :
            stack'[t][i] = stack[t][k] /\ ((i = Len(stack'[t])) <=> (k = Len(stack[t])))
      BY <2>4, <2>7
    <3>2. Frame(t, k) /\ stack[t][k].pkg \in Packages
      BY CallTypes DEF Frames
    <3> QED BY <2>1, <3>1, <3>2, FrameKept
  <2>11. Frames'
    BY <1>2, <2>1, <2>4, <2>7, <2>8, <2>9, <2>10
  <2> QED BY <2>1, <2>11 DEF BuiltBelow
<1>5. ASSUME stack[t] # <<>>
      PROVE  /\ \A i \in 1 .. Len(stack[t]) - 1 :
                  /\ i + 1 \in 1 .. Len(stack[t])
                  /\ (i = Len(stack[t]) - 1) <=> (i + 1 = Len(stack[t]))
             /\ Len(stack[t]) = 1 => \A i \in 1 .. Len(stack[t]) - 1 : FALSE
  <2>1. Len(stack[t]) \in Nat /\ Len(stack[t]) >= 1
    BY <1>5, TopCall
  <2>2. \A n \in Nat : n >= 1 =>
          /\ \A i \in 1 .. n - 1 : i + 1 \in 1 .. n /\ ((i = n - 1) <=> (i + 1 = n))
          /\ n = 1 => \A i \in 1 .. n - 1 : FALSE
    OBVIOUS
  <2> QED BY <2>1, <2>2, Zenon
<1>6. CASE Returns(t)
  <2>1. stack[t] # <<>>
    BY <1>6 DEF Returns
  <2>2. /\ \A u \in Packages : u # t => stack'[u] = stack[u]
        /\ Len(stack'[t]) = Len(stack[t]) - 1
        /\ \A i \in 1 .. Len(stack'[t]) : stack'[t][i] = stack[t][i + 1]
    BY <1>6, PopStack DEF Returns
  <2>3. /\ \A p \in Packages : built[p] => built'[p]
        /\ \A p \in Packages : p # Top(t).pkg => built'[p] = built[p]
    BY <1>6 DEF Returns, TypeOK
  <2>4. ASSUME NEW i \in 1 .. Len(stack'[t])
        PROVE  Frame(t, i)'
    <3>1. PICK k \in 1 .. Len(stack[t]) :
            stack'[t][i] = stack[t][k] /\ ((i = Len(stack'[t])) <=> (k = Len(stack[t])))
      BY <1>5, <2>1, <2>2
    <3>2. Frame(t, k) /\ stack[t][k].pkg \in Packages
      BY CallTypes DEF Frames
    <3>3. 1 # Len(stack[t])
      BY <1>5, <2>1, <2>2
    <3>4. built'[t] = built[t] \/ built[t]
      BY <1>1, <2>1, <2>3, <3>3 DEF Frame
    <3>5. built'[t] = built[t] \/ k # Len(stack[t])
      BY <3>2, <3>4 DEF Frame
    <3> QED BY <2>3, <3>1, <3>2, <3>5, FrameKept
  <2>5. ASSUME NEW u \in Packages, u # t
        PROVE  built'[u] = built[u] \/ built[u]
    BY <1>1, <2>1, <2>3, <2>5 DEF Frame
  <2>6. Frames'
    BY <1>2, <2>2, <2>3, <2>4, <2>5
  <2>7. BuiltBelow'
    <3> SUFFICES ASSUME NEW p \in Packages, built'[p], NEW d \in Deps[p]
                 PROVE  built'[d]
      BY DEF BuiltBelow
    <3>1. built[d]
      BY <1>1, <2>1, <2>3 DEF BuiltBelow, Frame
    <3> QED BY <1>0, <2>3, <3>1
  <2> QED BY <2>6, <2>7
<1>7. CASE Fail(t)
  <2>1. stack[t] # <<>> /\ built' = built
    BY <1>7 DEF Fail, At, flagVars
  <2>2. /\ \A u \in Packages : u # t => stack'[u] = stack[u]
        /\ Len(stack'[t]) = Len(stack[t]) - 1
        /\ Len(stack[t]) > 1 => stack'[t][1] = [stack[t][2] EXCEPT !.at = "fail"]
        /\ \A i \in 2 .. Len(stack'[t]) : stack'[t][i] = stack[t][i + 1]
    BY <1>7, FailStack
  <2>3. ASSUME NEW i \in 1 .. Len(stack'[t])
        PROVE  Frame(t, i)'
    <3>1. /\ i + 1 \in 1 .. Len(stack[t]) /\ Len(stack[t]) > 1
          /\ (i = Len(stack'[t])) <=> (i + 1 = Len(stack[t]))
          /\ i = 1 \/ i \in 2 .. Len(stack'[t])
      BY <1>0, <2>1, <2>2, <2>3
    <3>2. Frame(t, i + 1) /\ stack[t][i + 1] \in Calls /\ stack[t][i + 1].pkg \in Packages
      BY <3>1, CallTypes DEF Frames
    <3>3. CASE i = 1
      <4>1. stack'[t][1] = [stack[t][2] EXCEPT !.at = "fail"] /\ i + 1 = 2 /\ 2 \in 2 .. Len(stack[t])
        BY <1>0, <3>1, <2>2, <3>3
      <4>2. /\ stack'[t][1].pkg = stack[t][2].pkg /\ stack'[t][1].locally = stack[t][2].locally
            /\ stack'[t][1].at = "fail" /\ stack[t][2].at # "enter"
        BY <3>2, <4>1 DEF Calls, StackInv, Nesting
      <4>3. Frame(t, 2) /\ ((1 = Len(stack'[t])) <=> (2 = Len(stack[t])))
        BY <3>1, <3>2, <3>3, <4>1
      <4>4. Frame(t, 1)'
        BY <2>1, <4>2, <4>3 DEF Frame
      <4> QED BY <3>3, <4>4
    <3>4. CASE i # 1
      <4>1. PICK k \in 1 .. Len(stack[t]) :
              /\ stack'[t][i] = stack[t][k] /\ ((i = Len(stack'[t])) <=> (k = Len(stack[t])))
              /\ Frame(t, k) /\ stack[t][k].pkg \in Packages
        BY <2>2, <3>1, <3>2, <3>4
      <4> QED BY <2>1, <4>1, FrameKept
    <3> QED BY <3>3, <3>4
  <2>4. Frames'
    BY <1>2, <2>1, <2>2, <2>3
  <2> QED BY <2>1, <2>4 DEF BuiltBelow
<1>8. CASE Start(t)
  <2>1. /\ stack' = [stack EXCEPT ![t] = <<Call(t, FALSE)>>] /\ built' = built
        /\ ~built[t] /\ \A d \in Deps[t] : built[d]
    BY <1>8 DEF Start, flagVars
  <2>2. /\ \A u \in Packages : u # t => stack'[u] = stack[u]
        /\ stack'[t] = <<Call(t, FALSE)>>
    BY <2>1 DEF TypeOK
  <2>3. Len(stack'[t]) = 1 /\ stack'[t][1] = Call(t, FALSE) /\ \A i \in 1 .. Len(stack'[t]) : i = 1
    BY <2>2
  <2>4. Frame(t, 1)'
    BY <2>1, <2>3 DEF Frame, Call
  <2>5. Frames'
    BY <1>2, <2>1, <2>2, <2>3, <2>4
  <2> QED BY <2>1, <2>5 DEF BuiltBelow
<1>9. CASE Stops(t)
  BY <1>9 DEF Stops, Frames, Frame, BuiltBelow
<1> QED BY <1>3, <1>4, <1>6, <1>7, <1>8, <1>9, Turns

\* A tar that is not complete is of a package that is not built in this run;
\* and when nobody wants that package locally it is not built at all, and its
\* own thread is writing the tar or has failed.
Partial ==
  \A q \in Packages : tar[q] = "partial" =>
    /\ ~fetchOnly /\ ~wasBuilt[q] /\ q \notin suppressed
    /\ q \notin Wanted =>
         /\ ~built[q] /\ status[q] # "idle"
         /\ \A i \in 1 .. Len(stack[q]) : stack[q][i].at \in {"packing", "fail"}

Complete == \A t \in Packages : At(t, "commit") => tar[Top(t).pkg] # "partial"

Extracts == \A t \in Packages : At(t, "staging") => Top(t).todo \subseteq StagingPackages(Top(t).pkg)

TornInv == Nested /\ Loops /\ Frames /\ BuiltBelow /\ Partial /\ Complete /\ Extracts

\* What a step does to the tars.
LEMMA TarStep ==
  ASSUME NEW t \in Packages, Start(t) \/ Build(t) \/ Finished(t) \/ SetFailed(t)
  PROVE  /\ suppressed' = suppressed /\ fetchOnly' = fetchOnly
         /\ \/ tar' = tar
            \/ stack[t] # <<>> /\ tar' = [tar EXCEPT ![Top(t).pkg] = "whole"]
            \/ /\ At(t, "commands") /\ Goto(t, "packing", {})
               /\ tar' = [tar EXCEPT ![Top(t).pkg] = "partial"]
               /\ UNCHANGED <<built, wasBuilt, status>>
<1> USE DEF flagVars, diskVars, worldVars, optionVars
<1>1. CASE Start(t) \/ Finished(t) \/ SetFailed(t)
  BY <1>1 DEF Start, Finished, SetFailed
<1>2. CASE Quiet(t)
  BY <1>2 DEF Quiet, Enter, DependLoop, PrepareNothing, PrepareThrows, LocalLoop, FetchAndExtract,
     ExtractStaging, Required, RunCommands, Packed, Fail, At
<1>3. CASE Suppress(t) \/ Prepare(t) \/ HashWritten(t)
  BY <1>3 DEF Suppress, Prepare, HashWritten
<1>4. CASE NotRequired(t) \/ Restored(t) \/ Commit(t) \/ CommitThrows(t)
  BY <1>4 DEF NotRequired, Restored, Commit, CommitThrows, At
<1> QED BY <1>1, <1>2, <1>3, <1>4 DEF Build, Quiet

\* A call comes to these places from another place of it, in one step.
LEMMA Arrives ==
  ASSUME TypeOK, StackInv, NEW t \in Packages, Start(t) \/ Build(t) \/ Finished(t) \/ SetFailed(t),
         NEW place \in {"staging", "commit", "packing"}, At(t, place)'
  PROVE  /\ stack[t] # <<>> /\ Top(t)'.pkg = Top(t).pkg
         /\ place = "staging" => Top(t)'.todo \subseteq
              IF Top(t).at = "staging" THEN Top(t).todo ELSE StagingPackages(Top(t).pkg)
         /\ place = "commit" => fetchOnly \/ tar' = [tar EXCEPT ![Top(t).pkg] = "whole"]
<1>1. stack'[t] # <<>> /\ Head(stack'[t]).at = place /\ Top(t)' = Head(stack'[t])
  BY DEF At, Top
<1>2. stack'[t] \in Seq(Calls) => Head(stack'[t]) = stack'[t][1] /\ 1 \in 1 .. Len(stack'[t])
  BY <1>1
<1>3. stack[t] \in Seq(Calls) /\ Len(stack[t]) \in Nat
  BY DEF TypeOK
<1>4. CASE Continues(t)
  <2>1. PICK there \in Places, todo \in SUBSET Packages :
          /\ Goto(t, there, todo)
          /\ there = "staging" => todo \subseteq
               IF Top(t).at = "staging" THEN Top(t).todo ELSE StagingPackages(Top(t).pkg)
          /\ there = "commit" => fetchOnly \/ tar' = [tar EXCEPT ![Top(t).pkg] = "whole"]
    BY <1>4 DEF Continues
  <2>2. stack[t] # <<>>
    BY <1>4 DEF Continues
  <2>3. /\ stack' \in [Packages -> Seq(Calls)] /\ Top(t) = stack[t][1]
        /\ stack'[t][1].pkg = stack[t][1].pkg /\ stack'[t][1].at = there /\ stack'[t][1].todo = todo
    BY <2>1, <2>2, GotoCalls
  <2> QED BY <1>1, <1>2, <2>1, <2>2, <2>3
<1>5. CASE Descends(t)
  <2>1. stack[t] # <<>> /\ Top(t).todo \subseteq Packages
    BY <1>5, TopCall DEF Descends
  <2>2. PICK d \in Packages, locally \in BOOLEAN : Recurse(t, d, locally)
    BY <1>5, <2>1 DEF Descends
  <2>3. stack' \in [Packages -> Seq(Calls)]
    BY <2>1, <2>2, RecurseStack
  <2>4. stack'[t][1] = Call(d, locally)
    BY <2>1, <2>2, RecurseCalls
  <2> QED BY <1>1, <1>2, <2>3, <2>4 DEF Call
<1>6. CASE Returns(t) \/ Fail(t)
  <2>1. /\ stack' \in [Packages -> Seq(Calls)] /\ Len(stack'[t]) = Len(stack[t]) - 1
        /\ \/ 1 \in 1 .. Len(stack'[t]) => stack'[t][1] = stack[t][2]
           \/ Len(stack[t]) > 1 => stack'[t][1].at = "fail"
    <3>1. CASE Returns(t)
      <4>1. /\ stack' \in [Packages -> Seq(Calls)] /\ Len(stack'[t]) = Len(stack[t]) - 1
            /\ \A i \in 1 .. Len(stack'[t]) : stack'[t][i] = stack[t][i + 1]
        BY <3>1, PopStack, Zenon DEF Returns
      <4>2. 1 \in 1 .. Len(stack'[t]) => stack'[t][1] = stack[t][1 + 1]
        BY <4>1, Zenon
      <4>3. 1 + 1 = 2
        OBVIOUS
      <4> QED BY <4>1, <4>2, <4>3, Zenon
    <3>2. CASE Fail(t)
      <4>1. stack' \in [Packages -> Seq(Calls)] /\ Len(stack'[t]) = Len(stack[t]) - 1
            /\ (Len(stack[t]) > 1 => stack'[t][1] = [stack[t][2] EXCEPT !.at = "fail"])
        BY <3>2, FailStack
      <4>2. Len(stack[t]) > 1 => stack[t][2] \in Calls
        BY <1>3
      <4> QED BY <4>1, <4>2 DEF Calls
    <3> QED BY <1>6, <3>1, <3>2
  <2>2. 1 \in 1 .. Len(stack'[t])
    BY <1>2, <2>1
  <2>3. Len(stack[t]) > 1 /\ 2 \in 2 .. Len(stack[t])
    BY <1>3, <2>1, <2>2
  <2>4. stack[t][2].at \in {"deps", "local"}
    BY <2>3 DEF StackInv, Nesting
  <2> QED BY <1>1, <1>2, <2>1, <2>2, <2>3, <2>4
<1>7. CASE Start(t)
  BY <1>1, <1>7 DEF Start, Call, TypeOK
<1>8. CASE Stops(t)
  BY <1>1, <1>8 DEF Stops
<1> QED BY <1>4, <1>5, <1>6, <1>7, <1>8, Turns

\* The call on top, when it is at work: nobody else works on its package, and
\* when nobody wants the package locally it is the thread's own only call.
LEMMA WorkingTop ==
  ASSUME IInv, Frames, NEW t \in Packages, stack[t] # <<>>, Top(t).at # "enter"
  PROVE  /\ Top(t).pkg \in Packages /\ Top(t) = stack[t][1] /\ 1 \in 1 .. Len(stack[t])
         /\ Ready(Top(t).pkg, Top(t).at) /\ status[t] = "running"
         /\ Top(t).pkg \notin Wanted => Top(t).pkg = t /\ Len(stack[t]) = 1
         /\ \A u \in Packages : stack[u] # <<>> /\ Top(u).at # "enter" /\ Top(u).pkg = Top(t).pkg => u = t
<1>1. TypeOK /\ StackInv /\ CallInv
  BY DEF IInv
<1>2. \A u \in Packages : stack[u] # <<>> =>
        /\ Top(u).pkg \in Packages /\ Top(u) = stack[u][1] /\ 1 \in 1 .. Len(stack[u])
  <2> SUFFICES ASSUME NEW u \in Packages, stack[u] # <<>>
               PROVE  Top(u).pkg \in Packages /\ Top(u) = stack[u][1] /\ 1 \in 1 .. Len(stack[u])
    OBVIOUS
  <2>1. /\ Top(u).pkg \in Packages /\ Top(u) = stack[u][1]
        /\ Len(stack[u]) \in Nat /\ Len(stack[u]) >= 1
    BY <1>1, TopCall
  <2> QED BY <2>1
<1>3. Frame(t, 1)
  BY <1>2 DEF Frames
<1>4. Top(t).pkg \notin Wanted => Top(t).pkg = t /\ Len(stack[t]) = 1
  BY <1>2, <1>3 DEF Frame
<1>5. Ready(Top(t).pkg, Top(t).at)
  BY <1>1, <1>2 DEF CallInv
<1>6. status[t] = "running"
  BY <1>1 DEF StackInv, Idle
<1>7. \A u \in Packages : stack[u] # <<>> /\ Top(u).at # "enter" => lock[Top(u).pkg] = u
  BY <1>1, <1>2 DEF StackInv, Holding
<1> QED BY <1>2, <1>4, <1>5, <1>6, <1>7

LEMMA PartialStep ==
  ASSUME IInv, Frames, Partial, Complete, NEW t \in Packages,
         Start(t) \/ Build(t) \/ Finished(t) \/ SetFailed(t)
  PROVE  Partial'
<1>1. TypeOK /\ StackInv
  BY DEF IInv
<1>2. suppressed' = suppressed /\ fetchOnly' = fetchOnly
  BY TarStep
<1> SUFFICES ASSUME NEW q \in Packages, tar'[q] = "partial"
             PROVE  /\ ~fetchOnly /\ ~wasBuilt'[q] /\ q \notin suppressed
                    /\ q \notin Wanted =>
                         /\ ~built'[q] /\ status'[q] # "idle"
                         /\ \A i \in 1 .. Len(stack'[q]) : stack'[q][i].at \in {"packing", "fail"}
  BY <1>2 DEF Partial
\* The tar has just been opened.
<1>3. CASE tar[q] # "partial"
  <2>1. /\ At(t, "commands") /\ Goto(t, "packing", {}) /\ UNCHANGED <<built, wasBuilt, status>>
        /\ tar' = [tar EXCEPT ![Top(t).pkg] = "partial"]
    BY <1>1, <1>3, TarStep DEF TypeOK
  <2>2. stack[t] # <<>> /\ Top(t).at = "commands"
    BY <2>1 DEF At
  <2>3. q = Top(t).pkg
    BY <1>1, <1>3, <2>1 DEF TypeOK
  <2>4. Ready(q, "commands")
    BY <2>2, <2>3, WorkingTop
  <2>5. ~fetchOnly /\ ~wasBuilt'[q] /\ q \notin suppressed
    BY <2>1, <2>4 DEF Ready
  <2>6. ASSUME q \notin Wanted
        PROVE  /\ ~built'[q] /\ status'[q] # "idle"
               /\ \A i \in 1 .. Len(stack'[q]) : stack'[q][i].at \in {"packing", "fail"}
    <3>1. q = t /\ Len(stack[t]) = 1 /\ 1 \in 1 .. Len(stack[t]) /\ status[t] = "running"
      <4>1. stack[t] # <<>> /\ Top(t).at # "enter" /\ Top(t).pkg \notin Wanted
        BY <2>2, <2>3, <2>6
      <4>2. Top(t).pkg = t /\ Len(stack[t]) = 1 /\ 1 \in 1 .. Len(stack[t]) /\ status[t] = "running"
        BY <4>1, WorkingTop
      <4> QED BY <2>3, <4>2
    <3>2. ~built[q]
      BY <3>1 DEF Frames, Frame
    <3>3. Len(stack'[t]) = Len(stack[t]) /\ stack'[t][1].at = "packing"
      BY <1>1, <2>1, <2>2, GotoCalls DEF Places
    <3>4. \A i \in 1 .. 1 : i = 1
      OBVIOUS
    <3> QED BY <2>1, <3>1, <3>2, <3>3, <3>4
  <2> QED BY <2>5, <2>6
\* The tar was like that before.
<1>4. CASE tar[q] = "partial"
  <2>1. /\ ~fetchOnly /\ ~wasBuilt[q] /\ q \notin suppressed
        /\ q \notin Wanted =>
             /\ ~built[q] /\ status[q] # "idle"
             /\ \A i \in 1 .. Len(stack[q]) : stack[q][i].at \in {"packing", "fail"}
    BY <1>4 DEF Partial
  <2>2. ~wasBuilt'[q]
    <3>1. CASE Returns(t)
      <4>1. wasBuilt' = wasBuilt \/ (At(t, "commit") /\ wasBuilt' = [wasBuilt EXCEPT ![Top(t).pkg] = TRUE])
        BY <3>1 DEF Returns, At
      <4>2. At(t, "commit") => Top(t).pkg # q
        BY <1>4 DEF Complete
      <4> QED BY <1>1, <2>1, <4>1, <4>2 DEF TypeOK
    <3>2. CASE ~Returns(t)
      BY <1>1, <2>1, <3>2, Turns DEF Continues, Descends, Fail, Start, Stops, flagVars
    <3> QED BY <3>1, <3>2
  <2>3. ASSUME q \notin Wanted, q # t
        PROVE  /\ ~built'[q] /\ status'[q] # "idle"
               /\ \A i \in 1 .. Len(stack'[q]) : stack'[q][i].at \in {"packing", "fail"}
    <3>1. stack'[q] = stack[q]
      BY <1>1, <2>3, OthersKeep
    <3>2. ~built'[q]
      <4>1. CASE Returns(t)
        <5>1. \/ built' = built
              \/ /\ stack[t] # <<>> /\ Top(t).at # "enter"
                 /\ built' = [built EXCEPT ![Top(t).pkg] = TRUE]
          BY <4>1 DEF Returns
        <5>2. stack[t] # <<>> /\ Top(t).at # "enter" => Top(t).pkg # q
          BY <2>3, WorkingTop
        <5> QED BY <1>1, <2>1, <2>3, <5>1, <5>2 DEF TypeOK
      <4>2. CASE ~Returns(t)
        <5>1. built' = built
          BY <1>1, <4>2, Turns DEF Continues, Descends, Fail, Start, Stops, flagVars
        <5> QED BY <2>1, <2>3, <5>1
      <4> QED BY <4>1, <4>2
    <3>3. status'[q] # "idle"
      <4>1. status' = status \/ \E s : status' = [status EXCEPT ![t] = s]
        BY <1>1, Turns DEF Continues, Descends, Returns, Fail, Start, Stops
      <4> QED BY <1>1, <2>1, <2>3, <4>1 DEF TypeOK
    <3> QED BY <2>1, <2>3, <3>1, <3>2, <3>3
  <2>4. ASSUME q \notin Wanted, q = t
        PROVE  /\ ~built'[q] /\ status'[q] # "idle"
               /\ \A i \in 1 .. Len(stack'[q]) : stack'[q][i].at \in {"packing", "fail"}
    <3>1. ASSUME stack[t] # <<>>
          PROVE  Top(t).at \in {"packing", "fail"} /\ Len(stack[t]) = 1 /\ Top(t).pkg = t
      <4>1. Top(t) = stack[t][1] /\ Len(stack[t]) \in Nat /\ Len(stack[t]) >= 1
        BY <1>1, <3>1, TopCall
      <4>2. Top(t).at \in {"packing", "fail"}
        BY <2>1, <2>4, <4>1
      <4>3. Len(stack[t]) = 1
        <5>1. \A n \in Nat : n >= 1 /\ n # 1 => 2 \in 1 .. n /\ 2 \in 2 .. n
          OBVIOUS
        <5>2. Len(stack[t]) # 1 => 2 \in 1 .. Len(stack[t]) /\ 2 \in 2 .. Len(stack[t])
          BY <4>1, <5>1, Zenon
        <5> QED BY <1>1, <2>1, <2>4, <5>2 DEF StackInv, Nesting
      <4>4. Frame(t, 1)
        BY <4>1 DEF Frames
      <4> QED BY <4>1, <4>2, <4>3, <4>4 DEF Frame
    <3>2. CASE Continues(t)
      <4>1. PICK place \in {"commit", "fail"}, todo \in SUBSET Packages :
              /\ Goto(t, place, todo)
              /\ place = "commit" => fetchOnly \/ tar' = [tar EXCEPT ![Top(t).pkg] = "whole"]
        BY <3>1, <3>2 DEF Continues
      <4>2. stack[t] # <<>> /\ UNCHANGED <<built, status>>
        BY <3>2 DEF Continues
      <4>3. place = "fail"
        BY <1>1, <2>1, <2>4, <3>1, <4>1, <4>2 DEF TypeOK
      <4>4. Len(stack'[t]) = 1 /\ stack'[t][1].at = "fail"
        BY <1>1, <3>1, <4>1, <4>2, <4>3, GotoCalls DEF Places
      <4>5. \A i \in 1 .. 1 : i = 1
        OBVIOUS
      <4> QED BY <2>1, <2>4, <4>2, <4>4, <4>5
    <3>3. CASE Descends(t) \/ Returns(t)
      BY <3>1, <3>3 DEF Descends, Returns
    <3>4. CASE Fail(t)
      <4>1. stack[t] # <<>> /\ built' = built
        BY <3>4 DEF Fail, At, flagVars
      <4>2. stack'[t] = <<>> /\ status'[t] # "idle"
        BY <1>1, <3>1, <3>4, <4>1 DEF Fail, TypeOK
      <4> QED BY <2>1, <2>4, <4>1, <4>2
    <3>5. CASE Start(t)
      BY <2>1, <2>4, <3>5 DEF Start
    <3>6. CASE Stops(t)
      BY <1>1, <2>1, <2>4, <3>6 DEF Stops, TypeOK
    <3> QED BY <1>1, <3>2, <3>3, <3>4, <3>5, <3>6, Turns
  <2> QED BY <2>1, <2>2, <2>3, <2>4
<1> QED BY <1>3, <1>4

LEMMA CompleteStep ==
  ASSUME IInv, Frames, Partial, Complete, NEW t \in Packages,
         Start(t) \/ Build(t) \/ Finished(t) \/ SetFailed(t)
  PROVE  Complete'
<1>1. TypeOK /\ StackInv
  BY DEF IInv
<1> SUFFICES ASSUME NEW u \in Packages, At(u, "commit")'
             PROVE  tar'[Top(u)'.pkg] # "partial"
  BY DEF Complete
<1>2. CASE u = t
  <2>1. /\ stack[t] # <<>> /\ Top(t)'.pkg = Top(t).pkg
        /\ fetchOnly \/ tar' = [tar EXCEPT ![Top(t).pkg] = "whole"]
    BY <1>1, <1>2, Arrives
  <2>2. Top(t).pkg \in Packages
    BY <1>1, <2>1, TopCall
  <2>3. CASE tar' = [tar EXCEPT ![Top(t).pkg] = "whole"]
    BY <1>1, <1>2, <2>1, <2>2, <2>3 DEF TypeOK
  <2>4. CASE fetchOnly
    <3>1. fetchOnly'
      BY <2>4, TarStep
    <3>2. Partial'
      BY PartialStep
    <3> QED BY <1>2, <2>1, <2>2, <3>1, <3>2 DEF Partial
  <2> QED BY <2>1, <2>3, <2>4
<1>3. CASE u # t
  <2>1. stack'[u] = stack[u]
    BY <1>1, <1>3, OthersKeep
  <2>2. At(u, "commit") /\ Top(u)' = Top(u) /\ stack[u] # <<>> /\ Top(u).at = "commit"
    BY <2>1 DEF At, Top
  <2>3. tar[Top(u).pkg] # "partial" /\ Top(u).pkg \in Packages
    BY <1>1, <2>2, TopCall DEF Complete
  <2>4. stack[t] # <<>> /\ Top(t).at = "commands" => Top(t).pkg # Top(u).pkg
    BY <1>3, <2>2, WorkingTop
  <2>5. tar'[Top(u).pkg] # "partial"
    <3>1. \/ tar' = tar
          \/ tar' = [tar EXCEPT ![Top(t).pkg] = "whole"]
          \/ /\ tar' = [tar EXCEPT ![Top(t).pkg] = "partial"]
             /\ Top(t).pkg # Top(u).pkg
      BY <2>4, TarStep DEF At
    <3> QED BY <1>1, <2>3, <3>1 DEF TypeOK
  <2> QED BY <2>2, <2>5
<1> QED BY <1>2, <1>3

LEMMA ExtractsStep ==
  ASSUME IInv, Extracts, NEW t \in Packages,
         Start(t) \/ Build(t) \/ Finished(t) \/ SetFailed(t)
  PROVE  Extracts'
<1>1. TypeOK /\ StackInv
  BY DEF IInv
<1> SUFFICES ASSUME NEW u \in Packages, At(u, "staging")'
             PROVE  Top(u)'.todo \subseteq StagingPackages(Top(u)'.pkg)
  BY DEF Extracts, StagingPackages
<1>2. CASE u = t
  <2>1. /\ stack[t] # <<>> /\ Top(t)'.pkg = Top(t).pkg
        /\ Top(t)'.todo \subseteq
             IF Top(t).at = "staging" THEN Top(t).todo ELSE StagingPackages(Top(t).pkg)
    BY <1>1, <1>2, Arrives
  <2>2. Top(t).at = "staging" => Top(t).todo \subseteq StagingPackages(Top(t).pkg)
    BY <2>1 DEF Extracts, At
  <2> QED BY <1>2, <2>1, <2>2
<1>3. CASE u # t
  <2>1. stack'[u] = stack[u]
    BY <1>1, <1>3, OthersKeep
  <2> QED BY <2>1 DEF At, Top, Extracts
<1> QED BY <1>2, <1>3

\* package.cpp:333, :757, :966: the tars are read without a lock, so a package can
\* be built on one that a locally triggered build is rewriting.  It cannot when
\* the packages agree on what they want built locally: who extracts a tar that
\* may be rewritten has had it rewritten before, and nobody does it again.
THEOREM NoTornStagingHolds ==
  ASSUME LocalAgreement
  PROVE  Spec => []NoTornStaging
<1> DEFINE Inv == TornInv /\ NoTornStaging
<1>1. Init => Inv
  <2> SUFFICES ASSUME Init PROVE Inv
    OBVIOUS
  <2>1. \A p \in Packages : stack[p] = <<>> /\ Len(stack[p]) = 0 /\ ~built[p]
    BY DEF Init
  <2>2. \A p \in Packages : tar[p] # "partial"
    <3>1. PICK left \in [Packages -> Leftovers] : tar = [p \in Packages |-> left[p].tar]
      BY DEF Init
    <3>2. \A p \in Packages : left[p] \in [newInfo : BOOLEAN, info : BOOLEAN, tar : {"none", "whole"}]
      BY <3>1, PackageBuildAssumption
    <3> QED BY <3>1, <3>2
  <2>3. Frames /\ Nested /\ Loops
    BY <2>1 DEF Frames, Nested, Loops
  <2>4. BuiltBelow /\ Partial /\ Complete /\ Extracts /\ NoTornStaging
    BY <2>1, <2>2 DEF BuiltBelow, Partial, Complete, Extracts, At, NoTornStaging, Init
  <2> QED BY <2>3, <2>4 DEF TornInv
<1>2. IInv /\ Inv /\ [Next]_vars => Inv'
  <2> SUFFICES ASSUME IInv, Inv, [Next]_vars
               PROVE  Inv'
    OBVIOUS
  <2>1. CASE \E t \in Packages : Start(t) \/ Build(t) \/ Finished(t) \/ SetFailed(t)
    <3>1. PICK t \in Packages : Start(t) \/ Build(t) \/ Finished(t) \/ SetFailed(t)
      BY <2>1
    <3>2. Nested' /\ Loops' /\ Frames' /\ BuiltBelow' /\ Partial' /\ Complete' /\ Extracts'
      BY <3>1, NestedStep, FramesStep, PartialStep, CompleteStep, ExtractsStep DEF IInv, TornInv
    <3>3. ASSUME At(t, "staging"), NEW q \in Top(t).todo
          PROVE  tar[q] # "partial"
      <4> DEFINE p == Top(t).pkg
      <4>1. stack[t] # <<>> /\ Top(t).at = "staging"
        BY <3>3 DEF At
      <4>2. p \in Packages /\ Ready(p, "staging") /\ Frame(t, 1) /\ p = stack[t][1].pkg
        BY <4>1, WorkingTop DEF TornInv, Frames
      <4>3. q \in StagingPackages(p) /\ q \in Packages
        BY <3>3 DEF TornInv, Extracts, StagingPackages
      <4>4. CASE q \in Wanted
        <5>1. q \in Locally[p]
          BY <4>2, <4>3, <4>4 DEF LocalAgreement
        <5>2. wasBuilt[q] \/ q \in suppressed
          BY <4>2, <5>1 DEF Ready, Working
        <5> QED BY <4>3, <5>2 DEF TornInv, Partial
      <4>5. CASE q \notin Wanted
        <5> DEFINE S == {r \in Packages : built[r]}
        <5>1. Deps[p] \subseteq S /\ \A r \in S : Deps[r] \subseteq S
          BY <4>2, PackageBuildAssumption DEF Frame, TornInv, BuiltBelow
        <5>2. q \in S
          BY <4>3, <5>1 DEF StagingPackages
        <5> QED BY <4>3, <4>5, <5>2 DEF TornInv, Partial
      <4> QED BY <4>4, <4>5
    <3>4. torn' = torn
      <4>1. CASE ExtractStaging(t)
        BY <3>3, <4>1, Zenon DEF ExtractStaging
      <4>2. CASE ~ExtractStaging(t)
        BY <3>1, <4>2 DEF Start, Finished, SetFailed, Build, Enter, DependLoop, Suppress,
           PrepareNothing, Prepare, PrepareThrows, HashWritten, NotRequired, Restored, Required,
           LocalLoop, FetchAndExtract, RunCommands, Packed, Commit, CommitThrows, Fail, diskVars
      <4> QED BY <4>1, <4>2
    <3> QED BY <3>2, <3>4 DEF TornInv, NoTornStaging
  <2>2. CASE Ended \/ UNCHANGED vars
    <3>1. UNCHANGED vars
      BY <2>2 DEF Ended
    <3> QED BY <3>1 DEF vars, optionVars, TornInv, Nested, Loops, Frames, Frame, BuiltBelow, Partial,
          Complete, Extracts, At, Top, NoTornStaging, StagingPackages
  <2> QED BY <2>1, <2>2 DEF Next
<1>3. Inv => NoTornStaging
  OBVIOUS
<1> QED BY <1>1, <1>2, <1>3, Invariance, PTL DEF Spec
=============================================================================
