--------------------------- MODULE PackageCmdProofs ---------------------------
(***************************************************************************)
(* Commands and their pipes, for any number of threads, any output and any *)
(* size of a pipe: no failure is taken for a success, when Run returns     *)
(* all its command wrote has been logged, line by line, and the threads,   *)
(* children and readers never all wait for one another.                    *)
(***************************************************************************)
EXTENDS PackageCmd, TLAPS

\* TypeOK, with what it says of each thread said of functions.
PlaceShape ==
  /\ parallel \in BOOLEAN /\ result \in BOOLEAN /\ alive \in BOOLEAN
  /\ builder \in {"looping", "done"}
  /\ at \in [Threads -> Places]
  /\ answer \in [Threads -> BOOLEAN]
  /\ report \in [Threads -> {"none", "signal", "code"}]
  /\ child \in [Threads -> {"none", "forked", "running", "ended"}]
  /\ status \in [Threads -> {"zero", "nonzero", "signal"}]
  /\ holds \in [Threads -> SUBSET (Threads \cup {Parent})]
  /\ reader \in [Threads -> {"none", "reading", "ended"}]

OutputShape ==
  /\ todo \in [Threads -> Seq(Tokens)]
  /\ pipe \in [Threads -> Seq(Tokens)]
  /\ wrote \in [Threads -> Seq(Tokens)]
  /\ buf \in [Threads -> Seq({"text"})]
  /\ logged \in [Threads -> Seq(Seq({"text"}))]
  /\ \A t \in Threads : Len(pipe[t]) <= PipeSize

Before == {"new", "called", "piped"}
After == {"joining", "reaped", "returned", "done"}

\* Where a thread is and what there is of its child.
ChildInv ==
  \A t \in Threads :
    /\ at[t] \in Before <=> child[t] = "none"
    /\ at[t] \in After => child[t] = "ended"
    /\ child[t] = "ended" /\ status[t] = "zero" => todo[t] = <<>>

AnswerInv ==
  \A t \in Threads : at[t] \in {"returned", "done"} /\ answer[t] => status[t] = "zero"

\* Between two commands one after the other, result is what the last one said.
ResultInv ==
  /\ result => \A t \in Threads : at[t] = "done" => answer[t]
  /\ ~parallel => \A t \in Threads : at[t] \notin {"new", "done"} =>
       result /\ \A u \in Threads : at[u] \notin {"new", "done"} => u = t
  /\ builder = "done" =>
       \A t \in Threads : at[t] = "done" \/ (at[t] = "new" /\ ~result)

\* Who can still write to the pipe of a command.
HoldInv ==
  \A t \in Captured :
    /\ at[t] \in {"piped", "forked"} <=> Parent \in holds[t]
    /\ child[t] \in {"forked", "running"} => t \in holds[t]

ReaderInv ==
  \A t \in Captured :
    /\ at[t] \in Before \cup {"forked"} => reader[t] = "none"
    /\ at[t] \in {"reaped", "returned", "done"} => reader[t] = "ended"
    /\ reader[t] = "ended" => holds[t] = {} /\ pipe[t] = <<>> /\ buf[t] = <<>>

IInv == PlaceShape /\ OutputShape /\ ChildInv /\ AnswerInv /\ ResultInv /\ HoldInv /\ ReaderInv

\* packagecmd.cpp 203-208: when Run returns, nobody can write to the pipe of its
\* command any more, and it has been read and logged to the end.
NothingLeft ==
  \A t \in Captured : at[t] \in {"returned", "done"} =>
    /\ reader[t] = "ended" /\ holds[t] = {} /\ pipe[t] = <<>> /\ buf[t] = <<>>
    /\ child[t] = "ended"

\* The state before the first command.
LEMMA Start == Init => IInv
<1> SUFFICES ASSUME Init PROVE IInv
  OBVIOUS
<1> USE CmdAssumption
<1>1. PlaceShape
  BY DEF Init, PlaceShape, Places
<1>3. OutputShape
  BY DEF Init, OutputShape
<1>2. ChildInv /\ AnswerInv /\ ResultInv /\ HoldInv /\ ReaderInv
  BY DEF Init, ChildInv, AnswerInv, ResultInv, HoldInv, ReaderInv, Before, After
<1> QED
  BY <1>1, <1>2, <1>3 DEF IInv

\* What every action is, by the thread that takes it.
LEMMA Actions ==
  ASSUME [Next]_vars
  PROVE  \/ JoinAll
         \/ UNCHANGED vars
         \/ \E t \in Threads :
              \/ Launch(t) \/ NoteResult(t) \/ MakePipe(t) \/ Fork(t) \/ ForkFails(t)
              \/ StartReader(t) \/ WaitPid(t) \/ JoinReader(t) \/ Return(t)
              \/ Exec(t) \/ ExecFails(t) \/ Write(t) \/ Exit(t) \/ Killed(t)
              \/ Read(t) \/ ReadEnd(t)
BY DEF Next, Step, Terminated, RunStep, ChildStep, ReaderStep

\* No step leaves the types.
LEMMA PlaceStep ==
  ASSUME PlaceShape, [Next]_vars
  PROVE  PlaceShape'
<1> USE CmdAssumption DEF PlaceShape, Places
<1>1. CASE JoinAll
  BY <1>1 DEF JoinAll, threadVars, childVars, pipeVars, readerVars
<1>2. CASE UNCHANGED vars
  BY <1>2 DEF vars, builderVars, threadVars, childVars, pipeVars, readerVars
<1>3. ASSUME NEW t \in Threads, Launch(t) \/ WaitPid(t) \/ JoinReader(t) PROVE PlaceShape'
  BY <1>3 DEF Launch, WaitPid, JoinReader, builderVars, childVars, pipeVars, readerVars
<1>4. ASSUME NEW t \in Threads, NoteResult(t) PROVE PlaceShape'
  BY <1>4 DEF NoteResult, childVars, pipeVars, readerVars
<1>5. ASSUME NEW t \in Threads, MakePipe(t) PROVE PlaceShape'
  BY <1>5 DEF MakePipe, builderVars, childVars, readerVars
<1>6. ASSUME NEW t \in Threads, Fork(t) PROVE PlaceShape'
  BY <1>6 DEF Fork, builderVars, readerVars
<1>7. ASSUME NEW t \in Threads, ForkFails(t) PROVE PlaceShape'
  BY <1>7 DEF ForkFails, threadVars, childVars, pipeVars, readerVars
<1>8. ASSUME NEW t \in Threads, StartReader(t) PROVE PlaceShape'
  BY <1>8 DEF StartReader, builderVars, childVars
<1>9. ASSUME NEW t \in Threads, Return(t) PROVE PlaceShape'
  BY <1>9 DEF Return, Succeeded, Report, builderVars, childVars, pipeVars, readerVars
<1>10. ASSUME NEW t \in Threads, Exec(t) \/ ExecFails(t) PROVE PlaceShape'
  BY <1>10 DEF Exec, ExecFails, builderVars, threadVars, pipeVars, readerVars
<1>11. ASSUME NEW t \in Threads, Write(t) PROVE PlaceShape'
  BY <1>11 DEF Write, builderVars, threadVars, readerVars
<1>12. ASSUME NEW t \in Threads, Exit(t) \/ Killed(t) PROVE PlaceShape'
  BY <1>12 DEF Exit, Killed, Gone, builderVars, threadVars, readerVars
<1>13. ASSUME NEW t \in Threads, Read(t) PROVE PlaceShape'
  BY <1>13 DEF Read, builderVars, threadVars, childVars
<1>14. ASSUME NEW t \in Threads, ReadEnd(t) PROVE PlaceShape'
  BY <1>14 DEF ReadEnd, builderVars, threadVars, childVars, pipeVars
<1> QED
  BY <1>1, <1>2, <1>3, <1>4, <1>5, <1>6, <1>7, <1>8, <1>9, <1>10, <1>11, <1>12, <1>13, <1>14, Actions

LEMMA OutputStep ==
  ASSUME OutputShape, [Next]_vars
  PROVE  OutputShape'
<1> USE CmdAssumption DEF OutputShape
<1>1. CASE UNCHANGED <<todo, pipe, wrote, buf, logged>>
  BY <1>1
<1>2. ASSUME NEW t \in Threads, Exec(t) PROVE OutputShape'
  <2>1. PICK out \in Outputs : todo' = [todo EXCEPT ![t] = IF t \in Captured THEN out ELSE <<>>]
    BY <1>2 DEF Exec
  <2>2. (IF t \in Captured THEN out ELSE <<>>) \in Seq(Tokens)
    BY DEF Tokens
  <2> QED
    BY <1>2, <2>1, <2>2 DEF Exec, pipeVars, readerVars
<1>3. ASSUME NEW t \in Threads, ExecFails(t) PROVE OutputShape'
  <2> DEFINE out == IF t \in Captured THEN <<"text", "newline">> ELSE <<>>
  <2>1. out \in Seq(Tokens)
    <3>1. <<"text", "newline">> \in Seq({"text", "newline"})
      OBVIOUS
    <3>2. <<>> \in Seq(Tokens)
      OBVIOUS
    <3> QED
      BY <3>1, <3>2, Zenon DEF Tokens
  <2>2. todo' = [todo EXCEPT ![t] = out] /\ UNCHANGED <<pipe, wrote, buf, logged>>
    BY <1>3 DEF ExecFails, pipeVars, readerVars
  <2> HIDE DEF out
  <2> QED
    BY <2>1, <2>2
<1>4. ASSUME NEW t \in Threads, Write(t) PROVE OutputShape'
  <2>1. todo[t] \in Seq(Tokens) /\ todo[t] # <<>> /\ pipe[t] \in Seq(Tokens) /\ wrote[t] \in Seq(Tokens)
    BY <1>4 DEF Write
  <2>2. Head(todo[t]) \in Tokens /\ Tail(todo[t]) \in Seq(Tokens)
    BY <2>1
  <2>3. /\ Append(pipe[t], Head(todo[t])) \in Seq(Tokens)
        /\ Append(wrote[t], Head(todo[t])) \in Seq(Tokens)
        /\ Len(Append(pipe[t], Head(todo[t]))) = Len(pipe[t]) + 1
    BY <2>1, <2>2
  <2>4. Len(pipe[t]) + 1 <= PipeSize
    BY <1>4, <2>1 DEF Write
  <2>5. UNCHANGED <<buf, logged>>
    BY <1>4 DEF Write, readerVars
  <2>6. todo' \in [Threads -> Seq(Tokens)] /\ wrote' \in [Threads -> Seq(Tokens)]
    BY <1>4, <2>2, <2>3 DEF Write
  <2>7. pipe' \in [Threads -> Seq(Tokens)] /\ \A u \in Threads : Len(pipe'[u]) <= PipeSize
    BY <1>4, <2>3, <2>4 DEF Write
  <2> QED
    BY <2>5, <2>6, <2>7
<1>5. ASSUME NEW t \in Threads, Read(t) PROVE OutputShape'
  <2>1. pipe[t] \in Seq(Tokens) /\ pipe[t] # <<>> /\ buf[t] \in Seq({"text"})
    BY <1>5 DEF Read
  <2>2. Tail(pipe[t]) \in Seq(Tokens) /\ Len(Tail(pipe[t])) <= PipeSize
    BY <2>1
  <2>3. Append(buf[t], "text") \in Seq({"text"}) /\ <<>> \in Seq({"text"})
    BY <2>1
  <2>4. Buffered(t) \in Seq({"text"})
    BY <2>3 DEF Buffered
  <2>5. Append(logged[t], buf[t]) \in Seq(Seq({"text"}))
    BY <2>1
  <2>6. logged' \in [Threads -> Seq(Seq({"text"}))]
    BY <1>5, <2>5 DEF Read, Log
  <2> QED
    BY <1>5, <2>2, <2>4, <2>6 DEF Read, childVars
<1>6. ASSUME NEW t \in Threads, ReadEnd(t) PROVE OutputShape'
  <2>1. buf[t] \in Seq({"text"}) /\ Append(logged[t], buf[t]) \in Seq(Seq({"text"})) /\ <<>> \in Seq({"text"})
    OBVIOUS
  <2>2. logged' \in [Threads -> Seq(Seq({"text"}))]
    BY <1>6, <2>1 DEF ReadEnd, LeftOver, Log
  <2> QED
    BY <1>6, <2>1, <2>2 DEF ReadEnd, childVars, pipeVars
<1>7. \/ UNCHANGED <<todo, pipe, wrote, buf, logged>>
      \/ \E t \in Threads : Exec(t) \/ ExecFails(t) \/ Write(t) \/ Read(t) \/ ReadEnd(t)
  BY Actions DEF JoinAll, Launch, NoteResult, MakePipe, Fork, ForkFails, StartReader, WaitPid,
    JoinReader, Return, Exit, Killed, Gone, vars, childVars, pipeVars, readerVars
<1> QED
  BY <1>1, <1>2, <1>3, <1>4, <1>5, <1>6, <1>7

\* A child is there from the fork on, and has ended when waitpid returns.
LEMMA ChildStepInv ==
  ASSUME PlaceShape, OutputShape, ChildInv, [Next]_vars
  PROVE  ChildInv'
<1> USE CmdAssumption DEF PlaceShape, ChildInv, Before, After
<1>1. CASE UNCHANGED <<at, child, status, todo>>
  BY <1>1
<1>2. ASSUME NEW t \in Threads, Launch(t) \/ NoteResult(t) \/ WaitPid(t) \/ JoinReader(t) PROVE ChildInv'
  BY <1>2 DEF Launch, NoteResult, WaitPid, JoinReader, childVars
<1>3. ASSUME NEW t \in Threads, MakePipe(t) \/ StartReader(t) \/ Return(t) PROVE ChildInv'
  BY <1>3 DEF MakePipe, StartReader, Return, childVars
<1>4. ASSUME NEW t \in Threads, Fork(t) PROVE ChildInv'
  BY <1>4 DEF Fork
<1>5. ASSUME NEW t \in Threads, Exec(t) PROVE ChildInv'
  BY <1>5 DEF Exec, threadVars
<1>6. ASSUME NEW t \in Threads, ExecFails(t) PROVE ChildInv'
  BY <1>6 DEF ExecFails, threadVars
<1>7. ASSUME NEW t \in Threads, Write(t) PROVE ChildInv'
  BY <1>7 DEF Write, threadVars
<1>8. ASSUME NEW t \in Threads, Exit(t) \/ Killed(t) PROVE ChildInv'
  BY <1>8 DEF Exit, Killed, Gone, threadVars
<1>9. ASSUME NEW t \in Threads, ForkFails(t) \/ Read(t) \/ ReadEnd(t) PROVE ChildInv'
  BY <1>9, <1>1 DEF ForkFails, Read, ReadEnd, threadVars, childVars
<1>10. CASE JoinAll \/ UNCHANGED vars
  BY <1>10, <1>1 DEF JoinAll, vars, threadVars, childVars
<1> QED
  BY <1>2, <1>3, <1>4, <1>5, <1>6, <1>7, <1>8, <1>9, <1>10, Actions

\* The status does not change any more once a command has been waited for.
LEMMA AnswerStep ==
  ASSUME PlaceShape, ChildInv, AnswerInv, [Next]_vars
  PROVE  AnswerInv'
<1> USE DEF PlaceShape, ChildInv, AnswerInv, After
<1>1. CASE UNCHANGED <<at, answer, status>>
  BY <1>1
<1>2. ASSUME NEW t \in Threads, Launch(t) \/ NoteResult(t) \/ WaitPid(t) \/ JoinReader(t) PROVE AnswerInv'
  BY <1>2 DEF Launch, NoteResult, WaitPid, JoinReader, childVars
<1>3. ASSUME NEW t \in Threads, MakePipe(t) \/ Fork(t) \/ StartReader(t) PROVE AnswerInv'
  BY <1>3 DEF MakePipe, Fork, StartReader, childVars
<1>4. ASSUME NEW t \in Threads, Return(t) PROVE AnswerInv'
  BY <1>4 DEF Return, Succeeded, childVars
<1>5. ASSUME NEW t \in Threads, Exec(t) \/ ExecFails(t) PROVE AnswerInv'
  BY <1>5 DEF Exec, ExecFails, threadVars
<1>6. ASSUME NEW t \in Threads, Exit(t) \/ Killed(t) PROVE AnswerInv'
  BY <1>6 DEF Exit, Killed, Gone, threadVars
<1>7. ASSUME NEW t \in Threads, ForkFails(t) \/ Write(t) \/ Read(t) \/ ReadEnd(t) PROVE AnswerInv'
  BY <1>7, <1>1 DEF ForkFails, Write, Read, ReadEnd, threadVars, childVars
<1>8. CASE JoinAll \/ UNCHANGED vars
  BY <1>8, <1>1 DEF JoinAll, vars, threadVars, childVars
<1> QED
  BY <1>2, <1>3, <1>4, <1>5, <1>6, <1>7, <1>8, Actions

\* One after the other, a command is only started while all have succeeded.
LEMMA ResultStep ==
  ASSUME PlaceShape, ResultInv, [Next]_vars
  PROVE  ResultInv'
<1> USE DEF PlaceShape, Places, ResultInv
<1>1. CASE UNCHANGED <<parallel, builder, result, at, answer>>
  BY <1>1
<1>2. ASSUME NEW t \in Threads, Launch(t) PROVE ResultInv'
  BY <1>2 DEF Launch, builderVars
<1>3. ASSUME NEW t \in Threads, NoteResult(t) PROVE ResultInv'
  BY <1>3 DEF NoteResult
<1>4. ASSUME NEW t \in Threads, MakePipe(t) \/ Fork(t) \/ StartReader(t) PROVE ResultInv'
  BY <1>4 DEF MakePipe, Fork, StartReader, builderVars
<1>5. ASSUME NEW t \in Threads, WaitPid(t) \/ JoinReader(t) PROVE ResultInv'
  BY <1>5 DEF WaitPid, JoinReader, builderVars
<1>6. ASSUME NEW t \in Threads, Return(t) PROVE ResultInv'
  BY <1>6 DEF Return, builderVars
<1>7. CASE JoinAll
  BY <1>7 DEF JoinAll, threadVars
<1>8. ASSUME NEW t \in Threads,
             \/ ForkFails(t) \/ Exec(t) \/ ExecFails(t) \/ Write(t)
             \/ Exit(t) \/ Killed(t) \/ Read(t) \/ ReadEnd(t)
      PROVE  ResultInv'
  BY <1>8, <1>1 DEF ForkFails, Exec, ExecFails, Write, Exit, Killed, Gone, Read, ReadEnd,
    builderVars, threadVars
<1>9. CASE UNCHANGED vars
  BY <1>9, <1>1 DEF vars, builderVars, threadVars
<1> QED
  BY <1>2, <1>3, <1>4, <1>5, <1>6, <1>7, <1>8, <1>9, Actions

\* Only a fork while the parent has a pipe open gives somebody else its end.
LEMMA HoldStep ==
  ASSUME PlaceShape, ChildInv, HoldInv, [Next]_vars
  PROVE  HoldInv'
<1> USE CmdAssumption DEF PlaceShape, ChildInv, HoldInv, Before
<1>1. CASE UNCHANGED <<at, child, holds>>
  BY <1>1
<1>2. ASSUME NEW t \in Threads,
             Launch(t) \/ NoteResult(t) \/ WaitPid(t) \/ JoinReader(t) \/ Return(t)
      PROVE  HoldInv'
  BY <1>2 DEF Launch, NoteResult, WaitPid, JoinReader, Return, childVars, pipeVars
<1>3. ASSUME NEW t \in Threads, MakePipe(t) PROVE HoldInv'
  BY <1>3 DEF MakePipe, childVars
<1>4. ASSUME NEW t \in Threads, Fork(t) PROVE HoldInv'
  BY <1>4 DEF Fork
<1>5. ASSUME NEW t \in Threads, StartReader(t) PROVE HoldInv'
  BY <1>5 DEF StartReader, childVars
<1>6. ASSUME NEW t \in Threads, Exec(t) \/ ExecFails(t) PROVE HoldInv'
  BY <1>6 DEF Exec, ExecFails, threadVars, pipeVars
<1>7. ASSUME NEW t \in Threads, Exit(t) \/ Killed(t) PROVE HoldInv'
  BY <1>7 DEF Exit, Killed, Gone, threadVars
<1>8. ASSUME NEW t \in Threads, ForkFails(t) \/ Write(t) \/ Read(t) \/ ReadEnd(t) PROVE HoldInv'
  BY <1>8, <1>1 DEF ForkFails, Write, Read, ReadEnd, threadVars, childVars, pipeVars
<1>9. CASE JoinAll \/ UNCHANGED vars
  BY <1>9, <1>1 DEF JoinAll, vars, threadVars, childVars, pipeVars
<1> QED
  BY <1>2, <1>3, <1>4, <1>5, <1>6, <1>7, <1>8, <1>9, Actions

\* A pipe that has been read to its end stays empty: nobody can get hold of it.
LEMMA ReaderStepInv ==
  ASSUME PlaceShape, OutputShape, ChildInv, HoldInv, ReaderInv, [Next]_vars
  PROVE  ReaderInv'
<1> USE CmdAssumption DEF PlaceShape, HoldInv, ReaderInv, Before
<1>1. CASE UNCHANGED <<at, reader, holds, pipe, buf>>
  BY <1>1
<1>2. ASSUME NEW t \in Threads, Launch(t) \/ NoteResult(t) \/ WaitPid(t) PROVE ReaderInv'
  BY <1>2 DEF Launch, NoteResult, WaitPid, pipeVars, readerVars
<1>3. ASSUME NEW t \in Threads, JoinReader(t) PROVE ReaderInv'
  BY <1>3 DEF JoinReader, pipeVars, readerVars
<1>4. ASSUME NEW t \in Threads, Return(t) PROVE ReaderInv'
  BY <1>4 DEF Return, pipeVars, readerVars
<1>5. ASSUME NEW t \in Threads, MakePipe(t) PROVE ReaderInv'
  BY <1>5 DEF MakePipe, readerVars
<1>6. ASSUME NEW t \in Threads, Fork(t) PROVE ReaderInv'
  BY <1>6 DEF Fork, readerVars
<1>7. ASSUME NEW t \in Threads, StartReader(t) PROVE ReaderInv'
  BY <1>7 DEF StartReader
<1>8. ASSUME NEW t \in Threads, Write(t) PROVE ReaderInv'
  BY <1>8 DEF Write, ChildInv, threadVars, readerVars
<1>9. ASSUME NEW t \in Threads, Exit(t) \/ Killed(t) PROVE ReaderInv'
  BY <1>9 DEF Exit, Killed, Gone, threadVars, readerVars
<1>10. ASSUME NEW t \in Threads, Read(t) PROVE ReaderInv'
  BY <1>10 DEF Read, threadVars
<1>11. ASSUME NEW t \in Threads, ReadEnd(t) PROVE ReaderInv'
  BY <1>11 DEF OutputShape, ReadEnd, EndOfPipe, threadVars, pipeVars
<1>12. ASSUME NEW t \in Threads, ForkFails(t) \/ Exec(t) \/ ExecFails(t) PROVE ReaderInv'
  BY <1>12, <1>1 DEF ForkFails, Exec, ExecFails, threadVars, pipeVars, readerVars
<1>13. CASE JoinAll \/ UNCHANGED vars
  BY <1>13, <1>1 DEF JoinAll, vars, threadVars, pipeVars, readerVars
<1> QED
  BY <1>2, <1>3, <1>4, <1>5, <1>6, <1>7, <1>8, <1>9, <1>10, <1>11, <1>12, <1>13, Actions

\* The inductive invariant: the types, where the processes are, and what is left.
THEOREM Invariance == Spec => []IInv
<1>1. IInv /\ [Next]_vars => IInv'
  BY PlaceStep, OutputStep, ChildStepInv, AnswerStep, ResultStep, HoldStep, ReaderStepInv DEF IInv
<1> QED
  BY <1>1, Start, PTL DEF Spec

\* The state keeps its types, and a pipe never takes more than it can.
THEOREM TypeCorrect == Spec => []TypeOK
<1>1. PlaceShape /\ OutputShape => TypeOK
  <2> SUFFICES ASSUME PlaceShape, OutputShape, NEW t \in Threads
               PROVE  /\ {todo[t], pipe[t], wrote[t]} \subseteq Seq(Tokens)
                      /\ buf[t] \in Seq({"text"}) /\ logged[t] \in Seq(Seq({"text"}))
                      /\ Len(pipe[t]) <= PipeSize
    BY DEF PlaceShape, TypeOK
  <2>1. todo[t] \in Seq(Tokens) /\ pipe[t] \in Seq(Tokens) /\ wrote[t] \in Seq(Tokens)
    BY DEF OutputShape
  <2> QED
    BY <2>1 DEF OutputShape
<1> QED
  BY <1>1, Invariance, PTL DEF IInv

\* packagecmd.cpp 214-240, package.cpp 752-778: a directory that counts as ready
\* has been filled by commands that all ran to their end and exited with 0.
THEOREM ReadyMeansAllHolds == Spec => []ReadyMeansAll
<1>1. ChildInv /\ AnswerInv /\ ResultInv => ReadyMeansAll
  BY DEF ChildInv, AnswerInv, ResultInv, ReadyMeansAll, After
<1> QED
  BY <1>1, Invariance, PTL DEF IInv

\* Once a Run has returned nothing it might have logged is anywhere any more.
THEOREM NothingLeftHolds == Spec => []NothingLeft
<1>1. ChildInv /\ ReaderInv => NothingLeft
  BY CmdAssumption DEF ChildInv, ReaderInv, NothingLeft, After
<1> QED
  BY <1>1, Invariance, PTL DEF IInv

-----------------------------------------------------------------------------
(* What has been logged of what was written.                               *)

\* Line i of lines ends with the newline at end[i].
Ends(lines, end, out) ==
  /\ end \in [0 .. Len(lines) -> 0 .. Len(out)]
  /\ end[0] = 0
  /\ \A i \in 1 .. Len(lines) :
       /\ end[i - 1] < end[i]
       /\ lines[i] = Between(out, end[i - 1], end[i])
       /\ \A k \in DOMAIN lines[i] : lines[i][k] # "newline"
       /\ out[end[i]] = "newline"

\* What follows the first m tokens of out is rest, then more.
Follow(out, m, rest, more) ==
  /\ Len(out) = m + Len(rest) + Len(more)
  /\ \A k \in 1 .. Len(rest) : out[m + k] = rest[k]
  /\ \A k \in 1 .. Len(more) : out[m + Len(rest) + k] = more[k]

\* Until the reader ends, what the command wrote is the lines that were logged,
\* then what the reader has buffered, then what is in the pipe.
Logs(t) ==
  IF reader[t] = "ended" THEN AreLines(logged[t], wrote[t])
  ELSE \E end : Ends(logged[t], end, wrote[t])
                /\ Follow(wrote[t], end[Len(logged[t])], buf[t], pipe[t])

LogInv == \A t \in Captured : Logs(t)

\* A token written at the end changes none of the lines, ...
LEMMA EndsWrite ==
  ASSUME NEW lines \in Seq(Seq({"text"})), NEW out \in Seq(Tokens), NEW end, Ends(lines, end, out),
         NEW c \in Tokens
  PROVE  Ends(lines, end, Append(out, c))
<1>1. /\ Len(out) \in Nat /\ Len(lines) \in Nat /\ Len(Append(out, c)) = Len(out) + 1
      /\ \A k \in 1 .. Len(out) : Append(out, c)[k] = out[k]
  OBVIOUS
<1>2. end \in [0 .. Len(lines) -> 0 .. Len(out)]
  BY DEF Ends
<1>3. \A i \in 0 .. Len(lines) : end[i] \in 0 .. Len(out)
  BY <1>2
<1>4. 0 .. Len(out) \subseteq 0 .. Len(Append(out, c))
  BY <1>1
<1>5. ASSUME NEW i \in 1 .. Len(lines)
      PROVE  /\ Between(Append(out, c), end[i - 1], end[i]) = Between(out, end[i - 1], end[i])
             /\ Append(out, c)[end[i]] = out[end[i]]
  <2>1. i - 1 \in 0 .. Len(lines) /\ i \in 0 .. Len(lines)
    BY <1>1
  <2>2. PICK m \in 0 .. Len(out), n \in 0 .. Len(out) : m = end[i - 1] /\ n = end[i] /\ m < n
    BY <1>3, <2>1 DEF Ends
  <2>3. n \in 1 .. Len(out) /\ \A k \in 1 .. n - m - 1 : m + k \in 1 .. Len(out)
    <3>1. \A l \in Nat : \A a \in 0 .. l, b \in 0 .. l :
            a < b => b \in 1 .. l /\ \A k \in 1 .. b - a - 1 : a + k \in 1 .. l
      OBVIOUS
    <3> QED BY <1>1, <2>2, <3>1, Zenon
  <2>4. \A k \in 1 .. n - m - 1 : Append(out, c)[m + k] = out[m + k]
    BY <1>1, <2>3
  <2> QED BY <1>1, <2>2, <2>3, <2>4 DEF Between
<1>6. end \in [0 .. Len(lines) -> 0 .. Len(Append(out, c))]
  BY <1>2, <1>4
<1> QED BY <1>5, <1>6 DEF Ends

LEMMA FollowWrite ==
  ASSUME NEW out \in Seq(Tokens), NEW rest \in Seq({"text"}), NEW more \in Seq(Tokens), NEW m \in Nat,
         Follow(out, m, rest, more), NEW c \in Tokens
  PROVE  Follow(Append(out, c), m, rest, Append(more, c))
<1>1. /\ Len(out) \in Nat /\ Len(rest) \in Nat /\ Len(more) \in Nat
      /\ Len(Append(out, c)) = Len(out) + 1 /\ Len(Append(more, c)) = Len(more) + 1
      /\ \A k \in 1 .. Len(out) : Append(out, c)[k] = out[k]
      /\ \A k \in 1 .. Len(more) : Append(more, c)[k] = more[k]
      /\ Append(out, c)[Len(out) + 1] = c /\ Append(more, c)[Len(more) + 1] = c
  OBVIOUS
<1>2. Len(out) = m + Len(rest) + Len(more)
  BY DEF Follow
<1>3. ASSUME NEW k \in 1 .. Len(rest)
      PROVE  Append(out, c)[m + k] = rest[k]
  <2>1. m + k \in 1 .. Len(out)
    BY <1>1, <1>2
  <2> QED BY <1>1, <2>1 DEF Follow
<1>4. ASSUME NEW k \in 1 .. Len(Append(more, c))
      PROVE  Append(out, c)[m + Len(rest) + k] = Append(more, c)[k]
  <2> DEFINE j == m + Len(rest) + k
  <2>1. CASE k \in 1 .. Len(more)
    <3>1. j \in 1 .. Len(out)
      BY <1>1, <1>2, <2>1
    <3>2. out[j] = more[k]
      BY <2>1 DEF Follow
    <3> HIDE DEF j
    <3>3. Append(out, c)[j] = Append(more, c)[k]
      BY <1>1, <2>1, <3>1, <3>2
    <3> QED BY <3>3 DEF j
  <2>2. CASE k = Len(more) + 1
    <3>1. j = Len(out) + 1
      BY <1>1, <1>2, <2>2
    <3> HIDE DEF j
    <3>2. Append(out, c)[j] = Append(more, c)[k]
      BY <1>1, <2>2, <3>1
    <3> QED BY <3>2 DEF j
  <2>3. k \in 1 .. Len(more) \/ k = Len(more) + 1
    <3>1. k \in 1 .. Len(more) + 1
      BY <1>1
    <3>2. \A n \in Nat : \A i \in 1 .. n + 1 : i \in 1 .. n \/ i = n + 1
      OBVIOUS
    <3> QED BY <1>1, <3>1, <3>2, Zenon
  <2> QED BY <2>1, <2>2, <2>3
<1>5. Len(Append(out, c)) = m + Len(rest) + Len(Append(more, c))
  BY <1>1, <1>2
<1> QED BY <1>3, <1>4, <1>5 DEF Follow

\* ... a token that is read moves from the pipe to the buffer, ...
LEMMA FollowText ==
  ASSUME NEW out \in Seq(Tokens), NEW rest \in Seq({"text"}), NEW more \in Seq(Tokens), NEW m \in Nat,
         Follow(out, m, rest, more), more # <<>>, Head(more) = "text"
  PROVE  Follow(out, m, Append(rest, "text"), Tail(more))
<1>1. /\ Len(rest) \in Nat /\ Len(more) \in Nat /\ Len(more) >= 1 /\ more[1] = "text"
      /\ Len(Append(rest, "text")) = Len(rest) + 1 /\ Len(Tail(more)) = Len(more) - 1
      /\ \A k \in 1 .. Len(rest) : Append(rest, "text")[k] = rest[k]
      /\ Append(rest, "text")[Len(rest) + 1] = "text"
      /\ \A k \in 1 .. Len(more) - 1 : Tail(more)[k] = more[k + 1]
  OBVIOUS
<1>2. Len(out) = m + Len(rest) + Len(more)
  BY DEF Follow
<1>3. ASSUME NEW k \in 1 .. Len(Append(rest, "text"))
      PROVE  out[m + k] = Append(rest, "text")[k]
  <2>1. CASE k \in 1 .. Len(rest)
    BY <1>1, <2>1 DEF Follow
  <2>2. CASE k = Len(rest) + 1
    <3>1. 1 \in 1 .. Len(more) /\ m + Len(rest) + 1 = m + k
      BY <1>1, <2>2
    <3>2. out[m + Len(rest) + 1] = more[1]
      BY <3>1 DEF Follow
    <3> QED BY <1>1, <2>2, <3>1, <3>2
  <2> QED BY <1>1, <2>1, <2>2
<1>4. ASSUME NEW k \in 1 .. Len(Tail(more))
      PROVE  out[m + Len(Append(rest, "text")) + k] = Tail(more)[k]
  <2>1. k + 1 \in 1 .. Len(more) /\ m + Len(Append(rest, "text")) + k = m + Len(rest) + (k + 1)
    BY <1>1
  <2>2. out[m + Len(rest) + (k + 1)] = more[k + 1]
    BY <2>1 DEF Follow
  <2> QED BY <1>1, <2>1, <2>2
<1>5. Len(out) = m + Len(Append(rest, "text")) + Len(Tail(more))
  BY <1>1, <1>2
<1> QED BY <1>3, <1>4, <1>5 DEF Follow

\* ... what is buffered is what stands between the last end and where it ends, ...
LEMMA BufferBetween ==
  ASSUME NEW out \in Seq(Tokens), NEW rest \in Seq({"text"}), NEW more \in Seq(Tokens), NEW m \in Nat,
         Follow(out, m, rest, more)
  PROVE  /\ rest = Between(out, m, m + Len(rest) + 1)
         /\ \A k \in DOMAIN rest : rest[k] # "newline"
<1>1. Len(rest) \in Nat /\ rest = [k \in 1 .. Len(rest) |-> rest[k]] /\ DOMAIN rest = 1 .. Len(rest)
      /\ \A k \in 1 .. Len(rest) : rest[k] = "text"
  OBVIOUS
<1>2. (m + Len(rest) + 1) - m - 1 = Len(rest)
  BY <1>1
<1>3. \A k \in 1 .. Len(rest) : out[m + k] = rest[k]
  BY DEF Follow
<1>4. Between(out, m, m + Len(rest) + 1) = [k \in 1 .. Len(rest) |-> out[m + k]]
  BY <1>2 DEF Between
<1> QED BY <1>1, <1>3, <1>4

\* ... so that a newline that is read ends a line, ...
LEMMA NewLine ==
  ASSUME NEW lines \in Seq(Seq({"text"})), NEW out \in Seq(Tokens), NEW end, Ends(lines, end, out),
         NEW rest \in Seq({"text"}), NEW more \in Seq(Tokens),
         Follow(out, end[Len(lines)], rest, more), more # <<>>, Head(more) = "newline"
  PROVE  \E new : /\ Ends(Append(lines, rest), new, out)
                  /\ Follow(out, new[Len(Append(lines, rest))], <<>>, Tail(more))
<1> DEFINE n == Len(lines)
           m == end[n]
           e == m + Len(rest) + 1
           new == [i \in 0 .. n + 1 |-> IF i = n + 1 THEN e ELSE end[i]]
           ls == Append(lines, rest)
<1>1. /\ n \in Nat /\ Len(rest) \in Nat /\ Len(more) \in Nat /\ Len(more) >= 1
      /\ Len(out) \in Nat /\ more[1] = "newline" /\ Len(Tail(more)) = Len(more) - 1
      /\ \A k \in 1 .. Len(more) - 1 : Tail(more)[k] = more[k + 1]
      /\ Len(ls) = n + 1 /\ ls[n + 1] = rest /\ \A i \in 1 .. n : ls[i] = lines[i]
  OBVIOUS
<1>2. end \in [0 .. n -> 0 .. Len(out)] /\ m \in 0 .. Len(out) /\ m \in Nat
  <2>1. end \in [0 .. n -> 0 .. Len(out)]
    BY DEF Ends
  <2>2. n \in 0 .. n
    BY <1>1
  <2>3. m \in 0 .. Len(out)
    <3> HIDE DEF n
    <3> QED BY <2>1, <2>2
  <2>4. m \in Nat
    <3> HIDE DEF m
    <3> QED BY <1>1, <2>3
  <2> QED BY <2>1, <2>3, <2>4
<1>3. Len(out) = m + Len(rest) + Len(more)
  BY DEF Follow
<1>4. e \in 0 .. Len(out) /\ e \in Nat /\ m < e
  BY <1>1, <1>2, <1>3
<1>5. out[e] = "newline"
  <2>1. 1 \in 1 .. Len(more) /\ e = m + Len(rest) + 1
    BY <1>1
  <2>2. out[m + Len(rest) + 1] = more[1]
    BY <2>1 DEF Follow
  <2> QED BY <1>1, <2>1, <2>2
<1>6. rest = Between(out, m, e) /\ \A k \in DOMAIN rest : rest[k] # "newline"
  BY <1>2, BufferBetween
<1>7. /\ new \in [0 .. n + 1 -> 0 .. Len(out)] /\ new[n + 1] = e
      /\ \A i \in 0 .. n : new[i] = end[i]
  <2>1. \A i \in 0 .. n + 1 : i # n + 1 => i \in 0 .. n
    BY <1>1
  <2>2. \A i \in 0 .. n : i \in 0 .. n + 1 /\ i # n + 1
    BY <1>1
  <2>3. n + 1 \in 0 .. n + 1
    BY <1>1
  <2> HIDE DEF e, m, n
  <2> QED BY <1>2, <1>4, <2>1, <2>2, <2>3
<1> HIDE DEF new, e, m, n, ls
<1>8. ASSUME NEW i \in 1 .. n + 1
      PROVE  /\ new[i - 1] < new[i]
             /\ ls[i] = Between(out, new[i - 1], new[i])
             /\ \A k \in DOMAIN ls[i] : ls[i][k] # "newline"
             /\ out[new[i]] = "newline"
  <2>1. CASE i = n + 1
    <3>1. i - 1 = n /\ n \in 0 .. n
      BY <1>1, <2>1
    <3>2. new[i - 1] = m /\ new[i] = e /\ ls[i] = rest
      BY <1>1, <1>7, <2>1, <3>1 DEF m
    <3> QED BY <1>4, <1>5, <1>6, <3>2
  <2>2. CASE i # n + 1
    <3>1. i \in 1 .. n /\ i \in 0 .. n /\ i - 1 \in 0 .. n
      BY <1>1, <2>2
    <3>2. new[i - 1] = end[i - 1] /\ new[i] = end[i] /\ ls[i] = lines[i]
      BY <1>1, <1>7, <3>1
    <3> QED BY <3>1, <3>2 DEF Ends, n
  <2> QED BY <2>1, <2>2
<1>9. Ends(ls, new, out)
  <2>1. new[0] = 0
    BY <1>1, <1>7 DEF Ends
  <2> QED BY <1>1, <1>7, <1>8, <2>1 DEF Ends
<1>10. Follow(out, new[Len(ls)], <<>>, Tail(more))
  <2>1. new[Len(ls)] = e
    BY <1>1, <1>7
  <2>2. ASSUME NEW k \in 1 .. Len(Tail(more))
        PROVE  out[e + 0 + k] = Tail(more)[k]
    <3>1. k + 1 \in 1 .. Len(more) /\ e + 0 + k = m + Len(rest) + (k + 1)
      BY <1>1, <1>2 DEF e
    <3>2. out[m + Len(rest) + (k + 1)] = more[k + 1]
      BY <3>1 DEF Follow, m, n
    <3> QED BY <1>1, <3>1, <3>2
  <2>3. Len(out) = e + 0 + Len(Tail(more))
    BY <1>1, <1>2, <1>3 DEF e
  <2>4. Len(<<>>) = 0 /\ \A k \in 1 .. 0 : FALSE
    OBVIOUS
  <2> QED BY <2>1, <2>2, <2>3, <2>4 DEF Follow
<1> QED BY <1>9, <1>10 DEF ls

\* ... and at the end of the pipe what is buffered is the last line, if anything.
LEMMA LastLine ==
  ASSUME NEW lines \in Seq(Seq({"text"})), NEW out \in Seq(Tokens), NEW end, Ends(lines, end, out),
         NEW rest \in Seq({"text"}), Follow(out, end[Len(lines)], rest, <<>>)
  PROVE  AreLines(IF rest # <<>> THEN Append(lines, rest) ELSE lines, out)
<1> DEFINE n == Len(lines)
           m == end[n]
           e == m + Len(rest) + 1
           new == [i \in 0 .. n + 1 |-> IF i = n + 1 THEN e ELSE end[i]]
           ls == Append(lines, rest)
<1>1. /\ n \in Nat /\ Len(rest) \in Nat /\ Len(out) \in Nat /\ Len(<<>>) = 0
      /\ Len(ls) = n + 1 /\ ls[n + 1] = rest /\ \A i \in 1 .. n : ls[i] = lines[i]
  OBVIOUS
<1>2. end \in [0 .. n -> 0 .. Len(out)] /\ m \in 0 .. Len(out) /\ m \in Nat
  <2>1. end \in [0 .. n -> 0 .. Len(out)]
    BY DEF Ends
  <2>2. n \in 0 .. n
    BY <1>1
  <2>3. m \in 0 .. Len(out)
    <3> HIDE DEF n
    <3> QED BY <2>1, <2>2
  <2>4. m \in Nat
    <3> HIDE DEF m
    <3> QED BY <1>1, <2>3
  <2> QED BY <2>1, <2>3, <2>4
<1>3. Len(out) = m + Len(rest)
  BY <1>1, <1>2 DEF Follow
<1>4. ASSUME NEW i \in 1 .. n
      PROVE  i \in 0 .. n /\ i - 1 \in 0 .. n /\ end[i] <= Len(out)
  <2> HIDE DEF n, m
  <2>1. i \in 0 .. n /\ i - 1 \in 0 .. n
    BY <1>1
  <2>2. end[i] \in 0 .. Len(out)
    BY <1>2, <2>1
  <2> QED BY <1>1, <2>1, <2>2
<1>5. CASE rest = <<>>
  <2>1. m = Len(out)
    BY <1>1, <1>2, <1>3, <1>5
  <2>2. end \in [0 .. n -> 0 .. Len(out) + 1]
    <3>1. 0 .. Len(out) \subseteq 0 .. Len(out) + 1
      BY <1>1
    <3> QED BY <1>2, <3>1
  <2>3. AreLines(lines, out)
    <3> HIDE DEF m
    <3>1. end[Len(lines)] >= Len(out)
      BY <1>1, <2>1 DEF m, n
    <3> HIDE DEF n
    <3>2. end[0] = 0
      BY DEF Ends
    <3> QED BY <1>4, <2>2, <3>1, <3>2 DEF AreLines, Ends, n
  <2> QED BY <1>5, <2>3
<1>6. CASE rest # <<>>
  <2>1. e = Len(out) + 1 /\ e \in 0 .. Len(out) + 1 /\ m < e
    BY <1>1, <1>2, <1>3
  <2>2. rest = Between(out, m, e) /\ \A k \in DOMAIN rest : rest[k] # "newline"
    <3>1. <<>> \in Seq(Tokens)
      OBVIOUS
    <3> QED BY <1>2, <3>1, BufferBetween
  <2>3. /\ new \in [0 .. n + 1 -> 0 .. Len(out) + 1] /\ new[n + 1] = e
        /\ \A i \in 0 .. n : new[i] = end[i]
    <3>1. \A i \in 0 .. n + 1 : i # n + 1 => i \in 0 .. n
      BY <1>1
    <3>2. \A i \in 0 .. n : i \in 0 .. n + 1 /\ i # n + 1
      BY <1>1
    <3>3. n + 1 \in 0 .. n + 1 /\ 0 .. Len(out) \subseteq 0 .. Len(out) + 1
      BY <1>1
    <3> HIDE DEF e, m, n
    <3> QED BY <1>2, <2>1, <3>1, <3>2, <3>3
  <2> HIDE DEF new, e, m, n, ls
  <2>4. ASSUME NEW i \in 1 .. n + 1
        PROVE  /\ new[i - 1] < new[i]
               /\ ls[i] = Between(out, new[i - 1], new[i])
               /\ \A k \in DOMAIN ls[i] : ls[i][k] # "newline"
               /\ \/ new[i] <= Len(out) /\ out[new[i]] = "newline"
                  \/ new[i] = Len(out) + 1 /\ ls[i] # <<>>
    <3>1. CASE i = n + 1
      <4>1. i - 1 = n /\ n \in 0 .. n
        BY <1>1, <3>1
      <4>2. new[i - 1] = m /\ new[i] = e /\ ls[i] = rest
        BY <1>1, <2>3, <3>1, <4>1 DEF m
      <4> QED BY <1>6, <2>1, <2>2, <4>2
    <3>2. CASE i # n + 1
      <4>1. i \in 1 .. n /\ i \in 0 .. n /\ i - 1 \in 0 .. n
        BY <1>1, <3>2
      <4>2. new[i - 1] = end[i - 1] /\ new[i] = end[i] /\ ls[i] = lines[i]
        BY <1>1, <2>3, <4>1
      <4> QED BY <1>4, <4>1, <4>2 DEF Ends, n
    <3> QED BY <3>1, <3>2
  <2>5. new[0] = 0 /\ new[n + 1] >= Len(out)
    BY <1>1, <2>1, <2>3 DEF Ends
  <2>6. new \in [0 .. Len(ls) -> 0 .. Len(out) + 1] /\ new[Len(ls)] >= Len(out)
    BY <1>1, <2>3, <2>5
  <2>7. ASSUME NEW i \in 1 .. Len(ls)
        PROVE  /\ new[i - 1] < new[i]
               /\ ls[i] = Between(out, new[i - 1], new[i])
               /\ \A k \in DOMAIN ls[i] : ls[i][k] # "newline"
               /\ \/ new[i] <= Len(out) /\ out[new[i]] = "newline"
                  \/ new[i] = Len(out) + 1 /\ ls[i] # <<>>
    BY <1>1, <2>4
  <2>8. AreLines(ls, out)
    BY <2>5, <2>6, <2>7, Zenon DEF AreLines
  <2> QED BY <1>6, <2>8 DEF ls
<1> QED BY <1>5, <1>6

\* The actions by what they do to the output of a command.
LEMMA OutputActions ==
  ASSUME [Next]_vars
  PROVE  \/ UNCHANGED <<pipe, wrote, reader, buf, logged>>
         \/ \E t \in Threads : StartReader(t) \/ Write(t) \/ Read(t) \/ ReadEnd(t)
BY Actions DEF JoinAll, Launch, NoteResult, MakePipe, Fork, ForkFails, WaitPid, JoinReader, Return,
  Exec, ExecFails, Exit, Killed, Gone, vars, pipeVars, readerVars

\* The end of the last line is a place in the output.
LEMMA LastEnd ==
  ASSUME NEW lines \in Seq(Seq({"text"})), NEW out \in Seq(Tokens), NEW end, Ends(lines, end, out)
  PROVE  end[Len(lines)] \in Nat
<1>1. Len(lines) \in Nat /\ Len(out) \in Nat
  OBVIOUS
<1>2. end \in [0 .. Len(lines) -> 0 .. Len(out)] /\ Len(lines) \in 0 .. Len(lines)
  BY <1>1 DEF Ends
<1>3. end[Len(lines)] \in 0 .. Len(out)
  BY <1>2
<1>4. 0 .. Len(out) \subseteq Nat
  BY <1>1
<1> QED BY <1>3, <1>4

LEMMA LogStart == Init => LogInv
<1> SUFFICES ASSUME Init, NEW t \in Captured PROVE Logs(t)
  BY DEF LogInv
<1> USE CmdAssumption
<1> DEFINE end == [i \in 0 .. 0 |-> 0]
<1>1. reader[t] = "none" /\ logged[t] = <<>> /\ wrote[t] = <<>> /\ buf[t] = <<>> /\ pipe[t] = <<>>
  BY DEF Init
<1>2. Ends(<<>>, end, <<>>)
  <2>1. Len(<<>>) = 0 /\ \A i \in 1 .. 0 : FALSE
    OBVIOUS
  <2>2. end \in [0 .. 0 -> 0 .. 0] /\ end[0] = 0
    OBVIOUS
  <2> HIDE DEF end
  <2> QED BY <2>1, <2>2, Zenon DEF Ends
<1>3. Follow(<<>>, 0, <<>>, <<>>)
  BY DEF Follow
<1>4. end[Len(<<>>)] = 0
  OBVIOUS
<1> HIDE DEF end
<1>5. Ends(logged[t], end, wrote[t]) /\ Follow(wrote[t], end[Len(logged[t])], buf[t], pipe[t])
  BY <1>1, <1>2, <1>3, <1>4
<1> QED BY <1>1, <1>5 DEF Logs

\* What has been logged, what is buffered and what is in the pipe stay, together,
\* what the command wrote.
LEMMA LogStep ==
  ASSUME PlaceShape, OutputShape, ChildInv, HoldInv, ReaderInv, LogInv, [Next]_vars
  PROVE  LogInv'
<1> SUFFICES ASSUME NEW t \in Captured PROVE Logs(t)'
  BY DEF LogInv
<1>1. t \in Threads /\ Logs(t)
  BY CmdAssumption DEF LogInv
<1>2. /\ pipe[t] \in Seq(Tokens) /\ wrote[t] \in Seq(Tokens) /\ buf[t] \in Seq({"text"})
      /\ logged[t] \in Seq(Seq({"text"}))
  BY <1>1 DEF OutputShape
<1>3. CASE UNCHANGED <<pipe[t], wrote[t], reader[t], buf[t], logged[t]>>
  BY <1>1, <1>3 DEF Logs
<1>4. ASSUME NEW u \in Threads, StartReader(u) PROVE Logs(t)'
  <2>1. at[u] = "forked" /\ UNCHANGED <<pipe, wrote, buf, logged>>
    BY <1>4 DEF StartReader
  <2>2. reader'[t] = "ended" <=> reader[t] = "ended"
    BY <1>1, <1>4, <2>1 DEF StartReader, PlaceShape, ReaderInv
  <2> QED BY <1>1, <2>1, <2>2 DEF Logs
<1>5. ASSUME NEW u \in Threads, Write(u) PROVE Logs(t)'
  <2>1. CASE u # t
    <3>1. UNCHANGED <<pipe[t], wrote[t], reader[t], buf[t], logged[t]>>
      BY <1>1, <1>5, <2>1 DEF Write, readerVars, OutputShape
    <3> QED BY <1>3, <3>1
  <2>2. CASE u = t
    <3> DEFINE c == Head(todo[t])
    <3>1. reader[t] # "ended"
      BY <1>5, <2>2 DEF Write, HoldInv, ReaderInv
    <3>2. c \in Tokens
      <4>1. todo[t] \in Seq(Tokens) /\ todo[t] # <<>>
        BY <1>1, <1>5, <2>2 DEF Write, OutputShape
      <4> QED BY <4>1
    <3>3. /\ pipe'[t] = Append(pipe[t], c) /\ wrote'[t] = Append(wrote[t], c)
          /\ UNCHANGED <<reader, buf, logged>>
      BY <1>1, <1>5, <2>2 DEF Write, readerVars, OutputShape
    <3>4. PICK end : /\ Ends(logged[t], end, wrote[t])
                     /\ Follow(wrote[t], end[Len(logged[t])], buf[t], pipe[t])
      BY <1>1, <3>1 DEF Logs
    <3> HIDE DEF c
    <3>5. Ends(logged[t], end, Append(wrote[t], c))
      BY <1>2, <3>2, <3>4, EndsWrite
    <3>6. end[Len(logged[t])] \in Nat
      BY <1>2, <3>4, LastEnd
    <3>7. Follow(Append(wrote[t], c), end[Len(logged[t])], buf[t], Append(pipe[t], c))
      BY <1>2, <3>2, <3>4, <3>6, FollowWrite
    <3> QED BY <3>1, <3>3, <3>5, <3>7, Zenon DEF Logs
  <2> QED BY <2>1, <2>2
<1>6. ASSUME NEW u \in Threads, Read(u) PROVE Logs(t)'
  <2>1. CASE u # t
    <3>1. UNCHANGED <<pipe[t], wrote[t], reader[t], buf[t], logged[t]>>
      BY <1>1, <1>6, <2>1 DEF Read, Log, OutputShape
    <3> QED BY <1>3, <3>1
  <2>2. CASE u = t
    <3>1. /\ reader[t] = "reading" /\ reader'[t] = "reading" /\ pipe[t] # <<>>
          /\ wrote'[t] = wrote[t] /\ pipe'[t] = Tail(pipe[t]) /\ buf'[t] = Buffered(t)
      BY <1>1, <1>6, <2>2 DEF Read, OutputShape
    <3>2. PICK end : /\ Ends(logged[t], end, wrote[t])
                     /\ Follow(wrote[t], end[Len(logged[t])], buf[t], pipe[t])
      BY <1>1, <3>1 DEF Logs
    <3>3. CASE Head(pipe[t]) = "newline"
      <4>1. logged'[t] = Append(logged[t], buf[t]) /\ buf'[t] = <<>>
        BY <1>1, <1>6, <2>2, <3>1, <3>3 DEF Read, Log, Buffered, OutputShape
      <4>2. \E new : /\ Ends(Append(logged[t], buf[t]), new, wrote[t])
                     /\ Follow(wrote[t], new[Len(Append(logged[t], buf[t]))], <<>>, Tail(pipe[t]))
        BY <1>2, <3>1, <3>2, <3>3, NewLine
      <4> QED BY <3>1, <4>1, <4>2 DEF Logs
    <3>4. CASE Head(pipe[t]) # "newline"
      <4>1. Head(pipe[t]) = "text"
        <5>1. Head(pipe[t]) \in Tokens
          BY <1>2, <3>1
        <5> QED BY <3>4, <5>1 DEF Tokens
      <4>2. logged'[t] = logged[t] /\ buf'[t] = Append(buf[t], "text")
        BY <1>6, <2>2, <3>1, <3>4 DEF Read, Buffered
      <4>3. end[Len(logged[t])] \in Nat
        BY <1>2, <3>2, LastEnd
      <4>4. Follow(wrote[t], end[Len(logged[t])], Append(buf[t], "text"), Tail(pipe[t]))
        BY <1>2, <3>1, <3>2, <4>1, <4>3, FollowText
      <4> QED BY <3>1, <3>2, <4>2, <4>4, Zenon DEF Logs
    <3> QED BY <3>3, <3>4
  <2> QED BY <2>1, <2>2
<1>7. ASSUME NEW u \in Threads, ReadEnd(u) PROVE Logs(t)'
  <2>1. CASE u # t
    <3>1. UNCHANGED <<pipe[t], wrote[t], reader[t], buf[t], logged[t]>>
      BY <1>1, <1>7, <2>1 DEF ReadEnd, Log, pipeVars, PlaceShape, OutputShape
    <3> QED BY <1>3, <3>1
  <2>2. CASE u = t
    <3>1. /\ reader[t] = "reading" /\ reader'[t] = "ended" /\ pipe[t] = <<>> /\ wrote'[t] = wrote[t]
          /\ logged'[t] = IF buf[t] # <<>> THEN Append(logged[t], buf[t]) ELSE logged[t]
      BY <1>1, <1>7, <2>2 DEF ReadEnd, EndOfPipe, LeftOver, Log, pipeVars, PlaceShape, OutputShape
    <3>2. PICK end : /\ Ends(logged[t], end, wrote[t])
                     /\ Follow(wrote[t], end[Len(logged[t])], buf[t], <<>>)
      BY <1>1, <3>1 DEF Logs
    <3>3. AreLines(IF buf[t] # <<>> THEN Append(logged[t], buf[t]) ELSE logged[t], wrote[t])
      BY <1>2, <3>2, LastLine
    <3> QED BY <3>1, <3>3 DEF Logs
  <2> QED BY <2>1, <2>2
<1> QED BY <1>3, <1>4, <1>5, <1>6, <1>7, OutputActions

\* packagecmd.cpp 60-81, 205-208: a Run that has returned has logged, line by line,
\* all its command has written, whatever way the command ended.
THEOREM OutputLoggedHolds == Spec => []OutputLogged
<1>1. IInv /\ LogInv /\ [Next]_vars => LogInv'
  BY LogStep DEF IInv
<1>2. Spec => []LogInv
  BY <1>1, LogStart, Invariance, PTL DEF Spec
<1>3. ReaderInv /\ LogInv => OutputLogged
  BY DEF ReaderInv, LogInv, Logs, OutputLogged
<1> QED BY <1>2, <1>3, Invariance, PTL DEF IInv

-----------------------------------------------------------------------------
(* The inherited pipes and the waiting.                                    *)

\* Whoever still has a pipe open is the parent or a child that has not ended.
HolderInv ==
  \A t \in Threads : \A p \in holds[t] \ {Parent} : p \in Threads /\ child[p] \in {"forked", "running"}

\* Only a command that is captured has anything to write, and once its thread
\* waits for it there is somebody to read it.
WriterInv ==
  \A t \in Threads :
    /\ todo[t] # <<>> => t \in Captured
    /\ t \in Captured /\ at[t] \in {"waiting", "joining"} => reader[t] \in {"reading", "ended"}
    /\ t \notin Captured => at[t] \notin {"piped", "joining"} /\ holds[t] = {}

\* What each of them waits for: the loop for the threads, a thread for the
\* command before it, for its child and for its reader, a child for space in its
\* pipe, and a reader for data or for the last process to close it.
LoopWaits == \E t \in Threads : at[t] # "done" /\ ~(at[t] = "new" /\ ~parallel /\ ~result)

ThreadWaits(t) ==
  \/ at[t] = "new" /\ ~parallel /\ (~result \/ \E u \in Threads : at[u] \notin {"new", "done"})
  \/ at[t] = "waiting" /\ child[t] # "ended"
  \/ at[t] = "joining" /\ reader[t] # "ended"
  \/ at[t] = "done"

ChildWaits(t) ==
  \/ child[t] \in {"none", "ended"}
  \/ child[t] = "running" /\ todo[t] # <<>> /\ Len(pipe[t]) >= PipeSize

ReaderWaits(t) == reader[t] # "reading" \/ (pipe[t] = <<>> /\ holds[t] # {})

\* packagecmd.cpp 131-137, 203-208: pipes that other commands have inherited keep
\* a reader waiting, but never so that all wait for one another.
NoDeadlock ==
  ~Stopped => ~(LoopWaits /\ \A t \in Threads : ThreadWaits(t) /\ ChildWaits(t) /\ ReaderWaits(t))

LEMMA HolderStep ==
  ASSUME PlaceShape, HoldInv, ChildInv, WriterInv, HolderInv, [Next]_vars
  PROVE  HolderInv'
<1> USE CmdAssumption DEF PlaceShape, HolderInv
<1>1. CASE UNCHANGED <<child, holds>>
  BY <1>1
<1>2. ASSUME NEW t \in Threads, MakePipe(t) PROVE HolderInv'
  BY <1>2 DEF MakePipe, childVars
<1>3. ASSUME NEW t \in Threads, Fork(t) PROVE HolderInv'
  BY <1>3 DEF Fork
<1>4. ASSUME NEW t \in Threads, StartReader(t) PROVE HolderInv'
  BY <1>4 DEF StartReader, childVars
<1>5. ASSUME NEW t \in Threads, Exec(t) \/ ExecFails(t) PROVE HolderInv'
  BY <1>5 DEF Exec, ExecFails, pipeVars
<1>6. ASSUME NEW t \in Threads, Exit(t) \/ Killed(t) PROVE HolderInv'
  BY <1>6 DEF Exit, Killed, Gone
<1>7. \/ UNCHANGED <<child, holds>>
      \/ \E t \in Threads : \/ MakePipe(t) \/ Fork(t) \/ StartReader(t) \/ Exec(t) \/ ExecFails(t)
                            \/ Exit(t) \/ Killed(t)
  BY Actions DEF JoinAll, Launch, NoteResult, ForkFails, WaitPid, JoinReader, Return, Write, Read,
    ReadEnd, vars, childVars, pipeVars
<1> QED BY <1>1, <1>2, <1>3, <1>4, <1>5, <1>6, <1>7

LEMMA WriterStep ==
  ASSUME PlaceShape, OutputShape, WriterInv, [Next]_vars
  PROVE  WriterInv'
<1> USE CmdAssumption DEF PlaceShape, WriterInv
<1>1. CASE UNCHANGED <<at, todo, holds, reader>>
  BY <1>1
<1>2. ASSUME NEW t \in Threads, Launch(t) \/ NoteResult(t) \/ WaitPid(t) \/ JoinReader(t) \/ Return(t)
      PROVE  WriterInv'
  BY <1>2 DEF Launch, NoteResult, WaitPid, JoinReader, Return, childVars, pipeVars, readerVars
<1>3. ASSUME NEW t \in Threads, MakePipe(t) PROVE WriterInv'
  BY <1>3 DEF MakePipe, childVars, readerVars
<1>4. ASSUME NEW t \in Threads, Fork(t) PROVE WriterInv'
  BY <1>4 DEF Fork, readerVars
<1>5. ASSUME NEW t \in Threads, StartReader(t) PROVE WriterInv'
  BY <1>5 DEF StartReader, childVars
<1>6. ASSUME NEW t \in Threads, Exec(t) \/ ExecFails(t) PROVE WriterInv'
  <2>1. \A u \in Threads : u # t => todo'[u] = todo[u]
    BY <1>6 DEF Exec, ExecFails, OutputShape
  <2>2. t \notin Captured => todo'[t] = <<>>
    BY <1>6 DEF Exec, ExecFails, OutputShape
  <2>3. UNCHANGED <<at, holds, reader>>
    BY <1>6 DEF Exec, ExecFails, threadVars, pipeVars, readerVars
  <2> QED BY <2>1, <2>2, <2>3
<1>7. ASSUME NEW t \in Threads, Write(t) PROVE WriterInv'
  <2>1. \A u \in Threads : todo'[u] # <<>> => todo[u] # <<>>
    BY <1>7 DEF Write, OutputShape
  <2> QED BY <1>7, <2>1 DEF Write, threadVars, readerVars
<1>8. ASSUME NEW t \in Threads, Exit(t) \/ Killed(t) PROVE WriterInv'
  BY <1>8 DEF Exit, Killed, Gone, threadVars, readerVars
<1>9. ASSUME NEW t \in Threads, ReadEnd(t) PROVE WriterInv'
  BY <1>9 DEF ReadEnd, threadVars, childVars, pipeVars
<1>10. ASSUME NEW t \in Threads, ForkFails(t) \/ Read(t) PROVE WriterInv'
  BY <1>1, <1>10 DEF ForkFails, Read, threadVars, childVars, pipeVars, readerVars
<1>11. CASE JoinAll \/ UNCHANGED vars
  BY <1>1, <1>11 DEF JoinAll, vars, threadVars, childVars, pipeVars, readerVars
<1> QED
  BY <1>2, <1>3, <1>4, <1>5, <1>6, <1>7, <1>8, <1>9, <1>10, <1>11, Actions

\* A child that cannot go on has a full pipe and a thread that has not started the
\* reader yet, or has a reader that can go on.
LEMMA ChildGoesOn ==
  ASSUME IInv, WriterInv, NEW t \in Threads, child[t] \in {"forked", "running"}
  PROVE  ~(ThreadWaits(t) /\ ChildWaits(t) /\ ReaderWaits(t))
<1> SUFFICES ASSUME ThreadWaits(t), ChildWaits(t), ReaderWaits(t) PROVE FALSE
  OBVIOUS
<1> USE DEF IInv
<1>1. child[t] = "running" /\ todo[t] # <<>> /\ Len(pipe[t]) >= PipeSize
  BY DEF ChildWaits
<1>2. at[t] = "waiting"
  BY <1>1 DEF ThreadWaits, ChildInv, Before, After
<1>3. t \in Captured /\ reader[t] \in {"reading", "ended"}
  BY <1>1, <1>2 DEF WriterInv
<1>4. reader[t] = "reading"
  BY <1>1, <1>3 DEF ReaderInv, HoldInv
<1>5. pipe[t] # <<>>
  BY <1>1, CmdAssumption
<1> QED BY <1>4, <1>5 DEF ReaderWaits

\* packagecmd.cpp 131-137, 203-208: extraction never comes to a standstill in
\* which all wait for one another, however the pipes were inherited.
THEOREM NoDeadlockHolds == Spec => []NoDeadlock
<1>1. Init => HolderInv /\ WriterInv
  BY CmdAssumption DEF Init, HolderInv, WriterInv
<1>2. IInv /\ HolderInv /\ WriterInv /\ [Next]_vars => HolderInv' /\ WriterInv'
  BY HolderStep, WriterStep DEF IInv
<1>3. Spec => [](HolderInv /\ WriterInv)
  BY <1>1, <1>2, Invariance, PTL DEF Spec
<1>4. ASSUME IInv, HolderInv, WriterInv, LoopWaits,
             \A t \in Threads : ThreadWaits(t) /\ ChildWaits(t) /\ ReaderWaits(t)
      PROVE  FALSE
  <2>1. \A t \in Threads : child[t] \in {"none", "ended"}
    BY <1>4, ChildGoesOn DEF IInv, PlaceShape
  <2>2. \A t \in Threads : at[t] # "waiting"
    BY <1>4, <2>1 DEF IInv, ChildInv, ThreadWaits, Before
  <2>3. ASSUME NEW t \in Threads, at[t] = "joining" PROVE FALSE
    <3>1. t \in Captured /\ reader[t] = "reading"
      BY <1>4, <2>3 DEF WriterInv, ThreadWaits
    <3>2. PICK p \in holds[t] : TRUE
      BY <1>4, <3>1 DEF ReaderWaits
    <3>3. p # Parent
      BY <1>4, <2>3, <3>1, <3>2 DEF IInv, HoldInv
    <3> QED BY <1>4, <2>1, <3>2, <3>3 DEF HolderInv
  <2>4. \A t \in Threads : at[t] \in {"new", "done"}
    BY <1>4, <2>2, <2>3 DEF ThreadWaits
  <2>5. PICK t \in Threads : at[t] # "done" /\ ~(at[t] = "new" /\ ~parallel /\ ~result)
    BY <1>4 DEF LoopWaits
  <2> QED BY <1>4, <2>4, <2>5 DEF ThreadWaits
<1>5. IInv /\ HolderInv /\ WriterInv => NoDeadlock
  BY <1>4 DEF NoDeadlock
<1> QED BY <1>3, <1>5, Invariance, PTL
===============================================================================
