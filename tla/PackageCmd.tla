----------------------------- MODULE PackageCmd -----------------------------
(***************************************************************************)
(* PackageCmd::Run in the threads with which prepareBuildDirs extracts the *)
(* dependencies of a package (src/packagecmd.cpp, src/package.cpp 333-350  *)
(* and 740-832).  Each command has a pipe, a child and a thread that reads *)
(* the pipe to its end.  A fork copies every descriptor the process has    *)
(* open: the pipe is made without O_CLOEXEC, so a child keeps the write    *)
(* ends other threads had open, and a reader waits for it as well.         *)
(*                                                                         *)
(* The output of a command is a sequence of "text" and "newline".  The     *)
(* path over a terminal (forkpty) and a pipe() that fails are not          *)
(* modelled.                                                               *)
(***************************************************************************)
EXTENDS Naturals, Sequences, FiniteSets, SequencesExt

CONSTANTS
    Threads,    \* the commands: one thread each, named like its child
    Parent,     \* the process itself
    Outputs,    \* what a command may write
    PipeSize,   \* what a pipe takes before its writer has to wait
    Captured,   \* commands whose output is logged (log_output)
    Tolerated   \* commands whose failure is expected (failure_expected)

ASSUME CmdAssumption ==
    /\ Parent \notin Threads
    /\ IsFiniteSet(Threads)
    /\ Outputs \subseteq Seq({"text", "newline"})
    /\ PipeSize \in Nat \ {0}
    /\ Captured \subseteq Threads /\ Tolerated \subseteq Threads

VARIABLES
    parallel,   \* extract_in_parallel
    builder,    \* the thread in prepareBuildDirs: "looping", "done"
    result,     \* its `result'
    alive,      \* exit() has not been called
    at,         \* where each thread is
    answer,     \* what Run returned
    report,     \* what Run logged of a failure
    child,      \* "none", "forked" (between fork and exec), "running", "ended"
    todo,       \* what the child has still to write
    status,     \* what waitpid will report: "zero", "nonzero", "signal"
    holds,      \* the processes with the write end of the pipe open
    pipe,       \* what is in the pipe
    wrote,      \* all the child has written
    reader,     \* pipe_data_thread: "none", "reading", "ended"
    buf,        \* its recv_buf
    logged      \* the lines it has logged

builderVars == <<parallel, builder, result, alive>>
threadVars == <<at, answer, report>>
childVars == <<child, todo, status>>
pipeVars == <<holds, pipe, wrote>>
readerVars == <<reader, buf, logged>>
vars == <<builderVars, threadVars, childVars, pipeVars, readerVars>>

Places == {"new", "called", "piped", "forked", "waiting", "joining", "reaped", "returned", "done"}
Tokens == {"text", "newline"}

TypeOK ==
    /\ parallel \in BOOLEAN /\ result \in BOOLEAN /\ alive \in BOOLEAN
    /\ builder \in {"looping", "done"}
    /\ at \in [Threads -> Places]
    /\ answer \in [Threads -> BOOLEAN]
    /\ report \in [Threads -> {"none", "signal", "code"}]
    /\ child \in [Threads -> {"none", "forked", "running", "ended"}]
    /\ status \in [Threads -> {"zero", "nonzero", "signal"}]
    /\ holds \in [Threads -> SUBSET (Threads \cup {Parent})]
    /\ reader \in [Threads -> {"none", "reading", "ended"}]
    /\ \A t \in Threads :
         /\ {todo[t], pipe[t], wrote[t]} \subseteq Seq(Tokens)
         /\ buf[t] \in Seq({"text"}) /\ logged[t] \in Seq(Seq({"text"}))
         /\ Len(pipe[t]) <= PipeSize

Init ==
    /\ parallel \in BOOLEAN
    /\ builder = "looping" /\ result = TRUE /\ alive = TRUE
    /\ at = [t \in Threads |-> "new"]
    /\ answer = [t \in Threads |-> FALSE]
    /\ report = [t \in Threads |-> "none"]
    /\ child = [t \in Threads |-> "none"]
    /\ status = [t \in Threads |-> "zero"]
    /\ holds = [t \in Threads |-> {}]
    /\ reader = [t \in Threads |-> "none"]
    /\ todo = [t \in Threads |-> <<>>] /\ pipe = todo /\ wrote = todo
    /\ buf = todo /\ logged = todo

-----------------------------------------------------------------------------
(* The loop of prepareBuildDirs: every package at once, or one after the   *)
(* other up to the first failure.                                          *)

Launch(t) ==
    /\ builder = "looping" /\ at[t] = "new"
    /\ parallel \/ (result /\ \A u \in Threads : at[u] \in {"new", "done"})
    /\ at' = [at EXCEPT ![t] = "called"]
    /\ UNCHANGED <<builderVars, answer, report, childVars, pipeVars, readerVars>>

(* What a thread does with the answer of extract_staging.                  *)
NoteResult(t) ==
    /\ at[t] = "returned"
    /\ at' = [at EXCEPT ![t] = "done"]
    /\ result' = IF parallel THEN result /\ answer[t] ELSE answer[t]
    /\ UNCHANGED <<parallel, builder, alive, answer, report, childVars, pipeVars, readerVars>>

JoinAll ==
    /\ builder = "looping"
    /\ \A t \in Threads : at[t] = "done" \/ (at[t] = "new" /\ ~parallel /\ ~result)
    /\ builder' = "done"
    /\ UNCHANGED <<parallel, result, alive, threadVars, childVars, pipeVars, readerVars>>

-----------------------------------------------------------------------------
(* Run and exec_process in the parent.                                     *)

MakePipe(t) ==
    /\ at[t] = "called" /\ t \in Captured
    /\ at' = [at EXCEPT ![t] = "piped"]
    /\ holds' = [holds EXCEPT ![t] = {Parent}]
    /\ UNCHANGED <<builderVars, answer, report, childVars, pipe, wrote, readerVars>>

Fork(t) ==
    /\ at[t] = (IF t \in Captured THEN "piped" ELSE "called")
    /\ at' = [at EXCEPT ![t] = "forked"]
    /\ child' = [child EXCEPT ![t] = "forked"]
    /\ holds' = [u \in Threads |-> IF Parent \in holds[u] THEN holds[u] \cup {t} ELSE holds[u]]
    /\ UNCHANGED <<builderVars, answer, report, todo, status, pipe, wrote, readerVars>>

ForkFails(t) ==
    /\ at[t] = (IF t \in Captured THEN "piped" ELSE "called")
    /\ alive' = FALSE
    /\ UNCHANGED <<parallel, builder, result, threadVars, childVars, pipeVars, readerVars>>

(* The parent closes its write end and starts the reader.                  *)
StartReader(t) ==
    /\ at[t] = "forked"
    /\ at' = [at EXCEPT ![t] = "waiting"]
    /\ holds' = [holds EXCEPT ![t] = @ \ {Parent}]
    /\ reader' = [reader EXCEPT ![t] = IF t \in Captured THEN "reading" ELSE @]
    /\ UNCHANGED <<builderVars, answer, report, childVars, pipe, wrote, buf, logged>>

WaitPid(t) ==
    /\ at[t] = "waiting" /\ child[t] = "ended"
    /\ at' = [at EXCEPT ![t] = IF t \in Captured THEN "joining" ELSE "reaped"]
    /\ UNCHANGED <<builderVars, answer, report, childVars, pipeVars, readerVars>>

JoinReader(t) ==
    /\ at[t] = "joining" /\ reader[t] = "ended"
    /\ at' = [at EXCEPT ![t] = "reaped"]
    /\ UNCHANGED <<builderVars, answer, report, childVars, pipeVars, readerVars>>

(* Mutant: WEXITSTATUS alone decides, which is 0 for a signal.             *)
SucceededLoosely(t) == status[t] # "nonzero"

(* A status that is no exit has no exit code; it is never a success, and   *)
(* reported even if the caller expects a failure.                          *)
Succeeded(t) == status[t] = "zero"

Report(t) ==
    CASE status[t] = "signal"                         -> "signal"
      [] status[t] = "nonzero" /\ t \notin Tolerated  -> "code"
      [] OTHER                                        -> "none"

Return(t) ==
    /\ at[t] = "reaped"
    /\ at' = [at EXCEPT ![t] = "returned"]
    /\ answer' = [answer EXCEPT ![t] = Succeeded(t)]
    /\ report' = [report EXCEPT ![t] = Report(t)]
    /\ UNCHANGED <<builderVars, childVars, pipeVars, readerVars>>

-----------------------------------------------------------------------------
(* The child.  Its own write end becomes its output; the ends it inherited *)
(* stay open until it is gone.                                             *)

Exec(t) ==
    /\ child[t] = "forked"
    /\ child' = [child EXCEPT ![t] = "running"]
    /\ \E out \in Outputs, s \in {"zero", "nonzero"} :
         /\ todo' = [todo EXCEPT ![t] = IF t \in Captured THEN out ELSE <<>>]
         /\ status' = [status EXCEPT ![t] = s]
    /\ UNCHANGED <<builderVars, threadVars, pipeVars, readerVars>>

(* chdir or exec fail: a line for the parent, and _exit(-1).               *)
ExecFails(t) ==
    /\ child[t] = "forked"
    /\ child' = [child EXCEPT ![t] = "running"]
    /\ todo' = [todo EXCEPT ![t] = IF t \in Captured THEN <<"text", "newline">> ELSE <<>>]
    /\ status' = [status EXCEPT ![t] = "nonzero"]
    /\ UNCHANGED <<builderVars, threadVars, pipeVars, readerVars>>

Write(t) ==
    /\ child[t] = "running" /\ todo[t] # <<>> /\ Len(pipe[t]) < PipeSize
    /\ pipe' = [pipe EXCEPT ![t] = Append(@, Head(todo[t]))]
    /\ wrote' = [wrote EXCEPT ![t] = Append(@, Head(todo[t]))]
    /\ todo' = [todo EXCEPT ![t] = Tail(@)]
    /\ UNCHANGED <<builderVars, threadVars, child, status, holds, readerVars>>

Gone(t) ==
    /\ child' = [child EXCEPT ![t] = "ended"]
    /\ holds' = [u \in Threads |-> holds[u] \ {t}]
    /\ UNCHANGED <<builderVars, threadVars, todo, pipe, wrote, readerVars>>

Exit(t) == child[t] = "running" /\ todo[t] = <<>> /\ Gone(t) /\ UNCHANGED status

Killed(t) ==
    /\ child[t] = "running"
    /\ status' = [status EXCEPT ![t] = "signal"]
    /\ Gone(t)

-----------------------------------------------------------------------------
(* pipe_data_thread: a line is logged at its newline, the rest at the end  *)
(* of the pipe, which is when nobody can write to it any more.             *)

Log(t, line) == logged' = [logged EXCEPT ![t] = Append(@, line)]

(* Mutant: the newline stays in the buffer.                                *)
BufferedNewline(t) == IF Head(pipe[t]) = "newline" THEN <<"newline">> ELSE Append(buf[t], "text")

Buffered(t) == IF Head(pipe[t]) = "newline" THEN <<>> ELSE Append(buf[t], "text")

Read(t) ==
    /\ reader[t] = "reading" /\ pipe[t] # <<>>
    /\ pipe' = [pipe EXCEPT ![t] = Tail(@)]
    /\ buf' = [buf EXCEPT ![t] = Buffered(t)]
    /\ IF Head(pipe[t]) = "newline" THEN Log(t, buf[t]) ELSE UNCHANGED logged
    /\ UNCHANGED <<builderVars, threadVars, childVars, holds, wrote, reader>>

EndOfPipe(t) == pipe[t] = <<>> /\ holds[t] = {}

(* Mutant: what follows the last newline is dropped.                       *)
Dropped(t) == <<>>

LeftOver(t) == buf[t]

(* Mutant: a read of nothing is no reason to stop, only an error is.       *)
ReadOn(t) == reader[t] = "reading" /\ EndOfPipe(t) /\ UNCHANGED vars

ReadEnd(t) ==
    /\ reader[t] = "reading" /\ EndOfPipe(t)
    /\ reader' = [reader EXCEPT ![t] = "ended"]
    /\ IF LeftOver(t) # <<>> THEN Log(t, LeftOver(t)) ELSE UNCHANGED logged
    /\ buf' = [buf EXCEPT ![t] = <<>>]
    /\ UNCHANGED <<builderVars, threadVars, childVars, pipeVars>>

-----------------------------------------------------------------------------
RunStep(t) ==
    \/ MakePipe(t) \/ Fork(t) \/ StartReader(t) \/ WaitPid(t) \/ JoinReader(t) \/ Return(t)
ChildStep(t) == Exec(t) \/ ExecFails(t) \/ Write(t) \/ Exit(t)
ReaderStep(t) == Read(t) \/ ReadEnd(t)

Step ==
    \/ JoinAll
    \/ \E t \in Threads :
         \/ Launch(t) \/ NoteResult(t) \/ RunStep(t) \/ ForkFails(t)
         \/ ChildStep(t) \/ Killed(t) \/ ReaderStep(t)

Stopped == builder = "done" \/ ~alive
Terminated == Stopped /\ UNCHANGED vars

Next == (alive /\ Step) \/ Terminated

(* Threads are scheduled, and commands go on until they end.               *)
Fairness ==
    /\ WF_vars(alive /\ JoinAll)
    /\ \A t \in Threads :
         /\ WF_vars(alive /\ (Launch(t) \/ NoteResult(t) \/ RunStep(t)))
         /\ WF_vars(alive /\ ChildStep(t))
         /\ WF_vars(alive /\ ReaderStep(t))

Spec == Init /\ [][Next]_vars /\ Fairness

-----------------------------------------------------------------------------
(* What stands between two newlines of an output.                          *)
Between(out, m, n) == [k \in 1 .. n - m - 1 |-> out[m + k]]

(* The lines of an output: what stands before each newline, and what       *)
(* follows the last one if there is any.  end[i] is where line i ends.     *)
AreLines(lines, out) ==
    \E end \in [0 .. Len(lines) -> 0 .. Len(out) + 1] :
        /\ end[0] = 0 /\ end[Len(lines)] >= Len(out)
        /\ \A i \in 1 .. Len(lines) :
             /\ end[i - 1] < end[i]
             /\ lines[i] = Between(out, end[i - 1], end[i])
             /\ \A k \in DOMAIN lines[i] : lines[i][k] # "newline"
             /\ \/ end[i] <= Len(out) /\ out[end[i]] = "newline"
                \/ end[i] = Len(out) + 1 /\ lines[i] # <<>>

(* A Run that has returned has logged, line by line, all its command has   *)
(* written, to the end and whatever way the command ended                  *)
(* (packagecmd.cpp 60-81, 205-208).                                        *)
OutputLogged ==
    \A t \in Captured : at[t] \in {"returned", "done"} =>
        AreLines(logged[t], wrote[t])

(* The directory counts as ready only if every command ran to its end and  *)
(* exited with 0: a command that was killed, could not be started or had   *)
(* its output cut off is never taken for a success, in whatever order the  *)
(* threads end (packagecmd.cpp 214-240, package.cpp 752-778).              *)
ReadyMeansAll ==
    builder = "done" /\ result =>
        \A t \in Threads : child[t] = "ended" /\ status[t] = "zero" /\ todo[t] = <<>>

(* Every extraction ends, however the pipes of the commands were           *)
(* inherited and however much they write (packagecmd.cpp 131-137,          *)
(* 203-208).                                                               *)
ExtractionEnds == <>Stopped
=============================================================================
