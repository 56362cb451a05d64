------------------------------ MODULE MCWakeup -------------------------------
(* Two runs of the program, each with one package and nothing in common, so    *)
(* that one behaviour shows both outcomes missed: in the first run the package *)
(* fails, in the second it is built.                                           *)
EXTENDS Scheduler, TLC

CONSTANT base

OnePackage == {base}
NoDeps == base :> {}

VARIABLES built2, building2, lock2, pc2, running2, failed2, failedPackages2, keepGoing2,
          sched2, unbuilt2, ready2, result2

vars2 == <<built2, building2, lock2, pc2, running2, failed2, failedPackages2, keepGoing2,
           sched2, unbuilt2, ready2, result2>>

Second == INSTANCE Scheduler WITH
  built <- built2, building <- building2, lock <- lock2, pc <- pc2, running <- running2,
  failed <- failed2, failedPackages <- failedPackages2, keepGoing <- keepGoing2,
  sched <- sched2, unbuilt <- unbuilt2, ready <- ready2, result <- result2

TwoInit == Init /\ Second!Init
TwoNext == (Next /\ UNCHANGED vars2) \/ (Second!Next /\ UNCHANGED vars)
TwoFairSpec == TwoInit /\ [][TwoNext]_<<vars, vars2>> /\ Fairness /\ Second!Fairness

\* basePackage returns once the outcome is decided, after a failure or at least
\* after a success: as the runs share nothing, a behaviour that violates this
\* shows that neither FailureObserved (buildsys.h:1092-1095) nor SuccessReturned
\* (functional-test/CMakeLists.txt:4-5) holds of the scheduler.
OutcomeReturned == FailureObserved \/ Second!SuccessReturned
=============================================================================
