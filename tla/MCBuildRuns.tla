----------------------------- MODULE MCBuildRuns -----------------------------
(* Two regimes in one instance: runs with any inputs, stopped where they are  *)
(* not writing, and runs stopped nearly anywhere whose inputs only get newer. *)
EXTENDS MCBuildInfo

VARIABLE overtaking   \* which of the two

ThreeVersions == {1, 2, 3}

\* OutputFits is not for runs stopped in the hashing step.
NotHashing == Places \ {"idle", "built", "hash"}

Forwards == INSTANCE BuildInfo WITH
  Versions <- ThreeVersions, PartialCache <- TRUE, Stops <- NotHashing,
  Forward <- TRUE, Kinds <- Plain, Rebuilds <- FALSE, Removals <- FALSE

RunsInit == overtaking \in BOOLEAN /\ IF overtaking THEN Forwards!Init ELSE Init
RunsNext ==
  /\ overtaking' = overtaking
  /\ \/ overtaking /\ Forwards!Next
     \/ ~overtaking /\ Next

RunsSpec == RunsInit /\ [][RunsNext]_<<vars, overtaking>>
=============================================================================
