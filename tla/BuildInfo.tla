------------------------------ MODULE BuildInfo ------------------------------
(***************************************************************************)
(* The files one package leaves behind from run to run of buildsys, and    *)
(* the decisions taken from them: whether to build (shouldBuild), whether  *)
(* to extract (extractionRequired), what to restore from the build cache   *)
(* (fetchFrom).  A run may be stopped - by a failing command, a full disk  *)
(* or a signal - at the places of Stops, and leaves its files as they are. *)
(*                                                                         *)
(* A description is what its file says: a hash stands for the content.     *)
(* The content of a tar is what it was built from.                         *)
(***************************************************************************)
EXTENDS Naturals

CONSTANTS
  Versions,      \* versions of the sources, and of everything else
  Hashing,       \* hash_output: dependents see .output.info
  Caching,       \* a build cache is configured
  PartialCache,  \* an entry of the cache may lack some of its files
  Cleans,        \* the values clean_before_build may have
  Stops,         \* the places where a run may be stopped
  Forward,       \* the inputs of a run are never older than those before
  Kinds,         \* the kinds of package this one may be, see below
  Rebuilds,      \* a dependent may want the package built locally
  Removals,      \* tars may be removed between two runs
  None,          \* there is no such file
  Mixed,         \* sources half replaced by those of another version
  Broken         \* a file whose writing was cut short

Places == {"idle", "prepare", "check", "restoreStaging", "restoreInstall",
           "restoreOutput", "restored", "fetch", "extract", "commands",
           "packStaging", "packInstall", "promote", "hash", "built"}

\* The extraction info is about the sources; the build info is about them and
\* about everything else: package file, features, build info of dependencies.
Inputs == [src : Versions, rest : Versions]
Contents == [src : Versions \cup {None, Mixed}, rest : Versions]

\* Built although nothing has changed: a package whose fetch units set
\* codeUpdated (link, copy, deps), or that installs its files one by one.
AllKinds == {"plain", "updated", "installFiles"}

ASSUME BuildInfoAssumption ==
  /\ Versions \subseteq Nat
  /\ {Hashing, Caching, PartialCache, Forward, Rebuilds, Removals} \subseteq BOOLEAN
  /\ Cleans \subseteq BOOLEAN
  /\ Kinds \subseteq AllKinds
  /\ Stops \subseteq Places \ {"idle", "built"}
  /\ None \notin Versions /\ Mixed \notin Versions /\ None # Mixed
  /\ None \notin Contents /\ Broken \notin Contents /\ None # Broken

VARIABLES
  at,           \* where the run is
  run,          \* the inputs of this run (of the last one, between two runs)
  kind,         \* the kind of package it is in this run
  locally,      \* the call of build is made with locally = true
  wasBuilt,     \* was_built
  info, newInfo,    \* .build.info, .build.info.new
  ext, newExt,      \* .extraction.info, .extraction.info.new
  tree,             \* the version of the sources in the work directory
  staging, install, \* the tars, by what they were built from
  output            \* .output.info, by the tars it was computed from

runVars == <<run, kind, locally, wasBuilt>>
infoVars == <<info, newInfo>>
extVars == <<ext, newExt, tree>>
outVars == <<staging, install, output>>
vars == <<at, runVars, infoVars, extVars, outVars>>

TypeOK ==
  /\ at \in Places
  /\ run \in Inputs
  /\ kind \in AllKinds
  /\ locally \in BOOLEAN /\ wasBuilt \in BOOLEAN
  /\ info \in Inputs \cup {None} /\ newInfo \in Inputs \cup {None}
  /\ ext \in Versions \cup {None} /\ newExt \in Versions \cup {None}
  /\ tree \in Versions \cup {None, Mixed}
  /\ staging \in Contents \cup {None, Broken}
  /\ install \in Contents \cup {None, Broken}
  /\ output \in Contents \cup {None, Broken}

Init ==
  /\ at = "idle"
  /\ run \in Inputs
  /\ kind = "plain" /\ locally = FALSE /\ wasBuilt = FALSE
  /\ info = None /\ newInfo = None
  /\ ext = None /\ newExt = None /\ tree = None
  /\ staging = None /\ install = None /\ output = None

-----------------------------------------------------------------------------
\* Between two runs.

\* buildsys is started again, maybe with other inputs.
StartRun(i, k) ==
  /\ at = "idle"
  /\ Forward => i.src >= run.src /\ i.rest >= run.rest
  /\ at' = "prepare"
  /\ run' = i /\ kind' = k /\ locally' = FALSE /\ wasBuilt' = FALSE
  /\ UNCHANGED <<infoVars, extVars, outVars>>

\* Somebody removes a tar from the output directory.
Remove ==
  /\ at = "idle" /\ Removals
  /\ \/ staging' = None /\ UNCHANGED install
     \/ install' = None /\ UNCHANGED staging
  /\ UNCHANGED <<at, runVars, infoVars, extVars, output>>

-----------------------------------------------------------------------------
\* Package::build.

\* Clean if asked for; write .extraction.info.new and .build.info.new.
Prepare ==
  /\ at = "prepare"
  /\ \E clean \in Cleans :
       IF clean
       THEN info' = None /\ ext' = None /\ tree' = None /\ output' = None
       ELSE UNCHANGED <<info, ext, tree, output>>
  /\ newExt' = run.src
  /\ newInfo' = run
  /\ at' = IF locally THEN "fetch" ELSE "check"
  /\ UNCHANGED <<runVars, staging, install>>

\* shouldBuild: both tars exist, and the description is that of the last build.
Same == staging # None /\ install # None /\ info = newInfo

AlwaysBuilt == kind \in {"updated", "installFiles"}

NotRequired ==
  /\ at = "check"
  /\ ~AlwaysBuilt /\ Same
  /\ at' = "built"
  /\ UNCHANGED <<runVars, infoVars, extVars, outVars>>

\* Changed, with no build cache or nothing there; or always to be built.
Required ==
  /\ at = "check"
  /\ AlwaysBuilt \/ ~Same
  /\ at' = "fetch"
  /\ UNCHANGED <<runVars, infoVars, extVars, outVars>>

\* fetchFrom: the cache says that it has something usable.
Usable ==
  /\ at = "check" /\ Caching
  /\ ~AlwaysBuilt /\ ~Same
  /\ at' = "restoreStaging"
  /\ UNCHANGED <<runVars, infoVars, extVars, outVars>>

\* ff_file: each file is downloaded beside its place and renamed into it.
RestoreStaging ==
  /\ at = "restoreStaging"
  /\ staging' = run
  /\ at' = "restoreInstall"
  /\ UNCHANGED <<runVars, infoVars, extVars, install, output>>

RestoreInstall ==
  /\ at = "restoreInstall"
  /\ install' = run
  /\ at' = IF Hashing THEN "restoreOutput" ELSE "restored"
  /\ UNCHANGED <<runVars, infoVars, extVars, staging, output>>

RestoreOutput ==
  /\ at = "restoreOutput"
  /\ output' = run
  /\ at' = "restored"
  /\ UNCHANGED <<runVars, infoVars, extVars, staging, install>>

\* A file is missing in the cache, or cannot be stored: the package is built.
RestoreMisses ==
  /\ at \in {"restoreStaging", "restoreInstall", "restoreOutput"}
  /\ PartialCache
  /\ at' = "fetch"
  /\ UNCHANGED <<runVars, infoVars, extVars, outVars>>

\* updateBuildInfo(false)
Restored ==
  /\ at = "restored"
  /\ info' = newInfo /\ newInfo' = None
  /\ at' = "built"
  /\ UNCHANGED <<runVars, extVars, outVars>>

\* Mutant: what is extracted once is not extracted again.
FetchOnce ==
  /\ at = "fetch"
  /\ at' = IF ext # None THEN "commands" ELSE "extract"
  /\ UNCHANGED <<runVars, infoVars, extVars, outVars>>

\* Fetched; extractionRequired compares the two extraction infos.
Fetch ==
  /\ at = "fetch"
  /\ at' = IF ext = newExt /\ kind # "updated"
           THEN "commands" ELSE "extract"
  /\ UNCHANGED <<runVars, infoVars, extVars, outVars>>

\* All units are extracted over the work directory, then the info is renamed.
Extract ==
  /\ at = "extract"
  /\ tree' = run.src
  /\ ext' = newExt /\ newExt' = None
  /\ at' = "commands"
  /\ UNCHANGED <<runVars, infoVars, outVars>>

\* Mutant: .build.info is promoted before the tars are written.
RunAndPromote ==
  /\ at = "commands"
  /\ info' = newInfo
  /\ at' = "packStaging"
  /\ UNCHANGED <<runVars, newInfo, extVars, outVars>>

\* The staging directory is prepared and the commands run.
RunCommands ==
  /\ at = "commands"
  /\ at' = "packStaging"
  /\ UNCHANGED <<runVars, infoVars, extVars, outVars>>

\* What the commands made of the work directory.
Made == [src |-> tree, rest |-> run.rest]

PackStaging ==
  /\ at = "packStaging"
  /\ staging' = Made
  /\ at' = "packInstall"
  /\ UNCHANGED <<runVars, infoVars, extVars, install, output>>

PackInstall ==
  /\ at = "packInstall"
  /\ install' = Made
  /\ at' = "promote"
  /\ UNCHANGED <<runVars, infoVars, extVars, staging, output>>

\* Mutant: the output is not hashed after a build either.
PromoteOnly ==
  /\ at = "promote"
  /\ info' = newInfo /\ newInfo' = None
  /\ wasBuilt' = TRUE
  /\ at' = "built"
  /\ UNCHANGED <<run, kind, locally, extVars, outVars>>

\* updateBuildInfo(): the rename; without output hashing the build is done.
Promote ==
  /\ at = "promote"
  /\ info' = newInfo /\ newInfo' = None
  /\ wasBuilt' = ~Hashing
  /\ at' = IF Hashing THEN "hash" ELSE "built"
  /\ UNCHANGED <<run, kind, locally, extVars, outVars>>

\* The rest of updateBuildInfo().
HashOutput ==
  /\ at = "hash"
  /\ output' = Made
  /\ wasBuilt' = TRUE
  /\ at' = "built"
  /\ UNCHANGED <<run, kind, locally, infoVars, extVars, staging, install>>

\* A dependent wants the package built locally.
BuildLocally ==
  /\ at = "built" /\ Rebuilds
  /\ ~wasBuilt
  /\ locally' = TRUE
  /\ at' = "prepare"
  /\ UNCHANGED <<run, kind, wasBuilt, infoVars, extVars, outVars>>

EndRun ==
  /\ at = "built"
  /\ at' = "idle"
  /\ UNCHANGED <<runVars, infoVars, extVars, outVars>>

\* The step the run was at fails or is cut short; what it was writing may be
\* half there.
Stop ==
  /\ at \in Stops
  /\ tree' \in {tree} \cup (IF at = "extract" THEN {Mixed} ELSE {})
  /\ staging' \in {staging} \cup (IF at = "packStaging" THEN {Broken} ELSE {})
  /\ install' \in {install} \cup (IF at = "packInstall" THEN {Broken} ELSE {})
  /\ output' \in {output} \cup (IF at = "hash" THEN {Broken} ELSE {})
  /\ at' = "idle"
  /\ UNCHANGED <<runVars, infoVars, ext, newExt>>

Build ==
  \/ Prepare
  \/ NotRequired \/ Required \/ Usable
  \/ RestoreStaging \/ RestoreInstall \/ RestoreOutput \/ RestoreMisses \/ Restored
  \/ Fetch \/ Extract \/ RunCommands
  \/ PackStaging \/ PackInstall
  \/ Promote \/ HashOutput

Next ==
  \/ \E i \in Inputs, k \in Kinds : StartRun(i, k)
  \/ Remove
  \/ Build
  \/ BuildLocally
  \/ EndRun
  \/ Stop

Spec == Init /\ [][Next]_vars

-----------------------------------------------------------------------------
\* Properties.

\* buildsys.h:666-671: when a package counts as built, by whichever way -
\* built, restored, or not required because of what earlier runs left - its
\* two tars are those of this run's inputs.
UpToDate == at = "built" => staging = run /\ install = run

\* extraction.cpp:64-93: the commands run on the sources this run describes.
SourcesFit == at = "commands" => tree = run.src

\* package.cpp:577-585: when dependents may read .output.info, it is that of
\* the package's tars.
OutputFits == (at = "built" /\ Hashing) => output = install
=============================================================================
