--------------------------- MODULE BuildInfoProofs ---------------------------
(***************************************************************************)
(* When the files a package leaves behind can be trusted, for any versions *)
(* and any number of runs:                                                 *)
(*   - whatever the inputs of the runs, and whatever is rebuilt or removed *)
(*     between them, if no run is stopped while it writes a file that a    *)
(*     decision rests on (CarefulRuns);                                    *)
(*   - wherever runs are stopped, if inputs never go back to older ones,   *)
(*     nothing is built without need and no tar is removed (ForwardRuns).  *)
(***************************************************************************)
EXTENDS BuildInfo, TLAPS

Restoring == {"restoreStaging", "restoreInstall", "restoreOutput", "restored"}
Building == {"fetch", "extract", "commands", "packStaging", "packInstall", "promote"}

\* What the place of a run says of its files, in both regimes.
PlaceInv ==
  /\ at \in {"check"} \cup Restoring \cup Building => newInfo = run
  /\ at \in {"check", "fetch", "extract"} \cup Restoring => newExt = run.src
  /\ at \in {"commands", "packStaging", "packInstall", "promote", "hash"} => tree = run.src
  /\ at \in {"restoreInstall", "restoreOutput", "restored", "packInstall", "promote",
             "hash", "built"} => staging = run
  /\ at \in {"restoreOutput", "restored", "promote", "hash", "built"} => install = run
  /\ at \in {"hash", "built"} => info = run

-----------------------------------------------------------------------------
\* Runs that are not stopped while they write.

CarefulRuns ==
  /\ Stops \subseteq {"prepare", "check", "restoreStaging", "fetch", "commands"}
  /\ PartialCache = FALSE

\* Away from the writing, a tar that is there is the one .build.info is about,
\* the sources are those of .extraction.info, .output.info is that of the tars.
HonestFiles ==
  /\ info # None /\ at \notin {"restoreInstall", "restoreOutput", "restored",
                               "packInstall", "promote"}
       => staging \in {None, info} /\ install \in {None, info}
  /\ ext # None => tree = ext
  /\ Hashing => /\ info # None /\ at \notin {"restored", "hash"} => output = info
                /\ at = "restored" => output = run

CarefulInv == TypeOK /\ PlaceInv /\ HonestFiles

\* A record of inputs is its two versions.
LEMMA InputsRecord ==
  ASSUME NEW i \in Inputs
  PROVE  i = [src |-> i.src, rest |-> i.rest] /\ i.src \in Versions /\ i.rest \in Versions
BY DEF Inputs

\* The constants that stand for no file are no descriptions.
LEMMA Distinct ==
  /\ None \notin Inputs /\ Broken \notin Inputs /\ Inputs \subseteq Contents
  /\ None \notin Versions /\ Mixed \notin Versions
BY BuildInfoAssumption DEF Inputs, Contents

\* No step leaves the types.
LEMMA TypeStep ==
  ASSUME TypeOK, [Next]_vars
  PROVE  TypeOK'
<1> USE DEF TypeOK, Places, AllKinds
<1>a. Kinds \subseteq AllKinds /\ Made \in Contents /\ run \in Contents
  BY BuildInfoAssumption DEF Made, Contents, Inputs, AllKinds
<1>1. ASSUME NEW i \in Inputs, NEW k \in Kinds, StartRun(i, k) PROVE TypeOK'
  BY <1>a, <1>1 DEF StartRun, infoVars, extVars, outVars
<1>2. CASE Remove
  BY <1>2 DEF Remove, runVars, infoVars, extVars
<1>3. CASE Prepare
  BY <1>3 DEF Prepare, runVars, Inputs
<1>4. CASE NotRequired \/ Required \/ Usable \/ RestoreMisses \/ Fetch \/ RunCommands
           \/ EndRun \/ BuildLocally
  BY <1>4 DEF NotRequired, Required, Usable, RestoreMisses, Fetch, RunCommands, EndRun,
     BuildLocally, runVars, infoVars, extVars, outVars
<1>5. CASE RestoreStaging \/ RestoreInstall \/ RestoreOutput
  BY <1>a, <1>5 DEF RestoreStaging, RestoreInstall, RestoreOutput, runVars, infoVars,
     extVars
<1>6. CASE Restored \/ Promote \/ Extract
  BY <1>6 DEF Restored, Promote, Extract, runVars, infoVars, extVars, outVars, Inputs
<1>7. CASE PackStaging \/ PackInstall \/ HashOutput
  BY <1>a, <1>7 DEF PackStaging, PackInstall, HashOutput, runVars, infoVars, extVars
<1>8. CASE Stop
  BY <1>8 DEF Stop, runVars, infoVars
<1>9. CASE UNCHANGED vars
  BY <1>9 DEF vars, runVars, infoVars, extVars, outVars
<1> QED BY <1>1, <1>2, <1>3, <1>4, <1>5, <1>6, <1>7, <1>8, <1>9 DEF Next, Build

\* What the commands make of sources that fit is what the run describes.
LEMMA MadeFits ==
  ASSUME TypeOK, tree = run.src
  PROVE  Made = run
BY InputsRecord DEF Made, TypeOK

\* What a regime must know of the files of earlier runs: a package that looks
\* up to date is, and sources that look extracted are.
Trusted ==
  /\ at = "check" /\ Same => staging = run /\ install = run
  /\ at = "fetch" /\ ext = newExt => tree = run.src

\* With that, every step keeps what places say of the files.
LEMMA PlaceStep ==
  ASSUME TypeOK, PlaceInv, Trusted, [Next]_vars
  PROVE  PlaceInv'
<1> USE DEF PlaceInv, Restoring, Building
<1>a. Stops \subseteq Places \ {"idle", "built"}
  BY BuildInfoAssumption
<1>1. ASSUME NEW i \in Inputs, NEW k \in Kinds, StartRun(i, k) PROVE PlaceInv'
  BY <1>1 DEF StartRun
<1>2. CASE Remove
  BY <1>2 DEF Remove
<1>3. CASE Prepare
  BY <1>3 DEF Prepare, runVars
<1>4. CASE NotRequired
  BY <1>4 DEF NotRequired, Trusted, Same, runVars, infoVars, extVars, outVars
<1>5. CASE Required \/ Usable \/ RestoreMisses \/ RunCommands \/ EndRun \/ BuildLocally
  BY <1>5 DEF Required, Usable, RestoreMisses, RunCommands, EndRun, BuildLocally,
     runVars, infoVars, extVars, outVars
<1>6. CASE RestoreStaging \/ RestoreInstall \/ RestoreOutput \/ Restored
  BY <1>6 DEF RestoreStaging, RestoreInstall, RestoreOutput, Restored, runVars, infoVars,
     extVars, outVars
<1>7. CASE Fetch
  BY <1>7 DEF Fetch, Trusted, runVars, infoVars, extVars, outVars
<1>8. CASE Extract
  BY <1>8 DEF Extract, runVars, infoVars, outVars
<1>9. CASE PackStaging \/ PackInstall
  BY <1>9, MadeFits DEF PackStaging, PackInstall, runVars, infoVars, extVars
<1>10. CASE Promote
  BY <1>10 DEF Promote, extVars, outVars
<1>11. CASE HashOutput
  BY <1>11 DEF HashOutput, infoVars, extVars
<1>12. CASE Stop
  BY <1>a, <1>12 DEF Stop, Places
<1>13. CASE UNCHANGED vars
  BY <1>13 DEF vars, runVars, infoVars, extVars, outVars
<1> QED BY <1>1, <1>2, <1>3, <1>4, <1>5, <1>6, <1>7, <1>8, <1>9, <1>10, <1>11, <1>12,
        <1>13 DEF Next, Build

-----------------------------------------------------------------------------
\* The first regime.

\* When .build.info or .extraction.info agrees with the run, so do the files.
LEMMA HonestTrusted ==
  ASSUME TypeOK, PlaceInv, HonestFiles
  PROVE  Trusted
<1>1. ASSUME at = "check", Same PROVE staging = run /\ install = run
  BY <1>1, Distinct DEF TypeOK, PlaceInv, HonestFiles, Same
<1>2. ASSUME at = "fetch", ext = newExt PROVE tree = run.src
  BY <1>2, Distinct, InputsRecord DEF TypeOK, PlaceInv, HonestFiles
<1> QED BY <1>1, <1>2 DEF Trusted

\* Every step of a careful run leaves the files honest.
LEMMA HonestStep ==
  ASSUME CarefulRuns, TypeOK, PlaceInv, HonestFiles, [Next]_vars
  PROVE  HonestFiles'
<1> USE DEF HonestFiles, PlaceInv, Restoring, Building
<1>1. ASSUME NEW i \in Inputs, NEW k \in Kinds, StartRun(i, k) PROVE HonestFiles'
  BY <1>1 DEF StartRun, infoVars, extVars, outVars
<1>2. CASE Remove
  BY <1>2 DEF Remove, runVars, infoVars, extVars
<1>3. CASE Prepare
  BY <1>3 DEF Prepare, runVars
<1>4. CASE NotRequired \/ Required \/ Usable \/ Fetch \/ RunCommands \/ EndRun \/ BuildLocally
  BY <1>4 DEF NotRequired, Required, Usable, Fetch, RunCommands, EndRun,
     BuildLocally, runVars, infoVars, extVars, outVars
<1>5. CASE RestoreStaging \/ RestoreInstall \/ RestoreOutput \/ RestoreMisses
  BY <1>5 DEF RestoreStaging, RestoreInstall, RestoreOutput, RestoreMisses, CarefulRuns,
     runVars, infoVars, extVars, outVars
<1>6. CASE Restored
  BY <1>6 DEF Restored, runVars, extVars, outVars
<1>7. CASE Extract
  BY <1>7 DEF Extract, runVars, infoVars, outVars
<1>8. CASE PackStaging \/ PackInstall
  BY <1>8 DEF PackStaging, PackInstall, runVars, infoVars, extVars
<1>9. CASE Promote
  BY <1>9 DEF Promote, extVars, outVars
<1>10. CASE HashOutput
  BY <1>10, MadeFits DEF HashOutput, infoVars, extVars
<1>11. CASE Stop
  BY <1>11 DEF Stop, CarefulRuns, runVars, infoVars
<1>12. CASE UNCHANGED vars
  BY <1>12 DEF vars, runVars, infoVars, extVars, outVars
<1> QED BY <1>1, <1>2, <1>3, <1>4, <1>5, <1>6, <1>7, <1>8, <1>9, <1>10, <1>11, <1>12
        DEF Next, Build

\* The inductive invariant of careful runs.
THEOREM CarefulInvariance ==
  ASSUME CarefulRuns
  PROVE  Spec => []CarefulInv
<1>1. Init => CarefulInv
  BY DEF Init, CarefulInv, TypeOK, PlaceInv, HonestFiles, Restoring, Building, Places,
     AllKinds
<1>2. CarefulInv /\ [Next]_vars => CarefulInv'
  BY TypeStep, HonestTrusted, PlaceStep, HonestStep DEF CarefulInv
<1> QED BY <1>1, <1>2, PTL DEF Spec

\* Package::build, for careful runs: a package that counts as built has the two
\* tars of this run's inputs.
THEOREM CarefulUpToDate ==
  ASSUME CarefulRuns
  PROVE  Spec => []UpToDate
<1>1. CarefulInv => UpToDate
  BY DEF CarefulInv, PlaceInv, UpToDate
<1> QED BY <1>1, CarefulInvariance, PTL

\* updateBuildInfo, for careful runs: .output.info is that of the tars.
THEOREM CarefulOutputFits ==
  ASSUME CarefulRuns
  PROVE  Spec => []OutputFits
<1>1. CarefulInv => OutputFits
  BY Distinct DEF CarefulInv, TypeOK, PlaceInv, HonestFiles, OutputFits
<1> QED BY <1>1, CarefulInvariance, PTL

-----------------------------------------------------------------------------
\* Runs whose inputs never get older, on a package that is built only when it
\* has to be; they may be stopped anywhere.

ForwardRuns ==
  /\ Forward = TRUE
  /\ Kinds \subseteq {"plain"}
  /\ Rebuilds = FALSE /\ Removals = FALSE

\* What .build.info and .extraction.info say is never newer than this run; as
\* long as it is what this run wants, nothing has been written over it.
ForwardFiles ==
  /\ kind = "plain" /\ ~locally
  /\ info # None => info.src <= run.src /\ info.rest <= run.rest
  /\ info = run => staging = run /\ install = run
  /\ ext # None => ext <= run.src
  /\ ext = run.src => tree = run.src
  /\ at \in Restoring \cup Building => info # run
  /\ info # None => staging # None /\ install # None
  /\ at = "extract" => ext # run.src

ForwardInv == TypeOK /\ PlaceInv /\ ForwardFiles

\* The same, from what holds when inputs never go back.
LEMMA ForwardTrusted ==
  ASSUME TypeOK, PlaceInv, ForwardFiles
  PROVE  Trusted
BY DEF PlaceInv, ForwardFiles, Trusted, Same

\* Inputs that are not older each way are the same.
LEMMA InputsOrder ==
  ASSUME NEW i \in Inputs, NEW j \in Inputs,
         i.src <= j.src, j.src <= i.src, i.rest <= j.rest, j.rest <= i.rest
  PROVE  i = j
<1>1. i.src \in Nat /\ j.src \in Nat /\ i.rest \in Nat /\ j.rest \in Nat
  BY BuildInfoAssumption DEF Inputs
<1>2. i.src = j.src /\ i.rest = j.rest
  BY <1>1
<1> QED BY <1>2, InputsRecord

\* The next run starts with files no newer than its inputs.
LEMMA ForwardStart ==
  ASSUME ForwardRuns, TypeOK, ForwardFiles, at = "idle",
         NEW i \in Inputs, NEW k \in Kinds, StartRun(i, k)
  PROVE  ForwardFiles'
<1>1. run' = i /\ kind' = k /\ ~locally' /\ at' = "prepare" /\ k = "plain"
      /\ UNCHANGED <<info, newInfo, ext, newExt, tree, staging, install, output>>
  BY DEF StartRun, ForwardRuns, infoVars, extVars, outVars
<1>2. i.src >= run.src /\ i.rest >= run.rest
  BY DEF StartRun, ForwardRuns
<1>3. /\ run.src \in Nat /\ run.rest \in Nat /\ i.src \in Nat /\ i.rest \in Nat
      /\ info # None => info \in Inputs /\ info.src \in Nat /\ info.rest \in Nat
      /\ ext # None => ext \in Nat
  BY BuildInfoAssumption DEF TypeOK, Inputs
<1>4. info # None => info.src <= i.src /\ info.rest <= i.rest
  BY <1>2, <1>3 DEF ForwardFiles
<1>5. ASSUME info = i PROVE staging = i /\ install = i
  <2>1. info # None /\ info.src <= run.src /\ info.rest <= run.rest
    BY <1>5, Distinct DEF ForwardFiles
  <2>2. info = run
    BY <1>2, <1>3, <1>5, <2>1, InputsOrder DEF TypeOK
  <2> QED BY <1>5, <2>2 DEF ForwardFiles
<1>6. ext # None => ext <= i.src
  BY <1>2, <1>3 DEF ForwardFiles
<1>7. ASSUME ext = i.src PROVE tree = i.src
  <2>1. ext # None /\ ext <= run.src
    BY <1>7, Distinct, InputsRecord DEF ForwardFiles
  <2>2. ext = run.src
    BY <1>2, <1>3, <1>7, <2>1
  <2> QED BY <1>7, <2>2 DEF ForwardFiles
<1> QED BY <1>1, <1>4, <1>5, <1>6, <1>7 DEF ForwardFiles, Restoring, Building

\* Every step keeps what forward runs know of their files.
LEMMA ForwardStep ==
  ASSUME ForwardRuns, TypeOK, PlaceInv, ForwardFiles, [Next]_vars
  PROVE  ForwardFiles'
<1> USE DEF ForwardFiles, PlaceInv, Restoring, Building
<1>a. run.src \in Nat /\ run.rest \in Nat /\ None # run /\ None # run.src
  BY BuildInfoAssumption, Distinct DEF TypeOK, Inputs
<1>1. ASSUME NEW i \in Inputs, NEW k \in Kinds, StartRun(i, k) PROVE ForwardFiles'
  BY <1>1, ForwardStart DEF StartRun
<1>2. CASE Remove
  BY <1>2 DEF Remove, ForwardRuns
<1>3. CASE Prepare
  BY <1>a, <1>3 DEF Prepare, runVars
<1>4. CASE NotRequired \/ RestoreMisses \/ RunCommands \/ EndRun
  BY <1>4 DEF NotRequired, RestoreMisses, RunCommands, EndRun, runVars, infoVars,
     extVars, outVars
<1>5. CASE Required \/ Usable
  <2>1. info # run
    BY <1>5, Distinct DEF Required, Usable, AlwaysBuilt, Same, TypeOK
  <2> QED BY <1>5, <2>1 DEF Required, Usable, runVars, infoVars, extVars, outVars
<1>6. CASE BuildLocally
  BY <1>6 DEF BuildLocally, ForwardRuns
<1>7. CASE RestoreStaging \/ RestoreInstall \/ RestoreOutput
  BY <1>a, <1>7 DEF RestoreStaging, RestoreInstall, RestoreOutput, runVars, infoVars, extVars
<1>8. CASE Restored \/ Promote
  BY <1>a, <1>8 DEF Restored, Promote, runVars, extVars, outVars
<1>9. CASE Fetch
  BY <1>9 DEF Fetch, runVars, infoVars, extVars, outVars
<1>10. CASE Extract
  BY <1>a, <1>10 DEF Extract, runVars, infoVars, outVars
<1>11. CASE PackStaging \/ PackInstall
  BY <1>11, MadeFits, <1>a DEF PackStaging, PackInstall, runVars, infoVars, extVars
<1>12. CASE HashOutput
  BY <1>12 DEF HashOutput, infoVars, extVars
<1>13. CASE Stop
  <2>1. at \in Stops /\ at' = "idle" /\ UNCHANGED <<runVars, infoVars, ext, newExt>>
    BY <1>13 DEF Stop
  <2>2. at # "extract" => tree' = tree
    BY <1>13 DEF Stop
  <2>3. /\ at # "packStaging" => staging' = staging
        /\ at # "packInstall" => install' = install
        /\ staging # None => staging' # None
        /\ install # None => install' # None
    BY <1>13, BuildInfoAssumption DEF Stop
  <2> QED BY <2>1, <2>2, <2>3 DEF runVars, infoVars
<1>14. CASE UNCHANGED vars
  BY <1>14 DEF vars, runVars, infoVars, extVars, outVars
<1> QED BY <1>1, <1>2, <1>3, <1>4, <1>5, <1>6, <1>7, <1>8, <1>9, <1>10, <1>11, <1>12,
        <1>13, <1>14 DEF Next, Build

\* The inductive invariant of forward runs.
THEOREM ForwardInvariance ==
  ASSUME ForwardRuns
  PROVE  Spec => []ForwardInv
<1>1. Init => ForwardInv
  BY Distinct, InputsRecord DEF Init, ForwardInv, TypeOK, PlaceInv, ForwardFiles, Restoring,
     Building, Places, AllKinds
<1>2. ForwardInv /\ [Next]_vars => ForwardInv'
  BY TypeStep, ForwardTrusted, PlaceStep, ForwardStep DEF ForwardInv
<1> QED BY <1>1, <1>2, PTL DEF Spec

\* Package::build, for forward runs stopped anywhere (without local rebuilds, packages
\* that are always built and removed tars): a package that counts as built has the two
\* tars of this run's inputs.
THEOREM ForwardUpToDate ==
  ASSUME ForwardRuns
  PROVE  Spec => []UpToDate
<1>1. ForwardInv => UpToDate
  BY DEF ForwardInv, PlaceInv, UpToDate
<1> QED BY <1>1, ForwardInvariance, PTL

\* extractionRequired, for the same runs: the commands run on the sources this run
\* describes.
THEOREM ForwardSourcesFit ==
  ASSUME ForwardRuns
  PROVE  Spec => []SourcesFit
<1>1. ForwardInv => SourcesFit
  BY DEF ForwardInv, PlaceInv, SourcesFit
<1> QED BY <1>1, ForwardInvariance, PTL
=============================================================================
