# buildsys++ verification project

## 1. Inventory

buildsys++ builds a base package and everything it depends on, in parallel, incrementally, with an
optional remote build cache. Paths below are relative to the repository root.

| Component | Source | State it keeps | Operations | Talks to |
|---|---|---|---|---|
| World, the build scheduler | `src/world.cpp` 32-54, 99-184; `src/include/buildsys.h` 1030-1136 | `failed`, `failed_packages`, `threads_running`, `threads_limit`, `keepGoing`, `fetchOnly`, `cond_lock` + `cond` | `basePackage` loop, `build_thread`, `packageFinished`, `setFailed`, `threadStarted`, `threadEnded` | detached build threads, Internal_Graph, Package flags |
| Internal_Graph | `src/graph.cpp` | boost graph, topological order `c` | `fill`, `get_cycled_packages`, `topological`, `deleteNode`, `topoNext`, `output` | NameSpace (fill), Package flags (topoNext) |
| PackageQueue and the parse phase | `src/world.cpp` 56-97; `buildsys.h` 978-1028, 785-791 | `queue`, `started`, `finished`; `processing_queued` per package | `push`, `pop`, `start`, `finish`, `done`, `wait`; `process_packages`, `process_package`, `setProcessingQueued` | detached parse threads, NameSpace |
| NameSpace | `src/namespace.cpp` | list of namespaces, list of packages per namespace, two mutexes | `findNameSpace`, `findPackage`, `addPackage`, `for_each` | Package constructor |
| Package::build | `src/package.cpp` 910-1032, 392-405, 902-908; `buildsys.h` 588-918 | `built`, `building`, `was_built`, `lock`, `depends` with the *locally* flag | `build(locally, fetchOnly)`, recursive on dependencies | every other component |
| Build information and caching | `package.cpp` 407-681; `src/extraction.cpp` 48-100; `src/buildinfo.cpp`; `src/hash.cpp` | on disk: `.build.info[.new]`, `.extraction.info[.new]`, `.output.info`, staging and install tars; in memory: `buildinfo_hash`, `buildInfoPrepared`, `codeUpdated` | `prepareBuildInfo`, `shouldBuild`, `fetchFrom`, `ff_file`, `updateBuildInfo`, `extractionRequired`, `extract` | file system, cache server; survives the process |
| Staging and install of dependencies | `package.cpp` 326-390, 683-888 | per-package tars under `output/` | `getStagingPackages`, `getDependedPackages`, `prepareBuildDirs`, `extractInstallDepends`, `packageNewStaging`, `packageNewInstall` | other packages' tars, with no lock on them |
| Downloads | `src/fetch.cpp` 32-197 | `dlobjects` (name, hash, mutex), files under `dl/` | `findDLObject`, `fetch`, `HASH` | wget, file system |
| Other fetch units | `fetch.cpp` 199-308 | `codeUpdated` | `LinkFetch::fetch`, `CopyFetch::fetch` | file system |
| Git sources | `src/extraction/git.cpp` | `gdobjects` (path, refspec, mutex), clones under `source/` | `findGDObject`, `fetch`, `updateOrigin`, `HASH`, `extract` | git, file system |
| Extraction units | `src/extraction.cpp` 102-309 | unit hashes | `extract` per unit type | tar, unzip, patch, cp |
| PackageCmd | `src/packagecmd.cpp` | pipe or pty fds, exit status, environment | `exec_process`, `Run`, `addEnv` | fork/exec, Logger |
| FeatureMap and feature lookup | `src/featuremap.cpp`; `src/interface/toplevel.cpp` 59-120 | key/value map, one mutex | `setFeature`, `getFeature`, `get_feature_value` | parse threads, BuildDescription |
| Lua interface | `src/interface/*.cpp`, `src/lua.cpp`, `luainterface.h` | thread-local current package; `Package::overlays` (static, no lock) | `depend`, `builddir`, `feature`, `intercept`, `fetch`, `patch`, ... | Package, FeatureMap |
| Options | `src/options.cpp` | static flags | `parse_command_line` | World, Package |
| Logger | `src/logger.cpp` | output lock | `log`, ... | stdout / log file |
| BuildDir | `src/dir/builddir.cpp` | directory paths | `clean`, `cleanStaging` | file system |
| main | `src/main.cpp` | the `World` object | start-up, exit | World |

### Behaviours that are hard to test

* The scheduler's loop condition is read **without** `cond_lock`; the build threads set `built`
  before they take the lock to notify.
* `Package::build` clears `building` before it sets `built`; the scheduler reads both without the
  package's lock.
* The parse phase ends when two counters agree; the check, the pop and the increment are separate
  critical sections.
* A *locally* built dependency is rebuilt after it was already declared built, while other packages
  may be reading its tars.
* Everything the incremental logic decides is read back from files that a crashed, interrupted or
  failed run left behind, one file at a time.
* Two packages may name the same download file or git directory with different hashes or refspecs.
* Every fork may inherit the pipe another thread has just created.
* Lua files run concurrently, and what one is told of features, packages and overlays depends on what
  others have done by then; the description of a package has to cover all of it.
* Whether a package is rebuilt depends on descriptions that contain the descriptions, or the outputs,
  of other packages, from runs that may have been forced, cleaned or failed.

### What makes each component correct

* Scheduler: a package is started only when its dependencies are built; never more threads than the
  limit; until something fails or the base is built no package waits for ever, and then the loop
  returns (it need not: section 3); the result says whether the base package was built; with `--keep-going` nothing is running when a failed build returns.
* Parse phase: when it ends, everything reachable has been parsed once, and a failure or a
  dependency cycle keeps the build from starting.
* Package::build: one builder at a time; a locally-needed dependency was really built; nobody reads
  an artefact that is being rewritten.
* Build information: if a run decides "not required", the artefacts on disk are those of the inputs
  this run has.
* Downloads and git: what was verified for one package is still there when it is extracted.
* PackageCmd: all a command wrote is logged, and no failure is taken for a success.
* Lua interface: what differs in what a Lua file makes of its package differs in its description;
  every package that asks for a feature is told the same, the most specific value there is.

## 2. Modules

Every module has one action per operation or critical section of the code, and says in its header
where its grain is coarser than that. A mutant is an operator next to the definition it replaces; it
changes that definition the way a plausible bug would, and each property is refuted by one.

| Module | Models | State, and what it is in the code | Actions, and the code they stand for |
|---|---|---|---|
| `BuildOrder` | the contract of `basePackage` | packages built, packages failed, answer | `Build`, `Fail`, `ReturnOk`, `ReturnFailed` |
| `Scheduler` | `World::basePackage`'s loop and the build threads | `built`, `building`, `lock` per package; `running` (`threads_running`), `failed`, `failedPackages`, `keepGoing`; where the scheduler and each thread are | `Sched*`: the loop, `topoNext`, `cond.wait`, the keep-going drain; `Build*`: `Package::build` as far as its flags and lock go; `PackageFinished`, `SetFailed`, `ThreadEnded`; `SpuriousWake` |
| `ParsePhase` | `process_packages`, `process_package`, `PackageQueue`, the decision of `basePackage` | `queue`, `started`, `finished`; `marked` (`processing_queued`); `depends`; where everybody is | `MainCheck`, `MainPop`, `MainStart`, `MainWait` (`done`, `pop`, `start`, `wait`), `ParseOk`/`ParseThrow` (the Lua file), `Mark`, `Push`, `SetFailed`, `Finish`, `Judge` (abort, loop found, go on), `Crash` |
| `PackageBuild` | the recursion inside `Package::build` | a stack of calls per thread; `built`, `wasBuilt`, `lock`, `hash`; which of `.build.info`, `.build.info.new` and the staging tar exist; the options | `Enter`, `DependLoop`, `Suppress`, `Prepare*`, `NotRequired`, `Restored`, `Required`, `LocalLoop`, `FetchAndExtract`, `ExtractStaging`, `RunCommands`, `Packed`, `Commit*`, `Fail` |
| `BuildInfo` | the files of one package over any number of runs | `.build.info`, `.extraction.info`, their `.new`, `.output.info`, the two tars and the sources, each by what it says or was made from | `StartRun` with any inputs, `Prepare`, the outcomes of `shouldBuild`, `fetchFrom` file by file, `Fetch` and `Extract`, the commands, the two packings, `updateBuildInfo` in two steps, `Stop` at any place |
| `Download` | `DownloadFetch::fetch` in all build threads | a `DLObject` (lock, hash) per file name; `dl/` | `Call`, `Lock`, `Refuse`, `Commit`, `Have`, `Get`, `GetFails`, `Verified`, `Mismatch`, `Refetch`; `Restart` of the process |
| `GitFetch` | `GitExtractionUnit` in all build threads | `hash`, `fetched` per unit; a `GitDir` (lock, refspec) per directory; of each clone its origin, what is known, HEAD, what is checked out; the repositories at the uris | `AskHash` (`HASH`), `Extract` and `Copy` (`extract`), the steps of `fetch` from `Refuse`/`Commit` to `Verify`; `Push`, `CheckoutByHand`, `Restart` outside |
| `Incremental` | several packages over several runs | the graph with what hashes its output, intercepts, gathers, is linked; `built`, `was_built`, `buildinfo_hash` of each package; `.build.info`, `.output.info` and the tars; the sources | `StartRun` with any sources and an order (forced packages, `--clean`), `Suppress`, `NotRequired`, `Build`, `Fail`, `EndRun`; what `getStagingPackages` and `getDependedPackages` return (`Reached`) |
| `Traversals` | `getStagingPackages`, `getDependedPackages`: the recursion | none: operators on a graph | `AddStaging`, `AddDepended` |
| `PackageCmd` | `PackageCmd::Run` in the extracting threads of one package | where each thread is, its child and its status, who has the write end of each pipe, what is in it, the reader's `recv_buf`, what is logged; `result` of `prepareBuildDirs` | `Launch`, `NoteResult`, `JoinAll`; `MakePipe`, `Fork`, `ForkFails`, `StartReader`, `WaitPid`, `JoinReader`, `Return`; `Exec`, `ExecFails`, `Write`, `Exit`, `Killed` of the child; `Read`, `ReadEnd` of `pipe_data_thread` |
| `CommandLine` | `parse_command_line` | none: what the tokens read so far make of the options (`Read`) | `Options` |
| `LuaFile` | the calls of Lua files in all parse threads | the feature map, the overlays, of each package where its file is, its description, dependencies, units, commands and flags; `exit` of `main` | `Process`, `Processed`, `LuaError`, `Finish`; one action per call: `LookUp`, `KeyFound`, `KeyMissing`, `NoKey`, `FeatureSet`, `Depend`, `Require`, `Required`, `OverlayReach`, `OverlayLink`, `BuildDir`, `Intercept`, `Cmd`, `FetchDl` and the other ways to fetch, `Extract`, `Patch`, ... |
| `SharedSource` | the contract of `dl/` and `source/` | what is at each place, what each user was told is there | `Hold`, `Release`, `Change` |

How they fit together: `ParsePhase` ends with the graph `Scheduler` starts from; its property
`CompleteGraph` is what makes `Scheduler`'s assumptions `Acyclic` and `ReachableFromBase` true.
`Scheduler` takes `Package::build` as lock, flags and outcome; `PackageBuild` opens it up and reduces
the scheduler to when it may start a package, which `DependenciesFirst` and `OneBuilder` justify.
`PackageBuild` asks only which files exist; `BuildInfo` asks what they say, for one package, which
`OneBuilder` allows to be looked at alone; `Incremental` asks what several packages make of each
other's, with a package built in one step. `LuaFile` starts from what `CommandLine` makes of the
command line and shows that the description `BuildInfo` and `Incremental` take as a value is good for
it. `PackageCmd` opens up the extraction of staging tars, which `PackageBuild` has as two steps.
`Download` is the part of the fetch step that packages
share, `GitFetch` the part of the extract step; both implement `SharedSource`. `Scheduler` implements `BuildOrder` with `done` the packages whose
`built` is set and `bad` `failed_packages`.

`MC<Module>` gives the constants their values; `<Module>Proofs` holds the theorems. A module that is
proved about has no recursive operator: where the code recurses or reads in a loop it says what comes
out, and the MC module has the loop and an assumption that the two agree, which TLC evaluates with the
run: `TraversalsAgree` compares `Traversals` with `Reached` on all graphs of four packages and
all sets of packages to stop at, `LinesAgree` the loop of `pipe_data_thread` with `AreLines` on all
outputs of up to the bounded length.

### What the models abstract

* A description file is what it describes: equal files are equal inputs. The text, the digests and
  `.extraction.info.file_hash` are not spelled out, so hash collisions do not exist.
* `topoNext` reads flags while threads write them. `SchedObserve` and `SchedStart` bound what the
  scan may have seen: a package is returned only if it was not built when the scan began and is
  ready when it ends; nothing is returned only if what was ready at the start got built meanwhile.
* Data races on `std::string` and `std::list` are kept as the choice the code shows (`hash` read
  while it is written, in `PackageBuild`; two threads in one Lua state, `Crash` in `ParsePhase`).
* Commands, `wget`, `tar` and Lua files may fail at any time; what they produce is a value.
* In `BuildInfo` one step extracts all units; the install files of `installFiles` packages follow
  the install tar; the work directory is only the version of its sources.
* In `GitFetch` a git command happens at once or not at all (git cleans up after a clone that fails; a
  kill in the middle of one is not modelled), `fetch --tags` brings everything, and a directory the
  developer keeps changes between runs only. A commit, HEAD, one local branch and one branch of
  origin stand for all refspecs; local changes (`git diff HEAD`) do not exist.
* In `PackageBuild` install tars follow the staging tars and are left out.
* In `Incremental` a package is built, or fails, at once; there is no build cache and nobody removes
  tars; one value stands for both tars of a package. `GraphAssumption` is what `ParsePhase` ends with;
  `IncrementalAssumption` says what the Lua files must see to for a rebuild to reach everybody it
  concerns.
* In `LuaFile` a Lua file is the sequence of its calls, in which a call may depend on what an earlier
  one was told. Loops of dependencies are `ParsePhase`'s. A package whose call is refused has failed,
  and what that call had changed before it threw is left out. A walk over the overlays is one step
  (what a walk over a half linked node does is undefined). `name`, `package_name` and `path` change
  nothing; the build directory is not spelled out, so paths are relative to it. Of a git directory that
  is linked or copied there is what the unit shows, HEAD and the hash of its changes (`Repos`), and
  neither changes during a run; of one that is fetched the branch stands for its commit where the
  `Digest` file has none, and there are no local changes.
* In `PackageCmd` output is a sequence of text and newlines; there is no terminal (`forkpty`), `pipe`
  succeeds, and a command leaves no process behind that keeps its pipe open.

## 3. Runs

| Run | Shows | Bounds, and why they are enough |
|---|---|---|
| `sched_diamond` | order, single builder, counting, failures, drain, refinement of `BuildOrder`, liveness | four packages in a diamond (a fork, a join and a shared dependency are all a scheduler can meet), two threads, so that the limit is reached; the superfluous second start of a package happens; both values of `--keep-going` |
| `sched_wakeup` | finding: neither a failure nor the success of the base need be observed | two runs of one package each, side by side (`MCWakeup`), so that one behaviour shows both; one package is the shortest case |
| `parse_graphs` | the phase ends, is not taken for finished early, and only complete, acyclic graphs are built | three packages, 32 graphs over them, among them a diamond, loops with and without the base package, a package naming itself; failures at any point |
| `build_shared` | nested locks, local rebuilds, forced and fetch-only modes, what exists when it is read | two users of one package, both building it locally; four mixes of leftovers per package; normal, forced and fetch-only |
| `build_torn` | finding: a tar is rewritten while it is extracted | one user builds the shared package locally, the other does not |
| `info_runs` | a package that counts as built has the files of its inputs | two regimes in one instance. Any inputs (two versions of sources and of the rest: a decision compares two descriptions), every kind of package, clean, cache, removed tars, local rebuilds; runs may fail where no file a decision rests on is being replaced. Inputs that only get newer, three versions of each, so that a run can be overtaken twice, but no local rebuilds, no packages that are always built and no removed tars; stops anywhere but in the hashing step (see `.output.info` below) |
| `info_revert` | finding: after a failed build, old inputs meet the new staging tar | a stop in `packageNewInstall` only |
| `download_all` | verified files stay; one name, one hash per run; every fetch ends | two units with one hash, one with another and one without for one name, and a second name; two contents a server may send; any number of runs |
| `git_shared` | what is copied is the commit the extraction info names; one directory, one refspec; refinement of `SharedSource` | one new directory with two units on the branch of origin, one of them with a `Digest` hash; one directory the developer keeps, cloned from the right or from another uri, with a unit for a commit and one for the local branch; two commits, pushed at any time; any number of runs |
| `cmd_extract` | output is logged whole, no failure is a success, the extraction ends | three commands: a child can inherit two pipes, one of them through the other; pipes of one token, so that every command waits for its reader; in parallel and one by one; two commands whose output is captured, one whose failure is tolerated |
| `lua_calls` | features, descriptions, refusals | fifteen command lines with every flag and every error there is in a token; a base package that makes every call; one library in two namespaces, whose file asks for two features, patches, and takes a file that is there or not; two packages that set the features and add overlays meanwhile |
| `incremental` | what is not rebuilt is up to date, except after a forced run until a clean one has built everything; nothing is rebuilt in vain | six packages: an image that gathers, an application, a linked library that hashes its output, a tool that hashes its output and intercepts, and what the two are made from, of which one may be in a second version; the tool's output is the same on both; ordinary and clean runs and runs forced for the application, in any sequence, on sources that change and change back |

Deadlock is checked in every run. The modules end in explicit stuttering steps (`Terminated`,
`Stopped`, `Ended`) whose guards say when the program may stop: a state in which everybody waits is
an error of the run. `BuildInfo`, `Download`, `GitFetch` and `Incremental` can always start another run.

### Fairness

* `Scheduler`: weak fairness of the scheduler thread and strong fairness of each build thread: the
  commands of a build end, and a mutex that is free again and again is obtained in the end.
  A spurious wake-up is allowed and never owed: `NoStarvation` and `DrainEnds` may not rely on one.
* `ParsePhase`: weak fairness of the main thread and of each parse thread; Lua files terminate.
* `PackageBuild`, `Download`: strong fairness of each thread, as threads compete for package locks
  and for the locks of file names. Starting a package or a process is never owed.
* `PackageCmd`: weak fairness of each thread, of each reader and of each child: threads are scheduled
  and commands come to their end if they can write. A command that is killed, a `fork` that fails and
  a child that cannot execute its command are never owed.
* `BuildInfo`, `GitFetch`, `LuaFile` and `Incremental`: safety only, no fairness.

### Findings

* **A lost outcome** (`sched_wakeup`, two findings). The loop condition of `basePackage` is tested
  without `cond_lock` (`world.cpp:141`). If the last thread calls `setFailed` and `threadEnded` between
  the test and `cond.wait` (`world.cpp:158`), nobody is left to notify and the build hangs. The same
  happens on success: the thread of the base sets `built`, calls `packageFinished` and `threadEnded`,
  and the scheduler, which saw the base unbuilt, finds nothing in the graph and waits for ever.
  `OutcomeReturned` speaks of two runs that share nothing, of one's failure or the other's success;
  its counterexample has the first asleep after a failure and the second after a success.
  `SleepHasWaker`, proved, says that there is no third case: while nothing has failed and the base is
  not built, and in the `--keep-going` loop always, a scheduler that sleeps has a thread that is alive
  to wake it. `NoStarvation` says only that such a state ends, not that `basePackage` returns.
* **A torn tar** (`build_torn`). A restored or not required dependency is rebuilt locally for one
  user while another extracts its staging tar without a lock.
* **Stale tars** (`info_revert`). Tars are replaced before the description of what they were made
  from; after a failure in between, going back to the previous inputs finds the old description in
  place.

Related, and not filed as runs of their own.

* **A second start.** `building` is cleared before `built` is set (`package.cpp:1026`) and `topoNext`
  reads both without the package's lock, so a package can be started twice although
  `world.cpp:148` says it is skipped. The extra thread finds the package built (`OneBuilder`), and
  there is at most one (`StartsBounded`), so it costs a slot and nothing else. Both are proved.
* **Mixed sources.** `extract` stops at the first unit that fails and leaves `.extraction.info` as it
  was; going back to the sources that names, the next run extracts nothing and builds on half new
  sources. `SourcesFit` is therefore not claimed for such runs and covers a stopped extraction in part
  only: in `info_runs` inputs either only get newer, or the extraction is not stopped.
* **An empty checkout.** `clone -n` makes the local branch and checks nothing out; `fetch` then finds
  the local branch at HEAD, takes it for a checkout the developer keeps (`git.cpp:299-307`), and
  `extract` copies a directory with nothing but `.git`, under the hash of the branch.
  `BuiltFromHash` does not hold for a unit that names a local branch of a repository not cloned yet,
  and `git_shared` has none.
* **Forced, then back.** A forced run takes the descriptions of suppressed dependencies as they are.
  What those were built on may have been rebuilt by an earlier forced run: the package finds it in its
  staging directory, and no description says so. When the sources go back, the description fits and
  the package is not rebuilt. So `AllUpToDate` says nothing of ordinary runs after a forced one
  (`tainted`), until a clean run that forces nothing has built everything. Sources that only move on
  would not help: an output that is hashed may go back to what it was all the same. Without the
  exception TLC finds the stale package in the bounds of `incremental`.
* **Outputs that hide what is below.** A package that hashes its output shows its dependents nothing
  but that. If it passes the staging of others on unchanged, a change there does not reach them
  (`IncrementalAssumption`); and a linked or copied package that does not hash its output is rebuilt
  in every run without its dependents noticing. Both are up to the Lua files, and neither is said in
  the documentation.
* **Forced mode.** `package.cpp:129-131` says that it ignores any detection of what needs building; a
  forced package still goes through `shouldBuild` and may be "not required".
* **Refused or ignored, not described.** `cmd` with six arguments does not look at the table of
  variables (`builddir.cpp:355-361`). The features of `--build-info-ignore-fv`, what `ls` returns and
  where `restore` copies to are not in the description: `SameInfoSameBuild` and `NotesSuffice` name
  them as exceptions. The unit of a repository that is fetched prints an empty name for the directory it
  is copied under (`git.cpp:186-194` does not set `toDir`): that name is in the recipe all the same, and
  equal descriptions have the same because the text that says it is noted. Files that git does not
  track are copied with a directory and not described; the model has none.
* **Notes in the order in which files end.** A required file is noted after it has run, an optional one
  that is not there not at all (`toplevel.cpp:323-376`). So the notes do not say where in the file a
  note belongs. Of a text with `optional "x"`, a command and `optional "x"` again, one run can find the
  file the first time and not the second, if its overlay is cut off by an insertion in between, and
  another run the other way round: the same notes, the commands in another order. Without any race, with
  a required file that asks for features and requires again: in one run `x` is a file whose text
  requires `x` in another overlay, in another run `x` is that other file, and the first comes later
  through a third. TLC finds both in variants of `lua_calls`; `NotesSuffice` excludes them, and is all
  the theorem of section 4 needs.
* **Two uris, one directory.** The name of a clone defaults to the last component of its uri and the
  refspec to `origin/master`; the refusal of `fetch` compares refspecs only. Two packages whose uris
  differ in what comes before move each other's checkout. `git_shared` gives all units of one
  directory one uri; without that `BuiltFromHash` does not hold.
* **`.output.info` after a crash.** `OutputFits` is only claimed for runs not stopped in the hashing
  step, so neither a run nor a theorem covers that hazard. `.build.info` is renamed before `.output.info`
  is written (`package.cpp:575-586`), so a failure in between leaves a package that is "not required" with the `.output.info` of earlier tars.

## 4. Proofs

All proofs hold for every value of the constants that satisfies the module's named assumption
(`SchedulerAssumption`: finite, acyclic, everything reachable from the base, which `ParsePhase`
establishes; `GraphAssumption`, the same for `Incremental`, with `IncrementalAssumption` of section 2;
`ParseAssumption`, `BuildInfoAssumption`, `DownloadAssumption`, `PackageBuildAssumption`,
`GitAssumption`, `CmdAssumption`: types, and that the constants standing for "nothing there" are no
values; `LuaAssumption`: files and command lines are sequences, names sequences of strings, and a
`depend` that is accepted names a package). `SameInfoSameBuildHolds` has the hypothesis
`NotesSuffice`. The git theorems of `SharedSourceProofs` have one
hypothesis more, `Agreement`, and `NoTornStagingHolds` has `LocalAgreement`; the theorems about
`Download`, which `SharedSourceProofs` instantiates, have `DownloadAssumption` as the hypothesis
`Parameters`.

**`SchedulerProofs`.** `IInv` has a part for each package (`PackageInv`: flags, lock and the places
of its two threads go together; in particular the second thread never gets past the early return),
one for the order (`OrderInv`: whoever has been started has its dependencies built), one for the
counter (`CountInv`: `threads_running` is the cardinality of the live threads), one for the
scheduler (`SchedInv`) and one for the scan (`ScanInv`: if no thread is alive, the flags have not
changed since the scan began). The safety properties do not follow from one another: that a package
is worked on once needs to know what `building` and `built` say at each place of both threads, and
that the scheduler does not sleep alone before the outcome is decided needs the scan, the counter and
acyclicity (an unbuilt package whose dependencies are built exists as long as the base is not built). Proved from it: `TypeOK`,
`DependenciesFirst`, `OneBuilder`, `ThreadsCounted`, `StartsBounded`, `FailedStaysFailed`,
`QuietOnSuccess`, `DrainedOnFailure`, `SleepHasWaker`, and `Refinement`: every behaviour is one of
`BuildOrder`.

**`ParsePhaseProofs`.** `IInv` follows a dependency from the moment it is recorded: `DependInv` (it
is marked, or a thread has still to look at it, unless something failed), `MarkInv` (a marked package
is queued, in the hands of somebody, or has a thread), `CountInv` (`started - finished` live threads)
and `MainInv`. At `Judge` the queue is empty and nobody is alive, so everything recorded is marked
and everything marked was parsed. Proved: `TypeOK`, `QuietAtJudge`, `SleepHasWaker`,
`CompleteGraph`, `FailureSeen`, and `ParsedOnce`: a package other than the base that is marked is in
one place at most, and only the step that marks it puts it anywhere.

**`BuildInfoProofs`.** Two regimes, each with an inductive invariant, share `PlaceInv` (what the
place of a run says of its files). In `CarefulRuns` the files are honest between the writing steps
(`HonestFiles`: a tar that is there is the one `.build.info` describes). In `ForwardRuns`, with stops
anywhere but without local rebuilds, packages that are always built and removed tars, files need not be
honest; `ForwardFiles` says that a description is never newer than the
run, and that while it is still what this run wants nothing has been written over it. Proved:
`UpToDate` in both, `OutputFits` in the first, `SourcesFit` in the second. The findings show that
neither regime can be widened to runs that are stopped anywhere and go back to older inputs.

**`SharedSourceProofs`, downloads.** `Committed` (who is past the check has its hash recorded) makes `FetchedStays`
inductive: only a unit with the same hash could remove the file, and it finds it right. Proved:
`TypeOK`, `Exclusive`, `FetchedStays`, `NoConflict`, and `Implements`: every behaviour is one of
`SharedSource`.

**`SharedSourceProofs`, git.** `Agreement` says that the packages of one directory want it from one uri, and
that `HEAD` or a local branch is only named where a developer keeps a clone; the two hazards of
section 3 are what happens otherwise. The invariant then explains why a directory stays as it is
once somebody has fetched: the refspec is committed, `There` says that it resolves to what is HEAD
and checked out, so that later fetches neither find anything missing to fetch nor move anything
when they check it out again (`SettledInv`, and `~Fetched` at the steps that fetch in `PlaceInv`).
Proved: `TypeOK`, `BuiltFromHash`, and `Implements`: every behaviour is one of `SharedSource`.

**`PackageBuildProofs`.** The stacks of all threads come first. Every step moves them in one of eight
ways (`Advance`, `Acquire`, `Nest`, ...), and for those `StackInv` is inductive: only the call on top
of a stack does anything (`Nesting`), a call past `enter` has its package's lock (`Holding`), which no
call below it is for (`Distinct`), and a lock that is held belongs to such a call (`Held`). Then what
calls have made sure of: `Ready` says what a call that has come to a place may count on, `LocalInv`
that every locally wanted dependency the second loop is done with was built or is the call above,
`HashInv` what it takes for a package to have a hash. Proved: `TypeOK`, `OneBuilder`, `LocalReally`,
`BuiltOnce`, `InputsThere`, `ModesKept`, and `NoDeadlock`: while a thread runs, one runs that waits for
no lock. A call is for a dependency of the package below it on the stack (`Nested`); so if all
threads waited, every package on a stack would have a dependency on a stack, and the graph a loop.
`NoTornStaging` does not hold of every graph (`build_torn`); it is proved under `LocalAgreement`: every
package that extracts the staging tar of another, directly or through packages that do not intercept,
wants that one built locally, or no package does. In `build_shared` that is so, in `build_torn` not: `right`
extracts `common`, which only `left` wants locally. `Frames` says who is at work on a package: the
first call of a thread is for its own, which is not built yet, and any other is for one that is built
(`BuiltBelow`), and comes past `enter` only when it is wanted locally. So a tar that is being written
(`Partial`) is of a package not built in this run, and who extracts it has had it built (`LocalReally`); or
nobody wants it locally, and then it is not built at all, while who extracts has all its dependencies built.

**`PackageCmdProofs`.** `ChildInv`, `AnswerInv` and `ResultInv` lead a failure from the child's status
to `result`; in the one-by-one mode that needs `result` to be what all commands before have said.
`HoldInv` and `ReaderInv` follow the ends of the pipes: a reader has ended only when nobody can write
any more and everything was read. Proved: `TypeOK`, `ReadyMeansAll`, and `NothingLeft`, that all a
command wrote has been read when `Run` returns. `OutputLogged` says besides how it is cut into lines:
`AreLines` takes a sequence of lines for what lies `Between` the newlines of the output. `LogInv` keeps
the places of the newlines read so far as a ghost the proof chooses (`Ends`), what is logged as the
pieces between them and `recv_buf` as what follows the last. `NoDeadlock`: threads, children and
readers never all wait. A child that cannot write has a full pipe, and its thread has still to start the
reader, or there is a reader with something to read (`WriterInv`); so if all waited no child would run,
and as whoever else has a pipe open is a child that has not ended (`HolderInv`), no reader would wait.

**`IncrementalProofs`.** `TypeOK`; `NothingToDo` and `AllUpToDate`, in any sequence of runs and
whatever the sources do. The invariant says what each file means: `FileInv` and `BuiltInv` that
the two descriptions of a package are written together and that a package has its hash in this run
exactly if it is built; `SettledInv` that while the sources are those of a run that came to its end,
the files fit them, which is `NothingToDo`. `AllUpToDate` compares files with a build from nothing,
through any number of earlier runs. In a clean run everything is built anew, on what is right. For the others,
`UpInv` takes what was built, except what always is, as a set `H` of <<package,
description, materials, output>>: it has every file there is, equal descriptions are of equal
outputs, and each of its elements was built from others in it. A package that is "not required" has
an element whose description is that of this run; `Proves` carries that down the graph: by
`IncrementalAssumption` all that went into it is what this run has. A forced run breaks that: what it finds is
no element of `H`; at the end of a clean run of everything `H` starts again with what that built (`CleanRecorded`). `FromScratch` is a function
defined by recursion over the graph; that it exists and solves its equation is proved by induction over
the set of packages something can be reached from, with the well-founded strict inclusion.

**`LuaFileProofs`.** `HeardInv`: what anyone has been told of a feature is what the map has, unless it was
overridden; only `KeyFound` and `FeatureSet` touch any of it. `Look` says of a lookup, one lock at a time, that
the prefix it is at is a beginning of the package's name, and that under no longer one there was anything when
it began (`seen` keeps what was there then; features only become more). `Shape` keeps the lists of a
package lists: what is left of its file is a sequence of calls, also when `require` puts
the calls of another file before it, and each dependency a package that is there. `OverlayInv` keeps `.` first,
though an insertion takes two steps and two packages can be between them. Proved: `TypeOK`, `AnswersAgree` and
`NoKeyPassedOver`. That the loop of `parse_command_line`, a recursive function, has a
value for every list of tokens, and leaves a list in each flag that may be repeated, is proved with a least
counterexample (`ReadIs`, `OptionLists`).

`SameInfoSameBuild` compares two packages, which may have gone different ways, by what they end with. It
holds of texts whose notes suffice (`NotesSuffice`, which the texts of `lua_calls` satisfy): no call
depends on `ls`, no file is asked for twice in one text, and what is required neither asks for features
nor requires. The argument forgets all but the `View` of a package: its calls with the hashes of required
files for their paths, and its recipe. Every action of a package is an `Effect` on its view, which follows
from the view and one answer: the value of a feature, the hash of a file, a path (`DescribesMoves`,
`GathersMoves`, `SpliceMoves`, `DependMoved`, ...). The invariant `RecipeInv` says that each package's view is
`Traced`: it comes from that of its first file by effects. `Promised` adds to the notes the one that is due
when the file being run ends; with it the notes and the units shown only ever grow at their ends (`Follows`).
So if two traces end alike and agree up to some view, what comes next in the notes or the units is the
answer to the next call: a value (`SameFeature`), a hash (`SamePatch`, `SameFetch`), a file found or, since
none is asked for again, not found (`SameFile`). A least place where two traces differ does not exist
(`SameTrace`).

**Only proved.** `NoDeadlock` of `PackageBuild` and of `PackageCmd` (their runs check for deadlock), `NothingLeft` of
`PackageCmd`, `DependenciesFirst`, `StartsBounded`, `FailedStaysFailed`, `SleepHasWaker` and
`QuietOnSuccess` of `Scheduler`, `QuietAtJudge` and `SleepHasWaker` of `ParsePhase` and
`FetchedStays`, `NoConflict` and `Exclusive` of `Download` are parts of the invariants, or say in the
terms of one module what `OutputLogged`, `ImplementsOrder`, `NoStarvation`, `CompleteGraph`,
`ParseEnds` and `ImplementsShared` already check there; no run repeats them.

**Only model-checked.** All liveness (`NoStarvation`, `DrainEnds`, `ParseEnds`, `ThreadsEnd`,
`FetchEnds`, `ExtractionEnds`), which the prover cannot do under fairness. That the recursions of
`getStagingPackages` and `pipe_data_thread` return what the modules say they do (`TraversalsAgree`,
`LinesAgree`): induction over data. `SameInfoSameBuild` is false of texts whose notes do not suffice
(section 3) and proved of all others.

## 5. Not modelled

* The names of directories and their creation (`BuildDir`, `main`), wording, colour and destination of
  the log (`Logger`), the dump of the graph: plain input and output. `main` returning while detached
  threads still hold a reference to `World` is listed as a hazard; `QuietOnSuccess` covers the half of
  it that is about packages.
* Boost's graph algorithms are taken for what they return.
* The commands of the extraction units, `ln`, `cp`, `tar` and `wget`: each is one outcome.
* A terminal in place of a pipe (`forkpty`): the reader ends on an error instead of on an end of file.
  A `pipe` that fails is only logged and descriptor 0 used in its place (`packagecmd.cpp:131-137`);
  what happens then depends on what the caller of buildsys has there.
* `--fetch-only` over several runs, and packages that install a file instead of a tar.
* The unit and functional tests.

## 6. Plan

Done, in this order: `BuildOrder` and `Scheduler`; `SchedulerProofs`; `ParsePhase` and its proofs;
`PackageBuild`; `BuildInfo` and its proofs; `Download` and its proofs; `SharedSource` and `GitFetch`;
`PackageCmd` and its proofs; `CommandLine` and `LuaFile`; `Incremental`; `PackageBuildProofs`;
the proofs about `GitFetch`; the absence of deadlocks, `OutputLogged`, `ParsedOnce`; `IncrementalProofs`;
`LuaFileProofs`; `NoTornStaging` under `LocalAgreement`; `SameInfoSameBuild` under `NotesSuffice`.

Next, most important first:

1. `--fetch-only` runs in `BuildInfo`, for what such a run finds of earlier ones.
