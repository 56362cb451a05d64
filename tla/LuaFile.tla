------------------------------ MODULE LuaFile ------------------------------
(***************************************************************************)
(* The calls of the Lua files, made by the threads of the parse phase      *)
(* (src/interface/toplevel.cpp, src/interface/builddir.cpp) on what they   *)
(* share: the feature map, the packages of the namespaces and the list of  *)
(* overlays.  A package is <<namespace, name>>, a name the sequence of its *)
(* components, a file <<overlay, directory, name>>.                        *)
(*                                                                         *)
(* A Lua file is the sequence of its calls, in which a call may depend on  *)
(* what an earlier one was told.  One action is one critical section: a    *)
(* feature is looked up in several, and two packages can be in the middle  *)
(* of std::list::insert on the overlays, which no lock protects.  name(),  *)
(* package_name() and path() change nothing and are left out.              *)
(***************************************************************************)
EXTENDS CommandLine, FiniteSets, SequencesExt

CONSTANTS
    Files,        \* the hash of each file there is
    Text,         \* the calls in a file with that hash, if it is a Lua file
    Digest,       \* the hash for each name in a Digest file with that hash
    LastPart,     \* what follows the last / of a uri, for those with one
    Zips,         \* the names that end in .zip
    Rooted,       \* the locations that start with / or dl/
    Dotted,       \* the locations that start with .
    Repos,        \* what git says of a directory: its HEAD, its changes or ""
    Commits,      \* the refspecs that are the id of a commit
    Environment,  \* the environment of the process: <<key, value>>s
    Base,         \* the base package
    ArgLists      \* the command lines to look at

VARIABLES
    options,    \* what parse_command_line made of the command line
    features,   \* FeatureMap::features
    overlays,   \* Package::overlays
    pkg,        \* the packages created so far
    exit,       \* "none", "usage", "failed", "printed", "building"
    heard,      \* every <<key, value>> getFeature has returned
    overridden  \* the features whose value has been replaced

ghosts == <<heard, overridden>>
vars == <<options, features, overlays, pkg, exit, ghosts>>

None == <<>>

Put(f, key, value) == [x \in {key} \cup DOMAIN f |-> IF x = key THEN value ELSE f[x]]

BaseFile == <<"/", <<>>, "base">>

-----------------------------------------------------------------------------
(* Files are searched for in the overlays, in order.                       *)

FirstOf(candidates) ==
    LET there == {i \in DOMAIN candidates : candidates[i] \in DOMAIN Files}
    IN  IF there = {} THEN None ELSE candidates[Min(there)]

PackageFile(name) ==
    FirstOf([i \in DOMAIN overlays |-> <<overlays[i], name, Last(name)>>])

Find(p, location, alsoRoot) ==
    LET places == IF alsoRoot THEN <<p[2], <<>>>> ELSE <<p[2]>>
    IN  CASE location \in Rooted -> <<"/", <<>>, location>>
          [] location \in Dotted -> FirstOf([i \in DOMAIN overlays |-> <<overlays[i], <<>>, location>>])
          [] OTHER -> FirstOf([i \in DOMAIN overlays |->
                 FirstOf([j \in DOMAIN places |-> <<overlays[i], places[j], location>>])])

(* A location as the working directory of the process has it.              *)
AsGiven(location) ==
    IF location \in Rooted THEN <<"/", <<>>, location>> ELSE <<".", <<>>, location>>

HashFile(f) == IF f \in DOMAIN Files THEN Files[f] ELSE ""

ListFiles(p, location) ==
    {f[3] : f \in {g \in DOMAIN Files : g[1] \in Range(overlays) /\ g[2] = p[2] \o <<location>>}}

FullName(f) ==
    CASE f.filename # ""           -> f.filename
      [] f.uri \in DOMAIN LastPart -> LastPart[f.uri]
      [] OTHER                     -> ""

RelativePath(f) ==
    CASE f.kind = "download"       -> FullName(f)
      [] f.uri \in DOMAIN LastPart -> LastPart[f.uri]
      [] OTHER                     -> f.uri

(* A variable of the environment is replaced, not added a second time.     *)
AddEnv(env, e) ==
    LET i == SelectInSeq(env, LAMBDA x : x[1] = e[1])
    IN  IF i = 0 THEN Append(env, e) ELSE [env EXCEPT ![i] = e]

-----------------------------------------------------------------------------
(* Mutant: the last value set is the one that counts.                      *)
SetFeatureAlways(fs, key, value, override) == Put(fs, key, value)

SetFeature(fs, key, value, override) ==
    IF key \in DOMAIN fs /\ ~override THEN fs ELSE Put(fs, key, value)

(* Mutant: overlays go before the directory itself.                        *)
AddOverlaysFirst(list, paths) == paths \o list

AddOverlays(list, paths) == list \o paths

NewPackage(file, o) ==
    [state |-> "created", file |-> file, rest |-> <<>>,
     asked |-> "", prefix |-> <<>>, seen |-> {}, after |-> <<>>, told |-> <<>>,
     desc |-> <<>>, deps |-> <<>>, units |-> <<>>, fetches |-> <<>>, cmds |-> <<>>,
     install |-> <<>>, extractTo |-> <<>>, intercept |-> {},
     flags |-> IF "--clean" \in o.given THEN {"clean"} ELSE {}]

Start(o) ==
    /\ options = o
    /\ features = FoldLeft(LAMBDA fs, kv : SetFeature(fs, kv[1], kv[2], TRUE), <<>>, o.features)
    /\ overlays = AddOverlays(<<".">>, o.many["--overlay"])
    /\ pkg = [p \in {Base} |-> NewPackage(BaseFile, o)]
    /\ exit = IF o.reading = "error" THEN "usage" ELSE "none"
    /\ heard = {<<key, features[key]>> : key \in DOMAIN features}
    /\ overridden = {}

Init == \E args \in ArgLists : Start(Options(args))

-----------------------------------------------------------------------------
(* Where a package's file goes on: past the calls it skips.                *)

Made(c, told) ==
    "when" \in DOMAIN c => c.when[1] \in DOMAIN told /\ told[c.when[1]] = c.when[2]

Rest(calls, told) ==
    LET made == {i \in DOMAIN calls : Made(calls[i], told)}
    IN  IF made = {} THEN <<>> ELSE SubSeq(calls, Min(made), Len(calls))

(* What runs when a file is run: an error if it is not there or is not Lua. *)
Run(file) ==
    IF HashFile(file) \in DOMAIN Text THEN Text[HashFile(file)] ELSE << [op |-> "error"] >>

Call(p) == Head(pkg[p].rest)
Arg(p, key, default) == IF key \in DOMAIN Call(p).table THEN Call(p).table[key] ELSE default
Is(p, op) == pkg[p].state = "processing" /\ pkg[p].rest # <<>> /\ Call(p).op = op

(* A namespace is there as soon as it is named.                            *)
FindNameSpace(p) == Arg(p, "namespace", p[1])

Dependency(p) == <<FindNameSpace(p), Head(Call(p).table.packages)>>

FindPackage(packages, q) ==
    IF q \in DOMAIN packages THEN packages
    ELSE Put(packages, q, NewPackage(PackageFile(q[2]), options))

(* The calls that throw, which ends the package's file.                    *)
Keys == [depend  |-> {"packages", "namespace", "locally"},
         intercept |-> {"staging", "install"},
         fetch   |-> {"uri", "method", "filename", "branch", "reponame", "to", "listedonly", "copyto"}]

Names == Seq(STRING)

(* A depend() that names no package does nothing and is left out.          *)
NamesPackages(c) ==
    c.op = "depend" /\ DOMAIN c.table \subseteq Keys.depend
      => /\ {"op", "table"} \subseteq DOMAIN c /\ "packages" \in DOMAIN c.table
         /\ c.table.packages \in Seq(Names) \ {<<>>}

ASSUME LuaAssumption ==
    /\ Base[2] \in Names /\ None \notin DOMAIN Files
    /\ \A args \in ArgLists : args \in Seq(Range(args))
    /\ \A calls \in Range(Text) :
         calls \in Seq(Range(calls)) /\ \A c \in Range(calls) :
             NamesPackages(c) /\ (c.op = "patch" => c.files \in Seq(Range(c.files)))

Located == {"linkgit", "copyfile", "copygit"}
Methods == Located \cup {"dl", "git", "link", "copy", "deps"}

FetchRefused(p) ==
    LET method == Arg(p, "method", "")
        uri == Arg(p, "uri", "")
    IN  \/ method \notin Methods
        \/ method # "deps" /\ uri = ""
        \/ method = "git" /\ Arg(p, "reponame", "") = "" /\ uri \notin DOMAIN LastPart
        \/ method \in Located /\ Find(p, uri, FALSE) = None
        \/ method = "linkgit" /\ AsGiven(uri) \notin DOMAIN Repos
        \/ method = "copygit" /\ Find(p, uri, FALSE) \notin DOMAIN Repos

Throws(p, c) ==
    CASE c.op = "depend"   -> Dependency(p) \notin DOMAIN pkg /\ PackageFile(Dependency(p)[2]) = None
      [] c.op = "require"  -> Find(p, c.file, TRUE) \notin DOMAIN Files
      [] c.op = "optional" -> Find(p, c.file, TRUE) \notin DOMAIN Files \cup {None}
      [] c.op = "fetch"    -> FetchRefused(p)
      [] c.op = "error"    -> TRUE
      [] c.op = "extract"  -> c.of \notin DOMAIN pkg[p].fetches
      [] c.op = "patch"    -> \E f \in Range(c.files) : Find(p, f, FALSE) = None
      [] c.op = "restore"  -> c.method # "copyfile" \/ Find(p, c.file, FALSE) = None
      [] OTHER             -> FALSE

Refused(p) ==
    LET c == Call(p)
    IN  IF c.op \in DOMAIN Keys /\ ~(DOMAIN c.table \subseteq Keys[c.op]) THEN TRUE ELSE Throws(p, c)

May(p, op) == Is(p, op) /\ ~Refused(p)

(* A call that has done its work, and one that only changes its package.   *)
Became(p, r) == [pkg EXCEPT ![p] = [r EXCEPT !.rest = Rest(Tail(@), r.told)]]
Does(p, r) == pkg' = Became(p, r) /\ UNCHANGED <<options, features, overlays, exit, ghosts>>

-----------------------------------------------------------------------------
(* Package::process, on a thread of its own.                               *)

Queued(p) == p = Base \/ \E d \in DOMAIN pkg :
    pkg[d].state = "done" /\ \E i \in DOMAIN pkg[d].deps : pkg[d].deps[i].of = p

PackageNote(name, hash) == << <<"PackageFile", name, hash>> >>

Process(p) ==
    /\ exit = "none" /\ pkg[p].state = "created"
    /\ Queued(p)
    /\ pkg' = [pkg EXCEPT ![p].state = "processing",
                           ![p].desc = PackageNote(p[2], HashFile(pkg[p].file)),
                           ![p].rest = Rest(Run(pkg[p].file), <<>>)]
    /\ UNCHANGED <<options, features, overlays, exit, ghosts>>

Processed(p) ==
    /\ pkg[p].state = "processing" /\ pkg[p].rest = <<>>
    /\ pkg' = [pkg EXCEPT ![p].state = "done"]
    /\ UNCHANGED <<options, features, overlays, exit, ghosts>>

(* lua_guard and processFile: the package has failed.                      *)
LuaError(p) ==
    /\ pkg[p].state = "processing" /\ pkg[p].rest # <<>> /\ Refused(p)
    /\ pkg' = [pkg EXCEPT ![p].state = "failed"]
    /\ UNCHANGED <<options, features, overlays, exit, ghosts>>

-----------------------------------------------------------------------------
(* feature(key): a lookup for each prefix of the package's name, the       *)
(* longest first, then for the bare key.                                   *)

LookUp(p) ==
    /\ May(p, "feature")
    /\ pkg' = [pkg EXCEPT ![p].state = "looking", ![p].asked = Call(p).key,
                           ![p].prefix = p[2], ![p].seen = DOMAIN features]
    /\ UNCHANGED <<options, features, overlays, exit, ghosts>>

Key(p) == <<pkg[p].prefix, Call(p).key>>

Answer(p, value, note) ==
    pkg' = Became(p, [pkg[p] EXCEPT !.state = "processing", !.desc = @ \o note,
                                    !.told = Put(@, Call(p).key, value)])

(* The value is noted in the build description, unless it is to be ignored. *)
FeatureNote(key, value) ==
    IF key \in Range(options.many["--build-info-ignore-fv"]) THEN <<>>
    ELSE << <<"FeatureValue", key, value>> >>

KeyFound(p) ==
    /\ pkg[p].state = "looking" /\ Key(p) \in DOMAIN features
    /\ LET key == Call(p).key
           value == features[Key(p)]
       IN  /\ Answer(p, <<value>>, FeatureNote(key, value))
           /\ heard' = heard \cup {<<Key(p), value>>}
    /\ UNCHANGED <<options, features, overlays, exit, overridden>>

(* Mutant: the first component is the parent.                              *)
ShorterAll(prefix) == <<>>

Shorter(prefix) == Front(prefix)

KeyMissing(p) ==
    /\ pkg[p].state = "looking" /\ Key(p) \notin DOMAIN features /\ pkg[p].prefix # <<>>
    /\ pkg' = [pkg EXCEPT ![p].prefix = Shorter(@)]
    /\ UNCHANGED <<options, features, overlays, exit, ghosts>>

NilNote(key) == << <<"FeatureNil", key>> >>

NoKey(p) ==
    /\ pkg[p].state = "looking" /\ Key(p) \notin DOMAIN features /\ pkg[p].prefix = <<>>
    /\ Answer(p, None, NilNote(Call(p).key))
    /\ UNCHANGED <<options, features, overlays, exit, ghosts>>

(* feature(key, value, override)                                           *)
FeatureSet(p) ==
    /\ May(p, "set")
    /\ LET c == Call(p)
       IN  /\ features' = SetFeature(features, c.key, c.value, c.override)
           /\ overridden' = IF c.override /\ c.key \in DOMAIN features
                              THEN overridden \cup {c.key} ELSE overridden
    /\ pkg' = Became(p, pkg[p])
    /\ UNCHANGED <<options, overlays, exit, heard>>

(* depend(): one package of the table; it is found or created.             *)
Depend(p) ==
    /\ May(p, "depend")
    /\ LET q == Dependency(p)
           names == Call(p).table.packages
           dep == [of |-> q, own |-> "namespace" \notin DOMAIN Call(p).table, locally |-> Arg(p, "locally", FALSE)]
           r == [pkg[p] EXCEPT !.deps = Append(@, dep)]
           after == IF Len(names) = 1 THEN Became(p, r)
                    ELSE [pkg EXCEPT ![p] = [r EXCEPT !.rest[1].table.packages = Tail(names)]]
       IN  pkg' = FindPackage(after, q)
    /\ UNCHANGED <<options, features, overlays, exit, ghosts>>

(* require() runs the file before it notes it.                             *)
Splice(p, path) ==
    LET c == Call(p)
    IN  Does(p, [pkg[p] EXCEPT !.rest =
            <<c>> \o Run(path) \o << [op |-> "required", file |-> c.file, path |-> path] >> \o Tail(@)])

Require(p) == May(p, "require") /\ Splice(p, Find(p, Call(p).file, TRUE))

OptionallyRequire(p) ==
    /\ May(p, "optional")
    /\ LET path == Find(p, Call(p).file, TRUE)
       IN  IF path = None THEN Does(p, pkg[p]) ELSE Splice(p, path)

(* Mutant: the name of a required file is noted, not its hash.             *)
RequireNameNote(file, path) == << <<"RequireFile", file>> >>

RequireNote(file, path) == << <<"RequireFile", file, HashFile(path)>> >>

Required(p) ==
    /\ May(p, "required")
    /\ Does(p, [pkg[p] EXCEPT !.desc = @ \o RequireNote(Call(p).file, Call(p).path)])

(* overlayadd(): where to insert is found first.  Until the new node is    *)
(* linked in another may be, before or behind which it comes, or which it  *)
(* cuts off.                                                               *)
OverlayReach(p) ==
    /\ May(p, "overlay")
    /\ pkg' = [pkg EXCEPT ![p].state = "adding", ![p].after = Tail(overlays)]
    /\ UNCHANGED <<options, features, overlays, exit, ghosts>>

OverlayLink(p) ==
    /\ pkg[p].state = "adding"
    /\ LET others == SubSeq(overlays, 2, Len(overlays) - Len(pkg[p].after))
       IN  \E kept \in 0 .. Len(others) :
             overlays' = <<".">> \o SubSeq(others, 1, kept) \o <<Call(p).path>> \o pkg[p].after
    /\ pkg' = Became(p, [pkg[p] EXCEPT !.state = "processing", !.after = <<>>])
    /\ UNCHANGED <<options, features, exit, ghosts>>

-----------------------------------------------------------------------------
(* What the package says of itself.                                        *)

BuildDir(p) ==
    /\ May(p, "builddir")
    /\ Does(p, [pkg[p] EXCEPT !.flags = IF Call(p).clean THEN @ \cup {"clean"} ELSE @])

(* Without a table only the install directories are intercepted.           *)
Intercept(p) ==
    /\ May(p, "intercept")
    /\ LET table == Call(p).table
       IN  Does(p, [pkg[p] EXCEPT !.intercept =
               IF "bare" \in DOMAIN Call(p) THEN {"install"} ELSE {k \in DOMAIN table : table[k]}])

Flag == [keepstaging |-> "keepStaging", hashoutput |-> "hashOutput"]

SetFlag(p, op) == May(p, op) /\ Does(p, [pkg[p] EXCEPT !.flags = @ \cup {Flag[op]}])

InstallFile(p) ==
    May(p, "installfile") /\ Does(p, [pkg[p] EXCEPT !.install = Append(@, Call(p).file)])

Ls(p) ==
    /\ May(p, "ls")
    /\ Does(p, [pkg[p] EXCEPT !.told = Put(@, "ls", <<ListFiles(p, Call(p).location)>>)])

Environ(p, env) == AddEnv(FoldLeft(AddEnv, Environment, env), <<"BS_PACKAGE_NAME", p[2]>>)

(* The variables of a call with six arguments are not looked at.           *)
Cmd(p) ==
    /\ May(p, "cmd")
    /\ LET c == Call(p)
           given == IF "log" \in DOMAIN c THEN <<>> ELSE c.env
       IN  Does(p, [pkg[p] EXCEPT !.cmds = Append(@,
               [app |-> c.app, args |-> c.args, env |-> Environ(p, given),
                log |-> "log" \in DOMAIN c => c.log, into |-> None])])

(* restore(): copies a file of the build directory back to where it is from. *)
Restore(p) ==
    /\ May(p, "restore")
    /\ LET c == Call(p)
       IN  Does(p, [pkg[p] EXCEPT !.cmds = Append(@,
               [app |-> "cp", args |-> <<"-pRLuf", RelativePath([kind |-> "copy", uri |-> c.file])>>,
                env |-> Environment, log |-> TRUE, into |-> Find(p, c.file, FALSE)])])

-----------------------------------------------------------------------------
(* Sources: what is fetched, and the units that put it into the build      *)
(* directory.  A unit is what its print() shows, with the fetch unit whose *)
(* hash it shows as well, and what it puts there.  A git directory that is *)
(* linked or copied shows its HEAD and the hash of its changes; one that   *)
(* is fetched does not show which name it is copied under, and is not      *)
(* changed by hand.  Of it the branch stands for the commit it is at.      *)

Source(p, kind) ==
    [kind |-> kind, uri |-> Arg(p, "uri", ""), filename |-> Arg(p, "filename", "")]

Fetched(r, f, updated) ==
    [r EXCEPT !.fetches = Append(@, f), !.flags = IF updated THEN @ \cup {"codeUpdated"} ELSE @]

Unit(type, shown, of, content) == [type |-> type, shown |-> shown, of |-> of, content |-> content]

Unpacked(r, type, shown, of, content) ==
    [r EXCEPT !.units = Append(@, Unit(type, shown, of, content))]

Fetch(p, method) == May(p, "fetch") /\ Arg(p, "method", "") = method

FetchDl(p) ==
    /\ Fetch(p, "dl")
    /\ LET f == Source(p, "download")
           to == Arg(p, "copyto", "")
           r == IF to = "" THEN pkg[p] ELSE Unpacked(pkg[p], "FetchedFileCopy", <<to>>, <<f>>, f.uri)
       IN  Does(p, Fetched(r, f, FALSE))

(* A linked or copied directory changes under the package.                 *)
FetchLocal(p, kind) == Fetch(p, kind) /\ Does(p, Fetched(pkg[p], Source(p, kind), TRUE))

FetchGit(p) ==
    /\ Fetch(p, "git")
    /\ LET uri == Arg(p, "uri", "")
           name == IF Arg(p, "reponame", "") = "" THEN LastPart[uri] ELSE Arg(p, "reponame", "")
           f == [kind |-> "git", uri |-> uri, branch |-> Arg(p, "branch", "origin/master")]
       IN  Does(p, Unpacked(pkg[p], "GitDir", <<"fetch", uri, "">>, <<f>>, <<name, f>>))

LinkGit(p) ==
    /\ Fetch(p, "linkgit")
    /\ LET uri == Arg(p, "uri", "")
           shown == <<"link", uri, RelativePath(Source(p, "link")), Repos[AsGiven(uri)]>>
       IN  Does(p, Unpacked(pkg[p], "GitDir", shown, None, uri))

CopyGit(p) ==
    /\ Fetch(p, "copygit")
    /\ LET path == Find(p, Arg(p, "uri", ""), FALSE)
       IN  Does(p, Unpacked(pkg[p], "GitDir", <<"copy", path, ".", Repos[path]>>, None, path))

CopyFile(p) ==
    /\ Fetch(p, "copyfile")
    /\ LET uri == Arg(p, "uri", "")
           hash == HashFile(Find(p, uri, FALSE))
       IN  Does(p, Unpacked(pkg[p], "FileCopy", <<uri, hash>>, None, hash))

FetchDeps(p) ==
    /\ Fetch(p, "deps")
    /\ Does(p, [pkg[p] EXCEPT !.extractTo = <<Arg(p, "to", ""), Arg(p, "listedonly", FALSE)>>,
                              !.flags = @ \cup {"codeUpdated"}])

Extract(p) ==
    /\ May(p, "extract")
    /\ LET f == pkg[p].fetches[Call(p).of]
           type == IF RelativePath(f) \in Zips THEN "ZipFile" ELSE "TarFile"
       IN  Does(p, Unpacked(pkg[p], type, <<RelativePath(f)>>, <<f>>, f.uri))

PatchUnit(p, c, f) ==
    LET hash == HashFile(Find(p, f, FALSE))
    IN  Unit("PatchFile", <<c.level, c.dir, f, hash>>, None, hash)

Patch(p) ==
    /\ May(p, "patch")
    /\ LET c == Call(p)
       IN  Does(p, [pkg[p] EXCEPT !.units = @ \o [i \in DOMAIN c.files |-> PatchUnit(p, c, c.files[i])]])

-----------------------------------------------------------------------------
(* The end of the phase, and of main() if nothing is to be built.          *)

Finish ==
    /\ exit = "none"
    /\ \A p \in DOMAIN pkg :
         pkg[p].state \in {"done", "failed"} \/ (pkg[p].state = "created" /\ ~Queued(p))
    /\ exit' = CASE \E p \in DOMAIN pkg : pkg[p].state = "failed" -> "failed"
                 [] "--parse-only" \in options.given               -> "printed"
                 [] OTHER                                          -> "building"
    /\ UNCHANGED <<options, features, overlays, pkg, ghosts>>

Stopped == exit # "none" /\ UNCHANGED vars

Asks(p) == LookUp(p) \/ KeyFound(p) \/ KeyMissing(p) \/ NoKey(p)
Shares(p) ==
    \/ FeatureSet(p) \/ Depend(p) \/ OverlayReach(p) \/ OverlayLink(p)
    \/ Require(p) \/ OptionallyRequire(p) \/ Required(p)
Describes(p) ==
    \/ BuildDir(p) \/ Intercept(p) \/ InstallFile(p) \/ Ls(p) \/ Cmd(p) \/ Restore(p)
    \/ \E op \in DOMAIN Flag : SetFlag(p, op)
Gathers(p) ==
    \/ FetchDl(p) \/ FetchGit(p) \/ LinkGit(p) \/ CopyGit(p) \/ CopyFile(p)
    \/ FetchDeps(p) \/ Extract(p) \/ Patch(p)
    \/ \E kind \in {"link", "copy"} : FetchLocal(p, kind)

Next ==
    \/ \E p \in DOMAIN pkg :
         Process(p) \/ Processed(p) \/ LuaError(p) \/ Asks(p) \/ Shares(p) \/ Describes(p) \/ Gathers(p)
    \/ Finish \/ Stopped

Spec == Init /\ [][Next]_vars

-----------------------------------------------------------------------------
States == {"created", "processing", "looking", "adding", "done", "failed"}
Noted == {"PackageFile", "RequireFile", "FeatureValue", "FeatureNil"}

TypeOK ==
    /\ Head(overlays) = "."
    /\ exit \in {"none", "usage", "failed", "printed", "building"}
    /\ \A kv \in heard : kv[1] \in DOMAIN features
    /\ overridden \subseteq DOMAIN features
    /\ \A p \in DOMAIN pkg :
         /\ pkg[p].state \in States
         /\ \A i \in DOMAIN pkg[p].desc : pkg[p].desc[i][1] \in Noted
         /\ \A i \in DOMAIN pkg[p].deps : pkg[p].deps[i].of \in DOMAIN pkg
         /\ pkg[p].intercept \subseteq {"staging", "install"}
         /\ pkg[p].flags \subseteq {"clean", "keepStaging", "hashOutput", "codeUpdated"}

(* Whoever is told the value of a feature is told the same, in whatever    *)
(* order the files are run, unless one of them overrides it; and a value   *)
(* of the command line is what every package is told                       *)
(* (featuremap.cpp 42-55, options.cpp 105-117).                            *)
AnswersAgree ==
    \A a, b \in heard : a[1] = b[1] /\ a[1] \notin overridden => a[2] = b[2]

(* The lookup of a feature takes several critical sections.  It never      *)
(* passes over a more specific feature that was there when it began, and   *)
(* the package is told nil only if there was none (toplevel.cpp 59-78).    *)
NoKeyPassedOver ==
    \A p \in DOMAIN pkg : LET r == pkg[p] IN
        /\ \A n \in Len(r.prefix) + 1 .. Len(p[2]) : <<SubSeq(p[2], 1, n), r.asked>> \notin r.seen
        /\ r.state # "looking" /\ r.asked \in DOMAIN r.told /\ r.told[r.asked] = None
             => <<<<>>, r.asked>> \notin r.seen

(* The notes of a package tell apart all that can come out of its files if *)
(* nothing depends on ls(), no file is required from two places of a text, *)
(* and what is required neither asks for features nor requires: a file     *)
(* is noted after it has run, and one that is not there is not noted.      *)
Asking == {"require", "optional"}
Noting == Asking \cup {"required", "feature"}

Quiet(calls) == \A c \in Range(calls) : c.op \notin Noting

RunsQuiet(file) ==
    \A f \in DOMAIN Files : f[3] = file /\ Files[f] \in DOMAIN Text => Quiet(Text[Files[f]])

NotesSuffice ==
    \A calls \in Range(Text) :
        /\ \A c \in Range(calls) :
             /\ c.op # "required"
             /\ "when" \in DOMAIN c => c.when[1] # "ls"
             /\ c.op \in Asking => RunsQuiet(c.file)
        /\ \A i, j \in DOMAIN calls :
             i < j /\ calls[i].op \in Asking /\ calls[j].op \in Asking => calls[i].file # calls[j].file

FileHash(p, file) ==
    LET digest == Find(p, "Digest", FALSE)
    IN  IF digest = None \/ file \notin DOMAIN Digest[Files[digest]] THEN "missing"
        ELSE Digest[Files[digest]][file]

(* The commit of a branch is looked up in the Digest file, or fetched.     *)
CommitHash(p, f) ==
    LET hash == FileHash(p, f.uri \o "#" \o f.branch)
    IN  IF f.branch \in Commits \/ hash = "missing" THEN f.branch ELSE hash

FetchHash(p, f) ==
    CASE f.kind = "download" -> FileHash(p, FullName(f))
      [] f.kind = "git"      -> CommitHash(p, f)
      [] OTHER               -> ""

Shown(p, u) == <<u.type, u.shown>> \o [i \in DOMAIN u.of |-> FetchHash(p, u.of[i])]

(* What a package's hash covers of its Lua file, and what it builds by it. *)
Info(p) == <<pkg[p].desc, [i \in DOMAIN pkg[p].units |-> Shown(p, pkg[p].units[i])]>>

Recipe(p) ==
    [deps |-> [i \in DOMAIN pkg[p].deps |-> LET d == pkg[p].deps[i] IN
                   <<IF d.own THEN "" ELSE d.of[1], d.of[2], d.locally>>],
     cmds |-> [i \in DOMAIN pkg[p].cmds |-> [pkg[p].cmds[i] EXCEPT !.into = None]],
     units |-> pkg[p].units, fetches |-> pkg[p].fetches, install |-> pkg[p].install,
     intercept |-> pkg[p].intercept, flags |-> pkg[p].flags, extractTo |-> pkg[p].extractTo]

(* The hash decides whether a package is built and under which name its    *)
(* output is cached.  So it must tell apart all that can come out of the   *)
(* same Lua file: a package that has two namespaces' worth of runs against *)
(* other features, files and overlays has the same recipe if it has the    *)
(* same hash.  Not so if features are ignored on request, for directories  *)
(* that are always taken for changed, for where restore() copies to, and   *)
(* for texts whose notes do not suffice (buildinfo.cpp 54-101,             *)
(* toplevel.cpp 80-120 and 323-376, buildsys.h 208-402).                   *)
SameInfoSameBuild ==
    \A p, q \in DOMAIN pkg :
        /\ exit # "none" /\ options.many["--build-info-ignore-fv"] = <<>>
        /\ p[2] = q[2] /\ pkg[p].state = "done" /\ pkg[q].state = "done"
        /\ "codeUpdated" \notin pkg[p].flags
        /\ Info(p) = Info(q)
        => Recipe(p) = Recipe(q)
=============================================================================
