----------------------------- MODULE MCLuaFile -----------------------------
(* A base package that makes every call, alone, and asks for a library in  *)
(* two namespaces and for two packages that set features and add overlays  *)
(* while the library's files run.                                          *)
EXTENDS LuaFile, TLC

Lib == <<"a", "lib">>
MCBase == <<"base", <<"base.lua">>>>

MCFiles ==
    (BaseFile :> "base") @@
    (<<".", Lib, "lib">> :> "lib") @@ (<<"site", Lib, "fix">> :> "fix1") @@
    (<<".", <<"base.lua">>, "Digest">> :> "digest") @@
    (<<"over", Lib, "extra">> :> "extra1") @@ (<<"more", <<>>, "extra">> :> "extra2") @@
    (<<"over", Lib, "fix">> :> "fix2") @@ (<<".", <<"base.lua", "files">>, "f">> :> "fix1") @@
    (<<".", <<"set">>, "set">> :> "set") @@ (<<".", <<"gen">>, "gen">> :> "gen") @@
    (<<".", <<>>, "./conf">> :> "conf") @@ (<<".", <<"base.lua">>, "conf">> :> "conf") @@
    (<<".", <<"base.lua">>, "repo/">> :> "repo") @@ (<<".", <<>>, "./repo/">> :> "repo") @@ (<<".", <<>>, "common">> :> "common")

MCRepos == (<<".", <<"base.lua">>, "repo/">> :> <<"c1", "">>) @@ (<<".", <<>>, "./repo/">> :> <<"c1", "d1">>)

MCLastPart ==
    ("http://x/src.zip" :> "src.zip") @@ ("git://x/repo.git" :> "repo") @@ ("./repo/" :> "repo") @@ ("repo/" :> "repo")

Fetching(table) == [op |-> "fetch", table |-> table]
Told(key, value, c) == [when |-> <<key, <<value>>>>] @@ c
NotTold(key, c) == [when |-> <<key, None>>] @@ c
If(mode, c) == Told("mode", mode, c)
Refusals == <<
    If("m1", [op |-> "depend", table |-> [package_name |-> <<"set">>]]),
    If("m2", [op |-> "depend", table |-> [packages |-> << <<"none">> >>]]),
    If("m3", [op |-> "require", file |-> "none"]),
    If("m4", Fetching([uri |-> "git://x/repo.git"])),
    If("m5", [op |-> "extract", of |-> 1]),
    If("m6", [op |-> "require", file |-> "conf"]),
    If("m7", Fetching([method |-> "linkgit", uri |-> "repo/"])),
    If("m8", Fetching([method |-> "copygit", uri |-> "conf"])) >>

MCText ==
    ("base" :> (<< [op |-> "feature", key |-> "mode"] >> \o Refusals \o <<
        [op |-> "set", key |-> <<<<>>, "arch">>, value |-> "arm", override |-> FALSE],
        [op |-> "require", file |-> "common"],
        [op |-> "builddir", clean |-> TRUE], [op |-> "hashoutput"], [op |-> "keepstaging"],
        [op |-> "intercept", table |-> [staging |-> TRUE]], [op |-> "installfile", file |-> "img"],
        [op |-> "intercept", table |-> <<>>, bare |-> TRUE],
        Fetching([method |-> "dl", uri |-> "http://x/src.zip", copyto |-> "src"]),
        [op |-> "extract", of |-> 1], [op |-> "ls", location |-> "files"],
        Fetching([method |-> "git", uri |-> "git://x/repo.git"]),
        Fetching([method |-> "git", uri |-> "git://x/repo.git", reponame |-> "old", branch |-> "c0"]),
        Fetching([method |-> "linkgit", uri |-> "./repo/"]), Fetching([method |-> "copygit", uri |-> "repo/"]),
        Fetching([method |-> "link", uri |-> "conf"]), Fetching([method |-> "copy", uri |-> "conf"]),
        Fetching([method |-> "copyfile", uri |-> "./conf"]),
        Fetching([method |-> "deps", to |-> "root", listedonly |-> TRUE]),
        [op |-> "restore", file |-> "conf", method |-> "copyfile"],
        [op |-> "depend", table |-> [packages |-> <<Lib>>, namespace |-> "host", locally |-> TRUE]],
        If("short", [op |-> "depend", table |-> [packages |-> << <<"gen">> >>]]),
        NotTold("mode", [op |-> "depend", table |-> [packages |-> <<Lib, <<"set">>, <<"gen">>>>]]) >>)) @@
    ("common" :> << [op |-> "cmd", app |-> "make", args |-> <<>>, env |-> << <<"CC", "gcc">> >>, log |-> FALSE] >>) @@
    ("lib" :> << [op |-> "feature", key |-> "arch"],
        Told("arch", "x86", [op |-> "cmd", app |-> "fast", args |-> <<>>, env |-> <<>>]),
        Told("arch", "arm", [op |-> "patch", dir |-> "src", level |-> 1, files |-> <<"fix">>]),
        [op |-> "optional", file |-> "extra"],
        [op |-> "feature", key |-> "debug"],
        NotTold("debug", [op |-> "cmd", app |-> "strip", args |-> <<>>, env |-> <<>>]) >>) @@
    ("extra1" :> << [op |-> "installfile", file |-> "extra"] >>) @@
    ("extra2" :> << [op |-> "hashoutput"] >>) @@
    ("set" :> << [op |-> "set", key |-> <<Lib, "arch">>, value |-> "x86", override |-> FALSE],
        [op |-> "overlay", path |-> "over"] >>) @@
    ("gen" :> << [op |-> "overlay", path |-> "more"],
        [op |-> "set", key |-> <<Lib, "arch">>, value |-> "arm", override |-> FALSE],
        [op |-> "set", key |-> <<<<"a">>, "debug">>, value |-> "1", override |-> TRUE] >>)

MCDigest == "digest" :> (("src.zip" :> "d1") @@ ("git://x/repo.git#origin/master" :> "c1"))

Word(t) == [text |-> t]
Mode(m) == [text |-> "mode=" , key |-> <<<<>>, "mode">>, value |-> m]
MCArgLists ==
    { <<Word("--overlay"), Word("site")>>, <<Word("--typo")>>, <<Word("--overlay")>>, <<Word("--parallel-packages"), Word("x")>>,
      <<Word("--"), Word("arch")>>, <<Word("--git-local-mirror-map"), Word("mirror")>>,
      <<Word("--parse-only"), Word("--build-info-ignore-fv"), Word("debug"), Word("--overlay"),
        Word("more"), Word("--parallel-packages"), [text |-> "2", number |-> 2], Word("--cache-server"),
        Word("--clean"), Word("gen"), Word("--git-local-mirror-map"),
        [text |-> "git:,/mirror", pair |-> <<"git:", "/mirror">>], Word("--"), Mode("short"),
        [text |-> "a:debug=0", key |-> <<<<"a">>, "debug">>, value |-> "0"]>> }
    \cup {<<Word("--"), Mode(m)>> : m \in {"m1", "m2", "m3", "m4", "m5", "m6", "m7", "m8"}}

(* What the base and the library do is one of the cases the notes tell     *)
(* apart.                                                                  *)
ASSUME BaseAndLibrary == NotesSuffice

MCEnvironment == << <<"BS_PACKAGE_NAME", "outer">>, <<"CC", "cc">> >>
=============================================================================
