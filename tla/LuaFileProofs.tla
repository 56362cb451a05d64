---------------------------- MODULE LuaFileProofs ----------------------------
(***************************************************************************)
(* LuaFile for any files, calls and command lines: that everyone is told   *)
(* the same value of a feature, that a lookup passes over none that is     *)
(* there, whatever the files of the other packages do in between, and that *)
(* a package's hash decides how it is built, where its notes suffice.      *)
(***************************************************************************)
EXTENDS LuaFile, SequenceTheorems, WellFoundedInduction, TLAPS

-----------------------------------------------------------------------------
(* What is told of features.                                               *)

\* A value that was told is the one the feature has, unless it was overridden.
HeardInv ==
  /\ overridden \subseteq DOMAIN features
  /\ \A kv \in heard : kv[1] \in DOMAIN features
                       /\ (kv[1] \notin overridden => kv[2] = features[kv[1]])

\* Only three actions have to do with what is heard.
LEMMA HeardActions ==
  ASSUME [Next]_vars
  PROVE  \/ UNCHANGED <<features, heard, overridden>>
         \/ \E p \in DOMAIN pkg : KeyFound(p) \/ FeatureSet(p)
<1>1. CASE UNCHANGED vars
  BY <1>1 DEF vars, ghosts
<1>2. CASE Finish \/ Stopped
  BY <1>2 DEF Finish, Stopped, vars, ghosts
<1>3. ASSUME NEW p \in DOMAIN pkg, Process(p) \/ Processed(p) \/ LuaError(p)
      PROVE  UNCHANGED <<features, heard, overridden>>
  BY <1>3 DEF Process, Processed, LuaError, ghosts
<1>4. ASSUME NEW p \in DOMAIN pkg, Asks(p)
      PROVE  UNCHANGED <<features, heard, overridden>> \/ KeyFound(p)
  BY <1>4 DEF Asks, LookUp, KeyMissing, NoKey, ghosts
<1>5. ASSUME NEW p \in DOMAIN pkg, Shares(p)
      PROVE  UNCHANGED <<features, heard, overridden>> \/ FeatureSet(p)
  BY <1>5 DEF Shares, Depend, OverlayReach, OverlayLink, Require, OptionallyRequire, Required, Splice,
    Does, ghosts
<1>6. ASSUME NEW p \in DOMAIN pkg, Describes(p)
      PROVE  UNCHANGED <<features, heard, overridden>>
  BY <1>6 DEF Describes, BuildDir, Intercept, InstallFile, Ls, Cmd, Restore, SetFlag, Does, ghosts
<1>7. ASSUME NEW p \in DOMAIN pkg, Gathers(p)
      PROVE  UNCHANGED <<features, heard, overridden>>
  BY <1>7 DEF Gathers, FetchDl, FetchGit, LinkGit, CopyGit, CopyFile, FetchDeps, Extract, Patch,
    FetchLocal, Does, ghosts
<1> QED BY <1>1, <1>2, <1>3, <1>4, <1>5, <1>6, <1>7 DEF Next

\* What is told is in the map, and only an override replaces it there.
LEMMA HeardStep ==
  ASSUME HeardInv, [Next]_vars
  PROVE  HeardInv'
<1>1. CASE UNCHANGED <<features, heard, overridden>>
  BY <1>1 DEF HeardInv
<1>2. ASSUME NEW p \in DOMAIN pkg, KeyFound(p) PROVE HeardInv'
  BY <1>2 DEF KeyFound, HeardInv
<1>3. ASSUME NEW p \in DOMAIN pkg, FeatureSet(p) PROVE HeardInv'
  <2> DEFINE c == Call(p)
  <2>1. /\ features' = SetFeature(features, c.key, c.value, c.override) /\ heard' = heard
        /\ overridden' = IF c.override /\ c.key \in DOMAIN features
                           THEN overridden \cup {c.key} ELSE overridden
    BY <1>3 DEF FeatureSet
  <2>2. /\ DOMAIN features' = DOMAIN features \cup {c.key}
        /\ \A k \in DOMAIN features : k # c.key \/ ~c.override => features'[k] = features[k]
    BY <2>1 DEF SetFeature, Put
  <2>3. overridden' \subseteq DOMAIN features'
    BY <2>1, <2>2 DEF HeardInv
  <2>4. ASSUME NEW kv \in heard, kv[1] \notin overridden'
        PROVE  kv[2] = features'[kv[1]]
    <3>1. kv[1] \in DOMAIN features /\ kv[1] \notin overridden
      BY <2>1, <2>4 DEF HeardInv
    <3>2. kv[1] # c.key \/ ~c.override
      BY <2>1, <2>4, <3>1
    <3> QED BY <2>2, <3>1, <3>2 DEF HeardInv
  <2> QED BY <2>1, <2>2, <2>3, <2>4 DEF HeardInv
<1> QED BY <1>1, <1>2, <1>3, HeardActions

-----------------------------------------------------------------------------
(* The packages.                                                           *)

Fields == {"state", "file", "rest", "asked", "prefix", "seen", "after", "told", "desc", "deps",
           "units", "fetches", "cmds", "install", "extractTo", "intercept", "flags"}

\* The fields the invariant is about.
Kept == {"state", "rest", "asked", "prefix", "seen", "after", "told", "desc", "deps", "intercept",
         "flags"}

\* A sequence of anything, of calls, of notes, and of dependencies.
List(s) == \E S : s \in Seq(S)
Calls(s) == \E S : s \in Seq(S) /\ \A c \in S : NamesPackages(c)
Notes(s) == \E S : s \in Seq(S) /\ \A note \in S : note[1] \in Noted
Depends(s, packages) == \E S : s \in Seq(S) /\ \A d \in S : d.of \in packages

Shape(r, packages) ==
  /\ DOMAIN r = Fields
  /\ r.state \in States
  /\ r.state \in {"looking", "adding"} => r.rest # <<>>
  /\ Calls(r.rest) /\ List(r.after) /\ Notes(r.desc) /\ Depends(r.deps, packages)
  /\ r.intercept \subseteq {"staging", "install"}
  /\ r.flags \subseteq {"clean", "keepStaging", "hashOutput", "codeUpdated"}

\* While a package looks a feature up, and of the last one it has looked up.
Look(p, r) ==
  /\ r.prefix \in Names /\ Len(r.prefix) <= Len(p[2]) /\ r.prefix = SubSeq(p[2], 1, Len(r.prefix))
  /\ \A n \in Len(r.prefix) + 1 .. Len(p[2]) : <<SubSeq(p[2], 1, n), r.asked>> \notin r.seen
  /\ r.state = "looking" => r.asked = Head(r.rest).key
  /\ r.state # "looking" /\ r.asked \in DOMAIN r.told /\ r.told[r.asked] = None
       => <<<<>>, r.asked>> \notin r.seen

Good(p, r, packages, known) == Shape(r, packages) /\ Look(p, r) /\ r.seen \subseteq known

PkgInv == \A p \in DOMAIN pkg : p[2] \in Names /\ Good(p, pkg[p], DOMAIN pkg, DOMAIN features)

\* What more packages and more features do to it: nothing.
LEMMA GoodMore ==
  ASSUME NEW p, NEW r, NEW packages, NEW known, Good(p, r, packages, known),
         NEW more, packages \subseteq more, NEW most, known \subseteq most
  PROVE  Good(p, r, more, most)
BY DEF Good, Shape, Depends

\* What it does not speak of may be anything.
LEMMA GoodSame ==
  ASSUME NEW p, NEW s, NEW packages, NEW known, Good(p, s, packages, known),
         NEW r, DOMAIN r = Fields, \A f \in Kept : r[f] = s[f]
  PROVE  Good(p, r, packages, known)
<1>1. /\ r.state = s.state /\ r.rest = s.rest /\ r.asked = s.asked /\ r.prefix = s.prefix
      /\ r.seen = s.seen /\ r.after = s.after /\ r.told = s.told /\ r.desc = s.desc
      /\ r.deps = s.deps /\ r.intercept = s.intercept /\ r.flags = s.flags
  BY DEF Kept
<1>2. Shape(r, packages)
  BY <1>1 DEF Good, Shape
<1>3. Look(p, r)
  BY <1>1, Zenon DEF Good, Look
<1> QED BY <1>1, <1>2, <1>3 DEF Good

\* A set of natural numbers has a least one.
LEMMA LeastIn ==
  ASSUME NEW S \in SUBSET Nat, S # {}
  PROVE  Min(S) \in S /\ \A n \in S : Min(S) <= n
<1> DEFINE less == {nm \in Nat \X Nat : nm[1] < nm[2]}
<1>1. IsWellFoundedOn(less, Nat)
  BY NatLessThanWellFounded DEF OpToRel
<1>2. \E x \in S : \A y \in S : <<y, x>> \notin less
  <2> HIDE DEF less
  <2> QED BY <1>1, WFMin
<1>3. PICK x \in S : \A y \in S : <<y, x>> \notin less
  BY <1>2
<1>4. \A n, m \in Nat : n < m => <<n, m>> \in less
  OBVIOUS
<1> HIDE DEF less
<1>5. \A y \in S : ~(y < x) /\ x \in Nat /\ y \in Nat
  BY <1>3, <1>4
<1>6. \A y \in S : x <= y
  BY <1>5
<1> QED BY <1>6 DEF Min

\* What is left of a file is a part of it.
LEMMA RestCalls ==
  ASSUME NEW s, NEW told, Calls(s)
  PROVE  Calls(Rest(s, told))
<1>1. PICK S : s \in Seq(S) /\ \A c \in S : NamesPackages(c)
  BY DEF Calls
<1> DEFINE made == {i \in DOMAIN s : Made(s[i], told)}
<1>2. CASE made = {}
  BY <1>1, <1>2 DEF Calls, Rest
<1>3. CASE made # {}
  <2>1. DOMAIN s = 1 .. Len(s) /\ Len(s) \in Nat
    BY <1>1
  <2>2. made \in SUBSET Nat
    BY <2>1
  <2>3. Min(made) \in 1 .. Len(s)
    <3> HIDE DEF made
    <3>1. Min(made) \in made
      BY <1>3, <2>2, LeastIn
    <3> QED BY <2>1, <3>1 DEF made
  <2>4. SubSeq(s, Min(made), Len(s)) \in Seq(S)
    <3> HIDE DEF made
    <3> QED BY <1>1, <2>1, <2>3
  <2> QED BY <1>1, <1>3, <2>4 DEF Calls, Rest
<1> QED BY <1>2, <1>3

\* Going on with the file, after a call.
LEMMA GoodRest ==
  ASSUME NEW p, NEW r, NEW packages, NEW known, Good(p, r, packages, known),
         r.state = "processing", r.rest # <<>>
  PROVE  Good(p, [r EXCEPT !.rest = Rest(Tail(@), r.told)], packages, known)
<1>1. Calls(Tail(r.rest))
  BY DEF Good, Shape, Calls
<1>2. Calls(Rest(Tail(r.rest), r.told))
  BY <1>1, RestCalls
<1> DEFINE after == Rest(Tail(r.rest), r.told)
           s == [r EXCEPT !.rest = after]
<1> HIDE DEF after
<1>3. /\ DOMAIN s = Fields /\ s.rest = after
      /\ s.state = r.state /\ s.asked = r.asked /\ s.prefix = r.prefix
      /\ s.seen = r.seen /\ s.after = r.after /\ s.told = r.told /\ s.desc = r.desc
      /\ s.deps = r.deps /\ s.intercept = r.intercept /\ s.flags = r.flags
  BY DEF Good, Shape, Fields
<1> HIDE DEF s
<1>4. Shape(s, packages)
  BY <1>2, <1>3 DEF Good, Shape, after
<1>5. Look(p, s)
  BY <1>3, Zenon DEF Good, Look
<1>6. Good(p, s, packages, known)
  BY <1>3, <1>4, <1>5 DEF Good
<1> QED BY <1>6 DEF s, after

\* A step that changes one package.
LEMMA OneChanged ==
  ASSUME PkgInv, NEW p \in DOMAIN pkg, NEW r, Good(p, r, DOMAIN pkg, DOMAIN features'),
         pkg' = [pkg EXCEPT ![p] = r], DOMAIN features \subseteq DOMAIN features'
  PROVE  PkgInv'
<1> SUFFICES ASSUME NEW q \in DOMAIN pkg
             PROVE  q[2] \in Names /\ Good(q, pkg'[q], DOMAIN pkg, DOMAIN features')
  BY DEF PkgInv
<1>1. Good(q, pkg[q], DOMAIN pkg, DOMAIN features')
  BY GoodMore DEF PkgInv
<1> QED BY <1>1 DEF PkgInv

\* A package at a call, and one that is done with it.
LEMMA AtCall ==
  ASSUME PkgInv, NEW p \in DOMAIN pkg
  PROVE  /\ Good(p, pkg[p], DOMAIN pkg, DOMAIN features) /\ DOMAIN pkg[p] = Fields
         /\ \A op : May(p, op) => pkg[p].state = "processing" /\ pkg[p].rest # <<>>
BY DEF PkgInv, Good, Shape, May, Is

\* A step after which the package is good, and its calls go on.
LEMMA BecameGood ==
  ASSUME PkgInv, NEW p \in DOMAIN pkg, NEW r, Good(p, r, DOMAIN pkg, DOMAIN features'),
         r.state = "processing", r.rest # <<>>, pkg' = Became(p, r),
         DOMAIN features \subseteq DOMAIN features'
  PROVE  PkgInv'
<1> DEFINE s == [r EXCEPT !.rest = Rest(Tail(@), r.told)]
<1>1. Good(p, s, DOMAIN pkg, DOMAIN features')
  BY GoodRest
<1>2. pkg' = [pkg EXCEPT ![p] = s]
  BY DEF Became
<1> HIDE DEF s
<1> QED BY <1>1, <1>2, OneChanged

\* A call that changes nothing the invariant is about, ...
LEMMA DoesSame ==
  ASSUME PkgInv, NEW p \in DOMAIN pkg, NEW op, May(p, op), NEW r, Does(p, r),
         DOMAIN r = Fields, \A f \in Kept : r[f] = pkg[p][f]
  PROVE  PkgInv'
<1>1. Good(p, r, DOMAIN pkg, DOMAIN features)
  BY AtCall, GoodSame
<1>2. r.state = "processing" /\ r.rest # <<>>
  BY AtCall DEF Kept
<1> QED BY <1>1, <1>2, BecameGood DEF Does

\* ... and one that adds to the flags.
LEMMA DoesFlags ==
  ASSUME PkgInv, NEW p \in DOMAIN pkg, NEW op, May(p, op), NEW r, Does(p, r),
         DOMAIN r = Fields, \A f \in Kept \ {"flags"} : r[f] = pkg[p][f],
         r.flags \subseteq pkg[p].flags \cup {"clean", "keepStaging", "hashOutput", "codeUpdated"}
  PROVE  PkgInv'
<1>1. Good(p, pkg[p], DOMAIN pkg, DOMAIN features)
  BY AtCall
<1>2. /\ r.state = pkg[p].state /\ r.rest = pkg[p].rest /\ r.asked = pkg[p].asked
      /\ r.prefix = pkg[p].prefix /\ r.seen = pkg[p].seen /\ r.after = pkg[p].after
      /\ r.told = pkg[p].told /\ r.desc = pkg[p].desc /\ r.deps = pkg[p].deps
      /\ r.intercept = pkg[p].intercept
  BY DEF Kept
<1>3. Shape(r, DOMAIN pkg)
  BY <1>1, <1>2 DEF Good, Shape
<1>4. Look(p, r)
  BY <1>1, <1>2, Zenon DEF Good, Look
<1>5. Good(p, r, DOMAIN pkg, DOMAIN features)
  BY <1>1, <1>2, <1>3, <1>4 DEF Good
<1>6. r.state = "processing" /\ r.rest # <<>>
  BY <1>2, AtCall
<1> QED BY <1>5, <1>6, BecameGood DEF Does

\* The calls that describe how the package is built, ...
LEMMA DescribesStep ==
  ASSUME PkgInv, NEW p \in DOMAIN pkg, Describes(p)
  PROVE  PkgInv'
<1>1. DOMAIN pkg[p] = Fields
  BY AtCall
<1>2. CASE BuildDir(p)
  <2>1. May(p, "builddir")
    BY <1>2 DEF BuildDir
  <2> DEFINE r == [pkg[p] EXCEPT !.flags = IF Call(p).clean THEN @ \cup {"clean"} ELSE @]
  <2>2. Does(p, r)
    BY <1>2 DEF BuildDir
  <2>3. /\ DOMAIN r = Fields /\ \A f \in Kept \ {"flags"} : r[f] = pkg[p][f]
        /\ r.flags \subseteq pkg[p].flags \cup {"clean", "keepStaging", "hashOutput", "codeUpdated"}
    BY <1>1 DEF Fields, Kept
  <2> HIDE DEF r
  <2> QED BY <2>1, <2>2, <2>3, DoesFlags
<1>3. ASSUME NEW op \in DOMAIN Flag, SetFlag(p, op) PROVE PkgInv'
  <2>1. May(p, op)
    BY <1>3 DEF SetFlag
  <2> DEFINE r == [pkg[p] EXCEPT !.flags = @ \cup {Flag[op]}]
  <2>2. Does(p, r)
    BY <1>3 DEF SetFlag
  <2>3. /\ DOMAIN r = Fields /\ \A f \in Kept \ {"flags"} : r[f] = pkg[p][f]
        /\ r.flags \subseteq pkg[p].flags \cup {"clean", "keepStaging", "hashOutput", "codeUpdated"}
    BY <1>1 DEF Fields, Kept, Flag
  <2> HIDE DEF r
  <2> QED BY <2>1, <2>2, <2>3, DoesFlags
<1>4. CASE InstallFile(p)
  <2>1. May(p, "installfile")
    BY <1>4 DEF InstallFile
  <2> DEFINE r == [pkg[p] EXCEPT !.install = Append(@, Call(p).file)]
  <2>2. Does(p, r)
    BY <1>4 DEF InstallFile
  <2>3. DOMAIN r = Fields /\ \A f \in Kept : r[f] = pkg[p][f]
    BY <1>1 DEF Fields, Kept
  <2> HIDE DEF r
  <2> QED BY <2>1, <2>2, <2>3, DoesSame
<1>5. ASSUME NEW op, May(p, op), NEW command, Does(p, [pkg[p] EXCEPT !.cmds = Append(@, command)])
      PROVE  PkgInv'
  <2> DEFINE r == [pkg[p] EXCEPT !.cmds = Append(@, command)]
  <2>1. DOMAIN r = Fields /\ \A f \in Kept : r[f] = pkg[p][f]
    BY <1>1 DEF Fields, Kept
  <2>2. Does(p, r)
    BY <1>5
  <2> HIDE DEF r
  <2> QED BY <1>5, <2>1, <2>2, DoesSame
<1>6. CASE Cmd(p)
  BY <1>5, <1>6, Zenon DEF Cmd
<1>7. CASE Restore(p)
  BY <1>5, <1>7, Zenon DEF Restore
<1>8. CASE Intercept(p)
  <2>1. May(p, "intercept")
    BY <1>8 DEF Intercept
  <2> DEFINE table == Call(p).table
             keys == IF "bare" \in DOMAIN Call(p) THEN {"install"} ELSE {k \in DOMAIN table : table[k]}
             r == [pkg[p] EXCEPT !.intercept = keys]
  <2>2. Does(p, r)
    BY <1>8 DEF Intercept
  <2>3. DOMAIN table \subseteq {"staging", "install"}
    BY <2>1 DEF May, Is, Refused, Keys
  <2>4. keys \subseteq {"staging", "install"}
    BY <2>3
  <2> HIDE DEF keys
  <2>5. /\ DOMAIN r = Fields /\ r.state = pkg[p].state /\ r.rest = pkg[p].rest /\ r.asked = pkg[p].asked
        /\ r.prefix = pkg[p].prefix /\ r.seen = pkg[p].seen /\ r.after = pkg[p].after
        /\ r.told = pkg[p].told /\ r.desc = pkg[p].desc /\ r.deps = pkg[p].deps
        /\ r.intercept = keys /\ r.flags = pkg[p].flags
    BY <1>1 DEF Fields
  <2> HIDE DEF r
  <2>6. Good(p, pkg[p], DOMAIN pkg, DOMAIN features)
    BY AtCall
  <2>7. Shape(r, DOMAIN pkg)
    BY <2>4, <2>5, <2>6 DEF Good, Shape
  <2>8. Look(p, r)
    BY <2>5, <2>6, Zenon DEF Good, Look
  <2>9. Good(p, r, DOMAIN pkg, DOMAIN features)
    BY <2>5, <2>6, <2>7, <2>8 DEF Good
  <2>10. r.state = "processing" /\ r.rest # <<>>
    BY <2>1, <2>5, AtCall
  <2> QED BY <2>2, <2>9, <2>10, BecameGood DEF Does
<1>9. CASE Ls(p)
  <2>1. May(p, "ls")
    BY <1>9 DEF Ls
  <2> DEFINE files == ListFiles(p, Call(p).location)
             r == [pkg[p] EXCEPT !.told = Put(@, "ls", <<files>>)]
  <2>2. Does(p, r)
    BY <1>9 DEF Ls
  <2> HIDE DEF files
  <2>3. /\ DOMAIN r = Fields /\ r.state = pkg[p].state /\ r.rest = pkg[p].rest /\ r.asked = pkg[p].asked
        /\ r.prefix = pkg[p].prefix /\ r.seen = pkg[p].seen /\ r.after = pkg[p].after
        /\ r.told = Put(pkg[p].told, "ls", <<files>>) /\ r.desc = pkg[p].desc /\ r.deps = pkg[p].deps
        /\ r.intercept = pkg[p].intercept /\ r.flags = pkg[p].flags
    BY <1>1 DEF Fields
  <2> HIDE DEF r
  <2>4. Good(p, pkg[p], DOMAIN pkg, DOMAIN features) /\ pkg[p].state = "processing"
    BY <2>1, AtCall
  <2>5. Shape(r, DOMAIN pkg)
    BY <2>3, <2>4 DEF Good, Shape
  <2>6. r.asked \in DOMAIN r.told /\ r.told[r.asked] = None
          => r.asked \in DOMAIN pkg[p].told /\ pkg[p].told[r.asked] = None
    BY <2>3 DEF Put, None
  <2>7. Look(p, r)
    BY <2>3, <2>4, <2>6, Zenon DEF Good, Look
  <2>8. Good(p, r, DOMAIN pkg, DOMAIN features)
    BY <2>3, <2>4, <2>5, <2>7 DEF Good
  <2>9. r.state = "processing" /\ r.rest # <<>>
    BY <2>1, <2>3, AtCall
  <2> QED BY <2>2, <2>8, <2>9, BecameGood DEF Does
<1> QED BY <1>2, <1>3, <1>4, <1>6, <1>7, <1>8, <1>9 DEF Describes

\* ... and those that gather what it is built from.
LEMMA GathersStep ==
  ASSUME PkgInv, NEW p \in DOMAIN pkg, Gathers(p)
  PROVE  PkgInv'
<1>1. DOMAIN pkg[p] = Fields
  BY AtCall
<1>2. ASSUME NEW op, May(p, op), NEW u, Does(p, [pkg[p] EXCEPT !.units = u])
      PROVE  PkgInv'
  <2> DEFINE r == [pkg[p] EXCEPT !.units = u]
  <2>1. DOMAIN r = Fields /\ \A f \in Kept : r[f] = pkg[p][f]
    BY <1>1 DEF Fields, Kept
  <2>2. Does(p, r)
    BY <1>2
  <2> HIDE DEF r
  <2> QED BY <1>2, <2>1, <2>2, DoesSame
<1>3. ASSUME NEW op, May(p, op), NEW type, NEW shown, NEW of, NEW content,
             Does(p, Unpacked(pkg[p], type, shown, of, content))
      PROVE  PkgInv'
  BY <1>2, <1>3 DEF Unpacked
<1>4. CASE FetchGit(p)
  BY <1>3, <1>4, Zenon DEF FetchGit, Fetch
<1>5. CASE LinkGit(p)
  BY <1>3, <1>5, Zenon DEF LinkGit, Fetch
<1>6. CASE CopyGit(p)
  BY <1>3, <1>6, Zenon DEF CopyGit, Fetch
<1>7. CASE CopyFile(p)
  BY <1>3, <1>7, Zenon DEF CopyFile, Fetch
<1>8. CASE Extract(p)
  BY <1>3, <1>8, Zenon DEF Extract
<1>9. CASE Patch(p)
  BY <1>2, <1>9 DEF Patch
<1>10. ASSUME NEW updated \in BOOLEAN, NEW f, NEW s, DOMAIN s = Fields,
              \A k \in Kept : s[k] = pkg[p][k],
              May(p, "fetch"), Does(p, Fetched(s, f, updated))
       PROVE  PkgInv'
  <2> DEFINE r == Fetched(s, f, updated)
  <2>1. /\ DOMAIN r = Fields /\ \A k \in Kept \ {"flags"} : r[k] = pkg[p][k]
        /\ r.flags \subseteq pkg[p].flags \cup {"clean", "keepStaging", "hashOutput", "codeUpdated"}
    BY <1>1, <1>10 DEF Fields, Kept, Fetched
  <2>2. Does(p, r)
    BY <1>10
  <2> HIDE DEF r
  <2> QED BY <1>10, <2>1, <2>2, DoesFlags
<1>11. ASSUME NEW u
       PROVE  LET s == [pkg[p] EXCEPT !.units = u] IN DOMAIN s = Fields /\ \A k \in Kept : s[k] = pkg[p][k]
  BY <1>1 DEF Fields, Kept
<1>12. CASE FetchDl(p)
  <2>1. May(p, "fetch")
    BY <1>12 DEF FetchDl, Fetch
  <2>2. PICK r, f : /\ r = pkg[p] \/ \E u : r = [pkg[p] EXCEPT !.units = u]
                    /\ Does(p, Fetched(r, f, FALSE))
    BY <1>12, Zenon DEF FetchDl, Unpacked
  <2> QED BY <1>1, <1>10, <1>11, <2>1, <2>2
<1>13. ASSUME NEW kind, FetchLocal(p, kind) PROVE PkgInv'
  <2>1. May(p, "fetch") /\ Does(p, Fetched(pkg[p], Source(p, kind), TRUE))
    BY <1>13 DEF FetchLocal, Fetch
  <2> QED BY <1>1, <1>10, <2>1
<1>14. CASE FetchDeps(p)
  <2>1. May(p, "fetch")
    BY <1>14 DEF FetchDeps, Fetch
  <2> DEFINE r == [pkg[p] EXCEPT !.extractTo = <<Arg(p, "to", ""), Arg(p, "listedonly", FALSE)>>,
                                 !.flags = @ \cup {"codeUpdated"}]
  <2>2. Does(p, r)
    BY <1>14 DEF FetchDeps
  <2>3. /\ DOMAIN r = Fields /\ \A f \in Kept \ {"flags"} : r[f] = pkg[p][f]
        /\ r.flags \subseteq pkg[p].flags \cup {"clean", "keepStaging", "hashOutput", "codeUpdated"}
    BY <1>1 DEF Fields, Kept
  <2> HIDE DEF r
  <2> QED BY <2>1, <2>2, <2>3, DoesFlags
<1> QED
  BY <1>4, <1>5, <1>6, <1>7, <1>8, <1>9, <1>12, <1>13, <1>14 DEF Gathers

-----------------------------------------------------------------------------
\* Asking for a feature.

\* A name without its last component.
LEMMA FrontOf ==
  ASSUME NEW s \in Names
  PROVE  /\ Len(s) \in Nat /\ SubSeq(s, 1, 0) = <<>> /\ SubSeq(s, 1, Len(s)) = s
         /\ s # <<>> => /\ Len(s) >= 1 /\ Front(s) \in Names
                        /\ Len(Front(s)) = Len(s) - 1 /\ Front(s) = SubSeq(s, 1, Len(s) - 1)
<1>1. Len(s) \in Nat
  BY DEF Names
<1>2. SubSeq(s, 1, 0) = <<>>
  BY SubSeqEmpty
<1>3. SubSeq(s, 1, Len(s)) = s
  BY SubSeqFull DEF Names
<1>4. ASSUME s # <<>>
      PROVE  /\ Len(s) >= 1 /\ Front(s) \in Names
             /\ Len(Front(s)) = Len(s) - 1 /\ Front(s) = SubSeq(s, 1, Len(s) - 1)
  <2>1. Len(s) >= 1 /\ \A i \in 1 .. Len(s) - 1 : s[i] \in STRING
    BY <1>1, <1>4 DEF Names
  <2>2. /\ SubSeq(s, 1, Len(s) - 1) \in Seq(STRING)
        /\ Len(SubSeq(s, 1, Len(s) - 1)) = IF 1 <= Len(s) - 1 THEN Len(s) - 1 - 1 + 1 ELSE 0
    BY <1>1, <2>1, SubSeqProperties
  <2>3. \A n \in Nat : n >= 1 => (IF 1 <= n - 1 THEN n - 1 - 1 + 1 ELSE 0) = n - 1
    OBVIOUS
  <2>4. Len(SubSeq(s, 1, Len(s) - 1)) = Len(s) - 1
    BY <1>1, <2>1, <2>2, <2>3, Zenon
  <2> QED BY <2>1, <2>2, <2>4, Zenon DEF Names, Front
<1> QED BY <1>1, <1>2, <1>3, <1>4

\* A lookup starts with the whole name, loses a component each time nothing is
\* there, so that under no longer one there was anything when it began.
LEMMA AsksStep ==
  ASSUME PkgInv, NEW p \in DOMAIN pkg, Asks(p)
  PROVE  PkgInv'
<1>1. /\ p[2] \in Names /\ Good(p, pkg[p], DOMAIN pkg, DOMAIN features)
      /\ DOMAIN pkg[p] = Fields
  BY AtCall DEF PkgInv
<1>2. CASE LookUp(p)
  <2> DEFINE r == [pkg[p] EXCEPT !.state = "looking", !.asked = Call(p).key,
                                 !.prefix = p[2], !.seen = DOMAIN features]
  <2>1. pkg' = [pkg EXCEPT ![p] = r] /\ features' = features
    BY <1>2 DEF LookUp
  <2>2. /\ DOMAIN r = Fields /\ r.state = "looking" /\ r.rest = pkg[p].rest /\ r.asked = Call(p).key
        /\ r.prefix = p[2] /\ r.seen = DOMAIN features /\ r.after = pkg[p].after
        /\ r.desc = pkg[p].desc /\ r.deps = pkg[p].deps
        /\ r.intercept = pkg[p].intercept /\ r.flags = pkg[p].flags
    BY <1>1 DEF Fields
  <2> HIDE DEF r
  <2>3. pkg[p].rest # <<>>
    BY <1>2, AtCall DEF LookUp
  <2>4. Shape(r, DOMAIN pkg)
    BY <1>1, <2>2, <2>3 DEF Good, Shape, States
  <2>5. Look(p, r)
    BY <1>1, <2>2, FrontOf DEF Look, Call
  <2>6. Good(p, r, DOMAIN pkg, DOMAIN features')
    BY <2>1, <2>2, <2>4, <2>5 DEF Good
  <2> QED BY <2>1, <2>6, OneChanged
<1>3. CASE KeyMissing(p)
  <2> DEFINE r == [pkg[p] EXCEPT !.prefix = Front(pkg[p].prefix)]
  <2>1. pkg' = [pkg EXCEPT ![p] = r] /\ features' = features
    BY <1>3 DEF KeyMissing, Shorter, ghosts
  <2>2. /\ DOMAIN r = Fields /\ r.state = pkg[p].state /\ r.rest = pkg[p].rest /\ r.asked = pkg[p].asked
        /\ r.prefix = Front(pkg[p].prefix) /\ r.seen = pkg[p].seen /\ r.after = pkg[p].after
        /\ r.told = pkg[p].told /\ r.desc = pkg[p].desc /\ r.deps = pkg[p].deps
        /\ r.intercept = pkg[p].intercept /\ r.flags = pkg[p].flags
    BY <1>1 DEF Fields
  <2> HIDE DEF r
  <2>3. Shape(r, DOMAIN pkg)
    BY <1>1, <2>2 DEF Good, Shape
  <2>4. /\ pkg[p].state = "looking" /\ pkg[p].prefix # <<>> /\ pkg[p].prefix \in Names
        /\ <<pkg[p].prefix, pkg[p].asked>> \notin pkg[p].seen
    BY <1>1, <1>3 DEF KeyMissing, Key, Call, Good, Look
  <2>5. Look(p, r)
    <3> DEFINE m == Len(pkg[p].prefix)
    <3>1. /\ m \in Nat /\ m >= 1 /\ m <= Len(p[2]) /\ Len(p[2]) \in Nat
          /\ r.prefix \in Names /\ Len(r.prefix) = m - 1 /\ pkg[p].prefix = SubSeq(p[2], 1, m)
          /\ r.prefix = SubSeq(pkg[p].prefix, 1, m - 1)
      BY <1>1, <2>2, <2>4, FrontOf DEF Good, Look
    <3> HIDE DEF m
    <3>2. r.prefix = SubSeq(p[2], 1, m - 1)
      BY <1>1, <3>1 DEF Names
    <3>3. \A n \in m - 1 + 1 .. Len(p[2]) : n = m \/ n \in m + 1 .. Len(p[2])
      BY <3>1
    <3>4. \A n \in m + 1 .. Len(p[2]) : <<SubSeq(p[2], 1, n), pkg[p].asked>> \notin pkg[p].seen
      BY <1>1, Zenon DEF Good, Look, m
    <3>5. \A n \in Len(r.prefix) + 1 .. Len(p[2]) : <<SubSeq(p[2], 1, n), r.asked>> \notin r.seen
      BY <2>2, <2>4, <3>1, <3>3, <3>4
    <3>6. Len(r.prefix) <= Len(p[2]) /\ r.prefix = SubSeq(p[2], 1, Len(r.prefix))
      BY <3>1, <3>2
    <3>7. r.asked = Head(r.rest).key
      BY <1>1, <2>2, <2>4 DEF Good, Look
    <3> QED BY <2>2, <2>4, <3>1, <3>5, <3>6, <3>7 DEF Look
  <2>6. Good(p, r, DOMAIN pkg, DOMAIN features')
    BY <1>1, <2>1, <2>2, <2>3, <2>5 DEF Good
  <2> QED BY <2>1, <2>6, OneChanged
<1>4. ASSUME NEW value, NEW note, Answer(p, value, note), features' = features,
             pkg[p].state = "looking", Len(note) \in Nat, note \in Seq({note[i] : i \in DOMAIN note}),
             \A i \in DOMAIN note : note[i][1] \in Noted,
             value = None => pkg[p].prefix = <<>> /\ Key(p) \notin DOMAIN features
      PROVE  PkgInv'
  <2> DEFINE r == [pkg[p] EXCEPT !.state = "processing", !.desc = @ \o note,
                                 !.told = Put(@, Call(p).key, value)]
  <2>1. pkg' = Became(p, r)
    BY <1>4 DEF Answer
  <2>2. /\ DOMAIN r = Fields /\ r.state = "processing" /\ r.rest = pkg[p].rest /\ r.asked = pkg[p].asked
        /\ r.prefix = pkg[p].prefix /\ r.seen = pkg[p].seen /\ r.after = pkg[p].after
        /\ r.told = Put(pkg[p].told, Call(p).key, value) /\ r.desc = pkg[p].desc \o note
        /\ r.deps = pkg[p].deps /\ r.intercept = pkg[p].intercept /\ r.flags = pkg[p].flags
    BY <1>1 DEF Fields
  <2> HIDE DEF r
  <2>3. pkg[p].rest # <<>> /\ pkg[p].asked = Call(p).key
    BY <1>1, <1>4 DEF Good, Shape, Look, Call
  <2>4. Notes(r.desc)
    <3>1. PICK S : pkg[p].desc \in Seq(S) /\ \A x \in S : x[1] \in Noted
      BY <1>1 DEF Good, Shape, Notes
    <3> DEFINE N == {note[i] : i \in DOMAIN note}
    <3>2. note \in Seq(N) /\ \A x \in N : x[1] \in Noted
      BY <1>4
    <3> HIDE DEF N
    <3>3. pkg[p].desc \in Seq(S \cup N) /\ note \in Seq(S \cup N)
      BY <3>1, <3>2
    <3>4. r.desc \in Seq(S \cup N)
      BY <2>2, <3>3
    <3> QED BY <3>1, <3>2, <3>4 DEF Notes
  <2>5. Shape(r, DOMAIN pkg)
    BY <1>1, <2>2, <2>3, <2>4 DEF Good, Shape, States
  <2>6. r.asked \in DOMAIN r.told /\ r.told[r.asked] = value
    BY <2>2, <2>3 DEF Put
  <2>7. value = None => <<<<>>, r.asked>> \notin r.seen
    BY <1>1, <1>4, <2>2, <2>3 DEF Key, Good
  <2>8. Look(p, r)
    BY <1>1, <2>2, <2>6, <2>7, Zenon DEF Good, Look
  <2>9. Good(p, r, DOMAIN pkg, DOMAIN features')
    BY <1>1, <1>4, <2>2, <2>5, <2>8 DEF Good
  <2>10. r.state = "processing" /\ r.rest # <<>>
    BY <2>2, <2>3
  <2> QED BY <1>4, <2>1, <2>9, <2>10, BecameGood
<1>5. CASE KeyFound(p)
  <2>1. PICK value, note : /\ Answer(p, <<value>>, note) /\ features' = features /\ pkg[p].state = "looking"
                           /\ note = <<>> \/ \E key : note = << <<"FeatureValue", key, value>> >>
    BY <1>5, Zenon DEF KeyFound, FeatureNote
  <2>2. /\ Len(note) \in Nat /\ note \in Seq({note[i] : i \in DOMAIN note})
        /\ \A i \in DOMAIN note : note[i][1] \in Noted
    <3>1. CASE note = <<>>
      BY <3>1
    <3>2. ASSUME NEW key, note = << <<"FeatureValue", key, value>> >>
          PROVE  /\ Len(note) \in Nat /\ note \in Seq({note[i] : i \in DOMAIN note})
                 /\ \A i \in DOMAIN note : note[i][1] \in Noted
      BY <3>2 DEF Noted
    <3> QED BY <2>1, <3>1, <3>2
  <2>3. <<value>> # None
    BY DEF None
  <2> QED BY <1>4, <2>1, <2>2, <2>3
<1>6. CASE NoKey(p)
  <2>1. PICK note : /\ Answer(p, None, note) /\ features' = features /\ pkg[p].state = "looking"
                    /\ \E key : note = << <<"FeatureNil", key>> >>
    BY <1>6, Zenon DEF NoKey, NilNote
  <2>2. /\ Len(note) \in Nat /\ note \in Seq({note[i] : i \in DOMAIN note})
        /\ \A i \in DOMAIN note : note[i][1] \in Noted
    BY <2>1 DEF Noted
  <2>3. pkg[p].prefix = <<>> /\ Key(p) \notin DOMAIN features
    BY <1>6 DEF NoKey
  <2> QED BY <1>4, <2>1, <2>2, <2>3
<1> QED BY <1>2, <1>3, <1>5, <1>6 DEF Asks

-----------------------------------------------------------------------------
\* The calls that have to do with other packages and with files.

\* A call, what runs when a file is run, and calls put together.
LEMMA OneCall ==
  ASSUME NEW c, NamesPackages(c)
  PROVE  Calls(<<c>>)
<1> DEFINE S == {c}
<1>1. <<c>> \in Seq(S)
  OBVIOUS
<1>2. \A d \in S : NamesPackages(d)
  <2> SUFFICES ASSUME NEW d \in S PROVE NamesPackages(d)
    OBVIOUS
  <2>1. d = c
    OBVIOUS
  <2> QED BY <2>1, Zenon
<1> HIDE DEF S
<1> QED BY <1>1, <1>2, Zenon DEF Calls

LEMMA RunCalls ==
  ASSUME NEW file
  PROVE  Calls(Run(file))
<1>1. CASE HashFile(file) \in DOMAIN Text
  <2>1. Run(file) \in Range(Text)
    BY <1>1 DEF Run, Range
  <2> QED BY <2>1, LuaAssumption DEF Calls
<1>2. CASE HashFile(file) \notin DOMAIN Text
  <2> DEFINE c == [op |-> "error"]
  <2>1. Run(file) = <<c>> /\ NamesPackages(c)
    BY <1>2 DEF Run, NamesPackages
  <2> HIDE DEF c
  <2> QED BY <2>1, OneCall
<1> QED BY <1>1, <1>2

LEMMA MoreCalls ==
  ASSUME NEW s, NEW t, Calls(s), Calls(t)
  PROVE  Calls(s \o t)
<1>1. PICK S : s \in Seq(S) /\ \A c \in S : NamesPackages(c)
  BY DEF Calls
<1>2. PICK T : t \in Seq(T) /\ \A c \in T : NamesPackages(c)
  BY DEF Calls
<1>3. s \in Seq(S \cup T) /\ t \in Seq(S \cup T)
  BY <1>1, <1>2
<1>4. s \o t \in Seq(S \cup T)
  BY <1>3
<1> QED BY <1>1, <1>2, <1>4 DEF Calls

\* A step of a package that leaves only its calls different, and its notes.
LEMMA RestChanged ==
  ASSUME PkgInv, NEW p \in DOMAIN pkg, NEW op, May(p, op), NEW rest, Calls(rest), rest # <<>>
  PROVE  /\ Good(p, [pkg[p] EXCEPT !.rest = rest], DOMAIN pkg, DOMAIN features)
         /\ [pkg[p] EXCEPT !.rest = rest].state = "processing"
         /\ [pkg[p] EXCEPT !.rest = rest].rest = rest
<1> DEFINE r == [pkg[p] EXCEPT !.rest = rest]
<1>1. DOMAIN pkg[p] = Fields /\ Good(p, pkg[p], DOMAIN pkg, DOMAIN features) /\ pkg[p].state = "processing"
  BY AtCall
<1>2. /\ DOMAIN r = Fields /\ r.state = pkg[p].state /\ r.rest = rest /\ r.asked = pkg[p].asked
      /\ r.prefix = pkg[p].prefix /\ r.seen = pkg[p].seen /\ r.after = pkg[p].after
      /\ r.told = pkg[p].told /\ r.desc = pkg[p].desc /\ r.deps = pkg[p].deps
      /\ r.intercept = pkg[p].intercept /\ r.flags = pkg[p].flags
  BY <1>1 DEF Fields
<1> HIDE DEF r
<1>3. Shape(r, DOMAIN pkg)
  BY <1>1, <1>2 DEF Good, Shape
<1>4. Look(p, r)
  BY <1>1, <1>2, Zenon DEF Good, Look
<1>5. Good(p, r, DOMAIN pkg, DOMAIN features)
  BY <1>1, <1>2, <1>3, <1>4 DEF Good
<1> QED BY <1>1, <1>2, <1>5 DEF r

\* The calls of another file go before what is left of this one.
LEMMA SpliceStep ==
  ASSUME PkgInv, NEW p \in DOMAIN pkg, NEW op \in {"require", "optional"}, May(p, op), NEW path, Splice(p, path)
  PROVE  PkgInv'
<1> DEFINE c == Call(p)
           last == [op |-> "required", file |-> c.file, path |-> path]
           rest == <<c>> \o Run(path) \o <<last>> \o Tail(pkg[p].rest)
           r == [pkg[p] EXCEPT !.rest = rest]
<1>1. Does(p, r)
  BY DEF Splice
<1>2. c.op = op /\ pkg[p].rest # <<>> /\ Calls(pkg[p].rest)
  BY AtCall DEF May, Is, Good, Shape
<1>3. Calls(<<c>>)
  <2>1. NamesPackages(c)
    BY <1>2 DEF NamesPackages
  <2> QED BY <2>1, OneCall, Zenon
<1>4. Calls(<<last>>)
  <2>1. NamesPackages(last)
    BY DEF NamesPackages
  <2> QED BY <2>1, OneCall, Zenon
<1>5. Calls(Tail(pkg[p].rest))
  BY <1>2 DEF Calls
<1>6. Calls(rest) /\ rest # <<>>
  <2> HIDE DEF c, last
  <2>1. Calls(<<c>> \o Run(path) \o <<last>> \o Tail(pkg[p].rest))
    BY <1>3, <1>4, <1>5, RunCalls, MoreCalls
  <2>2. PICK R : Run(path) \in Seq(R)
    BY RunCalls DEF Calls
  <2>3. PICK T : Tail(pkg[p].rest) \in Seq(T)
    BY <1>5 DEF Calls
  <2> DEFINE U == {c, last} \cup R \cup T
  <2>4. <<c>> \in Seq(U) /\ <<last>> \in Seq(U) /\ Run(path) \in Seq(U) /\ Tail(pkg[p].rest) \in Seq(U)
    BY <2>2, <2>3
  <2> HIDE DEF U
  <2>5. \A s, t \in Seq(U) : s \o t \in Seq(U) /\ (s # <<>> => s \o t # <<>>)
    OBVIOUS
  <2>6. <<c>> # <<>>
    OBVIOUS
  <2>7. rest # <<>>
    BY <2>4, <2>5, <2>6
  <2> QED BY <2>1, <2>7
<1> HIDE DEF rest
<1>7. Good(p, r, DOMAIN pkg, DOMAIN features) /\ r.state = "processing" /\ r.rest # <<>>
  BY <1>6, RestChanged
<1> HIDE DEF r
<1> QED BY <1>1, <1>7, BecameGood DEF Does

\* A package as it is created.
LEMMA NewGood ==
  ASSUME NEW q, q[2] \in Names, NEW file, NEW o, NEW packages, NEW known
  PROVE  Good(q, NewPackage(file, o), packages, known)
<1> DEFINE r == NewPackage(file, o)
<1>1. /\ DOMAIN r = Fields /\ r.state = "created" /\ r.rest = <<>> /\ r.asked = "" /\ r.prefix = <<>>
      /\ r.seen = {} /\ r.after = <<>> /\ r.told = <<>> /\ r.desc = <<>> /\ r.deps = <<>>
      /\ r.intercept = {} /\ r.flags \subseteq {"clean"}
  BY DEF NewPackage, Fields
<1> HIDE DEF r
<1>2. <<>> \in Seq({}) /\ <<>> \in Names /\ Len(<<>>) = 0
  BY DEF Names
<1>3. SubSeq(q[2], 1, 0) = <<>> /\ Len(q[2]) \in Nat
  BY FrontOf
<1>4. Calls(r.rest) /\ List(r.after) /\ Notes(r.desc) /\ Depends(r.deps, packages)
  BY <1>1, <1>2 DEF Calls, List, Notes, Depends
<1>5. Shape(r, packages)
  BY <1>1, <1>4 DEF Shape, States
<1>6. Look(q, r)
  <2>1. Len(r.prefix) = 0 /\ SubSeq(q[2], 1, Len(r.prefix)) = r.prefix /\ r.prefix \in Names
    BY <1>1, <1>2, <1>3, Zenon
  <2>2. 0 <= Len(q[2])
    BY <1>3
  <2>3. r.state # "looking"
    BY <1>1
  <2> QED BY <1>1, <2>1, <2>2, <2>3, Zenon DEF Look
<1> QED BY <1>1, <1>5, <1>6 DEF Good, r

\* What depend() names.
LEMMA NamesCall ==
  ASSUME PkgInv, NEW p \in DOMAIN pkg, May(p, "depend")
  PROVE  /\ Call(p).table.packages \in Seq(Names) \ {<<>>} /\ Dependency(p)[2] \in Names
         /\ {"op", "table"} \subseteq DOMAIN Call(p) /\ "packages" \in DOMAIN Call(p).table
         /\ Call(p).op = "depend"
<1>1. pkg[p].rest # <<>> /\ Calls(pkg[p].rest) /\ Call(p).op = "depend" /\ ~Refused(p)
  BY AtCall DEF May, Is, Good, Shape
<1>2. NamesPackages(Call(p))
  BY <1>1 DEF Calls, Call
<1>3. DOMAIN Call(p).table \subseteq Keys.depend
  BY <1>1 DEF Refused, Keys
<1>4. /\ {"op", "table"} \subseteq DOMAIN Call(p) /\ "packages" \in DOMAIN Call(p).table
      /\ Call(p).table.packages \in Seq(Names) \ {<<>>}
  BY <1>1, <1>2, <1>3 DEF NamesPackages
<1>5. Head(Call(p).table.packages) \in Names
  BY <1>4
<1> QED BY <1>1, <1>4, <1>5 DEF Dependency

\* depend() adds a package, if there is none, and one dependency on it.
LEMMA DependStep ==
  ASSUME PkgInv, NEW p \in DOMAIN pkg, Depend(p)
  PROVE  PkgInv'
<1> DEFINE q == Dependency(p)
           names == Call(p).table.packages
           dep == [of |-> q, own |-> "namespace" \notin DOMAIN Call(p).table, locally |-> Arg(p, "locally", FALSE)]
           r == [pkg[p] EXCEPT !.deps = Append(@, dep)]
           s == [r EXCEPT !.rest = Rest(Tail(@), r.told)]
           t == [r EXCEPT !.rest[1].table.packages = Tail(names)]
           more == DOMAIN pkg \cup {q}
<1>1. May(p, "depend") /\ features' = features
  BY DEF Depend, ghosts
<1>2. \E a \in {s, t} : /\ Len(names) # 1 \/ a = s
                        /\ Len(names) = 1 \/ a = t
                        /\ pkg' = FindPackage([pkg EXCEPT ![p] = a], q)
  BY DEF Depend, Became
<1>3. /\ Good(p, pkg[p], more, DOMAIN features) /\ DOMAIN pkg[p] = Fields
      /\ pkg[p].state = "processing" /\ pkg[p].rest # <<>>
  BY <1>1, AtCall, GoodMore
<1>4. /\ DOMAIN r = Fields /\ r.state = pkg[p].state /\ r.rest = pkg[p].rest /\ r.asked = pkg[p].asked
      /\ r.prefix = pkg[p].prefix /\ r.seen = pkg[p].seen /\ r.after = pkg[p].after
      /\ r.told = pkg[p].told /\ r.desc = pkg[p].desc /\ r.deps = Append(pkg[p].deps, dep)
      /\ r.intercept = pkg[p].intercept /\ r.flags = pkg[p].flags
  BY <1>3 DEF Fields
<1>5. dep.of \in more
  OBVIOUS
<1> HIDE DEF r, dep, more
<1>6. Depends(r.deps, more)
  <2>1. PICK S : pkg[p].deps \in Seq(S) /\ \A d \in S : d.of \in more
    BY <1>3 DEF Good, Shape, Depends
  <2>2. r.deps \in Seq(S \cup {dep})
    BY <1>4, <2>1
  <2> QED BY <1>5, <2>1, <2>2 DEF Depends
<1>7. Shape(r, more)
  BY <1>3, <1>4, <1>6 DEF Good, Shape
<1>8. Look(p, r)
  BY <1>3, <1>4, Zenon DEF Good, Look
<1>9. Good(p, r, more, DOMAIN features)
  BY <1>3, <1>4, <1>7, <1>8 DEF Good
<1>10. Good(p, s, more, DOMAIN features)
  BY <1>3, <1>4, <1>9, GoodRest
<1>11. ASSUME Len(names) # 1
       PROVE  Good(p, t, more, DOMAIN features)
  <2> DEFINE rest == [pkg[p].rest EXCEPT ![1].table.packages = Tail(names)]
  <2>1. PICK S : pkg[p].rest \in Seq(S) /\ \A c \in S : NamesPackages(c)
    BY <1>3 DEF Good, Shape, Calls
  <2> DEFINE c == [Call(p) EXCEPT !.table.packages = Tail(names)]
  <2>2. Call(p) = pkg[p].rest[1] /\ 1 \in 1 .. Len(pkg[p].rest)
    BY <1>3, <2>1 DEF Call
  <2>3. rest \in Seq(S \cup {c}) /\ rest # <<>>
    BY <2>1, <2>2
  <2>4. NamesPackages(c)
    <3>1. /\ names \in Seq(Names) /\ names # <<>> /\ {"op", "table"} \subseteq DOMAIN Call(p)
          /\ "packages" \in DOMAIN Call(p).table
      BY <1>1, NamesCall
    <3>2. Tail(names) \in Seq(Names) /\ Tail(names) # <<>>
      <4> HIDE DEF names
      <4>1. Tail(names) \in Seq(Names) /\ Len(Tail(names)) = Len(names) - 1 /\ Len(names) \in Nat
        BY <3>1, HeadTailProperties
      <4>2. Len(names) >= 1
        BY <3>1
      <4>3. Len(<<>>) = 0
        OBVIOUS
      <4>4. \A n \in Nat : n >= 1 /\ n # 1 => n - 1 # 0
        OBVIOUS
      <4> QED BY <1>11, <4>1, <4>2, <4>3, <4>4, Zenon
    <3>3. DOMAIN c = DOMAIN Call(p) /\ DOMAIN c.table = DOMAIN Call(p).table /\ c.table.packages = Tail(names)
      BY <3>1
    <3> QED BY <3>1, <3>2, <3>3 DEF NamesPackages
  <2> HIDE DEF c
  <2>5. Calls(rest)
    BY <2>1, <2>3, <2>4 DEF Calls
  <2>6. t = [r EXCEPT !.rest = rest]
    BY <1>4
  <2> HIDE DEF rest
  <2>7. /\ DOMAIN t = Fields /\ t.state = r.state /\ t.rest = rest /\ t.asked = r.asked
        /\ t.prefix = r.prefix /\ t.seen = r.seen /\ t.after = r.after
        /\ t.told = r.told /\ t.desc = r.desc /\ t.deps = r.deps
        /\ t.intercept = r.intercept /\ t.flags = r.flags
    BY <1>4, <2>6 DEF Fields
  <2> HIDE DEF t
  <2>8. Shape(t, more)
    BY <1>7, <2>3, <2>5, <2>7 DEF Shape
  <2>9. Look(p, t)
    BY <1>3, <1>4, <1>8, <2>7, Zenon DEF Look
  <2> QED BY <1>9, <2>7, <2>8, <2>9 DEF Good
<1>12. PICK a : Good(p, a, more, DOMAIN features) /\ pkg' = FindPackage([pkg EXCEPT ![p] = a], q)
  BY <1>2, <1>10, <1>11
<1>13. q[2] \in Names
  BY <1>1, NamesCall
<1> HIDE DEF q
<1>14. /\ DOMAIN pkg' = more /\ pkg'[p] = a
       /\ \A u \in more : u # p => \/ u \in DOMAIN pkg /\ pkg'[u] = pkg[u]
                                   \/ u = q /\ pkg'[u] = NewPackage(PackageFile(u[2]), options)
  BY <1>12 DEF FindPackage, Put, more
<1>15. ASSUME NEW u \in more
       PROVE  u[2] \in Names /\ Good(u, pkg'[u], more, DOMAIN features)
  <2>1. CASE u = p
    BY <1>12, <1>14, <2>1 DEF PkgInv
  <2>2. CASE u \in DOMAIN pkg /\ pkg'[u] = pkg[u]
    BY <2>2, GoodMore DEF PkgInv, more
  <2>3. CASE u = q /\ pkg'[u] = NewPackage(PackageFile(u[2]), options)
    BY <1>13, <2>3, NewGood
  <2> QED BY <1>14, <2>1, <2>2, <2>3
<1> QED BY <1>1, <1>14, <1>15 DEF PkgInv

\* A note is added.
LEMMA RequiredStep ==
  ASSUME PkgInv, NEW p \in DOMAIN pkg, Required(p)
  PROVE  PkgInv'
<1> DEFINE note == RequireNote(Call(p).file, Call(p).path)
           r == [pkg[p] EXCEPT !.desc = @ \o note]
<1>1. May(p, "required") /\ Does(p, r)
  BY DEF Required
<1>2. \E x : note = <<x>> /\ x[1] \in Noted
  <2> DEFINE x == <<"RequireFile", Call(p).file, HashFile(Call(p).path)>>
  <2>1. note = <<x>>
    BY DEF RequireNote
  <2>2. x[1] \in Noted
    BY DEF Noted
  <2> HIDE DEF x, note
  <2> QED BY <2>1, <2>2
<1> HIDE DEF note
<1>3. DOMAIN pkg[p] = Fields /\ Good(p, pkg[p], DOMAIN pkg, DOMAIN features)
  BY AtCall
<1>4. /\ DOMAIN r = Fields /\ r.state = pkg[p].state /\ r.rest = pkg[p].rest /\ r.asked = pkg[p].asked
      /\ r.prefix = pkg[p].prefix /\ r.seen = pkg[p].seen /\ r.after = pkg[p].after
      /\ r.told = pkg[p].told /\ r.desc = pkg[p].desc \o note /\ r.deps = pkg[p].deps
      /\ r.intercept = pkg[p].intercept /\ r.flags = pkg[p].flags
  BY <1>3 DEF Fields
<1> HIDE DEF r
<1>5. Notes(r.desc)
  <2>1. PICK S : pkg[p].desc \in Seq(S) /\ \A x \in S : x[1] \in Noted
    BY <1>3 DEF Good, Shape, Notes
  <2>2. PICK x : note = <<x>> /\ x[1] \in Noted
    BY <1>2
  <2>3. r.desc \in Seq(S \cup {x})
    BY <1>4, <2>1, <2>2
  <2> QED BY <2>1, <2>2, <2>3 DEF Notes
<1>6. Shape(r, DOMAIN pkg)
  BY <1>3, <1>4, <1>5 DEF Good, Shape
<1>7. Look(p, r)
  BY <1>3, <1>4, Zenon DEF Good, Look
<1>8. Good(p, r, DOMAIN pkg, DOMAIN features)
  BY <1>3, <1>4, <1>6, <1>7 DEF Good
<1>9. r.state = "processing" /\ r.rest # <<>>
  BY <1>1, <1>4, AtCall
<1> QED BY <1>1, <1>8, <1>9, BecameGood DEF Does

\* The overlays start with the directory itself.
OverlayInv == List(overlays) /\ overlays # <<>> /\ Head(overlays) = "."

\* An insertion goes after the first entry, in one step and in two.
LEMMA OverlayStep ==
  ASSUME PkgInv, OverlayInv, NEW p \in DOMAIN pkg, OverlayReach(p) \/ OverlayLink(p)
  PROVE  PkgInv' /\ OverlayInv'
<1>1. DOMAIN pkg[p] = Fields /\ Good(p, pkg[p], DOMAIN pkg, DOMAIN features)
  BY AtCall
<1>2. PICK S : overlays \in Seq(S)
  BY DEF OverlayInv, List
<1>3. CASE OverlayReach(p)
  <2> DEFINE r == [pkg[p] EXCEPT !.state = "adding", !.after = Tail(overlays)]
  <2>1. May(p, "overlay") /\ pkg' = [pkg EXCEPT ![p] = r] /\ UNCHANGED <<features, overlays>>
    BY <1>3 DEF OverlayReach
  <2>2. /\ DOMAIN r = Fields /\ r.state = "adding" /\ r.rest = pkg[p].rest /\ r.asked = pkg[p].asked
        /\ r.prefix = pkg[p].prefix /\ r.seen = pkg[p].seen /\ r.after = Tail(overlays)
        /\ r.told = pkg[p].told /\ r.desc = pkg[p].desc /\ r.deps = pkg[p].deps
        /\ r.intercept = pkg[p].intercept /\ r.flags = pkg[p].flags
    BY <1>1 DEF Fields
  <2> HIDE DEF r
  <2>3. pkg[p].rest # <<>> /\ pkg[p].state = "processing"
    BY <2>1, AtCall
  <2>4. Tail(overlays) \in Seq(S)
    BY <1>2 DEF OverlayInv
  <2>5. Shape(r, DOMAIN pkg)
    BY <1>1, <2>2, <2>3, <2>4 DEF Good, Shape, States, List
  <2>6. Look(p, r)
    <3>1. pkg[p].state # "looking" /\ r.state # "looking"
      BY <2>2, <2>3
    <3> QED BY <1>1, <2>2, <3>1, Zenon DEF Good, Look
  <2>7. Good(p, r, DOMAIN pkg, DOMAIN features')
    BY <1>1, <2>1, <2>2, <2>5, <2>6 DEF Good
  <2> QED BY <2>1, <2>7, OneChanged DEF OverlayInv
<1>4. CASE OverlayLink(p)
  <2> DEFINE r == [pkg[p] EXCEPT !.state = "processing", !.after = <<>>]
  <2>1. pkg[p].state = "adding" /\ pkg' = Became(p, r) /\ features' = features
    BY <1>4 DEF OverlayLink, ghosts
  <2>2. /\ DOMAIN r = Fields /\ r.state = "processing" /\ r.rest = pkg[p].rest /\ r.asked = pkg[p].asked
        /\ r.prefix = pkg[p].prefix /\ r.seen = pkg[p].seen /\ r.after = <<>>
        /\ r.told = pkg[p].told /\ r.desc = pkg[p].desc /\ r.deps = pkg[p].deps
        /\ r.intercept = pkg[p].intercept /\ r.flags = pkg[p].flags
    BY <1>1 DEF Fields
  <2> HIDE DEF r
  <2>3. pkg[p].rest # <<>>
    BY <1>1, <2>1 DEF Good, Shape
  <2>4. <<>> \in Seq({})
    OBVIOUS
  <2>5. Shape(r, DOMAIN pkg)
    BY <1>1, <2>2, <2>3, <2>4 DEF Good, Shape, States, List
  <2>6. Look(p, r)
    <3>1. pkg[p].state # "looking" /\ r.state # "looking"
      BY <2>1, <2>2
    <3> QED BY <1>1, <2>2, <3>1, Zenon DEF Good, Look
  <2>7. Good(p, r, DOMAIN pkg, DOMAIN features')
    BY <1>1, <2>1, <2>2, <2>5, <2>6 DEF Good
  <2>8. PkgInv'
    <3>1. r.rest # <<>>
      BY <2>2, <2>3
    <3> QED BY <2>1, <2>2, <2>7, <3>1, BecameGood
  <2>9. PICK T : pkg[p].after \in Seq(T)
    BY <1>1 DEF Good, Shape, List
  <2> DEFINE others == SubSeq(overlays, 2, Len(overlays) - Len(pkg[p].after))
  <2>10. PICK kept \in 0 .. Len(others) :
           overlays' = <<".">> \o SubSeq(others, 1, kept) \o <<Call(p).path>> \o pkg[p].after
    BY <1>4 DEF OverlayLink
  <2> DEFINE U == {".", Call(p).path} \cup S \cup T
  <2>11. others \in Seq(S)
    <3>1. Len(overlays) \in Nat /\ Len(pkg[p].after) \in Nat
      BY <1>2, <2>9
    <3>2. \A i \in 2 .. Len(overlays) - Len(pkg[p].after) : overlays[i] \in S
      BY <1>2, <3>1
    <3> QED BY <3>1, <3>2, SubSeqProperties
  <2> HIDE DEF others
  <2>12. SubSeq(others, 1, kept) \in Seq(S)
    <3>1. Len(others) \in Nat /\ \A i \in 1 .. kept : others[i] \in S
      BY <2>10, <2>11
    <3> QED BY <2>10, <3>1, SubSeqProperties
  <2>13. /\ <<".">> \in Seq(U) /\ SubSeq(others, 1, kept) \in Seq(U)
         /\ <<Call(p).path>> \in Seq(U) /\ pkg[p].after \in Seq(U)
    BY <2>9, <2>12
  <2> HIDE DEF U
  <2>14. \A s, t \in Seq(U) : s \o t \in Seq(U) /\ (s # <<>> => s \o t # <<>> /\ Head(s \o t) = Head(s))
    OBVIOUS
  <2>15. <<".">> # <<>> /\ Head(<<".">>) = "."
    OBVIOUS
  <2>16. OverlayInv'
    <3> DEFINE first == <<".">> \o SubSeq(others, 1, kept)
               second == first \o <<Call(p).path>>
               third == second \o pkg[p].after
    <3>1. first \in Seq(U) /\ first # <<>> /\ Head(first) = "."
      BY <2>13, <2>14, <2>15
    <3> HIDE DEF first
    <3>2. second \in Seq(U) /\ second # <<>> /\ Head(second) = "."
      BY <2>13, <2>14, <3>1
    <3> HIDE DEF second
    <3>3. third \in Seq(U) /\ third # <<>> /\ Head(third) = "."
      BY <2>13, <2>14, <3>2
    <3>4. overlays' = third
      BY <2>10 DEF first, second
    <3> QED BY <3>3, <3>4 DEF OverlayInv, List
  <2> QED BY <2>8, <2>16
<1> QED BY <1>3, <1>4

\* The calls on what packages share.
LEMMA SharesStep ==
  ASSUME PkgInv, OverlayInv, NEW p \in DOMAIN pkg, Shares(p)
  PROVE  PkgInv' /\ OverlayInv'
<1>1. CASE FeatureSet(p)
  <2>1. May(p, "set") /\ pkg' = Became(p, pkg[p]) /\ overlays' = overlays
        /\ DOMAIN features \subseteq DOMAIN features'
    BY <1>1 DEF FeatureSet, SetFeature, Put
  <2>2. Good(p, pkg[p], DOMAIN pkg, DOMAIN features') /\ pkg[p].state = "processing" /\ pkg[p].rest # <<>>
    BY <2>1, AtCall, GoodMore
  <2> QED BY <2>1, <2>2, BecameGood DEF OverlayInv
<1>2. CASE Depend(p)
  BY <1>2, DependStep DEF Depend, OverlayInv
<1>3. CASE Required(p)
  BY <1>3, RequiredStep DEF Required, Does, OverlayInv
<1>4. CASE Require(p)
  <2>1. PICK path : Splice(p, path) /\ May(p, "require")
    BY <1>4, Zenon DEF Require
  <2> QED BY <2>1, SpliceStep DEF Splice, Does, OverlayInv
<1>5. CASE OptionallyRequire(p)
  <2>1. May(p, "optional") /\ (Does(p, pkg[p]) \/ \E path : Splice(p, path))
    BY <1>5, Zenon DEF OptionallyRequire
  <2>2. CASE Does(p, pkg[p])
    BY <2>1, <2>2, AtCall, DoesSame DEF Does, OverlayInv
  <2>3. ASSUME NEW path, Splice(p, path) PROVE PkgInv' /\ OverlayInv'
    BY <2>1, <2>3, SpliceStep DEF Splice, Does, OverlayInv
  <2> QED BY <2>1, <2>2, <2>3
<1> QED BY <1>1, <1>2, <1>3, <1>4, <1>5, OverlayStep DEF Shares

\* A note.
LEMMA OneNote ==
  ASSUME NEW x, x[1] \in Noted
  PROVE  Notes(<<x>>)
<1> DEFINE S == {x}
<1>1. <<x>> \in Seq(S)
  OBVIOUS
<1>2. \A y \in S : y[1] \in Noted
  OBVIOUS
<1> HIDE DEF S
<1> QED BY <1>1, <1>2, Zenon DEF Notes

\* A package's file begins and ends.
LEMMA LifeStep ==
  ASSUME PkgInv, NEW p \in DOMAIN pkg, Process(p) \/ Processed(p) \/ LuaError(p)
  PROVE  PkgInv'
<1>1. DOMAIN pkg[p] = Fields /\ Good(p, pkg[p], DOMAIN pkg, DOMAIN features) /\ features' = features
  BY AtCall DEF Process, Processed, LuaError
<1>2. CASE Process(p)
  <2> DEFINE note == PackageNote(p[2], HashFile(pkg[p].file))
             calls == Rest(Run(pkg[p].file), <<>>)
             r == [pkg[p] EXCEPT !.state = "processing", !.desc = note, !.rest = calls]
  <2>1. pkg' = [pkg EXCEPT ![p] = r] /\ pkg[p].state = "created"
    BY <1>2 DEF Process
  <2>2. Calls(calls)
    BY RunCalls, RestCalls
  <2>3. Notes(note)
    <3> DEFINE x == <<"PackageFile", p[2], HashFile(pkg[p].file)>>
    <3>1. note = <<x>>
      BY DEF PackageNote
    <3>2. x[1] \in Noted
      BY DEF Noted
    <3> HIDE DEF x, note
    <3> QED BY <3>1, <3>2, OneNote
  <2> HIDE DEF note, calls
  <2>4. /\ DOMAIN r = Fields /\ r.state = "processing" /\ r.rest = calls /\ r.asked = pkg[p].asked
        /\ r.prefix = pkg[p].prefix /\ r.seen = pkg[p].seen /\ r.after = pkg[p].after
        /\ r.told = pkg[p].told /\ r.desc = note /\ r.deps = pkg[p].deps
        /\ r.intercept = pkg[p].intercept /\ r.flags = pkg[p].flags
    BY <1>1 DEF Fields
  <2> HIDE DEF r
  <2>5. Shape(r, DOMAIN pkg)
    BY <1>1, <2>2, <2>3, <2>4 DEF Good, Shape, States
  <2>6. Look(p, r)
    <3>1. pkg[p].state # "looking" /\ r.state # "looking"
      BY <2>1, <2>4
    <3> QED BY <1>1, <2>4, <3>1, Zenon DEF Good, Look
  <2>7. Good(p, r, DOMAIN pkg, DOMAIN features')
    BY <1>1, <2>4, <2>5, <2>6 DEF Good
  <2> QED BY <1>1, <2>1, <2>7, OneChanged
<1>3. ASSUME NEW state \in {"done", "failed"}, pkg[p].state = "processing",
             pkg' = [pkg EXCEPT ![p].state = state]
      PROVE  PkgInv'
  <2> DEFINE r == [pkg[p] EXCEPT !.state = state]
  <2>1. pkg' = [pkg EXCEPT ![p] = r]
    BY <1>3
  <2>2. /\ DOMAIN r = Fields /\ r.state = state /\ r.rest = pkg[p].rest /\ r.asked = pkg[p].asked
        /\ r.prefix = pkg[p].prefix /\ r.seen = pkg[p].seen /\ r.after = pkg[p].after
        /\ r.told = pkg[p].told /\ r.desc = pkg[p].desc /\ r.deps = pkg[p].deps
        /\ r.intercept = pkg[p].intercept /\ r.flags = pkg[p].flags
    BY <1>1 DEF Fields
  <2> HIDE DEF r
  <2>3. Shape(r, DOMAIN pkg)
    BY <1>1, <1>3, <2>2 DEF Good, Shape, States
  <2>4. Look(p, r)
    <3>1. pkg[p].state # "looking" /\ r.state # "looking"
      BY <1>3, <2>2
    <3> QED BY <1>1, <2>2, <3>1, Zenon DEF Good, Look
  <2>5. Good(p, r, DOMAIN pkg, DOMAIN features')
    BY <1>1, <2>2, <2>3, <2>4 DEF Good
  <2> QED BY <1>1, <2>1, <2>5, OneChanged
<1> QED BY <1>2, <1>3 DEF Process, Processed, LuaError

-----------------------------------------------------------------------------
(* The whole specification.                                                *)

IInv == HeardInv /\ PkgInv /\ OverlayInv /\ exit \in {"none", "usage", "failed", "printed", "building"}

\* Options with texts of tokens in the lists of its flags.
Settings == {"reading", "flag", "given", "single", "many", "limit", "inParallel", "forced", "features"}
Plain(o, texts) == DOMAIN o = Settings /\ o.many \in [Many -> Seq(texts)]

\* No token, an error and any token leave them so.
LEMMA NoOptionsPlain == ASSUME NEW texts PROVE Plain(NoOptions, texts)
BY DEF Plain, NoOptions, Settings

LEMMA WrongPlain ==
  ASSUME NEW o, NEW texts, Plain(o, texts)
  PROVE  Plain(Wrong(o), texts) /\ Wrong(o).many = o.many
BY DEF Plain, Wrong, Settings

LEMMA TokenPlain ==
  ASSUME NEW o, NEW texts, Plain(o, texts), NEW token, token.text \in texts
  PROVE  Plain(TakeToken(o, token), texts)
<1> USE DEF Plain, Settings
<1>1. Plain(TakeFlag(o, token), texts)
  BY WrongPlain DEF TakeFlag
<1>2. Plain(TakeFeature(o, token), texts)
  BY WrongPlain DEF TakeFeature
<1>3. Plain(TakeValue(o, token), texts)
  BY WrongPlain DEF TakeValue
<1> QED BY <1>1, <1>2, <1>3 DEF TakeToken

\* The recursion of Read has a solution: that of one token less, and one more.
LEMMA ReadIs ==
  ASSUME NEW s, Len(s) \in Nat
  PROVE  Read(s) = [n \in 0 .. Len(s) |->
                      IF n = 0 THEN NoOptions ELSE TakeToken(Read(s)[n - 1], s[n])]
<1> DEFINE Solves(r, m) == r = [n \in 0 .. m |-> IF n = 0 THEN NoOptions ELSE TakeToken(r[n - 1], s[n])]
           Unsolved == {m \in 0 .. Len(s) : \A r : ~Solves(r, m)}
<1>1. ASSUME NEW m \in Nat, NEW r, Solves(r, m)
      PROVE  \E more : Solves(more, m + 1)
  <2> DEFINE next == TakeToken(r[m], s[m + 1])
             more == [n \in 0 .. m + 1 |-> IF n = m + 1 THEN next ELSE r[n]]
  <2>1. \A n \in 0 .. m : n \in 0 .. m + 1 /\ n # m + 1 /\ more[n] = r[n]
    OBVIOUS
  <2>2. more[m + 1] = next /\ (m + 1) - 1 = m /\ m \in 0 .. m /\ m + 1 # 0
    OBVIOUS
  <2>3. \A n \in 0 .. m : n # 0 => n - 1 \in 0 .. m
    OBVIOUS
  <2>4. \A n \in 0 .. m : r[n] = IF n = 0 THEN NoOptions ELSE TakeToken(r[n - 1], s[n])
    BY <1>1
  <2>5. more = [n \in 0 .. m + 1 |-> more[n]]
    OBVIOUS
  <2>6. \A n \in 0 .. m + 1 : n \in 0 .. m \/ n = m + 1
    OBVIOUS
  <2> HIDE DEF more, Solves
  <2>7. \A n \in 0 .. m : more[n] = IF n = 0 THEN NoOptions ELSE TakeToken(more[n - 1], s[n])
    BY <2>1, <2>3, <2>4
  <2>8. more[m + 1] = TakeToken(more[m], s[m + 1])
    BY <2>1, <2>2
  <2>9. more = [n \in 0 .. m + 1 |-> IF n = 0 THEN NoOptions ELSE TakeToken(more[n - 1], s[n])]
    BY <2>2, <2>5, <2>6, <2>7, <2>8
  <2> QED BY <2>9 DEF Solves
<1>2. \E r : Solves(r, 0)
  <2>1. Solves([n \in 0 .. 0 |-> NoOptions], 0)
    OBVIOUS
  <2> QED BY <2>1
<1> HIDE DEF Solves
<1>3. Unsolved = {}
  <2> SUFFICES ASSUME Unsolved # {} PROVE FALSE
    OBVIOUS
  <2>1. Unsolved \in SUBSET Nat
    OBVIOUS
  <2>2. Min(Unsolved) \in Unsolved /\ \A m \in Unsolved : Min(Unsolved) <= m
    <3> HIDE DEF Unsolved
    <3> QED BY <2>1, LeastIn
  <2> DEFINE m == Min(Unsolved)
  <2>3. m \in 0 .. Len(s) /\ (\A r : ~Solves(r, m)) /\ \A k \in Unsolved : m <= k
    BY <2>2
  <2> HIDE DEF m
  <2>4. m # 0
    BY <1>2, <2>3
  <2>5. m - 1 \in Nat /\ m - 1 \in 0 .. Len(s) /\ (m - 1) + 1 = m /\ ~(m <= m - 1)
    BY <2>3, <2>4
  <2>6. m - 1 \notin Unsolved
    BY <2>3, <2>5, Zenon
  <2>7. PICK r : Solves(r, m - 1)
    BY <2>5, <2>6
  <2> QED BY <1>1, <2>3, <2>5, <2>7
<1>4. Len(s) \in 0 .. Len(s)
  OBVIOUS
<1>5. PICK r : Solves(r, Len(s))
  BY <1>3, <1>4
<1>6. Read(s) = r \/ Solves(Read(s), Len(s))
  BY <1>5, Zenon DEF Read, Solves
<1> QED BY <1>5, <1>6 DEF Solves

\* What the command line leaves in the list of a flag is a list.
LEMMA OptionLists ==
  ASSUME NEW args \in ArgLists
  PROVE  List(Options(args).many["--overlay"])
<1>1. args \in Seq(Range(args))
  BY LuaAssumption
<1> DEFINE T == {token.text : token \in Range(args)}
           r == Read(args)
           N == Len(args)
<1>2. N \in Nat /\ \A n \in 1 .. N : args[n].text \in T
  BY <1>1
<1>3. r = [n \in 0 .. N |-> IF n = 0 THEN NoOptions ELSE TakeToken(r[n - 1], args[n])]
  BY <1>1, ReadIs
<1> HIDE DEF T, r
<1> DEFINE Odd == {n \in 0 .. N : ~Plain(r[n], T)}
<1>4. Odd = {}
  <2> SUFFICES ASSUME Odd # {} PROVE FALSE
    OBVIOUS
  <2>1. Odd \in SUBSET Nat
    BY <1>2
  <2>2. Min(Odd) \in Odd
    <3> HIDE DEF Odd
    <3> QED BY <2>1, LeastIn
  <2>3. \A n \in Odd : Min(Odd) <= n
    <3> HIDE DEF Odd
    <3> QED BY <2>1, LeastIn
  <2> DEFINE n == Min(Odd)
  <2>4. n \in 0 .. N /\ ~Plain(r[n], T)
    BY <2>2
  <2> HIDE DEF n
  <2>5. n # 0
    BY <1>2, <1>3, <2>4, NoOptionsPlain
  <2>6. n - 1 \in 0 .. N /\ n \in 1 .. N /\ ~(n <= n - 1)
    BY <1>2, <2>4, <2>5
  <2>7. Plain(r[n - 1], T)
    BY <2>3, <2>6 DEF n
  <2>8. r[n] = TakeToken(r[n - 1], args[n])
    BY <1>3, <2>4, <2>5
  <2> QED BY <1>2, <2>4, <2>6, <2>7, <2>8, TokenPlain
<1>5. Plain(r[N], T)
  BY <1>2, <1>4
<1>6. Options(args).many = r[N].many
  BY <1>5, WrongPlain DEF Options, r
<1>7. r[N].many["--overlay"] \in Seq(T)
  BY <1>5 DEF Plain, Many
<1> QED BY <1>6, <1>7 DEF List

\* The invariant holds before any file runs.
LEMMA InitInv == Init => IInv
<1> SUFFICES ASSUME NEW args \in ArgLists, Start(Options(args)) PROVE IInv
  BY DEF Init
<1> DEFINE o == Options(args)
<1>1. overridden = {} /\ heard = {<<key, features[key]>> : key \in DOMAIN features}
  BY Zenon DEF Start
<1>2. HeardInv
  BY <1>1 DEF HeardInv
<1>3. DOMAIN pkg = {Base} /\ pkg[Base] = NewPackage(BaseFile, o)
  BY DEF Start
<1>4. PkgInv
  BY <1>3, LuaAssumption, NewGood DEF PkgInv
<1>5. overlays = <<".">> \o o.many["--overlay"]
  BY Zenon DEF Start, AddOverlays
<1>6. PICK S : o.many["--overlay"] \in Seq(S)
  BY OptionLists DEF List
<1>7. overlays \in Seq(S \cup {"."}) /\ overlays # <<>> /\ Head(overlays) = "."
  BY <1>5, <1>6
<1>8. exit \in {"none", "usage"}
  BY Zenon DEF Start
<1> QED BY <1>2, <1>4, <1>7, <1>8 DEF IInv, OverlayInv, List

\* The inductive invariant: what was told, the packages and the overlays.
THEOREM Invariance == Spec => []IInv
<1>1. ASSUME IInv, [Next]_vars
      PROVE  IInv'
  <2> USE DEF IInv
  <2>1. HeardInv'
    BY <1>1, HeardStep
  <2>2. ASSUME NEW p \in DOMAIN pkg,
               Process(p) \/ Processed(p) \/ LuaError(p) \/ Asks(p) \/ Shares(p) \/ Describes(p) \/ Gathers(p)
        PROVE  exit' = exit
    BY <2>2 DEF Process, Processed, LuaError, Asks, Shares, Describes, Gathers, LookUp, KeyFound,
      KeyMissing, NoKey, FeatureSet, Depend, OverlayReach, OverlayLink, Require, OptionallyRequire,
      Required, Splice, BuildDir, Intercept, InstallFile, Ls, Cmd, Restore, SetFlag, FetchDl, FetchGit,
      LinkGit, CopyGit, CopyFile, FetchDeps, Extract, Patch, FetchLocal, Does, ghosts
  <2>3. ASSUME NEW p \in DOMAIN pkg, Process(p) \/ Processed(p) \/ LuaError(p) \/ Asks(p)
        PROVE  PkgInv' /\ OverlayInv'
    BY <1>1, <2>3, LifeStep, AsksStep DEF Process, Processed, LuaError, Asks, LookUp, KeyFound,
      KeyMissing, NoKey, ghosts, OverlayInv
  <2>4. ASSUME NEW p \in DOMAIN pkg, Shares(p)
        PROVE  PkgInv' /\ OverlayInv'
    BY <1>1, <2>4, SharesStep
  <2>5. ASSUME NEW p \in DOMAIN pkg, Describes(p) \/ Gathers(p)
        PROVE  PkgInv' /\ OverlayInv'
    <3>1. PkgInv'
      BY <1>1, <2>5, DescribesStep, GathersStep
    <3>2. overlays' = overlays
      BY <2>5 DEF Describes, Gathers, BuildDir, Intercept, InstallFile, Ls, Cmd, Restore, SetFlag,
        FetchDl, FetchGit, LinkGit, CopyGit, CopyFile, FetchDeps, Extract, Patch, FetchLocal, Does
    <3> QED BY <1>1, <3>1, <3>2 DEF OverlayInv
  <2>6. CASE Finish
    BY <1>1, <2>1, <2>6 DEF Finish, PkgInv, OverlayInv
  <2>7. CASE Stopped \/ UNCHANGED vars
    BY <1>1, <2>1, <2>7 DEF Stopped, vars, PkgInv, OverlayInv
  <2> QED BY <1>1, <2>1, <2>2, <2>3, <2>4, <2>5, <2>6, <2>7 DEF Next
<1> QED BY <1>1, InitInv, PTL DEF Spec

\* Descriptions, dependencies and flags have their types, and the directory
\* itself is searched before any overlay.
THEOREM TypeCorrect == Spec => []TypeOK
<1>1. IInv => TypeOK
  <2> SUFFICES ASSUME IInv PROVE TypeOK
    OBVIOUS
  <2>1. ASSUME NEW p \in DOMAIN pkg
        PROVE  /\ \A i \in DOMAIN pkg[p].desc : pkg[p].desc[i][1] \in Noted
               /\ \A i \in DOMAIN pkg[p].deps : pkg[p].deps[i].of \in DOMAIN pkg
    BY DEF IInv, PkgInv, Good, Shape, Notes, Depends
  <2> QED BY <2>1 DEF IInv, TypeOK, HeardInv, OverlayInv, PkgInv, Good, Shape
<1> QED BY <1>1, Invariance, PTL

\* featuremap.cpp 42-55, options.cpp 105-117: whatever the Lua files do, and in
\* whatever order they run, nobody is told another value than those before.
THEOREM AnswersAgreeHolds == Spec => []AnswersAgree
<1>1. IInv => AnswersAgree
  BY DEF IInv, HeardInv, AnswersAgree
<1> QED BY <1>1, Invariance, PTL

\* toplevel.cpp 59-78: though other packages set features in between, a lookup
\* passes over none that was there, and ends in nil only if there was none.
THEOREM NoKeyPassedOverHolds == Spec => []NoKeyPassedOver
<1>1. PkgInv => NoKeyPassedOver
  BY Zenon DEF PkgInv, Good, Look, NoKeyPassedOver
<1> QED BY <1>1, Invariance, PTL DEF IInv

-----------------------------------------------------------------------------
(* What the notes of a package leave open: nothing, if NotesSuffice.       *)

\* A package as another with the same notes could be: of a required file its
\* hash, without what ls() told, where restore() copies to, and its own namespace.
Hashed(c) ==
  IF c.op # "required" THEN c
  ELSE [key \in DOMAIN c \cup {"op", "file", "path"} |-> IF key = "path" THEN HashFile(c.path) ELSE c[key]]
AllHashed(calls) == [i \in DOMAIN calls |-> Hashed(calls[i])]
Decisive(told) == [key \in DOMAIN told \ {"ls"} |-> told[key]]
Wanted(d) == <<IF d.own THEN "" ELSE d.of[1], d.of[2], d.locally>>
Command(c) == [c EXCEPT !.into = None]

View(r) ==
  [rest |-> AllHashed(r.rest), told |-> Decisive(r.told), desc |-> r.desc,
   deps |-> [i \in DOMAIN r.deps |-> Wanted(r.deps[i])],
   cmds |-> [i \in DOMAIN r.cmds |-> Command(r.cmds[i])],
   units |-> r.units, fetches |-> r.fetches, install |-> r.install,
   intercept |-> r.intercept, flags |-> r.flags, extractTo |-> r.extractTo]

Visible == {"rest", "told", "desc", "deps", "cmds", "units", "fetches", "install", "intercept",
            "flags", "extractTo"}

\* Calls the notes decide: at most one required file is being run, and before
\* its note nothing else is noted.
Proper(c) ==
  /\ "when" \in DOMAIN c => c.when[1] # "ls"
  /\ c.op = "patch" => List(c.files)

Asked(s) == {s[i].file : i \in {j \in DOMAIN s : s[j].op \in Asking}}

DueAt(s, k) ==
  /\ k \in 0 .. Len(s)
  /\ k > 0 => s[k].op = "required" /\ "when" \notin DOMAIN s[k]
  /\ \A i \in 1 .. k - 1 : s[i].op \notin Noting
  /\ \A i \in k + 1 .. Len(s) :
       s[i].op # "required" /\ (s[i].op \in Asking => RunsQuiet(s[i].file))
  /\ \A i, j \in k + 1 .. Len(s) :
       i < j /\ s[i].op \in Asking /\ s[j].op \in Asking => s[i].file # s[j].file

\* The note of a file that is due.
DueNote(c) == <<"RequireFile", c.file, c.path>>

Tidy(s) == List(s) /\ (\A i \in 1 .. Len(s) : Proper(s[i])) /\ \E k : DueAt(s, k)

Due(s) == CHOOSE k : DueAt(s, k)

\* There is only one place where it is due.
LEMMA DueIs ==
  ASSUME NEW s, NEW k, Len(s) \in Nat, DueAt(s, k)
  PROVE  Due(s) = k
<1>1. ASSUME NEW j, DueAt(s, j), NEW i, DueAt(s, i), i < j
      PROVE  FALSE
  <2>1. i \in Nat /\ j \in Nat /\ j \in i + 1 .. Len(s) /\ j > 0
    BY <1>1 DEF DueAt
  <2> QED BY <1>1, <2>1 DEF DueAt
<1>2. ASSUME NEW j, DueAt(s, j) PROVE j = k
  <2>1. j \in Nat /\ k \in Nat
    BY <1>2 DEF DueAt
  <2> QED BY <1>1, <1>2, <2>1
<1> QED BY <1>2 DEF Due

\* What is left after calls that are not made.
LEMMA RestIs ==
  ASSUME NEW s, NEW told, List(s)
  PROVE  /\ List(Rest(s, told))
         /\ \E d \in 0 .. Len(s) :
              /\ Len(Rest(s, told)) = Len(s) - d
              /\ \A i \in 1 .. Len(s) - d : Rest(s, told)[i] = s[i + d]
              /\ \A i \in 1 .. d : ~Made(s[i], told)
<1>1. PICK S : s \in Seq(S)
  BY DEF List
<1> DEFINE made == {i \in DOMAIN s : Made(s[i], told)}
           n == Len(s)
<1>2. n \in Nat /\ DOMAIN s = 1 .. n
  BY <1>1
<1>3. CASE made = {}
  <2>1. Rest(s, told) = <<>>
    BY <1>3 DEF Rest
  <2>2. \A i \in 1 .. n : ~Made(s[i], told)
    BY <1>2, <1>3
  <2>3. Len(<<>>) = n - n /\ n \in 0 .. n /\ <<>> \in Seq(S) /\ 1 .. n - n = {}
    BY <1>2
  <2> HIDE DEF n
  <2>4. List(Rest(s, told))
    BY <2>1, <2>3 DEF List
  <2>5. \A i \in 1 .. n - n : Rest(s, told)[i] = s[i + n]
    BY <2>3
  <2> QED BY <2>1, <2>2, <2>3, <2>4, <2>5 DEF n
<1>4. CASE made # {}
  <2> DEFINE m == Min(made)
  <2>1. m \in made /\ \A i \in made : m <= i
    <3>1. made \in SUBSET Nat
      BY <1>2
    <3> HIDE DEF made
    <3> QED BY <1>4, <3>1, LeastIn
  <2>2. m \in 1 .. n
    BY <1>2, <2>1
  <2>3. Rest(s, told) = SubSeq(s, m, n)
    BY <1>4 DEF Rest
  <2>4. \A i \in 1 .. m - 1 : ~Made(s[i], told)
    <3> SUFFICES ASSUME NEW i \in 1 .. m - 1, i \in made PROVE FALSE
      BY <1>2, <2>2
    <3>1. m <= i
      BY <2>1
    <3> HIDE DEF m, made
    <3> QED BY <2>2, <3>1
  <2> HIDE DEF m, made
  <2>5. \A i \in m .. n : s[i] \in S
    BY <1>1, <2>2
  <2>6. /\ Rest(s, told) \in Seq(S) /\ Len(Rest(s, told)) = n - m + 1
        /\ \A i \in 1 .. n - m + 1 : Rest(s, told)[i] = s[m + i - 1]
    BY <1>2, <2>2, <2>3, <2>5, SubSeqProperties
  <2> DEFINE d == m - 1
  <2>7. d \in 0 .. n /\ n - d = n - m + 1 /\ \A i \in 1 .. n - d : i + d = m + i - 1
    BY <1>2, <2>2
  <2>8. Len(Rest(s, told)) = n - d /\ \A i \in 1 .. n - d : Rest(s, told)[i] = s[i + d]
    BY <2>6, <2>7
  <2>9. List(Rest(s, told))
    BY <2>6 DEF List
  <2> HIDE DEF n
  <2> QED BY <2>4, <2>7, <2>8, <2>9 DEF n
<1> QED BY <1>3, <1>4

\* Skipping calls leaves the rest as tidy, the file that is due too.
LEMMA RestTidy ==
  ASSUME NEW s, NEW told, Tidy(s)
  PROVE  LET t == Rest(s, told) IN
           /\ Tidy(t) /\ Asked(t) \subseteq Asked(s)
           /\ Due(s) = 0 => Due(t) = 0
           /\ Due(s) > 0 => Due(t) > 0 /\ t[Due(t)] = s[Due(s)]
<1> DEFINE t == Rest(s, told)
           n == Len(s)
<1>1. PICK k : DueAt(s, k)
  BY DEF Tidy
<1>2. List(s) /\ List(t) /\ n \in Nat /\ Len(t) \in Nat /\ DOMAIN s = 1 .. n /\ DOMAIN t = 1 .. Len(t)
  BY RestIs DEF Tidy, List
<1>3. PICK d \in 0 .. n : /\ Len(t) = n - d /\ \A i \in 1 .. n - d : t[i] = s[i + d]
                          /\ \A i \in 1 .. d : ~Made(s[i], told)
  BY <1>2, RestIs, Zenon
<1>4. Due(s) = k /\ k \in 0 .. n
  BY <1>1, <1>2, DueIs DEF DueAt
<1> HIDE DEF t, n
<1>5. k > 0 => k > d
  <2> SUFFICES ASSUME k > 0, k <= d PROVE FALSE
    BY <1>3, <1>4
  <2>1. k \in 1 .. d
    BY <1>3, <1>4
  <2> QED BY <1>1, <1>3, <2>1 DEF DueAt, Made
<1> DEFINE j == IF k = 0 THEN 0 ELSE k - d
<1>6. /\ j \in 0 .. Len(t) /\ (j = 0 <=> k = 0) /\ (k > 0 => j + d = k)
      /\ \A i \in 1 .. j - 1 : i \in 1 .. n - d /\ i + d \in 1 .. k - 1
      /\ \A i \in j + 1 .. Len(t) : i \in 1 .. n - d /\ i + d \in k + 1 .. n
  BY <1>2, <1>3, <1>4, <1>5
<1>7. j > 0 => t[j] = s[k] /\ k > 0
  BY <1>2, <1>3, <1>4, <1>5, <1>6
<1>8. DueAt(t, j)
  <2>1. j > 0 => t[j].op = "required" /\ "when" \notin DOMAIN t[j]
    BY <1>1, <1>7 DEF DueAt
  <2>2. \A i \in 1 .. j - 1 : t[i].op \notin Noting
    BY <1>1, <1>3, <1>6 DEF DueAt
  <2>3. \A i \in j + 1 .. Len(t) : t[i] = s[i + d] /\ i + d \in k + 1 .. n
    BY <1>3, <1>6
  <2>4. \A i \in j + 1 .. Len(t) :
          t[i].op # "required" /\ (t[i].op \in Asking => RunsQuiet(t[i].file))
    BY <1>1, <2>3 DEF DueAt, n
  <2>5. \A i, m \in j + 1 .. Len(t) :
          i < m /\ t[i].op \in Asking /\ t[m].op \in Asking => t[i].file # t[m].file
    <3> SUFFICES ASSUME NEW i \in j + 1 .. Len(t), NEW m \in j + 1 .. Len(t), i < m,
                        t[i].op \in Asking, t[m].op \in Asking
                 PROVE  t[i].file # t[m].file
      OBVIOUS
    <3>1. i + d < m + d
      BY <1>2, <1>3, <1>6
    <3>2. /\ t[i] = s[i + d] /\ t[m] = s[m + d] /\ i + d \in k + 1 .. Len(s)
          /\ m + d \in k + 1 .. Len(s)
      BY <2>3 DEF n
    <3>3. \A a, b \in k + 1 .. Len(s) :
            a < b /\ s[a].op \in Asking /\ s[b].op \in Asking => s[a].file # s[b].file
      BY <1>1 DEF DueAt
    <3> HIDE DEF j
    <3> QED BY <3>1, <3>2, <3>3
  <2> HIDE DEF j
  <2> QED BY <1>6, <2>1, <2>2, <2>4, <2>5, Zenon DEF DueAt
<1>9. \A i \in 1 .. Len(t) : Proper(t[i])
  <2>1. \A i \in 1 .. Len(t) : i \in 1 .. n - d /\ i + d \in 1 .. n
    BY <1>2, <1>3
  <2> QED BY <1>3, <2>1 DEF Tidy, n
<1>10. Asked(t) \subseteq Asked(s)
  <2>1. \A i \in 1 .. Len(t) : i + d \in DOMAIN s /\ t[i] = s[i + d]
    BY <1>2, <1>3
  <2> QED BY <1>2, <2>1 DEF Asked
<1>11. Due(t) = j
  BY <1>2, <1>8, DueIs
<1>12. Tidy(t)
  BY <1>2, <1>8, <1>9 DEF Tidy
<1> QED BY <1>4, <1>6, <1>7, <1>10, <1>11, <1>12 DEF t

\* Whether the file that is due is so at the first call.
LEMMA HeadTidy ==
  ASSUME NEW s, Tidy(s), s # <<>>
  PROVE  /\ Head(s) = s[1] /\ Due(s) \in 0 .. Len(s) /\ Proper(s[1])
         /\ s[1].op = "required" => Due(s) = 1
         /\ s[1].op \in Noting \ {"required"} => Due(s) = 0
         /\ s[1].op \notin Noting => Due(s) # 1
         /\ s[1].op \in Asking => RunsQuiet(s[1].file)
<1>1. PICK k : DueAt(s, k)
  BY DEF Tidy
<1>2. PICK S : s \in Seq(S)
  BY DEF Tidy, List
<1>3. Len(s) \in Nat /\ Len(s) >= 1 /\ Head(s) = s[1]
  BY <1>2
<1>4. Due(s) = k /\ k \in 0 .. Len(s)
  BY <1>1, <1>3, DueIs DEF DueAt
<1>5. Proper(s[1])
  BY <1>3 DEF Tidy
<1>6. k = 0 \/ k = 1 \/ 1 \in 1 .. k - 1
  BY <1>3, <1>4
<1>7. k = 0 => 1 \in k + 1 .. Len(s)
  BY <1>3
<1>8. /\ k = 0 => s[1].op # "required" /\ (s[1].op \in Asking => RunsQuiet(s[1].file))
      /\ k = 1 => s[1].op = "required"
      /\ k \notin {0, 1} => s[1].op \notin Noting
  BY <1>1, <1>6, <1>7 DEF DueAt
<1> QED BY <1>3, <1>4, <1>5, <1>8 DEF Noting, Asking

\* What is behind the first call is tidy too, and asks for none of its files again.
LEMMA TailTidy ==
  ASSUME NEW s, Tidy(s), s # <<>>
  PROVE  /\ Tidy(Tail(s)) /\ Asked(Tail(s)) \subseteq Asked(s)
         /\ Due(s) <= 1 => Due(Tail(s)) = 0
         /\ Due(s) > 1 => Due(Tail(s)) > 0 /\ Tail(s)[Due(Tail(s))] = s[Due(s)]
         /\ s[1].op \in Asking => s[1].file \in Asked(s) /\ s[1].file \notin Asked(Tail(s))
<1> DEFINE t == Tail(s)
           n == Len(s)
<1>1. PICK k : DueAt(s, k)
  BY DEF Tidy
<1>2. PICK S : s \in Seq(S)
  BY DEF Tidy, List
<1>3. /\ n \in Nat /\ n >= 1 /\ DOMAIN s = 1 .. n /\ t \in Seq(S) /\ Len(t) = n - 1 /\ DOMAIN t = 1 .. n - 1
      /\ \A i \in 1 .. n - 1 : t[i] = s[i + 1]
  BY <1>2
<1>4. Due(s) = k /\ k \in 0 .. n
  BY <1>1, <1>3, DueIs DEF DueAt
<1> HIDE DEF t, n
<1> DEFINE j == IF k = 0 THEN 0 ELSE k - 1
<1>5. /\ j \in 0 .. n - 1 /\ (k <= 1 => j = 0) /\ (j > 0 => k > 1 /\ j + 1 = k /\ t[j] = s[k])
      /\ (k > 1 => j > 0)
      /\ \A i \in 1 .. j - 1 : i \in 1 .. n - 1 /\ i + 1 \in 1 .. k - 1
      /\ \A i \in j + 1 .. n - 1 : i \in 1 .. n - 1 /\ i + 1 \in k + 1 .. n
  BY <1>3, <1>4
<1>6. DueAt(t, j)
  <2>1. j > 0 => t[j].op = "required" /\ "when" \notin DOMAIN t[j]
    BY <1>1, <1>4, <1>5 DEF DueAt
  <2>2. \A i \in 1 .. j - 1 : t[i].op \notin Noting
    BY <1>1, <1>3, <1>5 DEF DueAt
  <2>3. \A i \in j + 1 .. n - 1 : t[i] = s[i + 1] /\ i + 1 \in k + 1 .. Len(s)
    BY <1>3, <1>5 DEF n
  <2>4. \A i \in j + 1 .. n - 1 :
          t[i].op # "required" /\ (t[i].op \in Asking => RunsQuiet(t[i].file))
    BY <1>1, <2>3 DEF DueAt
  <2>5. \A i, m \in j + 1 .. n - 1 :
          i < m /\ t[i].op \in Asking /\ t[m].op \in Asking => t[i].file # t[m].file
    <3> SUFFICES ASSUME NEW i \in j + 1 .. n - 1, NEW m \in j + 1 .. n - 1, i < m,
                        t[i].op \in Asking, t[m].op \in Asking
                 PROVE  t[i].file # t[m].file
      OBVIOUS
    <3>1. i + 1 < m + 1
      BY <1>3, <1>5
    <3>2. \A a, b \in k + 1 .. Len(s) :
            a < b /\ s[a].op \in Asking /\ s[b].op \in Asking => s[a].file # s[b].file
      BY <1>1 DEF DueAt
    <3> HIDE DEF j
    <3> QED BY <2>3, <3>1, <3>2
  <2> HIDE DEF j
  <2> QED BY <1>3, <1>5, <2>1, <2>2, <2>4, <2>5, Zenon DEF DueAt
<1>7. Due(t) = j
  BY <1>3, <1>6, DueIs
<1>8. \A i \in 1 .. n - 1 : i + 1 \in 1 .. n /\ t[i] = s[i + 1]
  BY <1>3
<1>9. Tidy(t)
  <2>1. \A i \in 1 .. Len(t) : Proper(t[i])
    BY <1>3, <1>8 DEF Tidy, n
  <2>2. List(t)
    BY <1>3 DEF List
  <2> QED BY <1>6, <2>1, <2>2 DEF Tidy
<1>10. Asked(t) \subseteq Asked(s)
  BY <1>3, <1>8 DEF Asked
<1>11. ASSUME s[1].op \in Asking
       PROVE  s[1].file \in Asked(s) /\ s[1].file \notin Asked(t)
  <2>1. k = 0
    BY <1>4, <1>11, HeadTidy DEF Noting, Asking
  <2>2. s[1].file \in Asked(s)
    BY <1>3, <1>11 DEF Asked
  <2>3. \A i \in 1 .. n - 1 : t[i].op \in Asking => s[1].file # t[i].file
    <3> SUFFICES ASSUME NEW i \in 1 .. n - 1, t[i].op \in Asking PROVE s[1].file # t[i].file
      OBVIOUS
    <3>1. 1 \in k + 1 .. Len(s) /\ i + 1 \in k + 1 .. Len(s) /\ 1 < i + 1 /\ t[i] = s[i + 1]
      BY <1>3, <1>8, <2>1 DEF n
    <3>2. \A a, b \in k + 1 .. Len(s) :
            a < b /\ s[a].op \in Asking /\ s[b].op \in Asking => s[a].file # s[b].file
      BY <1>1 DEF DueAt
    <3> QED BY <1>11, <3>1, <3>2
  <2> QED BY <1>3, <2>2, <2>3 DEF Asked
<1>12. k > 1 => Due(t) > 0 /\ t[Due(t)] = s[k]
  BY <1>5, <1>7
<1>13. k <= 1 => Due(t) = 0
  BY <1>5, <1>7
<1> QED BY <1>4, <1>9, <1>10, <1>11, <1>12, <1>13 DEF t

\* What is left after a call.
LEMMA OnwardTidy ==
  ASSUME NEW s, NEW told, Tidy(s), s # <<>>
  PROVE  LET t == Rest(Tail(s), told) IN
           /\ Tidy(t) /\ Asked(t) \subseteq Asked(s)
           /\ Due(s) <= 1 => Due(t) = 0
           /\ Due(s) > 1 => Due(t) > 0 /\ t[Due(t)] = s[Due(s)]
           /\ s[1].op \in Asking => s[1].file \in Asked(s) /\ s[1].file \notin Asked(t)
<1>1. /\ Tidy(Tail(s)) /\ Asked(Tail(s)) \subseteq Asked(s)
      /\ Due(s) <= 1 => Due(Tail(s)) = 0
      /\ Due(s) > 1 => Due(Tail(s)) > 0 /\ Tail(s)[Due(Tail(s))] = s[Due(s)]
      /\ s[1].op \in Asking => s[1].file \in Asked(s) /\ s[1].file \notin Asked(Tail(s))
  BY TailTidy
<1> DEFINE u == Tail(s)
           t == Rest(u, told)
<1> HIDE DEF u
<1>2. /\ Tidy(t) /\ Asked(t) \subseteq Asked(u)
      /\ Due(u) = 0 => Due(t) = 0
      /\ Due(u) > 0 => Due(t) > 0 /\ t[Due(t)] = u[Due(u)]
  BY <1>1, RestTidy DEF u
<1> QED BY <1>1, <1>2 DEF u

\* What runs when a file with that hash is run, and its note, which comes after.
TextOf(hash) == IF hash \in DOMAIN Text THEN Text[hash] ELSE << [op |-> "error"] >>
DueCall(file, hash) == [op |-> "required", file |-> file, path |-> hash]
Found(file, hash) == \E f \in DOMAIN Files : f[3] = file /\ Files[f] = hash

LEMMA TextTidy ==
  ASSUME NotesSuffice, NEW hash
  PROVE  /\ List(TextOf(hash)) /\ \A i \in 1 .. Len(TextOf(hash)) : Proper(TextOf(hash)[i])
         /\ DueAt(TextOf(hash), 0)
<1> DEFINE s == TextOf(hash)
<1>1. CASE hash \in DOMAIN Text
  <2>1. s \in Range(Text) /\ s \in Seq(Range(s))
    BY <1>1, LuaAssumption DEF TextOf, Range
  <2> HIDE DEF s
  <2>2. Len(s) \in Nat /\ DOMAIN s = 1 .. Len(s) /\ \A i \in 1 .. Len(s) : s[i] \in Range(s)
    BY <2>1
  <2>3. \A c \in Range(s) : /\ c.op # "required" /\ ("when" \in DOMAIN c => c.when[1] # "ls")
                             /\ (c.op \in Asking => RunsQuiet(c.file))
                             /\ (c.op = "patch" => List(c.files))
    BY <2>1, LuaAssumption DEF NotesSuffice, List
  <2>4. \A i, j \in 1 .. Len(s) :
          i < j /\ s[i].op \in Asking /\ s[j].op \in Asking => s[i].file # s[j].file
    BY <2>1, <2>2 DEF NotesSuffice
  <2>5. DueAt(s, 0)
    <3>1. 0 \in 0 .. Len(s) /\ ~(0 > 0) /\ 1 .. 0 - 1 = {} /\ 0 + 1 = 1
      BY <2>2
    <3> QED BY <2>2, <2>3, <2>4, <3>1 DEF DueAt
  <2>6. List(s)
    BY <2>1 DEF List
  <2> QED BY <2>2, <2>3, <2>5, <2>6 DEF Proper, s
<1>2. CASE hash \notin DOMAIN Text
  <2> DEFINE c == [op |-> "error"]
  <2>1. s = <<c>> /\ Len(s) = 1 /\ s[1] = c /\ s \in Seq({c})
    BY <1>2 DEF TextOf
  <2>2. c.op = "error" /\ "when" \notin DOMAIN c
    OBVIOUS
  <2> HIDE DEF s, c
  <2>3. \A i \in 1 .. Len(s) : s[i] = c /\ Proper(s[i])
    BY <2>1, <2>2 DEF Proper
  <2>4. DueAt(s, 0)
    BY <2>1, <2>2 DEF DueAt, Asking
  <2> QED BY <2>1, <2>3, <2>4 DEF List, s
<1> QED BY <1>1, <1>2

\* A file that is found where one is asked for runs quietly.
LEMMA TextQuiet ==
  ASSUME NEW file, RunsQuiet(file), NEW hash, Found(file, hash)
  PROVE  \A i \in DOMAIN TextOf(hash) : TextOf(hash)[i].op \notin Noting
<1>1. CASE hash \in DOMAIN Text
  BY <1>1 DEF RunsQuiet, Found, Quiet, TextOf, Range
<1>2. CASE hash \notin DOMAIN Text
  <2> SUFFICES ASSUME NEW i \in DOMAIN TextOf(hash) PROVE TextOf(hash)[i].op = "error"
    BY DEF Noting, Asking
  <2> QED BY <1>2 DEF TextOf
<1> QED BY <1>1, <1>2

\* A file that is run is due, and what it leaves open was open before.
LEMMA SpliceTidy ==
  ASSUME NotesSuffice, NEW s, Tidy(s), s # <<>>, s[1].op \in Asking,
         NEW hash, Found(s[1].file, hash), NEW told
  PROVE  LET u == <<s[1]>> \o TextOf(hash) \o <<DueCall(s[1].file, hash)>> \o Tail(s)
             t == Rest(Tail(u), told)
         IN  /\ Tidy(Tail(u)) /\ Tidy(t) /\ Asked(t) \subseteq Asked(s)
             /\ Due(t) > 0 /\ t[Due(t)] = DueCall(s[1].file, hash)
<1> DEFINE x == TextOf(hash)
           m == Len(x)
           due == DueCall(s[1].file, hash)
           z == Tail(s)
           u == <<s[1]>> \o x \o <<due>> \o z
           v == Tail(u)
<1>1. /\ Tidy(z) /\ Asked(z) \subseteq Asked(s) /\ Due(z) = 0
  <2>1. Due(s) = 0
    BY HeadTidy DEF Noting, Asking
  <2> QED BY <2>1, TailTidy
<1>2. /\ List(x) /\ (\A i \in 1 .. m : Proper(x[i])) /\ DueAt(x, 0)
      /\ \A i \in DOMAIN x : x[i].op \notin Noting
  <2>1. RunsQuiet(s[1].file)
    BY HeadTidy
  <2> QED BY <2>1, TextTidy, TextQuiet
<1>3. PICK S : x \in Seq(S)
  BY <1>2 DEF List
<1>4. PICK T : z \in Seq(T)
  BY <1>1 DEF Tidy, List
<1> DEFINE U == {s[1], due} \cup S \cup T
           n == Len(z)
<1>5. <<s[1]>> \in Seq(U) /\ x \in Seq(U) /\ <<due>> \in Seq(U) /\ z \in Seq(U)
  BY <1>3, <1>4
<1>6. m \in Nat /\ n \in Nat /\ DOMAIN x = 1 .. m /\ DOMAIN z = 1 .. n
  BY <1>3, <1>4
<1> HIDE DEF U, x, z, due
<1>7. /\ u \in Seq(U) /\ Len(u) = m + n + 2
      /\ \A i \in 1 .. m : u[i + 1] = x[i]
      /\ u[m + 2] = due
      /\ \A i \in 1 .. n : u[i + m + 2] = z[i]
  <2> DEFINE a == <<s[1]>> \o x
             b == a \o <<due>>
  <2>1. a \in Seq(U) /\ Len(a) = m + 1 /\ \A i \in 1 .. m : a[i + 1] = x[i]
    BY <1>5, <1>6
  <2> HIDE DEF a
  <2>2. /\ b \in Seq(U) /\ Len(b) = m + 2 /\ b[m + 2] = due /\ \A i \in 1 .. m : b[i + 1] = x[i]
    BY <1>5, <1>6, <2>1
  <2> HIDE DEF b
  <2>3. u = b \o z
    BY DEF a, b
  <2>4. /\ b \o z \in Seq(U) /\ Len(b \o z) = (m + 2) + n
        /\ \A i \in 1 .. m + 2 : (b \o z)[i] = b[i]
        /\ \A i \in 1 .. n : (b \o z)[i + m + 2] = z[i]
    <3> HIDE DEF m
    <3>1. Len(b) \in Nat /\ Len(z) \in Nat
      BY <1>6, <2>2
    <3>2. /\ b \o z \in Seq(U) /\ Len(b \o z) = Len(b) + Len(z)
          /\ \A i \in 1 .. Len(b) + Len(z) :
               (b \o z)[i] = IF i <= Len(b) THEN b[i] ELSE z[i - Len(b)]
      BY <1>5, <2>2, ConcatProperties
    <3>3. /\ \A i \in 1 .. Len(b) : i \in 1 .. Len(b) + Len(z) /\ i <= Len(b)
          /\ \A i \in 1 .. Len(z) : /\ i + Len(b) \in 1 .. Len(b) + Len(z) /\ ~(i + Len(b) <= Len(b))
                                     /\ (i + Len(b)) - Len(b) = i
      BY <3>1
    <3>4. /\ \A i \in 1 .. Len(b) : (b \o z)[i] = b[i]
          /\ \A i \in 1 .. Len(z) : (b \o z)[i + Len(b)] = z[i]
      BY <3>2, <3>3, Zenon
    <3>5. \A i \in 1 .. n : i + Len(b) = i + m + 2
      BY <1>6, <2>2
    <3> QED BY <1>6, <2>2, <3>2, <3>4, <3>5
  <2>5. (m + 2) + n = m + n + 2 /\ m + 2 \in 1 .. m + 2 /\ \A i \in 1 .. m : i + 1 \in 1 .. m + 2
    BY <1>6
  <2> HIDE DEF u, m, n
  <2> QED BY <2>2, <2>3, <2>4, <2>5
<1> HIDE DEF u, m, n
<1>8. /\ v \in Seq(U) /\ Len(v) = m + n + 1
      /\ \A i \in 1 .. m : v[i] = x[i]
      /\ v[m + 1] = due
      /\ \A i \in 1 .. n : v[i + m + 1] = z[i]
  <2>1. u # <<>> /\ Len(u) \in Nat
    BY <1>6, <1>7
  <2>2. v \in Seq(U) /\ Len(v) = Len(u) - 1 /\ \A i \in 1 .. Len(v) : v[i] = u[i + 1]
    BY <1>7, <2>1, HeadTailProperties
  <2> HIDE DEF v
  <2>3. \A i \in 1 .. n : i + m + 1 \in 1 .. Len(v) /\ i + m + 1 + 1 = i + m + 2
    BY <1>6, <1>7, <2>2
  <2>4. m + 1 \in 1 .. Len(v) /\ m + 1 + 1 = m + 2 /\ \A i \in 1 .. m : i \in 1 .. Len(v)
    BY <1>6, <1>7, <2>2
  <2> QED BY <1>6, <1>7, <2>2, <2>3, <2>4
<1> HIDE DEF v
<1>9. /\ DOMAIN v = 1 .. m + n + 1
      /\ \A i \in 1 .. m + n + 1 : i \in 1 .. m \/ i = m + 1 \/ (i - m - 1 \in 1 .. n /\ v[i] = z[i - m - 1])
  <2>1. \A i \in 1 .. m + n + 1 :
          i \in 1 .. m \/ i = m + 1 \/ (i - m - 1 \in 1 .. n /\ (i - m - 1) + m + 1 = i)
    BY <1>6
  <2>2. DOMAIN v = 1 .. m + n + 1
    BY <1>8
  <2> QED BY <1>8, <2>1, <2>2
<1>10. due.op = "required" /\ "when" \notin DOMAIN due
  BY DEF due, DueCall
<1>11. DueAt(z, 0)
  <2>1. Len(z) \in Nat /\ \E k : DueAt(z, k)
    BY <1>1, <1>6 DEF n, Tidy
  <2> QED BY <1>1, <2>1, DueIs
<1>12. \A i \in m + 2 .. m + n + 1 : i - m - 1 \in 1 .. n /\ v[i] = z[i - m - 1]
  <2>1. \A i \in m + 2 .. m + n + 1 : i \in 1 .. m + n + 1 /\ i \notin 1 .. m /\ i # m + 1
    BY <1>6
  <2> QED BY <1>9, <2>1
<1>13. DueAt(v, m + 1)
  <2>1. m + 1 \in 0 .. Len(v) /\ (m + 1) - 1 = m /\ (m + 1) + 1 = m + 2 /\ m + 1 > 0
    BY <1>6, <1>8
  <2>2. \A i \in 1 .. m : v[i].op \notin Noting
    BY <1>2, <1>6, <1>8
  <2>3. \A i \in 1 .. n : z[i].op # "required" /\ (z[i].op \in Asking => RunsQuiet(z[i].file))
    BY <1>6, <1>11 DEF DueAt, n
  <2>4. \A i \in m + 2 .. Len(v) : v[i].op # "required" /\ (v[i].op \in Asking => RunsQuiet(v[i].file))
    BY <1>8, <1>12, <2>3
  <2>5. \A i, j \in m + 2 .. Len(v) :
          i < j /\ v[i].op \in Asking /\ v[j].op \in Asking => v[i].file # v[j].file
    <3>1. \A i, j \in m + 2 .. m + n + 1 : i < j => i - m - 1 < j - m - 1
      BY <1>6
    <3>2. \A i, j \in 1 .. n :
            i < j /\ z[i].op \in Asking /\ z[j].op \in Asking => z[i].file # z[j].file
      BY <1>6, <1>11 DEF DueAt, n
    <3> QED BY <1>8, <1>12, <3>1, <3>2
  <2>6. v[m + 1].op = "required" /\ "when" \notin DOMAIN v[m + 1]
    BY <1>8, <1>10
  <2> QED BY <2>1, <2>2, <2>4, <2>5, <2>6 DEF DueAt
<1>14. Tidy(v)
  <2>1. \A i \in 1 .. n : Proper(z[i])
    BY <1>1 DEF Tidy, n
  <2>2. Proper(due)
    BY <1>10 DEF Proper
  <2>3. \A i \in 1 .. Len(v) : Proper(v[i])
    BY <1>2, <1>8, <1>9, <2>1, <2>2 DEF m
  <2>4. List(v)
    BY <1>8 DEF List
  <2> QED BY <1>13, <2>3, <2>4 DEF Tidy
<1>15. Asked(v) \subseteq Asked(s)
  <2>1. \A i \in DOMAIN v : v[i].op \in Asking => i - m - 1 \in DOMAIN z /\ v[i] = z[i - m - 1]
    <3>1. \A op \in Asking : op \in Noting /\ op # "required"
      BY DEF Asking, Noting
    <3> QED BY <1>2, <1>6, <1>8, <1>9, <1>10, <3>1
  <2>2. Asked(v) \subseteq Asked(z)
    BY <2>1 DEF Asked
  <2> QED BY <1>1, <2>2
<1>16. Due(v) = m + 1 /\ Due(v) > 0 /\ v[Due(v)] = due
  BY <1>6, <1>8, <1>13, DueIs
<1> DEFINE t == Rest(v, told)
<1>17. Tidy(t) /\ Asked(t) \subseteq Asked(v) /\ Due(t) > 0 /\ t[Due(t)] = v[Due(v)]
  BY <1>14, <1>16, RestTidy
<1> QED BY <1>14, <1>15, <1>16, <1>17 DEF v, u, x, z, due

-----------------------------------------------------------------------------
(* What a call makes of a view.  It follows from the view but for what the *)
(* package is answered: the value of a feature, the hash of a file, a path. *)

Given(c, key, default) == IF key \in DOMAIN c.table THEN c.table[key] ELSE default
SourceIn(c, kind) == [kind |-> kind, uri |-> Given(c, "uri", ""), filename |-> Given(c, "filename", "")]
GitIn(c) == [kind |-> "git", uri |-> Given(c, "uri", ""), branch |-> Given(c, "branch", "origin/master")]
EnvironOf(name, env) == AddEnv(FoldLeft(AddEnv, Environment, env), <<"BS_PACKAGE_NAME", name>>)

FetchWork(v, c, answer) ==
  LET method == Given(c, "method", "")
      uri == Given(c, "uri", "")
      to == Given(c, "copyto", "")
      f == SourceIn(c, "download")
      name == IF Given(c, "reponame", "") = "" THEN LastPart[uri] ELSE Given(c, "reponame", "")
      git == GitIn(c)
      link == <<"link", uri, RelativePath(SourceIn(c, "link")), Repos[AsGiven(uri)]>>
  IN  CASE method = "dl" /\ to = ""      -> Fetched(v, f, FALSE)
        [] method = "dl" /\ to # ""      ->
             Fetched(Unpacked(v, "FetchedFileCopy", <<to>>, <<f>>, f.uri), f, FALSE)
        [] method \in {"link", "copy"}   -> Fetched(v, SourceIn(c, method), TRUE)
        [] method = "git"      -> Unpacked(v, "GitDir", <<"fetch", uri, "">>, <<git>>, <<name, git>>)
        [] method = "linkgit"  -> Unpacked(v, "GitDir", link, None, uri)
        [] method = "copygit"  -> Unpacked(v, "GitDir", <<"copy", answer, ".", Repos[answer]>>, None, answer)
        [] method = "copyfile" -> Unpacked(v, "FileCopy", <<uri, answer>>, None, answer)
        [] OTHER -> [v EXCEPT !.extractTo = <<Given(c, "to", ""), Given(c, "listedonly", FALSE)>>,
                              !.flags = @ \cup {"codeUpdated"}]

DependWork(v, c) ==
  [v EXCEPT !.deps = Append(@, <<IF "namespace" \in DOMAIN c.table THEN c.table.namespace ELSE "",
                                 Head(c.table.packages), Given(c, "locally", FALSE)>>)]

FlagsWork(v, set) == [v EXCEPT !.flags = @ \cup set]

InterceptWork(v, c) ==
  [v EXCEPT !.intercept = IF "bare" \in DOMAIN c THEN {"install"} ELSE {k \in DOMAIN c.table : c.table[k]}]

InstallWork(v, c) == [v EXCEPT !.install = Append(@, c.file)]

CmdWork(name, v, c) ==
  [v EXCEPT !.cmds = Append(@,
     [app |-> c.app, args |-> c.args, env |-> EnvironOf(name, IF "log" \in DOMAIN c THEN <<>> ELSE c.env),
      log |-> "log" \in DOMAIN c => c.log, into |-> None])]

RestoreWork(v, c) ==
  [v EXCEPT !.cmds = Append(@,
     [app |-> "cp", args |-> <<"-pRLuf", RelativePath([kind |-> "copy", uri |-> c.file])>>,
      env |-> Environment, log |-> TRUE, into |-> None])]

ExtractWork(v, c) ==
  LET f == v.fetches[c.of]
  IN  Unpacked(v, IF RelativePath(f) \in Zips THEN "ZipFile" ELSE "TarFile", <<RelativePath(f)>>, <<f>>, f.uri)

PatchWork(v, c, answer) ==
  [v EXCEPT !.units = @ \o [i \in DOMAIN c.files |->
     Unit("PatchFile", <<c.level, c.dir, c.files[i], answer[i]>>, None, answer[i])]]

\* The calls that note nothing.
QuietWork(name, v, c, answer) ==
  CASE c.op = "depend"      -> DependWork(v, c)
    [] c.op = "builddir"    -> FlagsWork(v, IF c.clean THEN {"clean"} ELSE {})
    [] c.op = "intercept"   -> InterceptWork(v, c)
    [] c.op = "keepstaging" -> FlagsWork(v, {"keepStaging"})
    [] c.op = "hashoutput"  -> FlagsWork(v, {"hashOutput"})
    [] c.op = "installfile" -> InstallWork(v, c)
    [] c.op = "cmd"         -> CmdWork(name, v, c)
    [] c.op = "restore"     -> RestoreWork(v, c)
    [] c.op = "fetch"       -> FetchWork(v, c, answer)
    [] c.op = "extract"     -> ExtractWork(v, c)
    [] c.op = "patch"       -> PatchWork(v, c, answer)
    [] OTHER                -> v

AnswerNote(key, answer) == IF answer = None THEN <<"FeatureNil", key>> ELSE <<"FeatureValue", key, answer[1]>>

FeatureWork(v, c, answer) ==
  [v EXCEPT !.desc = Append(@, AnswerNote(c.key, answer)),
            !.told = IF c.key = "ls" THEN @ ELSE Put(@, c.key, answer)]

RequiredWork(v, c) == [v EXCEPT !.desc = Append(@, DueNote(c))]

RequireWork(v, c, hash) ==
  [v EXCEPT !.rest = <<c>> \o TextOf(hash) \o <<DueCall(c.file, hash)>> \o Tail(@)]

Work(name, v, c, answer) ==
  CASE c.op = "feature"   -> FeatureWork(v, c, answer)
    [] c.op = "required"  -> RequiredWork(v, c)
    [] c.op \in Asking    -> IF answer = None THEN v ELSE RequireWork(v, c, answer[1])
    [] OTHER              -> QuietWork(name, v, c, answer)

Onward(v) == [v EXCEPT !.rest = Rest(Tail(@), v.told)]

\* One package of several that a depend() names.
OneOfMany(c) == c.op = "depend" /\ Len(c.table.packages) # 1

Effect(name, v, answer) ==
  LET c == v.rest[1]
      w == Work(name, v, c, answer)
  IN  IF OneOfMany(c) THEN [w EXCEPT !.rest[1].table.packages = Tail(c.table.packages)] ELSE Onward(w)

\* What can be answered: nil or a value, no file or one of that name.
Possible(c, answer) ==
  /\ c.op = "depend" => {"op", "table"} \subseteq DOMAIN c
  /\ c.op = "feature" => answer = None \/ \E x : answer = <<x>>
  /\ c.op \in Asking => \/ answer = None /\ c.op = "optional"
                       \/ \E hash : answer = <<hash>> /\ Found(c.file, hash)

-----------------------------------------------------------------------------
(* The notes and units of a view are the first of those it ends with.      *)

Begins(s, t) == Len(s) <= Len(t) /\ \A i \in 1 .. Len(s) : t[i] = s[i]

\* The notes so far, with that of the file that is due.
Promised(v) ==
  IF Due(v.rest) = 0 THEN v.desc ELSE Append(v.desc, DueNote(v.rest[Due(v.rest)]))

Units(s) == List(s) /\ \A i \in 1 .. Len(s) : List(s[i].of)

Sound(v) == DOMAIN v = Visible /\ Tidy(v.rest) /\ List(v.desc) /\ Units(v.units)

\* Where one view leads to the other: of the files that are noted then the
\* names are among those still asked for.
Follows(v, w) ==
  /\ Begins(Promised(v), Promised(w)) /\ Begins(v.units, w.units)
  /\ \A i \in Len(Promised(v)) + 1 .. Len(Promised(w)) :
       Promised(w)[i][1] = "RequireFile" => Promised(w)[i][2] \in Asked(v.rest)
  /\ Asked(w.rest) \subseteq Asked(v.rest)

\* Lists, with one more, and with another behind.
LEMMA AppendList ==
  ASSUME NEW s, List(s), NEW x
  PROVE  /\ List(Append(s, x)) /\ Begins(s, Append(s, x)) /\ Len(Append(s, x)) = Len(s) + 1
         /\ Append(s, x)[Len(s) + 1] = x /\ Len(s) \in Nat /\ DOMAIN s = 1 .. Len(s)
         /\ DOMAIN Append(s, x) = 1 .. Len(s) + 1
<1>1. PICK S : s \in Seq(S)
  BY DEF List
<1> DEFINE U == S \cup {x}
<1>2. s \in Seq(U) /\ x \in U
  BY <1>1
<1> HIDE DEF U
<1>3. /\ Append(s, x) \in Seq(U) /\ Len(Append(s, x)) = Len(s) + 1 /\ Len(s) \in Nat
      /\ Append(s, x)[Len(s) + 1] = x /\ \A i \in 1 .. Len(s) : Append(s, x)[i] = s[i]
      /\ DOMAIN s = 1 .. Len(s) /\ DOMAIN Append(s, x) = 1 .. Len(s) + 1
  BY <1>2
<1> QED BY <1>3 DEF List, Begins

LEMMA ConcatList ==
  ASSUME NEW s, NEW t, List(s), List(t)
  PROVE  /\ List(s \o t) /\ Begins(s, s \o t) /\ Len(s \o t) = Len(s) + Len(t)
         /\ \A i \in 1 .. Len(t) : (s \o t)[Len(s) + i] = t[i]
         /\ Len(s) \in Nat /\ Len(t) \in Nat
<1>1. PICK S : s \in Seq(S)
  BY DEF List
<1>2. PICK T : t \in Seq(T)
  BY DEF List
<1> DEFINE U == S \cup T
<1>3. s \in Seq(U) /\ t \in Seq(U)
  BY <1>1, <1>2
<1> HIDE DEF U
<1>4. /\ s \o t \in Seq(U) /\ Len(s \o t) = Len(s) + Len(t) /\ Len(s) \in Nat /\ Len(t) \in Nat
      /\ \A i \in 1 .. Len(s) + Len(t) : (s \o t)[i] = IF i <= Len(s) THEN s[i] ELSE t[i - Len(s)]
  BY <1>3, ConcatProperties
<1>5. /\ \A i \in 1 .. Len(s) : i \in 1 .. Len(s) + Len(t) /\ i <= Len(s)
      /\ \A i \in 1 .. Len(t) : /\ Len(s) + i \in 1 .. Len(s) + Len(t) /\ ~(Len(s) + i <= Len(s))
                                 /\ (Len(s) + i) - Len(s) = i
      /\ Len(s) <= Len(s) + Len(t)
  BY <1>4
<1>6. /\ \A i \in 1 .. Len(s) : (s \o t)[i] = s[i]
      /\ \A i \in 1 .. Len(t) : (s \o t)[Len(s) + i] = t[i]
  BY <1>4, <1>5, Zenon
<1> QED BY <1>4, <1>5, <1>6 DEF List, Begins

\* What begins with what begins with it.
LEMMA BeginsTransitive ==
  ASSUME NEW s, NEW t, NEW u, Len(s) \in Nat, Len(t) \in Nat, Len(u) \in Nat, Begins(s, t), Begins(t, u)
  PROVE  Begins(s, u)
BY DEF Begins

LEMMA SoundLists ==
  ASSUME NEW v, Sound(v)
  PROVE  /\ Len(v.units) \in Nat /\ List(v.units) /\ List(v.rest) /\ Len(v.rest) \in Nat
         /\ DOMAIN v.rest = 1 .. Len(v.rest) /\ List(v.desc) /\ List(Promised(v))
         /\ Len(Promised(v)) \in Nat /\ Due(v.rest) \in 0 .. Len(v.rest)
<1>1. \A s : List(s) => Len(s) \in Nat /\ DOMAIN s = 1 .. Len(s)
  BY DEF List
<1>2. List(Promised(v))
  BY AppendList DEF Sound, Promised
<1>3. Due(v.rest) \in 0 .. Len(v.rest)
  BY <1>1, DueIs DEF Sound, Tidy, DueAt
<1> QED BY <1>1, <1>2, <1>3 DEF Sound, Units, Tidy

LEMMA FollowsTransitive ==
  ASSUME NEW v, NEW w, NEW z, Sound(v), Sound(w), Sound(z), Follows(v, w), Follows(w, z)
  PROVE  Follows(v, z)
<1>1. /\ Len(v.units) \in Nat /\ Len(w.units) \in Nat /\ Len(z.units) \in Nat
      /\ Len(Promised(v)) \in Nat /\ Len(Promised(w)) \in Nat /\ Len(Promised(z)) \in Nat
  BY SoundLists
<1>2. Begins(Promised(v), Promised(z)) /\ Begins(v.units, z.units)
  BY <1>1, BeginsTransitive DEF Follows
<1>3. ASSUME NEW i \in Len(Promised(v)) + 1 .. Len(Promised(z)), Promised(z)[i][1] = "RequireFile"
      PROVE  Promised(z)[i][2] \in Asked(v.rest)
  <2>1. CASE i <= Len(Promised(w))
    <3>1. i \in 1 .. Len(Promised(w)) /\ i \in Len(Promised(v)) + 1 .. Len(Promised(w))
      BY <1>1, <1>3, <2>1
    <3>2. Promised(z)[i] = Promised(w)[i]
      BY <3>1 DEF Follows, Begins
    <3> QED BY <1>3, <3>1, <3>2 DEF Follows
  <2>2. CASE ~(i <= Len(Promised(w)))
    <3>1. i \in Len(Promised(w)) + 1 .. Len(Promised(z))
      BY <1>1, <1>3, <2>2
    <3> QED BY <1>3, <3>1 DEF Follows
  <2> QED BY <2>1, <2>2
<1>4. Asked(z.rest) \subseteq Asked(v.rest)
  BY DEF Follows
<1> QED BY <1>2, <1>3, <1>4 DEF Follows

LEMMA FollowsItself ==
  ASSUME NEW v, Sound(v)
  PROVE  Follows(v, v)
<1>1. Len(v.units) \in Nat /\ Len(Promised(v)) \in Nat
  BY SoundLists
<1>2. \A n \in Nat : n <= n /\ n + 1 .. n = {}
  OBVIOUS
<1> QED BY <1>1, <1>2 DEF Follows, Begins

\* A view with units added to it, and nothing the calls go on from changed.
Grown(v, w) ==
  /\ DOMAIN w = Visible /\ w.rest = v.rest /\ w.desc = v.desc /\ w.told = v.told
  /\ Units(w.units) /\ Begins(v.units, w.units)

LEMMA UnitsAppend ==
  ASSUME NEW s, Units(s), NEW u, List(u.of)
  PROVE  Units(Append(s, u)) /\ Begins(s, Append(s, u))
<1>1. /\ List(Append(s, u)) /\ Begins(s, Append(s, u)) /\ Len(Append(s, u)) = Len(s) + 1
      /\ Append(s, u)[Len(s) + 1] = u /\ Len(s) \in Nat
  BY AppendList DEF Units
<1> DEFINE t == Append(s, u)
<1> HIDE DEF t
<1>2. \A i \in 1 .. Len(s) + 1 : i \in 1 .. Len(s) \/ i = Len(s) + 1
  BY <1>1
<1>3. \A i \in 1 .. Len(t) : List(t[i].of)
  BY <1>1, <1>2 DEF Units, Begins, t
<1> QED BY <1>1, <1>3 DEF Units, t

LEMMA UnitsMore ==
  ASSUME NEW s, Units(s), NEW t, Units(t)
  PROVE  Units(s \o t) /\ Begins(s, s \o t)
<1>1. /\ List(s \o t) /\ Begins(s, s \o t) /\ Len(s \o t) = Len(s) + Len(t)
      /\ (\A i \in 1 .. Len(t) : (s \o t)[Len(s) + i] = t[i]) /\ Len(s) \in Nat /\ Len(t) \in Nat
  BY ConcatList DEF Units
<1> DEFINE u == s \o t
<1> HIDE DEF u
<1>2. ASSUME NEW i \in 1 .. Len(u) PROVE List(u[i].of)
  <2>1. CASE i \in 1 .. Len(s)
    BY <1>1, <2>1 DEF Units, Begins, u
  <2>2. CASE i \notin 1 .. Len(s)
    <3>1. i - Len(s) \in 1 .. Len(t) /\ Len(s) + (i - Len(s)) = i
      BY <1>1, <1>2, <2>2 DEF u
    <3>2. u[i] = t[i - Len(s)]
      BY <1>1, <3>1 DEF u
    <3> QED BY <3>1, <3>2 DEF Units
  <2> QED BY <2>1, <2>2
<1> QED BY <1>1, <1>2 DEF Units, u

LEMMA ShortLists == List(None) /\ \A x : List(<<x>>)
<1>1. <<>> \in Seq({})
  OBVIOUS
<1>2. ASSUME NEW x PROVE <<x>> \in Seq({x})
  OBVIOUS
<1> QED BY <1>1, <1>2 DEF List, None

\* A unit more, and a fetch more.
LEMMA UnpackedGrows ==
  ASSUME NEW v, Sound(v), NEW type, NEW shown, NEW of, List(of), NEW content
  PROVE  LET w == Unpacked(v, type, shown, of, content) IN
           /\ Grown(v, w) /\ Len(v.units) \in Nat /\ Len(w.units) = Len(v.units) + 1
           /\ w.units[Len(v.units) + 1] = Unit(type, shown, of, content)
<1> DEFINE u == Unit(type, shown, of, content)
<1>1. u.of = of
  BY DEF Unit
<1> HIDE DEF u
<1>2. Units(Append(v.units, u)) /\ Begins(v.units, Append(v.units, u))
  BY <1>1, UnitsAppend DEF Sound
<1>3. Len(Append(v.units, u)) = Len(v.units) + 1 /\ Append(v.units, u)[Len(v.units) + 1] = u /\ Len(v.units) \in Nat
  BY AppendList DEF Sound, Units
<1> DEFINE w == [v EXCEPT !.units = Append(@, u)]
<1>4. DOMAIN w = Visible /\ w.rest = v.rest /\ w.desc = v.desc /\ w.told = v.told /\ w.units = Append(v.units, u)
  BY DEF Sound, Visible
<1>5. w = Unpacked(v, type, shown, of, content)
  BY DEF Unpacked, u
<1> HIDE DEF w
<1> QED BY <1>2, <1>3, <1>4, <1>5 DEF Grown, u

LEMMA FetchedGrows ==
  ASSUME NEW v, DOMAIN v = Visible, NEW f, NEW updated
  PROVE  LET w == Fetched(v, f, updated) IN
           /\ DOMAIN w = Visible /\ w.rest = v.rest /\ w.desc = v.desc /\ w.told = v.told /\ w.units = v.units
BY DEF Fetched, Visible

LEMMA GrownItself ==
  ASSUME NEW v, Sound(v), NEW w, DOMAIN w = Visible, w.rest = v.rest, w.desc = v.desc, w.told = v.told,
         w.units = v.units
  PROVE  Grown(v, w)
<1>1. Begins(v.units, v.units)
  BY FollowsItself DEF Follows
<1> QED BY <1>1 DEF Sound, Grown

LEMMA FetchGrows ==
  ASSUME NEW v, Sound(v), NEW c, NEW answer
  PROVE  Grown(v, FetchWork(v, c, answer))
<1> DEFINE method == Given(c, "method", "")
           uri == Given(c, "uri", "")
           to == Given(c, "copyto", "")
           f == SourceIn(c, "download")
           name == IF Given(c, "reponame", "") = "" THEN LastPart[uri] ELSE Given(c, "reponame", "")
           git == GitIn(c)
           link == <<"link", uri, RelativePath(SourceIn(c, "link")), Repos[AsGiven(uri)]>>
           copied == Unpacked(v, "FetchedFileCopy", <<to>>, <<f>>, f.uri)
           deps == [v EXCEPT !.extractTo = <<Given(c, "to", ""), Given(c, "listedonly", FALSE)>>,
                             !.flags = @ \cup {"codeUpdated"}]
           w == FetchWork(v, c, answer)
<1>1. \/ w = Fetched(v, f, FALSE) \/ w = Fetched(copied, f, FALSE) \/ w = Fetched(v, SourceIn(c, method), TRUE)
      \/ w = Unpacked(v, "GitDir", <<"fetch", uri, "">>, <<git>>, <<name, git>>)
      \/ w = Unpacked(v, "GitDir", link, None, uri)
      \/ w = Unpacked(v, "GitDir", <<"copy", answer, ".", Repos[answer]>>, None, answer)
      \/ w = Unpacked(v, "FileCopy", <<uri, answer>>, None, answer)
      \/ w = deps
  BY Zenon DEF FetchWork
<1>2. Grown(v, deps)
  <2>1. DOMAIN deps = Visible /\ deps.rest = v.rest /\ deps.desc = v.desc /\ deps.told = v.told /\ deps.units = v.units
    BY DEF Sound, Visible
  <2> HIDE DEF deps
  <2> QED BY <2>1, GrownItself
<1>3. Grown(v, copied)
  BY UnpackedGrows, ShortLists
<1> HIDE DEF w, deps, copied, f, git, link, name, uri, method
<1>4. /\ \A type, shown, content : Grown(v, Unpacked(v, type, shown, None, content))
      /\ \A type, shown, content : Grown(v, Unpacked(v, type, shown, <<git>>, content))
  BY UnpackedGrows, ShortLists
<1>5. \A x, updated : Grown(v, Fetched(v, x, updated))
  BY FetchedGrows, GrownItself DEF Sound
<1>6. \A x, updated : Grown(v, Fetched(copied, x, updated))
  BY <1>3, FetchedGrows DEF Grown
<1> QED BY <1>1, <1>2, <1>4, <1>5, <1>6 DEF w

LEMMA QuietGrows ==
  ASSUME NEW v, Sound(v), NEW c, Proper(c), NEW name, NEW answer
  PROVE  Grown(v, QuietWork(name, v, c, answer))
<1>1. ASSUME NEW w, NEW x, \/ w = [v EXCEPT !.deps = x] \/ w = [v EXCEPT !.flags = x]
                    \/ w = [v EXCEPT !.intercept = x] \/ w = [v EXCEPT !.install = x]
                    \/ w = [v EXCEPT !.cmds = x]
      PROVE  Grown(v, w)
  <2>1. DOMAIN w = Visible /\ w.rest = v.rest /\ w.desc = v.desc /\ w.told = v.told /\ w.units = v.units
    BY <1>1 DEF Sound, Visible
  <2> QED BY <2>1, GrownItself
<1>2. Grown(v, ExtractWork(v, c))
  <2> DEFINE f == v.fetches[c.of]
             type == IF RelativePath(f) \in Zips THEN "ZipFile" ELSE "TarFile"
  <2>1. ExtractWork(v, c) = Unpacked(v, type, <<RelativePath(f)>>, <<f>>, f.uri)
    BY DEF ExtractWork
  <2> HIDE DEF f, type
  <2>2. Grown(v, Unpacked(v, type, <<RelativePath(f)>>, <<f>>, f.uri))
    BY UnpackedGrows, ShortLists
  <2> QED BY <2>1, <2>2
<1>3. CASE c.op = "patch"
  <2> DEFINE u(i) == Unit("PatchFile", <<c.level, c.dir, c.files[i], answer[i]>>, None, answer[i])
             more == [i \in DOMAIN c.files |-> u(i)]
             x == [v EXCEPT !.units = @ \o more]
  <2>1. QuietWork(name, v, c, answer) = x
    BY <1>3 DEF QuietWork, PatchWork
  <2>2. PICK S : c.files \in Seq(S)
    BY <1>3 DEF Proper, List
  <2>3. Units(more)
    <3>1. DOMAIN c.files = 1 .. Len(c.files) /\ Len(c.files) \in Nat
      BY <2>2
    <3>2. \A i \in DOMAIN c.files : more[i].of = None
      BY DEF Unit
    <3> DEFINE M == {more[i] : i \in DOMAIN c.files}
    <3>3. \A i \in 1 .. Len(c.files) : more[i] \in M
      BY <3>1
    <3>4. more = [i \in 1 .. Len(c.files) |-> more[i]]
      BY <3>1
    <3> HIDE DEF more, M
    <3>5. more \in Seq(M) /\ Len(more) = Len(c.files)
      BY <3>1, <3>3, <3>4
    <3> QED BY <3>1, <3>2, <3>5, ShortLists DEF Units, List
  <2> HIDE DEF more
  <2>4. Units(v.units \o more) /\ Begins(v.units, v.units \o more)
    BY <2>3, UnitsMore DEF Sound
  <2>5. DOMAIN x = Visible /\ x.rest = v.rest /\ x.desc = v.desc /\ x.told = v.told /\ x.units = v.units \o more
    BY DEF Sound, Visible
  <2> HIDE DEF x
  <2> QED BY <2>1, <2>4, <2>5 DEF Grown
<1>4. Grown(v, DependWork(v, c)) /\ Grown(v, InterceptWork(v, c)) /\ Grown(v, InstallWork(v, c))
  BY <1>1, Zenon DEF DependWork, InterceptWork, InstallWork
<1>5. Grown(v, CmdWork(name, v, c)) /\ Grown(v, RestoreWork(v, c)) /\ \A set : Grown(v, FlagsWork(v, set))
  BY <1>1, Zenon DEF CmdWork, RestoreWork, FlagsWork
<1>6. Grown(v, v)
  BY GrownItself DEF Sound
<1>7. Grown(v, FetchWork(v, c, answer))
  BY FetchGrows
<1>8. CASE c.op # "patch"
  BY <1>2, <1>4, <1>5, <1>6, <1>7, <1>8 DEF QuietWork
<1> QED BY <1>3, <1>8

\* A view that leaves the same notes open and has no units less.
LEMMA SamePromise ==
  ASSUME NEW v, Sound(v), NEW w, Promised(w) = Promised(v), Begins(v.units, w.units),
         Asked(w.rest) \subseteq Asked(v.rest)
  PROVE  Follows(v, w)
<1>1. Begins(Promised(v), Promised(v)) /\ Len(Promised(v)) \in Nat
  BY FollowsItself, SoundLists DEF Follows
<1>2. \A n \in Nat : n + 1 .. n = {}
  OBVIOUS
<1> QED BY <1>1, <1>2 DEF Follows

\* One note more, of a file only if it is asked for.
LEMMA MorePromised ==
  ASSUME NEW v, Sound(v), NEW w, NEW note, Promised(w) = Append(Promised(v), note), Begins(v.units, w.units),
         Asked(w.rest) \subseteq Asked(v.rest), note[1] = "RequireFile" => note[2] \in Asked(v.rest)
  PROVE  Follows(v, w) /\ Len(Promised(w)) = Len(Promised(v)) + 1 /\ Promised(w)[Len(Promised(v)) + 1] = note
<1> DEFINE s == Promised(v)
<1>1. /\ Begins(s, Append(s, note)) /\ Len(Append(s, note)) = Len(s) + 1
      /\ Append(s, note)[Len(s) + 1] = note /\ Len(s) \in Nat
  BY SoundLists, AppendList
<1>2. \A n \in Nat : \A i \in n + 1 .. n + 1 : i = n + 1
  OBVIOUS
<1> HIDE DEF s
<1> QED BY <1>1, <1>2 DEF Follows, s

\* Calls that note nothing.
LEMMA OnwardFollows ==
  ASSUME NEW v, Sound(v), v.rest # <<>>, v.rest[1].op \notin Noting, NEW x, Grown(v, x)
  PROVE  Sound(Onward(x)) /\ Follows(v, Onward(x))
<1> DEFINE s == v.rest
           t == Rest(Tail(s), x.told)
           w == [x EXCEPT !.rest = t]
<1>1. w = Onward(x)
  BY DEF Onward, Grown
<1>2. /\ Tidy(t) /\ Asked(t) \subseteq Asked(s)
      /\ Due(s) <= 1 => Due(t) = 0
      /\ Due(s) > 1 => Due(t) > 0 /\ t[Due(t)] = s[Due(s)]
  BY OnwardTidy DEF Sound
<1>3. Due(s) # 1 /\ Due(s) \in Nat
  BY HeadTidy, SoundLists DEF Sound
<1> HIDE DEF t
<1>4. DOMAIN w = Visible /\ w.rest = t /\ w.desc = v.desc /\ w.units = x.units
  BY DEF Grown, Visible
<1>5. Sound(w)
  BY <1>2, <1>4 DEF Sound, Grown
<1> HIDE DEF w
<1>6. Promised(w) = Promised(v)
  <2>1. CASE Due(s) = 0
    BY <1>2, <1>4, <2>1 DEF Promised
  <2>2. CASE Due(s) > 1
    BY <1>2, <1>4, <2>2 DEF Promised
  <2> QED BY <1>3, <2>1, <2>2
<1>7. Begins(v.units, w.units)
  BY <1>4 DEF Grown
<1> QED BY <1>1, <1>2, <1>4, <1>5, <1>6, <1>7, SamePromise

LEMMA QuietFollows ==
  ASSUME NEW v, Sound(v), v.rest # <<>>, v.rest[1].op \notin Noting, ~OneOfMany(v.rest[1]), NEW name, NEW answer
  PROVE  Sound(Effect(name, v, answer)) /\ Follows(v, Effect(name, v, answer))
<1> DEFINE c == v.rest[1]
<1>1. Grown(v, QuietWork(name, v, c, answer))
  <2>1. Proper(c)
    BY HeadTidy DEF Sound
  <2> QED BY <2>1, QuietGrows
<1>2. Work(name, v, c, answer) = QuietWork(name, v, c, answer)
  BY DEF Work, Noting
<1> QED BY <1>1, <1>2, OnwardFollows DEF Effect

LEMMA RequiredFollows ==
  ASSUME NEW v, Sound(v), v.rest # <<>>, v.rest[1].op = "required", NEW name, NEW answer
  PROVE  Sound(Effect(name, v, answer)) /\ Follows(v, Effect(name, v, answer))
<1> DEFINE s == v.rest
           c == s[1]
           t == Rest(Tail(s), v.told)
           w == [v EXCEPT !.desc = Append(v.desc, DueNote(c)), !.rest = t]
<1>1. w = Effect(name, v, answer)
  <2> DEFINE x == [v EXCEPT !.desc = Append(v.desc, DueNote(c))]
  <2>1. Work(name, v, c, answer) = x
    BY DEF Work, RequiredWork, Asking
  <2>2. x.rest = s /\ x.told = v.told
    BY DEF Sound, Visible
  <2>3. w = [x EXCEPT !.rest = t]
    BY DEF Sound, Visible
  <2>4. w = Onward(x)
    BY <2>2, <2>3 DEF Onward
  <2> HIDE DEF x, w
  <2> QED BY <2>1, <2>4 DEF Effect, OneOfMany
<1>2. Tidy(t) /\ Asked(t) \subseteq Asked(s) /\ Due(s) = 1 /\ Due(t) = 0
  <2>1. Due(s) = 1
    BY HeadTidy DEF Sound
  <2> QED BY <2>1, OnwardTidy DEF Sound
<1> HIDE DEF t
<1>3. DOMAIN w = Visible /\ w.rest = t /\ w.desc = Append(v.desc, DueNote(c)) /\ w.units = v.units
  BY DEF Sound, Visible
<1>4. List(Append(v.desc, DueNote(c)))
  BY AppendList DEF Sound
<1> HIDE DEF w
<1>5. Sound(w)
  BY <1>2, <1>3, <1>4 DEF Sound
<1>6. Promised(w) = Promised(v)
  BY <1>2, <1>3 DEF Promised
<1>7. Begins(v.units, w.units)
  BY <1>3, FollowsItself DEF Follows
<1> QED BY <1>1, <1>2, <1>3, <1>5, <1>6, <1>7, SamePromise

LEMMA FeatureFollows ==
  ASSUME NEW v, Sound(v), v.rest # <<>>, v.rest[1].op = "feature", NEW name, NEW answer
  PROVE  LET w == Effect(name, v, answer) IN
           /\ Sound(w) /\ Follows(v, w) /\ Len(Promised(w)) = Len(Promised(v)) + 1
           /\ Promised(w)[Len(Promised(v)) + 1] = AnswerNote(v.rest[1].key, answer)
<1> DEFINE s == v.rest
           c == s[1]
           note == AnswerNote(c.key, answer)
           told == IF c.key = "ls" THEN v.told ELSE Put(v.told, c.key, answer)
           t == Rest(Tail(s), told)
           desc == Append(v.desc, note)
           w == [v EXCEPT !.desc = desc, !.told = told, !.rest = t]
<1>1. w = Effect(name, v, answer)
  <2> DEFINE x == [v EXCEPT !.desc = desc, !.told = told]
  <2>1. Work(name, v, c, answer) = x
    BY DEF Work, FeatureWork, Asking
  <2> HIDE DEF told, desc
  <2>2. x.rest = s /\ x.told = told
    BY DEF Sound, Visible
  <2>3. w = [x EXCEPT !.rest = t]
    BY DEF Sound, Visible
  <2>4. w = Onward(x)
    BY <2>2, <2>3 DEF Onward
  <2> HIDE DEF x, w
  <2> QED BY <2>1, <2>4 DEF Effect, OneOfMany
<1>2. Tidy(t) /\ Asked(t) \subseteq Asked(s) /\ Due(s) = 0 /\ Due(t) = 0
  <2>1. Due(s) = 0
    BY HeadTidy DEF Sound, Noting
  <2> QED BY <2>1, OnwardTidy DEF Sound
<1>3. List(desc)
  BY AppendList DEF Sound
<1>4. note[1] # "RequireFile"
  BY DEF AnswerNote
<1> HIDE DEF t, told, desc, note
<1>5. DOMAIN w = Visible /\ w.rest = t /\ w.desc = desc /\ w.units = v.units
  BY DEF Sound, Visible
<1> HIDE DEF w
<1>6. Sound(w)
  BY <1>2, <1>3, <1>5 DEF Sound
<1>7. Promised(w) = Append(Promised(v), note)
  BY <1>2, <1>5 DEF Promised, desc
<1>8. Begins(v.units, w.units)
  BY <1>5, FollowsItself DEF Follows
<1> QED BY <1>1, <1>2, <1>4, <1>5, <1>6, <1>7, <1>8, MorePromised DEF note

\* A file that is asked for, is not there and is not noted.
LEMMA AbsentFollows ==
  ASSUME NEW v, Sound(v), v.rest # <<>>, v.rest[1].op \in Asking, NEW name
  PROVE  LET w == Effect(name, v, None) IN
           /\ Sound(w) /\ Follows(v, w) /\ Promised(w) = Promised(v)
           /\ v.rest[1].file \in Asked(v.rest) /\ v.rest[1].file \notin Asked(w.rest)
<1> DEFINE s == v.rest
           c == s[1]
           t == Rest(Tail(s), v.told)
           w == [v EXCEPT !.rest = t]
<1>1. w = Effect(name, v, None)
  <2>1. Work(name, v, c, None) = v
    BY DEF Work, Asking
  <2>2. w = Onward(v)
    BY DEF Onward
  <2> HIDE DEF w
  <2> QED BY <2>1, <2>2 DEF Effect, OneOfMany, Asking
<1>2. /\ Tidy(t) /\ Asked(t) \subseteq Asked(s) /\ Due(s) = 0 /\ Due(t) = 0
      /\ c.file \in Asked(s) /\ c.file \notin Asked(t)
  <2>1. Due(s) = 0
    BY HeadTidy DEF Sound, Noting, Asking
  <2> QED BY <2>1, OnwardTidy DEF Sound
<1> HIDE DEF t
<1>3. DOMAIN w = Visible /\ w.rest = t /\ w.desc = v.desc /\ w.units = v.units
  BY DEF Sound, Visible
<1> HIDE DEF w
<1>4. Sound(w)
  BY <1>2, <1>3 DEF Sound
<1>5. Promised(w) = Promised(v)
  BY <1>2, <1>3 DEF Promised
<1>6. Begins(v.units, w.units)
  BY <1>3, FollowsItself DEF Follows
<1> QED BY <1>1, <1>2, <1>3, <1>4, <1>5, <1>6, SamePromise

LEMMA FoundFollows ==
  ASSUME NotesSuffice, NEW v, Sound(v), v.rest # <<>>, v.rest[1].op \in Asking,
         NEW hash, Found(v.rest[1].file, hash), NEW name
  PROVE  LET w == Effect(name, v, <<hash>>) IN
           /\ Sound(w) /\ Follows(v, w) /\ Len(Promised(w)) = Len(Promised(v)) + 1
           /\ Promised(w)[Len(Promised(v)) + 1] = <<"RequireFile", v.rest[1].file, hash>>
<1> DEFINE s == v.rest
           c == s[1]
           due == DueCall(c.file, hash)
           u == <<c>> \o TextOf(hash) \o <<due>> \o Tail(s)
           t == Rest(Tail(u), v.told)
           w == [v EXCEPT !.rest = t]
<1>1. w = Effect(name, v, <<hash>>)
  <2> DEFINE x == [v EXCEPT !.rest = u]
  <2>1. Work(name, v, c, <<hash>>) = x
    BY DEF Work, RequireWork, Asking, None
  <2> HIDE DEF u
  <2>2. x.rest = u /\ x.told = v.told
    BY DEF Sound, Visible
  <2>3. w = [x EXCEPT !.rest = t]
    BY DEF Sound, Visible
  <2>4. w = Onward(x)
    BY <2>2, <2>3 DEF Onward
  <2> HIDE DEF x, w
  <2> QED BY <2>1, <2>4 DEF Effect, OneOfMany, Asking
<1>2. Tidy(t) /\ Asked(t) \subseteq Asked(s) /\ Due(t) > 0 /\ t[Due(t)] = due
  BY SpliceTidy DEF Sound
<1>3. Due(s) = 0 /\ c.file \in Asked(s)
  BY HeadTidy, TailTidy DEF Sound, Noting, Asking
<1> HIDE DEF t
<1>4. DOMAIN w = Visible /\ w.rest = t /\ w.desc = v.desc /\ w.units = v.units
  BY DEF Sound, Visible
<1> HIDE DEF w
<1>5. Sound(w)
  BY <1>2, <1>4 DEF Sound
<1> DEFINE note == <<"RequireFile", c.file, hash>>
<1>6. DueNote(due) = note /\ note[1] = "RequireFile" /\ note[2] = c.file
  BY DEF DueNote, DueCall
<1> HIDE DEF note, due
<1>7. Promised(w) = Append(Promised(v), note)
  BY <1>2, <1>3, <1>4, <1>6 DEF Promised
<1>8. Begins(v.units, w.units)
  BY <1>4, FollowsItself DEF Follows
<1> QED BY <1>1, <1>2, <1>3, <1>4, <1>5, <1>6, <1>7, <1>8, MorePromised DEF note

\* Another depend() in the place of the first call.
LEMMA HeadEdited ==
  ASSUME NEW s, Tidy(s), s # <<>>, s[1].op = "depend", NEW c, c.op = "depend", Proper(c)
  PROVE  LET t == [s EXCEPT ![1] = c] IN
           /\ Tidy(t) /\ Asked(t) = Asked(s) /\ Due(t) = Due(s)
           /\ Due(s) > 0 => t[Due(t)] = s[Due(s)]
<1> DEFINE t == [s EXCEPT ![1] = c]
           n == Len(s)
           k == Due(s)
<1>1. PICK S : s \in Seq(S)
  BY DEF Tidy, List
<1>2. n \in Nat /\ n >= 1 /\ DOMAIN s = 1 .. n /\ DueAt(s, k) /\ k \in 0 .. n
  <2>1. n \in Nat /\ n >= 1 /\ DOMAIN s = 1 .. n
    BY <1>1
  <2>2. DueAt(s, k)
    BY <2>1, DueIs DEF Tidy
  <2> QED BY <2>1, <2>2 DEF DueAt
<1>3. k # 1
  BY HeadTidy DEF Noting, Asking
<1>4. /\ DOMAIN t = 1 .. n /\ t[1] = c /\ \A i \in 1 .. n : i # 1 => t[i] = s[i]
  BY <1>2
<1>5. t \in Seq(S \cup {c}) /\ Len(t) = n
  <2> DEFINE T == S \cup {c}
  <2>1. \A i \in 1 .. n : t[i] \in T
    BY <1>1, <1>2, <1>4
  <2>2. t = [i \in 1 .. n |-> t[i]]
    BY <1>2
  <2> HIDE DEF t, T
  <2> QED BY <1>2, <2>1, <2>2 DEF T
<1> HIDE DEF t
<1>6. \A i \in 1 .. n : t[i].op = s[i].op /\ (t[i].op \in Asking => t[i].file = s[i].file)
  BY <1>2, <1>4 DEF Asking
<1>7. DueAt(t, k)
  <2>1. k > 0 => t[k] = s[k] /\ k \in 1 .. n
    BY <1>2, <1>3, <1>4
  <2>2. \A i \in 1 .. k - 1 : i \in 1 .. n
    BY <1>2
  <2>3. \A i \in k + 1 .. n : i \in 1 .. n
    BY <1>2
  <2> HIDE DEF n, k
  <2>4. /\ k > 0 => t[k].op = "required" /\ "when" \notin DOMAIN t[k]
        /\ \A i \in 1 .. k - 1 : t[i].op \notin Noting
        /\ \A i \in k + 1 .. n : t[i].op # "required" /\ (t[i].op \in Asking => RunsQuiet(t[i].file))
    BY <1>2, <1>6, <2>1, <2>2, <2>3 DEF DueAt, n
  <2>5. \A i, j \in k + 1 .. n :
          i < j /\ t[i].op \in Asking /\ t[j].op \in Asking => t[i].file # t[j].file
    BY <1>2, <1>6, <2>3 DEF DueAt, n
  <2> QED BY <1>2, <1>5, <2>4, <2>5 DEF DueAt, n
<1>8. Due(t) = k
  BY <1>2, <1>5, <1>7, DueIs
<1>9. Tidy(t)
  <2>1. \A i \in 1 .. Len(t) : Proper(t[i])
    BY <1>2, <1>4, <1>5 DEF Tidy
  <2> QED BY <1>5, <1>7, <2>1 DEF Tidy, List
<1>10. Asked(t) = Asked(s)
  BY <1>2, <1>4, <1>6 DEF Asked
<1>11. k > 0 => t[k] = s[k]
  BY <1>2, <1>3, <1>4
<1> QED BY <1>8, <1>9, <1>10, <1>11 DEF t

LEMMA ManyFollows ==
  ASSUME NEW v, Sound(v), v.rest # <<>>, OneOfMany(v.rest[1]), Possible(v.rest[1], None), NEW name, NEW answer
  PROVE  Sound(Effect(name, v, answer)) /\ Follows(v, Effect(name, v, answer))
<1> DEFINE s == v.rest
           c == s[1]
           d == [c EXCEPT !.table.packages = Tail(c.table.packages)]
           t == [s EXCEPT ![1] = d]
           x == DependWork(v, c)
           w == [x EXCEPT !.rest = t]
<1>1. c.op = "depend" /\ {"op", "table"} \subseteq DOMAIN c
  BY DEF OneOfMany, Possible
<1>2. d.op = "depend" /\ Proper(d)
  <2>1. Proper(c)
    BY HeadTidy DEF Sound
  <2>2. DOMAIN d = DOMAIN c /\ \A key \in DOMAIN c \ {"table"} : d[key] = c[key]
    OBVIOUS
  <2> HIDE DEF d
  <2> QED BY <1>1, <2>1, <2>2 DEF Proper
<1>3. Grown(v, x)
  <2>1. Proper(c)
    BY HeadTidy DEF Sound
  <2>2. QuietWork(name, v, c, answer) = x
    BY <1>1 DEF QuietWork
  <2> QED BY <2>1, <2>2, QuietGrows
<1>4. w = Effect(name, v, answer)
  <2>1. Work(name, v, c, answer) = x
    BY <1>1 DEF Work, Asking, QuietWork
  <2>2. [x EXCEPT !.rest[1].table.packages = Tail(c.table.packages)] = w
    BY <1>3 DEF Grown
  <2> HIDE DEF w, x
  <2> QED BY <2>1, <2>2 DEF Effect
<1>5. Tidy(t) /\ Asked(t) = Asked(s) /\ Due(t) = Due(s) /\ (Due(s) > 0 => t[Due(t)] = s[Due(s)])
  BY <1>1, <1>2, HeadEdited DEF Sound
<1> HIDE DEF t, x
<1>6. DOMAIN w = Visible /\ w.rest = t /\ w.desc = v.desc /\ w.units = x.units
  BY <1>3 DEF Grown, Visible
<1> HIDE DEF w
<1>7. Sound(w)
  BY <1>3, <1>5, <1>6 DEF Sound, Grown
<1>8. Promised(w) = Promised(v)
  <2>1. Due(s) \in Nat
    BY SoundLists
  <2> QED BY <1>5, <1>6, <2>1 DEF Promised
<1>9. Begins(v.units, w.units)
  BY <1>3, <1>6 DEF Grown
<1> QED BY <1>4, <1>5, <1>6, <1>7, <1>8, <1>9, SamePromise

\* Whatever the call and the answer.
LEMMA EffectFollows ==
  ASSUME NotesSuffice, NEW v, Sound(v), v.rest # <<>>, NEW answer, Possible(v.rest[1], answer), NEW name
  PROVE  Sound(Effect(name, v, answer)) /\ Follows(v, Effect(name, v, answer))
<1>1. CASE OneOfMany(v.rest[1])
  <2>1. Possible(v.rest[1], None)
    BY <1>1 DEF Possible, OneOfMany, Asking
  <2> QED BY <1>1, <2>1, ManyFollows
<1>2. CASE v.rest[1].op = "required"
  BY <1>2, RequiredFollows
<1>3. CASE v.rest[1].op = "feature"
  BY <1>3, FeatureFollows
<1>4. CASE v.rest[1].op \in Asking
  <2>1. answer = None \/ \E hash : answer = <<hash>> /\ Found(v.rest[1].file, hash)
    BY <1>4 DEF Possible
  <2> QED BY <1>4, <2>1, AbsentFollows, FoundFollows
<1>5. CASE v.rest[1].op \notin Noting /\ ~OneOfMany(v.rest[1])
  BY <1>5, QuietFollows
<1> QED BY <1>1, <1>2, <1>3, <1>4, <1>5 DEF Noting

-----------------------------------------------------------------------------
(* The same notes and the same units shown: the same answers.              *)

\* What the hash is taken of is the same.
Alike(y, z) ==
  /\ y.desc = z.desc /\ Len(y.units) = Len(z.units)
  /\ \A i \in 1 .. Len(y.units) : y.units[i].type = z.units[i].type /\ y.units[i].shown = z.units[i].shown

\* A view that leads to one at the end of the file.
Ends(w, z) == Sound(w) /\ Sound(z) /\ z.rest = <<>> /\ Follows(w, z)

LEMMA EndsAlike ==
  ASSUME NEW w1, NEW z1, Ends(w1, z1), NEW w2, NEW z2, Ends(w2, z2), Alike(z1, z2)
  PROVE  /\ \A i \in 1 .. Len(Promised(w1)) : i <= Len(Promised(w2)) => Promised(w1)[i] = Promised(w2)[i]
         /\ \A i \in 1 .. Len(Promised(w1)) : i > Len(Promised(w2)) /\ Promised(w1)[i][1] = "RequireFile"
              => Promised(w1)[i][2] \in Asked(w2.rest)
         /\ \A i \in 1 .. Len(w1.units) : i <= Len(w2.units)
              => w1.units[i].shown = w2.units[i].shown
<1>1. Promised(z1) = z1.desc /\ Promised(z2) = z2.desc
  <2>1. ASSUME NEW z, Sound(z), z.rest = <<>> PROVE Promised(z) = z.desc
    <3>1. Due(z.rest) \in 0 .. Len(z.rest) /\ Len(z.rest) = 0
      BY <2>1, SoundLists
    <3> QED BY <3>1 DEF Promised
  <2> QED BY <2>1 DEF Ends
<1>2. /\ Len(w1.units) \in Nat /\ Len(w2.units) \in Nat /\ Len(z1.units) \in Nat
      /\ Len(Promised(w1)) \in Nat /\ Len(Promised(w2)) \in Nat /\ Len(Promised(z1)) \in Nat
  BY SoundLists DEF Ends
<1>3. Promised(z1) = Promised(z2) /\ Len(z1.units) = Len(z2.units)
  BY <1>1 DEF Alike
<1>4. \A i \in 1 .. Len(Promised(w1)) : i <= Len(Promised(w2)) => Promised(w1)[i] = Promised(w2)[i]
  BY <1>2, <1>3 DEF Ends, Follows, Begins
<1>5. ASSUME NEW i \in 1 .. Len(Promised(w1)), i > Len(Promised(w2)), Promised(w1)[i][1] = "RequireFile"
      PROVE  Promised(w1)[i][2] \in Asked(w2.rest)
  <2>1. Promised(z2)[i] = Promised(w1)[i]
    BY <1>3 DEF Ends, Follows, Begins
  <2>2. i \in Len(Promised(w2)) + 1 .. Len(Promised(z2))
    BY <1>2, <1>3, <1>5 DEF Ends, Follows, Begins
  <2> QED BY <1>5, <2>1, <2>2 DEF Ends, Follows
<1>6. ASSUME NEW i \in 1 .. Len(w1.units), i <= Len(w2.units)
      PROVE  w1.units[i].shown = w2.units[i].shown
  <2>1. i \in 1 .. Len(w2.units) /\ i \in 1 .. Len(z1.units)
    BY <1>2, <1>6 DEF Ends, Follows, Begins
  <2>2. z1.units[i] = w1.units[i] /\ z2.units[i] = w2.units[i]
    BY <2>1 DEF Ends, Follows, Begins
  <2> QED BY <2>1, <2>2 DEF Alike
<1> QED BY <1>4, <1>5, <1>6

\* A feature's value is noted.
LEMMA SameFeature ==
  ASSUME NEW v, Sound(v), v.rest # <<>>, v.rest[1].op = "feature", NEW name,
         NEW a1, Possible(v.rest[1], a1), NEW z1, Ends(Effect(name, v, a1), z1),
         NEW a2, Possible(v.rest[1], a2), NEW z2, Ends(Effect(name, v, a2), z2), Alike(z1, z2)
  PROVE  a1 = a2
<1> DEFINE c == v.rest[1]
           w1 == Effect(name, v, a1)
           w2 == Effect(name, v, a2)
           n == Len(Promised(v))
<1>1. Len(Promised(w1)) = n + 1 /\ Promised(w1)[n + 1] = AnswerNote(c.key, a1)
  BY FeatureFollows
<1>2. Len(Promised(w2)) = n + 1 /\ Promised(w2)[n + 1] = AnswerNote(c.key, a2)
  BY FeatureFollows
<1>3. n \in Nat
  BY SoundLists
<1> HIDE DEF w1, w2, n
<1>4. n + 1 \in 1 .. Len(Promised(w1)) /\ n + 1 <= Len(Promised(w2))
  BY <1>1, <1>2, <1>3
<1>5. Promised(w1)[n + 1] = Promised(w2)[n + 1]
  BY <1>4, EndsAlike DEF w1, w2
<1>6. AnswerNote(c.key, a1) = AnswerNote(c.key, a2)
  BY <1>1, <1>2, <1>5
<1>7. (a1 = None \/ \E x : a1 = <<x>>) /\ (a2 = None \/ \E x : a2 = <<x>>)
  BY DEF Possible
<1>8. AnswerNote(c.key, None) = <<"FeatureNil", c.key>>
  BY DEF AnswerNote
<1>9. \A x : AnswerNote(c.key, <<x>>) = <<"FeatureValue", c.key, x>>
  BY DEF AnswerNote, None
<1> QED BY <1>6, <1>7, <1>8, <1>9

\* A file that is run is noted with its hash, and one that is not there is not.
LEMMA SameFile ==
  ASSUME NotesSuffice, NEW v, Sound(v), v.rest # <<>>, v.rest[1].op \in Asking, NEW name,
         NEW a1, Possible(v.rest[1], a1), NEW z1, Ends(Effect(name, v, a1), z1),
         NEW a2, Possible(v.rest[1], a2), NEW z2, Ends(Effect(name, v, a2), z2), Alike(z1, z2)
  PROVE  a1 = a2
<1> DEFINE c == v.rest[1]
           n == Len(Promised(v))
<1>1. ASSUME NEW b1, NEW y1, Ends(Effect(name, v, b1), y1), NEW y2, Alike(y1, y2),
             NEW hash, b1 = <<hash>>, Found(c.file, hash)
      PROVE  /\ ~Ends(Effect(name, v, None), y2)
             /\ \A other : Found(c.file, other) /\ Ends(Effect(name, v, <<other>>), y2) => other = hash
  <2> DEFINE w1 == Effect(name, v, <<hash>>)
             w2 == Effect(name, v, None)
             note == <<"RequireFile", c.file, hash>>
  <2>1. Len(Promised(w1)) = n + 1 /\ Promised(w1)[n + 1] = note
    BY <1>1, FoundFollows
  <2>2. n \in Nat /\ note[1] = "RequireFile" /\ note[2] = c.file
    BY SoundLists
  <2>3. Promised(w2) = Promised(v) /\ c.file \notin Asked(w2.rest)
    BY AbsentFollows
  <2>4. n + 1 \in 1 .. Len(Promised(w1)) /\ n + 1 > Len(Promised(w2))
    BY <2>1, <2>2, <2>3
  <2>5. ~Ends(w2, y2)
    <3> SUFFICES ASSUME Ends(w2, y2) PROVE FALSE
      OBVIOUS
    <3> HIDE DEF w1, w2, n, note
    <3>1. Promised(w1)[n + 1][1] = "RequireFile" => Promised(w1)[n + 1][2] \in Asked(w2.rest)
      BY <1>1, <2>4, EndsAlike DEF w1
    <3> QED BY <2>1, <2>2, <2>3, <3>1
  <2>6. ASSUME NEW other, Found(c.file, other), Ends(Effect(name, v, <<other>>), y2)
        PROVE  other = hash
    <3> DEFINE w3 == Effect(name, v, <<other>>)
    <3>1. Len(Promised(w3)) = n + 1 /\ Promised(w3)[n + 1] = <<"RequireFile", c.file, other>>
      BY <2>6, FoundFollows
    <3> HIDE DEF w1, w3, n
    <3>2. Promised(w1)[n + 1] = Promised(w3)[n + 1]
      <4>1. n + 1 <= Len(Promised(w3))
        BY <2>2, <3>1
      <4> QED BY <1>1, <2>4, <2>6, <4>1, EndsAlike DEF w1, w3
    <3> QED BY <2>1, <3>1, <3>2
  <2> QED BY <2>5, <2>6
<1>2. Alike(z2, z1)
  BY DEF Alike
<1>3. /\ a1 = None \/ \E hash : a1 = <<hash>> /\ Found(c.file, hash)
      /\ a2 = None \/ \E hash : a2 = <<hash>> /\ Found(c.file, hash)
  BY DEF Possible
<1>4. CASE a1 = None /\ a2 = None
  BY <1>4
<1>5. ASSUME NEW hash, a1 = <<hash>>, Found(c.file, hash) PROVE a1 = a2
  <2>1. ~Ends(Effect(name, v, None), z2)
    BY <1>1, <1>5
  <2> QED BY <1>1, <1>3, <1>5, <2>1
<1>6. ASSUME NEW hash, a2 = <<hash>>, Found(c.file, hash), a1 = None PROVE FALSE
  BY <1>1, <1>2, <1>6
<1> QED BY <1>3, <1>4, <1>5, <1>6

\* The hash of a copied file and the path of a copied directory are shown by its unit.
LEMMA SameFetch ==
  ASSUME NEW v, Sound(v), v.rest # <<>>, v.rest[1].op = "fetch", NEW name,
         NEW a1, NEW z1, Ends(Effect(name, v, a1), z1),
         NEW a2, NEW z2, Ends(Effect(name, v, a2), z2), Alike(z1, z2)
  PROVE  Effect(name, v, a1) = Effect(name, v, a2)
<1> DEFINE c == v.rest[1]
           method == Given(c, "method", "")
           uri == Given(c, "uri", "")
           n == Len(v.units)
<1>1. \A a : Effect(name, v, a) = Onward(FetchWork(v, c, a))
  BY DEF Effect, OneOfMany, Work, Asking, QuietWork
<1>2. \A x : DOMAIN x = Visible => Onward(x).units = x.units
  <2> SUFFICES ASSUME NEW x, DOMAIN x = Visible PROVE Onward(x).units = x.units
    OBVIOUS
  <2> DEFINE t == Rest(Tail(x.rest), x.told)
  <2> HIDE DEF t
  <2>1. [x EXCEPT !.rest = t].units = x.units
    BY DEF Visible
  <2> QED BY <2>1 DEF Onward, t
<1>3. n \in Nat
  BY SoundLists
<1>4. ASSUME NEW a, NEW type, NEW shown, NEW content, FetchWork(v, c, a) = Unpacked(v, type, shown, None, content)
      PROVE  Len(Effect(name, v, a).units) = n + 1 /\ Effect(name, v, a).units[n + 1].shown = shown
  <2> DEFINE w == Unpacked(v, type, shown, None, content)
  <2>1. /\ DOMAIN w = Visible /\ Len(w.units) = n + 1
        /\ w.units[n + 1] = Unit(type, shown, None, content)
    BY UnpackedGrows, ShortLists DEF Grown
  <2> HIDE DEF w
  <2>2. Effect(name, v, a).units = w.units
    BY <1>1, <1>2, <1>4, <2>1 DEF w
  <2> QED BY <2>1, <2>2 DEF Unit
<1>5. ASSUME NEW type, NEW s1, NEW d1, FetchWork(v, c, a1) = Unpacked(v, type, s1, None, d1),
             NEW s2, NEW d2, FetchWork(v, c, a2) = Unpacked(v, type, s2, None, d2)
      PROVE  s1 = s2
  <2> DEFINE u1 == Effect(name, v, a1).units
             u2 == Effect(name, v, a2).units
  <2>1. Len(u1) = n + 1 /\ u1[n + 1].shown = s1 /\ Len(u2) = n + 1 /\ u2[n + 1].shown = s2
    BY <1>4, <1>5
  <2>2. \A i \in 1 .. Len(u1) : i <= Len(u2) => u1[i].shown = u2[i].shown
    BY EndsAlike
  <2>3. n + 1 \in 1 .. n + 1 /\ n + 1 <= n + 1
    BY <1>3
  <2> HIDE DEF n, u1, u2
  <2> QED BY <2>1, <2>2, <2>3
<1>6. CASE method \in {"copygit", "copyfile"}
  <2>1. CASE method = "copygit"
    <3>1. \A a : FetchWork(v, c, a) = Unpacked(v, "GitDir", <<"copy", a, ".", Repos[a]>>, None, a)
      BY <2>1 DEF FetchWork
    <3> DEFINE s1 == <<"copy", a1, ".", Repos[a1]>>
               s2 == <<"copy", a2, ".", Repos[a2]>>
    <3>2. s1 = s2
      <4> HIDE DEF s1, s2
      <4>1. /\ FetchWork(v, c, a1) = Unpacked(v, "GitDir", s1, None, a1)
            /\ FetchWork(v, c, a2) = Unpacked(v, "GitDir", s2, None, a2)
        BY <3>1 DEF s1, s2
      <4> QED BY <1>5, <4>1
    <3> QED BY <3>2
  <2>2. CASE method = "copyfile"
    <3>1. \A a : FetchWork(v, c, a) = Unpacked(v, "FileCopy", <<uri, a>>, None, a)
      BY <2>2 DEF FetchWork
    <3> DEFINE s1 == <<uri, a1>>
               s2 == <<uri, a2>>
    <3>2. s1 = s2
      <4> HIDE DEF s1, s2
      <4>1. /\ FetchWork(v, c, a1) = Unpacked(v, "FileCopy", s1, None, a1)
            /\ FetchWork(v, c, a2) = Unpacked(v, "FileCopy", s2, None, a2)
        BY <3>1 DEF s1, s2
      <4> QED BY <1>5, <4>1
    <3> QED BY <3>2
  <2> QED BY <1>6, <2>1, <2>2
<1>7. CASE method \notin {"copygit", "copyfile"}
  <2>1. FetchWork(v, c, a1) = FetchWork(v, c, a2)
    BY <1>7 DEF FetchWork
  <2> QED BY <1>1, <2>1
<1> QED BY <1>6, <1>7

\* The unit of a patch shows its hash.
LEMMA SamePatch ==
  ASSUME NEW v, Sound(v), v.rest # <<>>, v.rest[1].op = "patch", NEW name,
         NEW a1, NEW z1, Ends(Effect(name, v, a1), z1),
         NEW a2, NEW z2, Ends(Effect(name, v, a2), z2), Alike(z1, z2)
  PROVE  Effect(name, v, a1) = Effect(name, v, a2)
<1> DEFINE c == v.rest[1]
           n == Len(v.units)
           m == Len(c.files)
           unit(a, i) == Unit("PatchFile", <<c.level, c.dir, c.files[i], a[i]>>, None, a[i])
           more(a) == [i \in DOMAIN c.files |-> unit(a, i)]
<1>1. \A a : Effect(name, v, a) = Onward(PatchWork(v, c, a))
  BY DEF Effect, OneOfMany, Work, Asking, QuietWork
<1>2. PICK S : c.files \in Seq(S)
  BY HeadTidy DEF Sound, Proper, List
<1>3. n \in Nat /\ m \in Nat /\ DOMAIN c.files = 1 .. m
  BY <1>2, SoundLists
<1>4. \A a : PatchWork(v, c, a) = [v EXCEPT !.units = v.units \o more(a)]
  BY DEF PatchWork
<1> HIDE DEF more, n, m
<1>5. \A a : Effect(name, v, a).units = v.units \o more(a)
  <2> SUFFICES ASSUME NEW a PROVE Effect(name, v, a).units = v.units \o more(a)
    OBVIOUS
  <2> DEFINE x == PatchWork(v, c, a)
             t == Rest(Tail(x.rest), x.told)
  <2>1. DOMAIN x = Visible /\ x.units = v.units \o more(a)
    BY <1>4 DEF Sound, Visible
  <2> HIDE DEF x, t
  <2>2. [x EXCEPT !.rest = t].units = x.units
    BY <2>1 DEF Visible
  <2> QED BY <1>1, <2>1, <2>2 DEF Onward, t, x
<1>6. \A a : /\ Len(v.units \o more(a)) = n + m
             /\ \A i \in 1 .. m : (v.units \o more(a))[n + i] = unit(a, i)
  <2> SUFFICES ASSUME NEW a
               PROVE  /\ Len(v.units \o more(a)) = n + m
                      /\ \A i \in 1 .. m : (v.units \o more(a))[n + i] = unit(a, i)
    OBVIOUS
  <2> DEFINE M == {unit(a, i) : i \in 1 .. m}
  <2>1. more(a) = [i \in 1 .. m |-> unit(a, i)] /\ \A i \in 1 .. m : unit(a, i) \in M
    BY <1>3 DEF more
  <2> HIDE DEF M, unit
  <2>2. more(a) \in Seq(M) /\ Len(more(a)) = m /\ \A i \in 1 .. m : more(a)[i] = unit(a, i)
    BY <1>3, <2>1
  <2>3. List(more(a)) /\ List(v.units)
    BY <2>2, SoundLists DEF List
  <2> QED BY <2>2, <2>3, ConcatList DEF n
<1>7. ASSUME NEW i \in 1 .. m PROVE a1[i] = a2[i]
  <2>1. n + i \in 1 .. n + m /\ n + i <= n + m
    BY <1>3
  <2>2. Effect(name, v, a1).units[n + i].shown = Effect(name, v, a2).units[n + i].shown
    BY <1>5, <1>6, <2>1, EndsAlike
  <2>3. unit(a1, i).shown = unit(a2, i).shown
    BY <1>5, <1>6, <2>2
  <2> QED BY <2>3 DEF Unit
<1>8. more(a1) = more(a2)
  BY <1>3, <1>7 DEF more
<1> QED BY <1>1, <1>4, <1>8

\* What comes of a call is decided by what the package ends with.
LEMMA SameEffect ==
  ASSUME NotesSuffice, NEW v, Sound(v), v.rest # <<>>, NEW name,
         NEW a1, Possible(v.rest[1], a1), NEW z1, Ends(Effect(name, v, a1), z1),
         NEW a2, Possible(v.rest[1], a2), NEW z2, Ends(Effect(name, v, a2), z2), Alike(z1, z2)
  PROVE  Effect(name, v, a1) = Effect(name, v, a2)
<1> DEFINE c == v.rest[1]
<1>1. CASE c.op = "feature"
  BY <1>1, SameFeature
<1>2. CASE c.op \in Asking
  BY <1>2, SameFile
<1>3. CASE c.op = "fetch"
  BY <1>3, SameFetch
<1>4. CASE c.op = "patch"
  BY <1>4, SamePatch
<1>5. CASE c.op \notin Asking \cup {"feature", "fetch", "patch"}
  <2>1. Work(name, v, c, a1) = Work(name, v, c, a2)
    BY <1>5, Zenon DEF Work, QuietWork
  <2> QED BY <2>1 DEF Effect
<1> QED BY <1>1, <1>2, <1>3, <1>4, <1>5

-----------------------------------------------------------------------------
(* The calls a package has made so far, with what it was answered.         *)

Opened(name, hash, flags) ==
  [rest |-> Rest(TextOf(hash), <<>>), told |-> <<>>, desc |-> PackageNote(name, hash), deps |-> <<>>,
   cmds |-> <<>>, units |-> <<>>, fetches |-> <<>>, install |-> <<>>, intercept |-> {}, flags |-> flags,
   extractTo |-> <<>>]

Trace(name, hash, flags, n, h, answers) ==
  /\ h[0] = Opened(name, hash, flags)
  /\ \A i \in 0 .. n - 1 : /\ h[i].rest # <<>> /\ Possible(h[i].rest[1], answers[i])
                            /\ h[i + 1] = Effect(name, h[i], answers[i])
  /\ \A i \in 0 .. n : Sound(h[i]) /\ Follows(h[i], h[n])

Traced(name, flags, v) ==
  \E n, hash, h, answers : n \in Nat /\ Trace(name, hash, flags, n, h, answers) /\ h[n] = v

LEMMA OpenedSound ==
  ASSUME NotesSuffice, NEW name, NEW hash, NEW flags
  PROVE  LET v == Opened(name, hash, flags) IN
           /\ Sound(v) /\ Len(Promised(v)) = 1 /\ Promised(v)[1] = <<"PackageFile", name, hash>>
<1> DEFINE v == Opened(name, hash, flags)
           s == TextOf(hash)
           t == Rest(s, <<>>)
<1>1. Tidy(s) /\ Due(s) = 0
  <2>1. List(s) /\ (\A i \in 1 .. Len(s) : Proper(s[i])) /\ DueAt(s, 0)
    BY TextTidy
  <2> HIDE DEF s
  <2>2. Len(s) \in Nat
    BY <2>1 DEF List
  <2> QED BY <2>1, <2>2, DueIs DEF Tidy
<1> HIDE DEF s
<1>2. Tidy(t) /\ Due(t) = 0
  BY <1>1, RestTidy
<1>3. /\ DOMAIN v = Visible /\ v.rest = t /\ v.desc = << <<"PackageFile", name, hash>> >> /\ v.units = <<>>
  BY DEF Opened, Visible, PackageNote, s
<1> HIDE DEF v, t
<1>4. List(v.desc) /\ Units(v.units)
  BY <1>3, ShortLists DEF Units, None
<1>5. Sound(v)
  BY <1>2, <1>3, <1>4 DEF Sound
<1>6. Promised(v) = << <<"PackageFile", name, hash>> >>
  BY <1>2, <1>3 DEF Promised
<1> QED BY <1>5, <1>6 DEF v

LEMMA TraceBegins ==
  ASSUME NotesSuffice, NEW name, NEW hash, NEW flags
  PROVE  Traced(name, flags, Opened(name, hash, flags))
<1> DEFINE v == Opened(name, hash, flags)
           h == [i \in {0} |-> v]
<1>1. Sound(v) /\ Follows(v, v)
  BY OpenedSound, FollowsItself
<1> HIDE DEF v
<1>2. h[0] = v /\ 0 .. 0 - 1 = {} /\ 0 .. 0 = {0} /\ 0 \in Nat
  OBVIOUS
<1> HIDE DEF h
<1>3. Trace(name, hash, flags, 0, h, h)
  BY <1>1, <1>2 DEF Trace, v
<1> QED BY <1>2, <1>3 DEF Traced, v

LEMMA TraceGoesOn ==
  ASSUME NotesSuffice, NEW name, NEW flags, NEW v, Traced(name, flags, v),
         v.rest # <<>>, NEW answer, Possible(v.rest[1], answer)
  PROVE  Traced(name, flags, Effect(name, v, answer))
<1> DEFINE w == Effect(name, v, answer)
<1>1. PICK n, hash, h, answers : n \in Nat /\ Trace(name, hash, flags, n, h, answers) /\ h[n] = v
  BY DEF Traced
<1> n \in Nat
  BY <1>1
<1> DEFINE g == [i \in 0 .. n + 1 |-> IF i <= n THEN h[i] ELSE w]
           b == [i \in 0 .. n |-> IF i < n THEN answers[i] ELSE answer]
<1>2. /\ \A i \in 0 .. n : g[i] = h[i]
      /\ g[n + 1] = w /\ b[n] = answer /\ \A i \in 0 .. n - 1 : b[i] = answers[i]
  BY <1>1
<1>3. /\ n + 1 \in Nat /\ 0 \in 0 .. n /\ (n + 1) - 1 = n /\ n \in 0 .. n
      /\ \A i \in 0 .. n : i \in 0 .. n - 1 \/ i = n
      /\ \A i \in 0 .. n - 1 : i \in 0 .. n /\ i + 1 \in 0 .. n
      /\ \A i \in 0 .. n + 1 : i \in 0 .. n \/ i = n + 1
  BY <1>1
<1> HIDE DEF g, b
<1>4. Sound(v)
  BY <1>1, <1>3 DEF Trace
<1>5. Sound(w) /\ Follows(v, w) /\ Follows(w, w)
  BY <1>4, EffectFollows, FollowsItself
<1> HIDE DEF w
<1>6. \A i \in 0 .. n : Sound(h[i]) /\ Follows(h[i], w)
  BY <1>1, <1>4, <1>5, FollowsTransitive DEF Trace
<1>7. \A i \in 0 .. n : /\ g[i].rest # <<>> /\ Possible(g[i].rest[1], b[i])
                         /\ g[i + 1] = Effect(name, g[i], b[i])
  <2>1. ASSUME NEW i \in 0 .. n - 1
        PROVE  /\ g[i].rest # <<>> /\ Possible(g[i].rest[1], b[i]) /\ g[i + 1] = Effect(name, g[i], b[i])
    BY <1>1, <1>2, <1>3 DEF Trace
  <2>2. /\ g[n].rest # <<>> /\ Possible(g[n].rest[1], b[n]) /\ g[n + 1] = Effect(name, g[n], b[n])
    BY <1>1, <1>2, <1>3 DEF w
  <2> QED BY <1>3, <2>1, <2>2
<1>8. \A i \in 0 .. n + 1 : Sound(g[i]) /\ Follows(g[i], g[n + 1])
  BY <1>2, <1>3, <1>5, <1>6
<1>9. g[0] = Opened(name, hash, flags)
  BY <1>1, <1>2, <1>3 DEF Trace
<1>10. Trace(name, hash, flags, n + 1, g, b)
  BY <1>3, <1>7, <1>8, <1>9 DEF Trace
<1> QED BY <1>2, <1>3, <1>10 DEF Traced, w

\* Two packages of the same name that have come to the end of their files
\* with the same notes and the same units shown.
LEMMA SameTrace ==
  ASSUME NotesSuffice, NEW name, NEW flags,
         NEW y, Traced(name, flags, y), y.rest = <<>>,
         NEW z, Traced(name, flags, z), z.rest = <<>>, Alike(y, z)
  PROVE  y = z
<1>1. PICK n, hash, h, a : n \in Nat /\ Trace(name, hash, flags, n, h, a) /\ h[n] = y
  BY DEF Traced
<1> n \in Nat
  BY <1>1
<1>2. PICK m, other, g, b : m \in Nat /\ Trace(name, other, flags, m, g, b) /\ g[m] = z
  BY DEF Traced
<1> m \in Nat
  BY <1>2
<1>3. /\ \A i \in 0 .. n : Ends(h[i], y)
      /\ \A i \in 0 .. m : Ends(g[i], z)
  <2>1. n \in 0 .. n /\ m \in 0 .. m
    BY <1>1, <1>2
  <2> QED BY <1>1, <1>2, <2>1 DEF Trace, Ends
<1>4. 0 \in 0 .. n /\ 0 \in 0 .. m
  BY <1>1, <1>2
<1>5. hash = other
  <2>1. /\ Len(Promised(h[0])) = 1 /\ Promised(h[0])[1] = <<"PackageFile", name, hash>>
        /\ Len(Promised(g[0])) = 1 /\ Promised(g[0])[1] = <<"PackageFile", name, other>>
    BY <1>1, <1>2, OpenedSound DEF Trace
  <2>2. 1 \in 1 .. 1 /\ 1 <= 1
    OBVIOUS
  <2>3. Promised(h[0])[1] = Promised(g[0])[1]
    BY <1>3, <1>4, <2>1, <2>2, EndsAlike
  <2> QED BY <2>1, <2>3
<1>6. h[0] = g[0]
  BY <1>1, <1>2, <1>5 DEF Trace
<1> DEFINE differ == {i \in Nat : i <= n /\ i <= m /\ h[i] # g[i]}
<1>7. differ = {}
  <2> SUFFICES ASSUME differ # {} PROVE FALSE
    OBVIOUS
  <2>1. PICK i \in differ : \A j \in differ : i <= j
    <3>1. differ \in SUBSET Nat
      OBVIOUS
    <3> HIDE DEF differ
    <3> QED BY <3>1, LeastIn
  <2>2. i \in Nat /\ i # 0 /\ i <= n /\ i <= m /\ h[i] # g[i]
    BY <1>6, <2>1
  <2> DEFINE k == i - 1
  <2>3. k \in Nat /\ k + 1 = i /\ k < i /\ k \in 0 .. n - 1 /\ k \in 0 .. m - 1 /\ k <= n /\ k <= m
        /\ i \in 0 .. n /\ i \in 0 .. m /\ k \in 0 .. n
    BY <1>1, <1>2, <2>2
  <2>4. h[k] = g[k]
    <3>1. ~(i <= k)
      BY <2>2
    <3>2. k \notin differ
      BY <2>1, <3>1
    <3> HIDE DEF k
    <3> QED BY <2>3, <3>2
  <2> HIDE DEF k, differ
  <2>5. /\ h[i] = Effect(name, h[k], a[k]) /\ g[i] = Effect(name, h[k], b[k])
        /\ h[k].rest # <<>> /\ Possible(h[k].rest[1], a[k]) /\ Possible(h[k].rest[1], b[k]) /\ Sound(h[k])
    <3>1. \A j \in 0 .. n - 1 : /\ h[j].rest # <<>> /\ Possible(h[j].rest[1], a[j])
                                 /\ h[j + 1] = Effect(name, h[j], a[j])
      BY <1>1 DEF Trace
    <3>2. \A j \in 0 .. m - 1 : Possible(g[j].rest[1], b[j]) /\ g[j + 1] = Effect(name, g[j], b[j])
      BY <1>2 DEF Trace
    <3>3. Sound(h[k])
      BY <1>1, <2>3 DEF Trace
    <3> QED BY <2>3, <2>4, <3>1, <3>2, <3>3
  <2>6. Ends(h[i], y) /\ Ends(g[i], z)
    BY <1>3, <2>3
  <2>7. h[i] = g[i]
    BY <2>5, <2>6, SameEffect
  <2> QED BY <2>2, <2>7
<1>8. \A i \in Nat : i <= n /\ i <= m => h[i] = g[i]
  BY <1>7
<1>9. CASE n < m
  <2>1. n \in 0 .. m - 1 /\ n <= n /\ n <= m
    BY <1>1, <1>2, <1>9
  <2>2. g[n].rest # <<>>
    BY <1>2, <2>1 DEF Trace
  <2> QED BY <1>1, <1>8, <2>1, <2>2
<1>10. CASE m < n
  <2>1. m \in 0 .. n - 1 /\ m <= m /\ m <= n
    BY <1>1, <1>2, <1>10
  <2>2. h[m].rest # <<>>
    BY <1>1, <2>1 DEF Trace
  <2> QED BY <1>2, <1>8, <2>1, <2>2
<1>11. CASE n = m
  <2>1. n <= n /\ n <= m
    BY <1>1, <1>11
  <2> QED BY <1>1, <1>2, <1>8, <1>11, <2>1
<1> QED BY <1>1, <1>2, <1>9, <1>10, <1>11

-----------------------------------------------------------------------------
(* The view of what has changed.                                           *)

LEMMA ListsEqual ==
  ASSUME NEW s, List(s), NEW t, List(t), Len(s) = Len(t), \A i \in 1 .. Len(s) : s[i] = t[i]
  PROVE  s = t
<1>1. PICK S : s \in Seq(S)
  BY DEF List
<1>2. PICK T : t \in Seq(T)
  BY DEF List
<1>3. s \in Seq(S \cup T) /\ t \in Seq(S \cup T)
  BY <1>1, <1>2
<1> QED BY <1>3, SeqEqual

LEMMA MappedList ==
  ASSUME NEW s, List(s), NEW m, m = [i \in DOMAIN s |-> m[i]]
  PROVE  List(m) /\ Len(m) = Len(s) /\ DOMAIN m = DOMAIN s /\ DOMAIN s = 1 .. Len(s) /\ Len(s) \in Nat
<1>1. DOMAIN s = 1 .. Len(s) /\ Len(s) \in Nat
  BY DEF List
<1> DEFINE M == {m[i] : i \in DOMAIN s}
<1>2. \A i \in 1 .. Len(s) : m[i] \in M
  BY <1>1
<1> HIDE DEF M
<1>3. m \in Seq(M) /\ Len(m) = Len(s)
  BY <1>1, <1>2
<1> QED BY <1>1, <1>3 DEF List

LEMMA LongerByOne ==
  ASSUME NEW m, List(m), NEW n, List(n), Len(n) = Len(m) + 1, \A i \in 1 .. Len(m) : n[i] = m[i]
  PROVE  n = Append(m, n[Len(m) + 1])
<1> DEFINE y == n[Len(m) + 1]
           t == Append(m, y)
<1>1. List(t) /\ Begins(m, t) /\ Len(t) = Len(m) + 1 /\ t[Len(m) + 1] = y /\ Len(m) \in Nat
  BY AppendList
<1> HIDE DEF y, t
<1>2. \A i \in 1 .. Len(n) : n[i] = t[i]
  <2>1. \A i \in 1 .. Len(n) : i \in 1 .. Len(m) \/ i = Len(m) + 1
    BY <1>1
  <2> QED BY <1>1, <2>1 DEF Begins, y
<1>3. n = t
  BY <1>1, <1>2, ListsEqual
<1> QED BY <1>3 DEF t, y

\* A call and its view: only the file of a required one is another.
LEMMA HashedIs ==
  ASSUME NEW c
  PROVE  /\ Hashed(c).op = c.op /\ ("when" \in DOMAIN Hashed(c) <=> "when" \in DOMAIN c)
         /\ "when" \in DOMAIN c => Hashed(c).when = c.when
         /\ c.op # "required" => Hashed(c) = c
         /\ DueNote(Hashed(c)) = IF c.op = "required" THEN <<"RequireFile", c.file, HashFile(c.path)>> ELSE DueNote(c)
<1>1. CASE c.op = "required"
  <2> DEFINE h == [key \in DOMAIN c \cup {"op", "file", "path"} |->
                     IF key = "path" THEN HashFile(c.path) ELSE c[key]]
  <2>1. Hashed(c) = h
    BY <1>1 DEF Hashed
  <2>2. /\ h.op = c.op /\ h.file = c.file /\ h.path = HashFile(c.path)
        /\ ("when" \in DOMAIN h <=> "when" \in DOMAIN c) /\ ("when" \in DOMAIN c => h.when = c.when)
    OBVIOUS
  <2> HIDE DEF h
  <2> QED BY <1>1, <2>1, <2>2 DEF DueNote
<1>2. CASE c.op # "required"
  BY <1>2 DEF Hashed
<1> QED BY <1>1, <1>2

LEMMA AllHashedIs ==
  ASSUME NEW s, List(s)
  PROVE  /\ List(AllHashed(s)) /\ Len(AllHashed(s)) = Len(s) /\ DOMAIN AllHashed(s) = DOMAIN s
         /\ DOMAIN s = 1 .. Len(s) /\ Len(s) \in Nat
         /\ \A i \in 1 .. Len(s) : AllHashed(s)[i] = Hashed(s[i])
<1> DEFINE m == AllHashed(s)
<1>1. m = [i \in DOMAIN s |-> m[i]] /\ \A i \in DOMAIN s : m[i] = Hashed(s[i])
  BY DEF AllHashed
<1> HIDE DEF m
<1>2. List(m) /\ Len(m) = Len(s) /\ DOMAIN m = DOMAIN s /\ DOMAIN s = 1 .. Len(s) /\ Len(s) \in Nat
  BY <1>1, MappedList
<1> QED BY <1>1, <1>2 DEF m

LEMMA HashedTail ==
  ASSUME NEW s, List(s), s # <<>>
  PROVE  AllHashed(s) # <<>> /\ AllHashed(Tail(s)) = Tail(AllHashed(s)) /\ List(Tail(s))
<1> DEFINE m == AllHashed(s)
           t == Tail(s)
           u == Tail(m)
           v == AllHashed(t)
<1>1. List(m) /\ Len(m) = Len(s) /\ Len(s) \in Nat /\ \A i \in 1 .. Len(s) : m[i] = Hashed(s[i])
  BY AllHashedIs
<1> HIDE DEF m
<1>2. Len(s) # 0 /\ m # <<>>
  BY <1>1 DEF List
<1>3. List(t) /\ Len(t) = Len(s) - 1 /\ \A i \in 1 .. Len(t) : t[i] = s[i + 1]
  <2>1. PICK S : s \in Seq(S)
    BY DEF List
  <2> QED BY <2>1, HeadTailProperties DEF List
<1>4. List(u) /\ Len(u) = Len(m) - 1 /\ \A i \in 1 .. Len(u) : u[i] = m[i + 1]
  <2>1. PICK S : m \in Seq(S)
    BY <1>1 DEF List
  <2> QED BY <1>2, <2>1, HeadTailProperties DEF List
<1> HIDE DEF t, u
<1>5. List(v) /\ Len(v) = Len(t) /\ \A i \in 1 .. Len(t) : v[i] = Hashed(t[i])
  BY <1>3, AllHashedIs
<1> HIDE DEF v
<1>6. \A i \in 1 .. Len(v) : v[i] = u[i]
  <2>1. \A i \in 1 .. Len(v) : i + 1 \in 1 .. Len(s) /\ i \in 1 .. Len(u)
    BY <1>1, <1>3, <1>4, <1>5
  <2> QED BY <1>1, <1>3, <1>4, <1>5, <2>1
<1>7. v = u
  BY <1>1, <1>3, <1>4, <1>5, <1>6, ListsEqual
<1> QED BY <1>2, <1>3, <1>7 DEF m, t, u, v

LEMMA HashedRest ==
  ASSUME NEW s, List(s), NEW told, \A i \in 1 .. Len(s) : Proper(AllHashed(s)[i])
  PROVE  AllHashed(Rest(s, told)) = Rest(AllHashed(s), Decisive(told))
<1> DEFINE m == AllHashed(s)
           n == Len(s)
           made == {i \in DOMAIN s : Made(s[i], told)}
<1>1. List(m) /\ Len(m) = n /\ DOMAIN m = DOMAIN s /\ n \in Nat /\ \A i \in 1 .. n : m[i] = Hashed(s[i])
  BY AllHashedIs
<1>2. DOMAIN s = 1 .. n
  BY DEF List
<1> HIDE DEF n
<1>3. \A i \in 1 .. n : Made(m[i], Decisive(told)) <=> Made(s[i], told)
  <2> SUFFICES ASSUME NEW i \in 1 .. n PROVE Made(m[i], Decisive(told)) <=> Made(s[i], told)
    OBVIOUS
  <2>1. /\ "when" \in DOMAIN m[i] <=> "when" \in DOMAIN s[i]
        /\ "when" \in DOMAIN s[i] => m[i].when = s[i].when
    BY <1>1, HashedIs
  <2>2. "when" \in DOMAIN m[i] => m[i].when[1] # "ls"
    BY DEF Proper, n
  <2> HIDE DEF m
  <2>3. \A key : key # "ls" => (key \in DOMAIN Decisive(told) <=> key \in DOMAIN told)
                               /\ (key \in DOMAIN told => Decisive(told)[key] = told[key])
    BY DEF Decisive
  <2> QED BY <2>1, <2>2, <2>3 DEF Made
<1>4. made = {i \in DOMAIN m : Made(m[i], Decisive(told))}
  BY <1>1, <1>2, <1>3
<1>5. CASE made = {}
  <2>1. Rest(s, told) = <<>>
    BY <1>5 DEF Rest
  <2>2. Rest(m, Decisive(told)) = <<>>
    BY <1>4, <1>5, Zenon DEF Rest
  <2>3. AllHashed(<<>>) = <<>>
    BY DEF AllHashed
  <2> QED BY <2>1, <2>2, <2>3
<1>6. CASE made # {}
  <2> DEFINE k == Min(made)
             x == SubSeq(s, k, n)
             y == SubSeq(m, k, n)
             z == AllHashed(x)
  <2>1. k \in 1 .. n
    <3>1. made \in SUBSET Nat
      BY <1>1, <1>2
    <3> HIDE DEF made
    <3>2. k \in made
      BY <1>6, <3>1, LeastIn
    <3> QED BY <1>2, <3>2 DEF made
  <2>2. Rest(s, told) = x
    BY <1>6 DEF Rest, n
  <2>3. Rest(m, Decisive(told)) = y
    BY <1>1, <1>4, <1>6, Zenon DEF Rest
  <2> HIDE DEF k, made, m
  <2>4. List(x) /\ Len(x) = n - k + 1 /\ \A i \in 1 .. n - k + 1 : x[i] = s[k + i - 1]
    <3>1. PICK S : s \in Seq(S)
      BY DEF List
    <3>2. \A i \in k .. n : s[i] \in S
      BY <1>1, <1>2, <2>1, <3>1 DEF n
    <3>3. /\ x \in Seq(S) /\ Len(x) = n - k + 1
          /\ \A i \in 1 .. n - k + 1 : x[i] = s[k + i - 1]
      BY <1>1, <2>1, <3>2, SubSeqProperties
    <3> HIDE DEF x
    <3> QED BY <3>3 DEF List
  <2>5. List(y) /\ Len(y) = n - k + 1 /\ \A i \in 1 .. n - k + 1 : y[i] = m[k + i - 1]
    <3>1. PICK S : m \in Seq(S)
      BY <1>1 DEF List
    <3>2. \A i \in k .. n : m[i] \in S
      BY <1>1, <1>2, <2>1, <3>1
    <3>3. /\ y \in Seq(S) /\ Len(y) = n - k + 1
          /\ \A i \in 1 .. n - k + 1 : y[i] = m[k + i - 1]
      BY <1>1, <2>1, <3>2, SubSeqProperties
    <3> HIDE DEF y
    <3> QED BY <3>3 DEF List
  <2> HIDE DEF x, y
  <2>6. List(z) /\ Len(z) = Len(x) /\ \A i \in 1 .. Len(x) : z[i] = Hashed(x[i])
    BY <2>4, AllHashedIs
  <2> HIDE DEF z
  <2>7. \A i \in 1 .. Len(z) : z[i] = y[i]
    <3>1. \A i \in 1 .. n - k + 1 : k + i - 1 \in 1 .. n
      BY <1>1, <2>1
    <3> QED BY <1>1, <2>4, <2>5, <2>6, <3>1
  <2>8. z = y
    BY <2>4, <2>5, <2>6, <2>7, ListsEqual
  <2> QED BY <2>2, <2>3, <2>8 DEF m, z
<1> QED BY <1>5, <1>6

\* A field of the view depends on that field only.
LEMMA ViewWith ==
  ASSUME NEW r, NEW s, NEW f \in Visible, \A g \in Visible \ {f} : s[g] = r[g]
  PROVE  View(s) = [View(r) EXCEPT ![f] = View(s)[f]]
<1> DEFINE v == View(r)
           w == View(s)
<1>1. /\ DOMAIN v = Visible /\ DOMAIN w = Visible
      /\ w = [g \in Visible |-> w[g]] /\ v = [g \in Visible |-> v[g]]
  BY DEF View, Visible
<1>2. ASSUME NEW g \in Visible, g # f PROVE w[g] = v[g]
  <2>1. s[g] = r[g]
    BY <1>2
  <2>2. CASE g = "rest"
    BY <2>1, <2>2 DEF View
  <2>3. CASE g = "told"
    BY <2>1, <2>3 DEF View
  <2>4. CASE g = "deps"
    BY <2>1, <2>4 DEF View
  <2>5. CASE g = "cmds"
    BY <2>1, <2>5 DEF View
  <2>6. CASE g \in {"desc", "units", "fetches"}
    BY <2>1, <2>6 DEF View
  <2>7. CASE g \in {"install", "intercept", "flags", "extractTo"}
    BY <2>1, <2>7 DEF View
  <2> QED BY <2>2, <2>3, <2>4, <2>5, <2>6, <2>7 DEF Visible
<1> HIDE DEF v, w
<1>3. w = [v EXCEPT ![f] = w[f]]
  BY <1>1, <1>2
<1> QED BY <1>3 DEF v, w

LEMMA ViewSame ==
  ASSUME NEW r, NEW s, \A g \in Visible : s[g] = r[g]
  PROVE  View(s) = View(r)
<1>1. /\ s.rest = r.rest /\ s.told = r.told /\ s.desc = r.desc /\ s.deps = r.deps /\ s.cmds = r.cmds
      /\ s.units = r.units /\ s.fetches = r.fetches /\ s.install = r.install
      /\ s.intercept = r.intercept /\ s.flags = r.flags /\ s.extractTo = r.extractTo
  BY DEF Visible
<1> QED BY <1>1 DEF View

\* The fields that are in the view as they are.
Shared == {"desc", "units", "fetches", "install", "intercept", "flags", "extractTo"}

LEMMA ViewShared ==
  ASSUME NEW r, DOMAIN r = Fields, NEW f \in Shared, NEW x
  PROVE  View([r EXCEPT ![f] = x]) = [View(r) EXCEPT ![f] = x]
<1> DEFINE s == [r EXCEPT ![f] = x]
<1>1. f \in Visible /\ s[f] = x /\ \A g \in Visible \ {f} : s[g] = r[g]
  BY DEF Shared, Visible, Fields
<1> HIDE DEF s
<1>2. View(s)[f] = s[f]
  BY DEF Shared, View
<1>3. View(s) = [View(r) EXCEPT ![f] = View(s)[f]]
  BY <1>1, ViewWith
<1>4. View(s) = [View(r) EXCEPT ![f] = x]
  BY <1>1, <1>2, <1>3
<1> QED BY <1>4 DEF s

LEMMA ViewTold ==
  ASSUME NEW r, DOMAIN r = Fields, NEW key, NEW x
  PROVE  View([r EXCEPT !.told = Put(@, key, x)])
           = IF key = "ls" THEN View(r) ELSE [View(r) EXCEPT !.told = Put(@, key, x)]
<1> DEFINE told == Put(r.told, key, x)
           s == [r EXCEPT !.told = told]
<1> HIDE DEF told
<1>1. s.told = told /\ \A g \in Visible \ {"told"} : s[g] = r[g]
  BY DEF Visible, Fields
<1> HIDE DEF s
<1>2. View(s).told = Decisive(told) /\ View(r).told = Decisive(r.told)
  BY <1>1 DEF View
<1>3. CASE key = "ls"
  <2>1. Decisive(told) = Decisive(r.told)
    BY <1>3 DEF Decisive, told, Put
  <2>2. View(s) = [View(r) EXCEPT !.told = View(r).told]
    BY <1>1, <1>2, <2>1, ViewWith DEF Visible
  <2>3. View(r) = [View(r) EXCEPT !.told = View(r).told]
    BY DEF View
  <2> QED BY <1>3, <2>2, <2>3 DEF s, told
<1>4. CASE key # "ls"
  <2>1. Decisive(told) = Put(Decisive(r.told), key, x)
    BY <1>4 DEF Decisive, told, Put
  <2>2. View(s) = [View(r) EXCEPT !.told = View(s).told]
    BY <1>1, ViewWith DEF Visible
  <2> QED BY <1>2, <1>4, <2>1, <2>2 DEF s, told
<1> QED BY <1>3, <1>4

LEMMA ViewDeps ==
  ASSUME NEW r, DOMAIN r = Fields, List(r.deps), NEW d
  PROVE  View([r EXCEPT !.deps = Append(@, d)]) = [View(r) EXCEPT !.deps = Append(@, Wanted(d))]
<1> DEFINE deps == Append(r.deps, d)
           s == [r EXCEPT !.deps = deps]
           m == [i \in DOMAIN r.deps |-> Wanted(r.deps[i])]
           n == [i \in DOMAIN deps |-> Wanted(deps[i])]
<1>1. /\ DOMAIN r.deps = 1 .. Len(r.deps) /\ DOMAIN deps = 1 .. Len(r.deps) + 1 /\ Len(r.deps) \in Nat
      /\ deps[Len(r.deps) + 1] = d /\ \A i \in 1 .. Len(r.deps) : deps[i] = r.deps[i]
  BY AppendList DEF Begins
<1>2. n[Len(r.deps) + 1] = Wanted(d) /\ \A i \in DOMAIN r.deps : n[i] = m[i]
  BY <1>1
<1>3. n = [i \in DOMAIN Append(r.deps, d) |-> n[i]] /\ m = [i \in DOMAIN r.deps |-> m[i]]
  OBVIOUS
<1>4. View(r).deps = m
  BY DEF View
<1>5. s.deps = deps /\ \A g \in Visible \ {"deps"} : s[g] = r[g]
  <2> HIDE DEF deps
  <2> QED BY DEF Visible, Fields
<1> HIDE DEF s, deps
<1>6. View(s).deps = n
  BY <1>5 DEF View
<1> HIDE DEF m, n
<1>7. n = Append(m, Wanted(d))
  <2>1. List(m) /\ Len(m) = Len(r.deps)
    BY <1>3, MappedList
  <2>2. List(n) /\ Len(n) = Len(r.deps) + 1
    <3>1. List(Append(r.deps, d)) /\ Len(Append(r.deps, d)) = Len(r.deps) + 1
      BY AppendList
    <3> QED BY <1>3, <3>1, MappedList
  <2>3. \A i \in 1 .. Len(m) : n[i] = m[i]
    BY <1>1, <1>2, <2>1
  <2>4. n = Append(m, n[Len(m) + 1])
    BY <2>1, <2>2, <2>3, LongerByOne
  <2> QED BY <1>2, <2>1, <2>4
<1>8. View(s) = [View(r) EXCEPT !.deps = View(s).deps]
  BY <1>5, ViewWith DEF Visible
<1> QED BY <1>4, <1>6, <1>7, <1>8 DEF s, deps

LEMMA ViewCmds ==
  ASSUME NEW r, DOMAIN r = Fields, List(r.cmds), NEW c
  PROVE  View([r EXCEPT !.cmds = Append(@, c)]) = [View(r) EXCEPT !.cmds = Append(@, Command(c))]
<1> DEFINE cmds == Append(r.cmds, c)
           s == [r EXCEPT !.cmds = cmds]
           m == [i \in DOMAIN r.cmds |-> Command(r.cmds[i])]
           n == [i \in DOMAIN cmds |-> Command(cmds[i])]
<1>1. /\ DOMAIN r.cmds = 1 .. Len(r.cmds) /\ DOMAIN cmds = 1 .. Len(r.cmds) + 1 /\ Len(r.cmds) \in Nat
      /\ cmds[Len(r.cmds) + 1] = c /\ \A i \in 1 .. Len(r.cmds) : cmds[i] = r.cmds[i]
  BY AppendList DEF Begins
<1>2. n[Len(r.cmds) + 1] = Command(c) /\ \A i \in DOMAIN r.cmds : n[i] = m[i]
  BY <1>1
<1>3. n = [i \in DOMAIN Append(r.cmds, c) |-> n[i]] /\ m = [i \in DOMAIN r.cmds |-> m[i]]
  OBVIOUS
<1>4. View(r).cmds = m
  BY DEF View
<1>5. s.cmds = cmds /\ \A g \in Visible \ {"cmds"} : s[g] = r[g]
  <2> HIDE DEF cmds
  <2> QED BY DEF Visible, Fields
<1> HIDE DEF s, cmds
<1>6. View(s).cmds = n
  BY <1>5 DEF View
<1> HIDE DEF m, n
<1>7. n = Append(m, Command(c))
  <2>1. List(m) /\ Len(m) = Len(r.cmds)
    BY <1>3, MappedList
  <2>2. List(n) /\ Len(n) = Len(r.cmds) + 1
    <3>1. List(Append(r.cmds, c)) /\ Len(Append(r.cmds, c)) = Len(r.cmds) + 1
      BY AppendList
    <3> QED BY <1>3, <3>1, MappedList
  <2>3. \A i \in 1 .. Len(m) : n[i] = m[i]
    BY <1>1, <1>2, <2>1
  <2>4. n = Append(m, n[Len(m) + 1])
    BY <2>1, <2>2, <2>3, LongerByOne
  <2> QED BY <1>2, <2>1, <2>4
<1>8. View(s) = [View(r) EXCEPT !.cmds = View(s).cmds]
  BY <1>5, ViewWith DEF Visible
<1> QED BY <1>4, <1>6, <1>7, <1>8 DEF s, cmds

LEMMA ViewOnward ==
  ASSUME NEW r, DOMAIN r = Fields, List(r.rest), r.rest # <<>>, Tidy(Tail(View(r).rest))
  PROVE  View([r EXCEPT !.rest = Rest(Tail(@), r.told)]) = Onward(View(r))
<1> DEFINE t == Tail(r.rest)
           rest == Rest(t, r.told)
           s == [r EXCEPT !.rest = rest]
<1>1. View(r).rest = AllHashed(r.rest) /\ View(r).told = Decisive(r.told)
  BY DEF View
<1>2. AllHashed(t) = Tail(AllHashed(r.rest)) /\ List(t)
  BY HashedTail
<1> HIDE DEF t
<1>3. \A i \in 1 .. Len(t) : Proper(AllHashed(t)[i])
  BY <1>1, <1>2, AllHashedIs DEF Tidy
<1>4. AllHashed(rest) = Rest(AllHashed(t), Decisive(r.told))
  BY <1>2, <1>3, HashedRest
<1> HIDE DEF rest
<1>5. s.rest = rest /\ \A g \in Visible \ {"rest"} : s[g] = r[g]
  BY DEF Visible, Fields
<1> HIDE DEF s
<1>6. View(s).rest = AllHashed(rest)
  BY <1>5 DEF View
<1>7. View(s) = [View(r) EXCEPT !.rest = View(s).rest]
  BY <1>5, ViewWith DEF Visible
<1>8. View(s) = Onward(View(r))
  BY <1>1, <1>2, <1>4, <1>6, <1>7 DEF Onward
<1> QED BY <1>8 DEF s, rest, t

-----------------------------------------------------------------------------
(* Every call makes of the view what is said of it above.                  *)

\* A call has been made.
Moved(name, r, s) ==
  /\ View(r).rest # <<>> /\ List(s.cmds) /\ s.state = "processing"
  /\ \E answer : Possible(View(r).rest[1], answer) /\ View(s) = Effect(name, View(r), answer)

Moves(p) == options' = options /\ \E s : pkg' = [pkg EXCEPT ![p] = s] /\ Moved(p[2], pkg[p], s)

\* A package that can make a call.
Ready(p) == PkgInv /\ p \in DOMAIN pkg /\ pkg[p].rest # <<>> /\ Sound(View(pkg[p])) /\ List(pkg[p].cmds)

LEMMA ReadyIs ==
  ASSUME NEW p, Ready(p)
  PROVE  /\ DOMAIN pkg[p] = Fields /\ List(pkg[p].rest) /\ List(pkg[p].desc) /\ List(pkg[p].deps)
         /\ Call(p) = pkg[p].rest[1] /\ View(pkg[p]).rest = AllHashed(pkg[p].rest)
         /\ View(pkg[p]).rest # <<>> /\ View(pkg[p]).rest[1] = Hashed(Call(p)) /\ Proper(Hashed(Call(p)))
<1> DEFINE r == pkg[p]
<1>1. DOMAIN r = Fields /\ List(r.rest) /\ List(r.desc) /\ List(r.deps)
  BY DEF Ready, PkgInv, Good, Shape, Calls, Notes, Depends, List
<1>2. Call(p) = r.rest[1]
  BY <1>1 DEF Call, List, Ready
<1>3. View(r).rest = AllHashed(r.rest)
  BY DEF View
<1>4. AllHashed(r.rest) # <<>>
  BY <1>1, HashedTail DEF Ready
<1>5. AllHashed(r.rest)[1] = Hashed(r.rest[1])
  <2>1. 1 \in 1 .. Len(r.rest)
    BY <1>1 DEF List, Ready
  <2> QED BY <1>1, <2>1, AllHashedIs
<1>6. Proper(AllHashed(r.rest)[1])
  BY <1>3, <1>4, HeadTidy DEF Sound, Ready
<1> QED BY <1>1, <1>2, <1>3, <1>4, <1>5, <1>6

LEMMA CallMoved ==
  ASSUME NEW p, Ready(p), NEW s,
         DOMAIN s = Fields, List(s.rest), s.rest # <<>>, List(s.cmds), s.state = "processing",
         Tidy(Tail(View(s).rest)), NEW answer, Possible(Hashed(Call(p)), answer),
         View(s) = Work(p[2], View(pkg[p]), Hashed(Call(p)), answer), ~OneOfMany(Hashed(Call(p)))
  PROVE  Moved(p[2], pkg[p], [s EXCEPT !.rest = Rest(Tail(@), s.told)])
<1> DEFINE t == [s EXCEPT !.rest = Rest(Tail(@), s.told)]
<1>1. View(t) = Onward(View(s))
  BY ViewOnward
<1>2. t.cmds = s.cmds /\ t.state = s.state
  BY DEF Fields
<1> HIDE DEF t
<1>3. View(pkg[p]).rest # <<>> /\ View(pkg[p]).rest[1] = Hashed(Call(p))
  BY ReadyIs
<1>4. View(t) = Effect(p[2], View(pkg[p]), answer)
  BY <1>1, <1>3 DEF Effect
<1>5. Moved(p[2], pkg[p], t)
  BY <1>2, <1>3, <1>4 DEF Moved
<1> QED BY <1>5 DEF t

LEMMA CallMoves ==
  ASSUME NEW p, Ready(p), NEW s, pkg' = Became(p, s), options' = options,
         DOMAIN s = Fields, List(s.rest), s.rest # <<>>, List(s.cmds), s.state = "processing",
         Tidy(Tail(View(s).rest)), NEW answer, Possible(Hashed(Call(p)), answer),
         View(s) = Work(p[2], View(pkg[p]), Hashed(Call(p)), answer), ~OneOfMany(Hashed(Call(p)))
  PROVE  Moves(p)
<1> DEFINE t == [s EXCEPT !.rest = Rest(Tail(@), s.told)]
<1>1. Moved(p[2], pkg[p], t)
  BY CallMoved
<1>2. pkg' = [pkg EXCEPT ![p] = t]
  BY DEF Became
<1> QED BY <1>1, <1>2 DEF Moves

\* A call that notes nothing.
LEMMA QuietMoved ==
  ASSUME NEW p, Ready(p), NEW s,
         DOMAIN s = Fields, s.rest = pkg[p].rest, List(s.cmds), s.state = "processing",
         Call(p).op \notin Noting, ~OneOfMany(Call(p)),
         Call(p).op = "depend" => {"op", "table"} \subseteq DOMAIN Call(p),
         NEW answer, View(s) = QuietWork(p[2], View(pkg[p]), Call(p), answer)
  PROVE  Moved(p[2], pkg[p], [s EXCEPT !.rest = Rest(Tail(@), s.told)])
<1>1. Hashed(Call(p)) = Call(p)
  BY HashedIs DEF Noting
<1>2. Possible(Call(p), answer)
  BY DEF Possible, Noting, Asking
<1>3. View(s) = Work(p[2], View(pkg[p]), Call(p), answer)
  BY DEF Work, Noting
<1>4. List(s.rest) /\ s.rest # <<>>
  BY ReadyIs DEF Ready
<1>5. Tidy(Tail(View(s).rest))
  <2>1. View(s).rest = View(pkg[p]).rest
    BY DEF View
  <2> QED BY <2>1, ReadyIs, TailTidy DEF Ready, Sound
<1> QED BY <1>1, <1>2, <1>3, <1>4, <1>5, CallMoved

LEMMA QuietMoves ==
  ASSUME NEW p, Ready(p), NEW s, pkg' = Became(p, s), options' = options,
         DOMAIN s = Fields, s.rest = pkg[p].rest, List(s.cmds), s.state = "processing",
         Call(p).op \notin Noting, ~OneOfMany(Call(p)),
         Call(p).op = "depend" => {"op", "table"} \subseteq DOMAIN Call(p),
         NEW answer, View(s) = QuietWork(p[2], View(pkg[p]), Call(p), answer)
  PROVE  Moves(p)
<1> DEFINE t == [s EXCEPT !.rest = Rest(Tail(@), s.told)]
<1>1. Moved(p[2], pkg[p], t)
  BY QuietMoved
<1>2. pkg' = [pkg EXCEPT ![p] = t]
  BY DEF Became
<1> QED BY <1>1, <1>2 DEF Moves

LEMMA ReadyMay ==
  ASSUME NEW p, Ready(p), NEW op, May(p, op)
  PROVE  pkg[p].state = "processing" /\ Call(p).op = op /\ ~Refused(p)
BY DEF May, Is

\* A call that changes one field that is in the view as it is.
LEMMA SharedMoves ==
  ASSUME NEW p, Ready(p), NEW op, May(p, op), op \notin Noting \cup {"depend"}, NEW f \in Shared, NEW x,
         Does(p, [pkg[p] EXCEPT ![f] = x]), NEW answer,
         [View(pkg[p]) EXCEPT ![f] = x] = QuietWork(p[2], View(pkg[p]), Call(p), answer)
  PROVE  Moves(p)
<1> DEFINE s == [pkg[p] EXCEPT ![f] = x]
<1>1. DOMAIN pkg[p] = Fields /\ pkg[p].state = "processing" /\ Call(p).op = op
  BY ReadyIs, ReadyMay
<1>2. View(s) = [View(pkg[p]) EXCEPT ![f] = x]
  BY <1>1, ViewShared
<1>3. DOMAIN s = Fields /\ s.rest = pkg[p].rest /\ s.cmds = pkg[p].cmds /\ s.state = "processing"
  BY <1>1 DEF Fields, Shared
<1>4. pkg' = Became(p, s) /\ options' = options
  BY DEF Does
<1> HIDE DEF s
<1>5. ~OneOfMany(Call(p)) /\ Call(p).op \notin Noting /\ Call(p).op # "depend"
  BY <1>1 DEF OneOfMany
<1> QED BY <1>2, <1>3, <1>4, <1>5, QuietMoves DEF Ready

LEMMA CmdMoves ==
  ASSUME NEW p, Ready(p), NEW op, May(p, op), op \notin Noting \cup {"depend"}, NEW c,
         Does(p, [pkg[p] EXCEPT !.cmds = Append(@, c)]),
         [View(pkg[p]) EXCEPT !.cmds = Append(@, Command(c))] = QuietWork(p[2], View(pkg[p]), Call(p), None)
  PROVE  Moves(p)
<1> DEFINE cmds == Append(pkg[p].cmds, c)
           s == [pkg[p] EXCEPT !.cmds = cmds]
<1>1. DOMAIN pkg[p] = Fields /\ pkg[p].state = "processing" /\ Call(p).op = op
  BY ReadyIs, ReadyMay
<1>2. View(s) = [View(pkg[p]) EXCEPT !.cmds = Append(@, Command(c))]
  BY <1>1, ViewCmds DEF Ready
<1>3. List(cmds)
  BY AppendList DEF Ready
<1>4. pkg' = Became(p, s) /\ options' = options
  BY DEF Does
<1> HIDE DEF cmds
<1>5. DOMAIN s = Fields /\ s.rest = pkg[p].rest /\ s.cmds = cmds /\ s.state = "processing"
  BY <1>1 DEF Fields
<1> HIDE DEF s
<1>6. ~OneOfMany(Call(p)) /\ Call(p).op \notin Noting /\ Call(p).op # "depend"
  BY <1>1 DEF OneOfMany
<1> QED BY <1>2, <1>3, <1>4, <1>5, <1>6, QuietMoves

LEMMA DescribesMoves ==
  ASSUME NEW p, Ready(p), Describes(p)
  PROVE  Moves(p)
<1> DEFINE r == pkg[p]
           v == View(r)
           c == Call(p)
<1>1. v.flags = r.flags /\ v.install = r.install /\ v.intercept = r.intercept
  BY DEF View
<1>2. CASE BuildDir(p)
  <2> DEFINE x == IF c.clean THEN r.flags \cup {"clean"} ELSE r.flags
  <2>1. May(p, "builddir") /\ Does(p, [r EXCEPT !["flags"] = x])
    BY <1>2 DEF BuildDir
  <2>2. [v EXCEPT !["flags"] = x] = QuietWork(p[2], v, c, None)
    <3>1. QuietWork(p[2], v, c, None) = FlagsWork(v, IF c.clean THEN {"clean"} ELSE {})
      BY <2>1, ReadyMay DEF QuietWork
    <3>2. x = v.flags \cup (IF c.clean THEN {"clean"} ELSE {})
      BY <1>1
    <3> HIDE DEF x, v
    <3> QED BY <3>1, <3>2 DEF FlagsWork
  <2> HIDE DEF x
  <2> QED BY <2>1, <2>2, SharedMoves DEF Shared, Noting, Asking
<1>3. ASSUME NEW op \in DOMAIN Flag, SetFlag(p, op) PROVE Moves(p)
  <2> DEFINE x == r.flags \cup {Flag[op]}
  <2>1. May(p, op) /\ Does(p, [r EXCEPT !["flags"] = x])
    BY <1>3 DEF SetFlag
  <2>2. [v EXCEPT !["flags"] = x] = QuietWork(p[2], v, c, None)
    <3>1. QuietWork(p[2], v, c, None) = FlagsWork(v, {Flag[op]})
      BY <2>1, ReadyMay DEF QuietWork, Flag
    <3>2. x = v.flags \cup {Flag[op]}
      BY <1>1
    <3> HIDE DEF x, v
    <3> QED BY <3>1, <3>2 DEF FlagsWork
  <2> HIDE DEF x
  <2>3. op \notin Noting \cup {"depend"}
    BY DEF Flag, Noting, Asking
  <2> QED BY <2>1, <2>2, <2>3, SharedMoves DEF Shared
<1>4. CASE InstallFile(p)
  <2> DEFINE x == Append(r.install, c.file)
  <2>1. May(p, "installfile") /\ Does(p, [r EXCEPT !["install"] = x])
    BY <1>4 DEF InstallFile
  <2>2. [v EXCEPT !["install"] = x] = QuietWork(p[2], v, c, None)
    <3>1. QuietWork(p[2], v, c, None) = InstallWork(v, c)
      BY <2>1, ReadyMay DEF QuietWork
    <3>2. x = Append(v.install, c.file)
      BY <1>1
    <3> HIDE DEF x, v
    <3> QED BY <3>1, <3>2 DEF InstallWork
  <2> HIDE DEF x
  <2> QED BY <2>1, <2>2, SharedMoves DEF Shared, Noting, Asking
<1>5. CASE Intercept(p)
  <2> DEFINE x == IF "bare" \in DOMAIN c THEN {"install"} ELSE {k \in DOMAIN c.table : c.table[k]}
  <2>1. May(p, "intercept") /\ Does(p, [r EXCEPT !["intercept"] = x])
    BY <1>5 DEF Intercept
  <2>2. [v EXCEPT !["intercept"] = x] = QuietWork(p[2], v, c, None)
    <3>1. QuietWork(p[2], v, c, None) = InterceptWork(v, c)
      BY <2>1, ReadyMay DEF QuietWork
    <3> HIDE DEF v
    <3> QED BY <3>1 DEF InterceptWork
  <2> HIDE DEF x
  <2> QED BY <2>1, <2>2, SharedMoves DEF Shared, Noting, Asking
<1>6. CASE Cmd(p)
  <2> DEFINE given == IF "log" \in DOMAIN c THEN <<>> ELSE c.env
             x == [app |-> c.app, args |-> c.args, env |-> Environ(p, given),
                   log |-> "log" \in DOMAIN c => c.log, into |-> None]
  <2>1. May(p, "cmd") /\ Does(p, [r EXCEPT !.cmds = Append(@, x)])
    BY <1>6 DEF Cmd
  <2>2. [v EXCEPT !.cmds = Append(@, Command(x))] = QuietWork(p[2], v, c, None)
    <3>1. QuietWork(p[2], v, c, None) = CmdWork(p[2], v, c)
      BY <2>1, ReadyMay DEF QuietWork
    <3>2. Environ(p, given) = EnvironOf(p[2], given)
      BY Zenon DEF Environ, EnvironOf
    <3>3. Command(x) = x
      BY DEF Command
    <3> HIDE DEF v
    <3> QED BY <3>1, <3>2, <3>3 DEF CmdWork
  <2> HIDE DEF x
  <2> QED BY <2>1, <2>2, CmdMoves DEF Noting, Asking
<1>7. CASE Restore(p)
  <2> DEFINE path == Find(p, c.file, FALSE)
             args == <<"-pRLuf", RelativePath([kind |-> "copy", uri |-> c.file])>>
             x == [app |-> "cp", args |-> args, env |-> Environment, log |-> TRUE, into |-> path]
  <2>1. May(p, "restore") /\ Does(p, [r EXCEPT !.cmds = Append(@, x)])
    BY <1>7 DEF Restore
  <2> HIDE DEF path
  <2>2. [v EXCEPT !.cmds = Append(@, Command(x))] = QuietWork(p[2], v, c, None)
    <3>1. QuietWork(p[2], v, c, None) = RestoreWork(v, c)
      BY <2>1, ReadyMay DEF QuietWork
    <3> HIDE DEF args
    <3>2. \A log : Command([app |-> "cp", args |-> args, env |-> Environment, log |-> log, into |-> path])
                     = [app |-> "cp", args |-> args, env |-> Environment, log |-> log, into |-> None]
      BY DEF Command
    <3>3. Command(x) = [app |-> "cp", args |-> args, env |-> Environment, log |-> TRUE, into |-> None]
      BY <3>2, Zenon
    <3> HIDE DEF v
    <3> QED BY <3>1, <3>3 DEF RestoreWork, args
  <2> HIDE DEF x
  <2> QED BY <2>1, <2>2, CmdMoves DEF Noting, Asking
<1>8. CASE Ls(p)
  <2> DEFINE files == <<ListFiles(p, Call(p).location)>>
             told == Put(r.told, "ls", files)
             s == [r EXCEPT !.told = told]
  <2>1. May(p, "ls") /\ pkg' = Became(p, s) /\ options' = options
    BY <1>8 DEF Ls, Does
  <2> HIDE DEF files
  <2>2. View(s) = v
    BY ReadyIs, ViewTold
  <2> HIDE DEF told
  <2>3. DOMAIN s = Fields /\ s.rest = pkg[p].rest /\ s.cmds = pkg[p].cmds /\ s.state = "processing"
    BY <2>1, ReadyIs, ReadyMay DEF Fields
  <2> HIDE DEF s
  <2>4. Call(p).op = "ls"
    BY <2>1, ReadyMay
  <2>5. QuietWork(p[2], v, c, None) = v
    BY <2>4 DEF QuietWork
  <2>6. ~OneOfMany(Call(p)) /\ Call(p).op \notin Noting /\ Call(p).op # "depend"
    BY <2>4 DEF OneOfMany, Noting, Asking
  <2> QED BY <2>1, <2>2, <2>3, <2>5, <2>6, QuietMoves DEF Ready
<1> QED BY <1>2, <1>3, <1>4, <1>5, <1>6, <1>7, <1>8 DEF Describes

LEMMA ViewUnpacked ==
  ASSUME NEW r, DOMAIN r = Fields, NEW type, NEW shown, NEW of, NEW content
  PROVE  LET s == Unpacked(r, type, shown, of, content) IN
           /\ View(s) = Unpacked(View(r), type, shown, of, content)
           /\ DOMAIN s = Fields /\ s.rest = r.rest /\ s.cmds = r.cmds /\ s.state = r.state
<1> DEFINE units == Append(r.units, Unit(type, shown, of, content))
           s == [r EXCEPT !["units"] = units]
<1>1. s = Unpacked(r, type, shown, of, content)
  BY DEF Unpacked
<1> HIDE DEF units
<1>2. View(s) = [View(r) EXCEPT !["units"] = units]
  BY ViewShared DEF Shared
<1>3. View(r).units = r.units
  BY DEF View
<1>4. DOMAIN s = Fields /\ s.rest = r.rest /\ s.cmds = r.cmds /\ s.state = r.state
  BY DEF Fields
<1> HIDE DEF s
<1>5. View(s) = Unpacked(View(r), type, shown, of, content)
  BY <1>2, <1>3 DEF Unpacked, units
<1> QED BY <1>1, <1>4, <1>5

LEMMA ViewFetched ==
  ASSUME NEW r, DOMAIN r = Fields, NEW f, NEW updated \in BOOLEAN
  PROVE  LET s == Fetched(r, f, updated) IN
           /\ View(s) = Fetched(View(r), f, updated)
           /\ DOMAIN s = Fields /\ s.rest = r.rest /\ s.cmds = r.cmds /\ s.state = r.state
<1> DEFINE fetches == Append(r.fetches, f)
           flags == IF updated THEN r.flags \cup {"codeUpdated"} ELSE r.flags
           q == [r EXCEPT !["fetches"] = fetches]
           s == [q EXCEPT !["flags"] = flags]
<1>1. s = Fetched(r, f, updated)
  BY DEF Fetched, Fields
<1> HIDE DEF fetches, flags
<1>2. DOMAIN q = Fields /\ q.rest = r.rest /\ q.cmds = r.cmds /\ q.state = r.state
  BY DEF Fields
<1>3. View(q) = [View(r) EXCEPT !["fetches"] = fetches]
  BY ViewShared DEF Shared
<1> HIDE DEF q
<1>4. View(s) = [View(q) EXCEPT !["flags"] = flags]
  BY <1>2, ViewShared DEF Shared
<1>5. View(r).fetches = r.fetches /\ View(r).flags = r.flags /\ DOMAIN View(r) = Visible
  BY DEF View, Visible
<1>6. DOMAIN s = Fields /\ s.rest = r.rest /\ s.cmds = r.cmds /\ s.state = r.state
  BY <1>2 DEF Fields
<1> HIDE DEF s
<1> DEFINE v == View(r)
<1> HIDE DEF v
<1>7. View(s) = Fetched(v, f, updated)
  BY <1>3, <1>4, <1>5 DEF Fetched, fetches, flags, v, Visible
<1> QED BY <1>1, <1>6, <1>7 DEF v

LEMMA FetchMoves ==
  ASSUME NEW p, Ready(p), NEW method, Fetch(p, method), NEW s, Does(p, s), DOMAIN s = Fields,
         s.rest = pkg[p].rest, s.cmds = pkg[p].cmds, s.state = pkg[p].state,
         NEW answer, View(s) = FetchWork(View(pkg[p]), Call(p), answer)
  PROVE  Moves(p)
<1>1. Call(p).op = "fetch" /\ pkg[p].state = "processing"
  BY ReadyMay DEF Fetch
<1>2. QuietWork(p[2], View(pkg[p]), Call(p), answer) = FetchWork(View(pkg[p]), Call(p), answer)
  BY <1>1 DEF QuietWork
<1>3. ~OneOfMany(Call(p)) /\ Call(p).op \notin Noting /\ Call(p).op # "depend"
  BY <1>1 DEF OneOfMany, Noting, Asking
<1> QED BY <1>1, <1>2, <1>3, QuietMoves DEF Ready, Does

LEMMA GathersMoves ==
  ASSUME NEW p, Ready(p), Gathers(p)
  PROVE  Moves(p)
<1> DEFINE r == pkg[p]
           v == View(r)
           c == Call(p)
           uri == Given(c, "uri", "")
<1>1. DOMAIN r = Fields
  BY ReadyIs
<1>2. /\ \A key, default : Arg(p, key, default) = Given(c, key, default)
      /\ \A kind : Source(p, kind) = SourceIn(c, kind)
  BY DEF Arg, Given, Source, SourceIn
<1> HIDE DEF v
<1>3. ASSUME NEW method, Fetch(p, method), NEW type, NEW shown, NEW of, NEW content,
             Does(p, Unpacked(r, type, shown, of, content)), NEW answer,
             FetchWork(v, c, answer) = Unpacked(v, type, shown, of, content)
      PROVE  Moves(p)
  <2> DEFINE s == Unpacked(r, type, shown, of, content)
  <2>1. View(s) = Unpacked(v, type, shown, of, content) /\ DOMAIN s = Fields
        /\ s.rest = r.rest /\ s.cmds = r.cmds /\ s.state = r.state
    BY <1>1, ViewUnpacked DEF v
  <2>2. Does(p, s)
    BY <1>3
  <2> HIDE DEF s
  <2> QED BY <1>3, <2>1, <2>2, FetchMoves DEF v
<1>4. CASE FetchDl(p)
  <2> DEFINE f == SourceIn(c, "download")
             to == Given(c, "copyto", "")
             q == IF to = "" THEN r ELSE Unpacked(r, "FetchedFileCopy", <<to>>, <<f>>, f.uri)
             w == IF to = "" THEN v ELSE Unpacked(v, "FetchedFileCopy", <<to>>, <<f>>, f.uri)
             s == Fetched(q, f, FALSE)
  <2>1. Fetch(p, "dl") /\ Does(p, s)
    BY <1>2, <1>4 DEF FetchDl
  <2>2. Given(c, "method", "") = "dl"
    BY <1>2, <2>1 DEF Fetch
  <2>3. FetchWork(v, c, None) = Fetched(w, f, FALSE)
    BY <2>2 DEF FetchWork
  <2> HIDE DEF f, to
  <2>4. View(q) = w /\ DOMAIN q = Fields /\ q.rest = r.rest /\ q.cmds = r.cmds /\ q.state = r.state
    <3>1. CASE to = ""
      BY <1>1, <3>1 DEF v
    <3>2. CASE to # ""
      <4> DEFINE x == Unpacked(r, "FetchedFileCopy", <<to>>, <<f>>, f.uri)
                 y == Unpacked(v, "FetchedFileCopy", <<to>>, <<f>>, f.uri)
      <4>1. View(x) = y /\ DOMAIN x = Fields /\ x.rest = r.rest /\ x.cmds = r.cmds /\ x.state = r.state
        BY <1>1, ViewUnpacked DEF v
      <4>2. q = x /\ w = y
        BY <3>2
      <4> HIDE DEF q, w, x, y
      <4> QED BY <4>1, <4>2
    <3> QED BY <3>1, <3>2
  <2> HIDE DEF q, w
  <2>5. View(s) = Fetched(w, f, FALSE) /\ DOMAIN s = Fields
        /\ s.rest = r.rest /\ s.cmds = r.cmds /\ s.state = r.state
    <3>1. View(s) = Fetched(View(q), f, FALSE) /\ DOMAIN s = Fields
          /\ s.rest = q.rest /\ s.cmds = q.cmds /\ s.state = q.state
      BY <2>4, ViewFetched, Zenon
    <3> HIDE DEF s
    <3> QED BY <2>4, <3>1, Zenon
  <2> HIDE DEF s
  <2> QED BY <2>1, <2>3, <2>5, FetchMoves DEF v
<1>5. ASSUME NEW kind \in {"link", "copy"}, FetchLocal(p, kind) PROVE Moves(p)
  <2> DEFINE f == SourceIn(c, kind)
             s == Fetched(r, f, TRUE)
  <2>1. Fetch(p, kind) /\ Does(p, s)
    BY <1>2, <1>5 DEF FetchLocal
  <2>2. Given(c, "method", "") = kind
    BY <1>2, <2>1 DEF Fetch
  <2>3. FetchWork(v, c, None) = Fetched(v, f, TRUE)
    BY <2>2 DEF FetchWork
  <2> HIDE DEF f
  <2>4. View(s) = Fetched(v, f, TRUE) /\ DOMAIN s = Fields
        /\ s.rest = r.rest /\ s.cmds = r.cmds /\ s.state = r.state
    BY <1>1, ViewFetched DEF v
  <2> HIDE DEF s
  <2> QED BY <2>1, <2>3, <2>4, FetchMoves DEF v
<1>6. CASE FetchGit(p)
  <2> DEFINE name == IF Given(c, "reponame", "") = "" THEN LastPart[uri] ELSE Given(c, "reponame", "")
             f == GitIn(c)
             shown == <<"fetch", uri, "">>
             content == <<name, f>>
  <2>1. Fetch(p, "git") /\ Does(p, Unpacked(r, "GitDir", shown, <<f>>, content))
    BY <1>2, <1>6 DEF FetchGit, GitIn
  <2>2. Given(c, "method", "") = "git"
    BY <1>2, <2>1 DEF Fetch
  <2>3. FetchWork(v, c, None) = Unpacked(v, "GitDir", shown, <<f>>, content)
    BY <2>2 DEF FetchWork
  <2> DEFINE of == <<f>>
  <2> HIDE DEF shown, uri, content, of
  <2> QED BY <1>3, <2>1, <2>3 DEF of
<1>7. CASE LinkGit(p)
  <2> DEFINE shown == <<"link", uri, RelativePath(SourceIn(c, "link")), Repos[AsGiven(uri)]>>
  <2>1. Fetch(p, "linkgit") /\ Does(p, Unpacked(r, "GitDir", shown, None, uri))
    BY <1>2, <1>7 DEF LinkGit
  <2>2. Given(c, "method", "") = "linkgit"
    BY <1>2, <2>1 DEF Fetch
  <2>3. FetchWork(v, c, None) = Unpacked(v, "GitDir", shown, None, uri)
    BY <2>2 DEF FetchWork
  <2> HIDE DEF shown, uri
  <2> QED BY <1>3, <2>1, <2>3
<1>8. CASE CopyGit(p)
  <2> DEFINE path == Find(p, uri, FALSE)
             shown == <<"copy", path, ".", Repos[path]>>
  <2>1. Fetch(p, "copygit") /\ Does(p, Unpacked(r, "GitDir", shown, None, path))
    BY <1>2, <1>8 DEF CopyGit
  <2>2. Given(c, "method", "") = "copygit"
    BY <1>2, <2>1 DEF Fetch
  <2> HIDE DEF path
  <2>3. FetchWork(v, c, path) = Unpacked(v, "GitDir", shown, None, path)
    BY <2>2 DEF FetchWork
  <2> HIDE DEF shown, uri
  <2> QED BY <1>3, <2>1, <2>3
<1>9. CASE CopyFile(p)
  <2> DEFINE hash == HashFile(Find(p, uri, FALSE))
             shown == <<uri, hash>>
  <2>1. Fetch(p, "copyfile") /\ Does(p, Unpacked(r, "FileCopy", shown, None, hash))
    BY <1>2, <1>9 DEF CopyFile
  <2>2. Given(c, "method", "") = "copyfile"
    BY <1>2, <2>1 DEF Fetch
  <2> HIDE DEF hash
  <2>3. FetchWork(v, c, hash) = Unpacked(v, "FileCopy", shown, None, hash)
    BY <2>2 DEF FetchWork
  <2> HIDE DEF shown, uri
  <2> QED BY <1>3, <2>1, <2>3
<1>10. CASE FetchDeps(p)
  <2> DEFINE to == <<Given(c, "to", ""), Given(c, "listedonly", FALSE)>>
             q == [r EXCEPT !["extractTo"] = to]
             flags == r.flags \cup {"codeUpdated"}
             s == [q EXCEPT !["flags"] = flags]
  <2> HIDE DEF to, flags
  <2>1. Fetch(p, "deps") /\ Does(p, s)
    <3>1. s = [r EXCEPT !.extractTo = to, !.flags = flags]
      BY DEF Fields
    <3> HIDE DEF s
    <3> QED BY <1>2, <1>10, <3>1 DEF FetchDeps, to, flags
  <2>2. Given(c, "method", "") = "deps"
    BY <1>2, <2>1 DEF Fetch
  <2>3. DOMAIN q = Fields /\ q.rest = r.rest /\ q.cmds = r.cmds /\ q.state = r.state
    BY <1>1 DEF Fields
  <2>4. View(q) = [v EXCEPT !["extractTo"] = to]
    BY <1>1, ViewShared DEF Shared, v
  <2> HIDE DEF q
  <2>5. View(s) = [View(q) EXCEPT !["flags"] = flags]
    BY <2>3, ViewShared DEF Shared
  <2>6. DOMAIN s = Fields /\ s.rest = r.rest /\ s.cmds = r.cmds /\ s.state = r.state
    BY <2>3 DEF Fields
  <2> HIDE DEF s
  <2>7. v.flags = r.flags /\ DOMAIN v = Visible
    BY DEF View, Visible, v
  <2>8. FetchWork(v, c, None) = [v EXCEPT !.extractTo = to, !.flags = @ \cup {"codeUpdated"}]
    BY <2>2 DEF FetchWork, to
  <2>9. View(s) = FetchWork(v, c, None)
    BY <2>4, <2>5, <2>7, <2>8 DEF flags, Visible
  <2> QED BY <2>1, <2>6, <2>9, FetchMoves DEF v
<1>11. CASE Extract(p)
  <2> DEFINE f == r.fetches[c.of]
             type == IF RelativePath(f) \in Zips THEN "ZipFile" ELSE "TarFile"
             s == Unpacked(r, type, <<RelativePath(f)>>, <<f>>, f.uri)
  <2>1. May(p, "extract") /\ Does(p, s)
    BY <1>11 DEF Extract
  <2>2. c.op = "extract" /\ r.state = "processing"
    BY <2>1, ReadyMay
  <2>3. v.fetches = r.fetches
    BY DEF View, v
  <2>4. ExtractWork(v, c) = Unpacked(v, type, <<RelativePath(f)>>, <<f>>, f.uri)
    BY <2>3 DEF ExtractWork
  <2> HIDE DEF f, type
  <2>5. View(s) = Unpacked(v, type, <<RelativePath(f)>>, <<f>>, f.uri) /\ DOMAIN s = Fields
        /\ s.rest = r.rest /\ s.cmds = r.cmds /\ s.state = r.state
    BY <1>1, ViewUnpacked DEF v
  <2> HIDE DEF s
  <2>6. View(s) = QuietWork(p[2], v, c, None)
    BY <2>2, <2>4, <2>5 DEF QuietWork
  <2>7. ~OneOfMany(c) /\ c.op \notin Noting /\ c.op # "depend"
    BY <2>2 DEF OneOfMany, Noting, Asking
  <2> QED BY <2>1, <2>2, <2>5, <2>6, <2>7, QuietMoves DEF Ready, Does, v
<1>12. CASE Patch(p)
  <2> DEFINE hashes == [i \in DOMAIN c.files |-> HashFile(Find(p, c.files[i], FALSE))]
             units == r.units \o [i \in DOMAIN c.files |-> PatchUnit(p, c, c.files[i])]
  <2>1. May(p, "patch") /\ Does(p, [r EXCEPT !["units"] = units])
    BY <1>12 DEF Patch
  <2>2. v.units = r.units
    BY DEF View, v
  <2>3. [i \in DOMAIN c.files |-> PatchUnit(p, c, c.files[i])]
          = [i \in DOMAIN c.files |->
               Unit("PatchFile", <<c.level, c.dir, c.files[i], hashes[i]>>, None, hashes[i])]
    BY DEF PatchUnit
  <2>4. units = v.units \o [i \in DOMAIN c.files |->
               Unit("PatchFile", <<c.level, c.dir, c.files[i], hashes[i]>>, None, hashes[i])]
    BY <2>2, <2>3
  <2> HIDE DEF units, hashes
  <2>5. [v EXCEPT !["units"] = units] = PatchWork(v, c, hashes)
    BY <2>4 DEF PatchWork
  <2>6. QuietWork(p[2], v, c, hashes) = PatchWork(v, c, hashes)
    BY <2>1, ReadyMay DEF QuietWork
  <2>7. "patch" \notin Noting \cup {"depend"} /\ "units" \in Shared
    BY DEF Noting, Asking, Shared
  <2> QED BY <2>1, <2>5, <2>6, <2>7, SharedMoves DEF v
<1> QED BY <1>4, <1>5, <1>6, <1>7, <1>8, <1>9, <1>10, <1>11, <1>12 DEF Gathers

\* What is found is one of the candidates, and a file that is there.
LEMMA FirstOfIs ==
  ASSUME NEW candidates, DOMAIN candidates \subseteq Nat, FirstOf(candidates) # None
  PROVE  \E i \in DOMAIN candidates :
           FirstOf(candidates) = candidates[i] /\ candidates[i] \in DOMAIN Files
<1> DEFINE there == {i \in DOMAIN candidates : candidates[i] \in DOMAIN Files}
<1>1. there # {} /\ FirstOf(candidates) = candidates[Min(there)]
  BY DEF FirstOf
<1>2. there \in SUBSET Nat
  OBVIOUS
<1>3. Min(there) \in there
  <2> HIDE DEF there
  <2> QED BY <1>1, <1>2, LeastIn
<1> QED BY <1>1, <1>3

\* A file that is found has the name it was asked for by.
LEMMA FindIs ==
  ASSUME OverlayInv, NEW p, NEW location, NEW alsoRoot, Find(p, location, alsoRoot) # None
  PROVE  Find(p, location, alsoRoot)[3] = location
<1> DEFINE places == IF alsoRoot THEN <<p[2], <<>>>> ELSE <<p[2]>>
           at(i, j) == <<overlays[i], places[j], location>>
           inner(i) == [j \in DOMAIN places |-> at(i, j)]
           outer == [i \in DOMAIN overlays |-> FirstOf(inner(i))]
           dotted == [i \in DOMAIN overlays |-> <<overlays[i], <<>>, location>>]
<1>1. DOMAIN overlays \subseteq Nat /\ DOMAIN places \subseteq Nat
  <2>1. DOMAIN overlays \subseteq Nat
    BY DEF OverlayInv, List
  <2>2. DOMAIN <<p[2], <<>>>> \subseteq Nat /\ DOMAIN <<p[2]>> \subseteq Nat
    OBVIOUS
  <2>3. CASE alsoRoot
    BY <2>1, <2>2, <2>3
  <2>4. CASE ~alsoRoot
    BY <2>1, <2>2, <2>4
  <2> QED BY <2>3, <2>4
<1> HIDE DEF places
<1>2. CASE location \in Rooted \cup Dotted
  <2>1. Find(p, location, alsoRoot) \in {<<"/", <<>>, location>>, FirstOf(dotted)}
    BY <1>2 DEF Find
  <2>2. DOMAIN dotted \subseteq Nat
    BY <1>1
  <2>3. \A i \in DOMAIN dotted : dotted[i][3] = location
    OBVIOUS
  <2> HIDE DEF dotted
  <2>4. CASE Find(p, location, alsoRoot) = FirstOf(dotted)
    BY <2>2, <2>3, <2>4, FirstOfIs
  <2> QED BY <2>1, <2>4
<1>4. CASE location \notin Rooted /\ location \notin Dotted
  <2>1. Find(p, location, alsoRoot) = FirstOf(outer)
    BY <1>4, Zenon DEF Find, places
  <2>2. DOMAIN outer \subseteq Nat /\ \A i \in DOMAIN outer : outer[i] = FirstOf(inner(i))
    BY <1>1
  <2>3. \A i : DOMAIN inner(i) \subseteq Nat /\ \A j \in DOMAIN inner(i) : inner(i)[j][3] = location
    BY <1>1
  <2> HIDE DEF inner, outer
  <2>4. PICK i \in DOMAIN outer : FirstOf(outer) = outer[i] /\ outer[i] \in DOMAIN Files
    BY <2>1, <2>2, FirstOfIs
  <2>5. FirstOf(inner(i)) # None
    BY <2>2, <2>4, LuaAssumption
  <2>6. FirstOf(inner(i))[3] = location
    BY <2>3, <2>5, FirstOfIs
  <2> QED BY <2>1, <2>2, <2>4, <2>6
<1> QED BY <1>2, <1>4

\* The view of calls put together, and of one.
LEMMA HashedConcat ==
  ASSUME NEW a, List(a), NEW b, List(b)
  PROVE  AllHashed(a \o b) = AllHashed(a) \o AllHashed(b) /\ List(a \o b)
<1> DEFINE ab == a \o b
           ha == AllHashed(a)
           hb == AllHashed(b)
           hab == AllHashed(ab)
           t == ha \o hb
<1>1. /\ List(ab) /\ Begins(a, ab) /\ Len(ab) = Len(a) + Len(b) /\ Len(a) \in Nat /\ Len(b) \in Nat
      /\ \A i \in 1 .. Len(b) : ab[Len(a) + i] = b[i]
  BY ConcatList
<1>2. /\ List(ha) /\ Len(ha) = Len(a) /\ \A i \in 1 .. Len(a) : ha[i] = Hashed(a[i])
      /\ List(hb) /\ Len(hb) = Len(b) /\ \A i \in 1 .. Len(b) : hb[i] = Hashed(b[i])
  BY AllHashedIs
<1> HIDE DEF ab, ha, hb
<1>3. List(hab) /\ Len(hab) = Len(ab) /\ \A i \in 1 .. Len(ab) : hab[i] = Hashed(ab[i])
  BY <1>1, AllHashedIs
<1>4. /\ List(t) /\ Begins(ha, t) /\ Len(t) = Len(a) + Len(b)
      /\ \A i \in 1 .. Len(b) : t[Len(a) + i] = hb[i]
  BY <1>2, ConcatList
<1> HIDE DEF hab, t
<1>5. ASSUME NEW i \in 1 .. Len(hab) PROVE hab[i] = t[i]
  <2>1. CASE i \in 1 .. Len(a)
    BY <1>1, <1>2, <1>3, <1>4, <2>1 DEF Begins
  <2>2. CASE i \notin 1 .. Len(a)
    <3>1. i - Len(a) \in 1 .. Len(b) /\ Len(a) + (i - Len(a)) = i /\ i \in 1 .. Len(ab)
      BY <1>1, <1>3, <2>2
    <3>2. hab[i] = Hashed(b[i - Len(a)]) /\ t[i] = hb[i - Len(a)]
      BY <1>1, <1>3, <1>4, <3>1
    <3> QED BY <1>2, <3>1, <3>2
  <2> QED BY <2>1, <2>2
<1>6. hab = t
  BY <1>1, <1>3, <1>4, <1>5, ListsEqual
<1> QED BY <1>1, <1>6 DEF ab, ha, hb, hab, t

LEMMA HashedOne ==
  ASSUME NEW y
  PROVE  List(<<y>>) /\ AllHashed(<<y>>) = <<Hashed(y)>>
<1>1. List(<<y>>) /\ List(<<Hashed(y)>>)
  BY ShortLists
<1>2. List(AllHashed(<<y>>)) /\ Len(AllHashed(<<y>>)) = 1 /\ AllHashed(<<y>>)[1] = Hashed(y)
  BY <1>1, AllHashedIs
<1> QED BY <1>1, <1>2, ListsEqual

\* Other calls are left.
LEMMA ViewRest ==
  ASSUME NEW r, NEW s, \A g \in Visible \ {"rest"} : s[g] = r[g]
  PROVE  View(s) = [View(r) EXCEPT !.rest = AllHashed(s.rest)]
<1>1. View(s).rest = AllHashed(s.rest)
  BY DEF View
<1>2. View(s) = [View(r) EXCEPT !.rest = View(s).rest]
  BY ViewWith DEF Visible
<1> QED BY <1>1, <1>2

\* A text is its own view.
LEMMA TextHashed ==
  ASSUME NotesSuffice, NEW hash
  PROVE  List(TextOf(hash)) /\ AllHashed(TextOf(hash)) = TextOf(hash)
<1> DEFINE x == TextOf(hash)
<1>1. List(x) /\ DueAt(x, 0)
  BY TextTidy
<1> HIDE DEF x
<1>2. \A i \in 1 .. Len(x) : Hashed(x[i]) = x[i]
  BY <1>1, HashedIs DEF DueAt
<1>3. AllHashed(x) = x
  BY <1>1, <1>2, AllHashedIs, ListsEqual
<1> QED BY <1>1, <1>3 DEF x

\* A file that is run is the one with that hash that was asked for.
LEMMA SpliceMoves ==
  ASSUME NotesSuffice, OverlayInv, NEW p, Ready(p), Call(p).op \in Asking, pkg[p].state = "processing",
         NEW path, path = Find(p, Call(p).file, TRUE), path \in DOMAIN Files, Splice(p, path)
  PROVE  Moves(p)
<1> DEFINE r == pkg[p]
           v == View(r)
           c == Call(p)
           hash == HashFile(path)
           x == Run(path)
           req == [op |-> "required", file |-> c.file, path |-> path]
           due == DueCall(c.file, hash)
           z == Tail(r.rest)
           u == <<c>> \o x \o <<req>> \o z
           s == [r EXCEPT !.rest = u]
<1>1. DOMAIN r = Fields /\ List(r.rest) /\ v.rest = AllHashed(r.rest) /\ v.rest # <<>> /\ v.rest[1] = c
      /\ r.rest # <<>> /\ Hashed(c) = c
  BY ReadyIs, HashedIs DEF Ready, Asking
<1>2. Found(c.file, hash)
  <2>1. path[3] = c.file
    BY FindIs, LuaAssumption
  <2> QED BY <2>1 DEF Found, HashFile
<1>3. x = TextOf(hash)
  BY DEF Run, TextOf
<1>4. List(x) /\ AllHashed(x) = x
  BY <1>3, TextHashed
<1>5. Hashed(req) = due
  BY DEF Hashed, DueCall
<1>6. List(z) /\ AllHashed(z) = Tail(v.rest)
  BY <1>1, HashedTail
<1> HIDE DEF x, req, due, z, c
<1>7. /\ List(u) /\ u # <<>> /\ AllHashed(u) = <<c>> \o x \o <<due>> \o Tail(v.rest)
  <2> DEFINE d == <<c>>
             a == d \o x
             b == a \o <<req>>
             w == Tail(v.rest)
  <2>1. List(d) /\ AllHashed(d) = d /\ Len(d) = 1
    BY <1>1, HashedOne
  <2> HIDE DEF d
  <2>11. List(x)
    BY <1>4
  <2>12. AllHashed(d \o x) = AllHashed(d) \o AllHashed(x) /\ List(d \o x)
    BY <2>1, <2>11, HashedConcat
  <2>2. AllHashed(a) = a /\ List(a)
    BY <1>4, <2>1, <2>12
  <2>9. Len(a) = 1 + Len(x) /\ Len(x) \in Nat
    <3>1. List(d) /\ Len(d) = 1
      BY <2>1
    <3>2. Len(a) = Len(d) + Len(x) /\ Len(x) \in Nat
      BY <2>11, <3>1, ConcatList DEF a
    <3> QED BY <3>1, <3>2
  <2> HIDE DEF a
  <2>3. List(<<req>>) /\ AllHashed(<<req>>) = <<due>> /\ Len(<<req>>) = 1
    BY <1>5, HashedOne
  <2> HIDE DEF b, w
  <2>4. AllHashed(b) = a \o <<due>> /\ List(b)
    <3>1. AllHashed(a \o <<req>>) = AllHashed(a) \o AllHashed(<<req>>) /\ List(a \o <<req>>)
      BY <2>2, <2>3, HashedConcat
    <3>2. b = a \o <<req>>
      BY DEF b
    <3> QED BY <2>2, <2>3, <3>1, <3>2
  <2>10. Len(b) = Len(a) + 1
    <3>1. List(a) /\ List(<<req>>) /\ Len(<<req>>) = 1
      BY <2>2, <2>3
    <3> QED BY <3>1, ConcatList DEF b
  <2>5. AllHashed(b \o z) = (a \o <<due>>) \o w /\ List(b \o z) /\ Len(b \o z) = Len(b) + Len(z) /\ Len(z) \in Nat
    BY <1>6, <2>4, HashedConcat, ConcatList DEF w
  <2>6. u = b \o z
    BY DEF u, b, a, d
  <2>7. Len(u) # 0
    BY <2>5, <2>6, <2>9, <2>10
  <2>8. u # <<>>
    BY <2>7
  <2> QED BY <2>5, <2>6, <2>8 DEF a, d, w
<1> HIDE DEF u
<1>8. /\ DOMAIN s = Fields /\ s.rest = u /\ s.cmds = r.cmds /\ s.state = r.state
      /\ \A g \in Visible \ {"rest"} : s[g] = r[g]
  BY <1>1 DEF Fields, Visible
<1>9. pkg' = Became(p, s) /\ options' = options
  BY DEF Splice, Does, u, x, req, z, c
<1> HIDE DEF s
<1>10. View(s).rest = AllHashed(u) /\ View(s) = [v EXCEPT !.rest = View(s).rest]
  <2>1. View(s) = [View(r) EXCEPT !.rest = AllHashed(s.rest)]
    BY <1>8, ViewRest
  <2>2. View(s).rest = AllHashed(s.rest)
    BY DEF View
  <2> QED BY <1>8, <2>1, <2>2
<1>11. View(s) = Work(p[2], v, c, <<hash>>)
  <2>1. Work(p[2], v, c, <<hash>>) = RequireWork(v, c, hash)
    BY DEF Work, Asking, None, c
  <2>2. RequireWork(v, c, hash) = [v EXCEPT !.rest = <<c>> \o x \o <<due>> \o Tail(v.rest)]
    BY <1>3 DEF RequireWork, due
  <2> QED BY <1>7, <1>10, <2>1, <2>2
<1>12. Tidy(Tail(View(s).rest))
  <2>1. Sound(v) /\ Tidy(v.rest)
    BY DEF Ready, Sound
  <2> QED BY <1>1, <1>2, <1>3, <1>7, <1>10, <2>1, SpliceTidy DEF due, c
<1>13. Possible(c, <<hash>>) /\ ~OneOfMany(c)
  BY <1>2 DEF Possible, OneOfMany, Asking, c
<1> QED BY <1>1, <1>7, <1>8, <1>9, <1>11, <1>12, <1>13, CallMoves DEF Ready, c

\* What is not found and not needed is skipped.
LEMMA RequireMoves ==
  ASSUME NotesSuffice, OverlayInv, NEW p, Ready(p), Require(p) \/ OptionallyRequire(p)
  PROVE  Moves(p)
<1> DEFINE r == pkg[p]
           c == Call(p)
           path == Find(p, c.file, TRUE)
<1>1. CASE Require(p)
  <2>1. May(p, "require") /\ Splice(p, path)
    BY <1>1 DEF Require
  <2>2. r.state = "processing" /\ c.op = "require" /\ ~Refused(p)
    BY <2>1, ReadyMay
  <2>3. path \in DOMAIN Files
    BY <2>2 DEF Refused, Throws, Keys
  <2> QED BY <2>1, <2>2, <2>3, SpliceMoves DEF Asking
<1>2. CASE OptionallyRequire(p)
  <2>1. May(p, "optional") /\ IF path = None THEN Does(p, r) ELSE Splice(p, path)
    BY <1>2 DEF OptionallyRequire
  <2>2. r.state = "processing" /\ c.op = "optional" /\ ~Refused(p)
    BY <2>1, ReadyMay
  <2>3. path \in DOMAIN Files \cup {None}
    BY <2>2 DEF Refused, Throws, Keys
  <2>4. CASE path # None
    BY <2>1, <2>2, <2>3, <2>4, SpliceMoves DEF Asking
  <2>5. CASE path = None
    <3> DEFINE v == View(r)
    <3>1. pkg' = Became(p, r) /\ options' = options
      BY <2>1, <2>5 DEF Does
    <3>2. DOMAIN r = Fields /\ List(r.rest) /\ Hashed(c) = c /\ v.rest # <<>>
      BY <2>2, ReadyIs, HashedIs
    <3>3. Tidy(Tail(v.rest))
      BY <3>2, TailTidy DEF Ready, Sound
    <3>4. v = Work(p[2], v, c, None)
      BY <2>2 DEF Work, Asking
    <3>5. Possible(c, None) /\ ~OneOfMany(c)
      BY <2>2 DEF Possible, OneOfMany, Asking
    <3> QED BY <2>2, <3>1, <3>2, <3>3, <3>4, <3>5, CallMoves DEF Ready
  <2> QED BY <2>4, <2>5
<1> QED BY <1>1, <1>2

\* The note of a file that has run is the one that was due.
LEMMA RequiredMoves ==
  ASSUME NEW p, Ready(p), Required(p)
  PROVE  Moves(p)
<1> DEFINE r == pkg[p]
           v == View(r)
           c == Call(p)
           note == <<"RequireFile", c.file, HashFile(c.path)>>
           s == [r EXCEPT !["desc"] = Append(r.desc, note)]
<1>1. May(p, "required") /\ Does(p, [r EXCEPT !.desc = @ \o RequireNote(c.file, c.path)])
  BY DEF Required
<1>2. r.state = "processing" /\ c.op = "required"
  BY <1>1, ReadyMay
<1>3. /\ DOMAIN r = Fields /\ List(r.rest) /\ List(r.desc) /\ v.rest # <<>>
      /\ v.rest[1] = Hashed(c)
  BY ReadyIs
<1>4. Hashed(c).op = "required" /\ DueNote(Hashed(c)) = note
  BY <1>2, HashedIs
<1>5. r.desc \o RequireNote(c.file, c.path) = Append(r.desc, note)
  <2> HIDE DEF note, c
  <2>1. r.desc \o <<note>> = Append(r.desc, note)
    BY <1>3 DEF List
  <2> QED BY <2>1 DEF RequireNote, note
<1>6. pkg' = Became(p, s) /\ options' = options
  BY <1>1, <1>5 DEF Does
<1>7. View(s) = [v EXCEPT !["desc"] = Append(r.desc, note)]
  BY <1>3, ViewShared DEF Shared
<1> HIDE DEF note
<1>8. v.desc = r.desc
  BY DEF View
<1>9. DOMAIN s = Fields /\ s.rest = r.rest /\ s.cmds = r.cmds /\ s.state = r.state
  BY <1>3 DEF Fields
<1>10. View(s) = RequiredWork(v, Hashed(c))
  BY <1>4, <1>7, <1>8 DEF RequiredWork
<1>11. Work(p[2], v, Hashed(c), None) = RequiredWork(v, Hashed(c))
  BY <1>4 DEF Work, Asking
<1>12. Possible(Hashed(c), None) /\ ~OneOfMany(Hashed(c))
  BY <1>4 DEF Possible, OneOfMany, Asking
<1>13. View(s).rest = v.rest
  BY <1>7 DEF View
<1>14. Tidy(Tail(v.rest))
  BY <1>3, TailTidy DEF Ready, Sound
<1> HIDE DEF s
<1> QED BY <1>2, <1>3, <1>6, <1>9, <1>10, <1>11, <1>12, <1>13, <1>14, CallMoves DEF Ready

\* Setting a feature and adding an overlay leave the package as it is.
LEMMA SetMoves ==
  ASSUME NEW p, Ready(p), FeatureSet(p)
  PROVE  Moves(p)
<1> DEFINE r == pkg[p]
           c == Call(p)
<1>1. May(p, "set") /\ pkg' = Became(p, r) /\ options' = options
  BY DEF FeatureSet
<1>2. r.state = "processing" /\ c.op = "set"
  BY <1>1, ReadyMay
<1>3. DOMAIN r = Fields
  BY ReadyIs
<1>4. View(r) = QuietWork(p[2], View(r), c, None)
  BY <1>2 DEF QuietWork
<1>5. c.op \notin Noting /\ ~OneOfMany(c) /\ c.op # "depend"
  BY <1>2 DEF Noting, Asking, OneOfMany
<1> QED BY <1>1, <1>2, <1>3, <1>4, <1>5, QuietMoves DEF Ready

LEMMA LinkMoves ==
  ASSUME NEW p, Ready(p), OverlayLink(p), Call(p).op = "overlay"
  PROVE  Moves(p)
<1> DEFINE r == pkg[p]
           c == Call(p)
           s == [r EXCEPT !.state = "processing", !.after = <<>>]
<1>1. pkg' = Became(p, s) /\ options' = options
  BY DEF OverlayLink
<1>2. DOMAIN r = Fields
  BY ReadyIs
<1>3. /\ DOMAIN s = Fields /\ s.rest = r.rest /\ s.cmds = r.cmds /\ s.state = "processing"
      /\ \A g \in Visible : s[g] = r[g]
  BY <1>2 DEF Fields, Visible
<1> HIDE DEF s
<1>4. View(s) = View(r)
  BY <1>3, ViewSame
<1>5. View(r) = QuietWork(p[2], View(r), c, None)
  BY DEF QuietWork
<1>6. c.op \notin Noting /\ ~OneOfMany(c) /\ c.op # "depend"
  BY DEF Noting, Asking, OneOfMany
<1> QED BY <1>1, <1>3, <1>4, <1>5, <1>6, QuietMoves DEF Ready

\* A package that is named is depended on.
LEMMA DependMoved ==
  ASSUME NEW p, Ready(p), Depend(p)
  PROVE  \E s, q : /\ Moved(p[2], pkg[p], s) /\ options' = options
                   /\ pkg' = FindPackage([pkg EXCEPT ![p] = s], q)
<1> DEFINE r == pkg[p]
           v == View(r)
           c == Call(p)
           q == Dependency(p)
           names == c.table.packages
           dep == [of |-> q, own |-> "namespace" \notin DOMAIN c.table, locally |-> Arg(p, "locally", FALSE)]
           t == [r EXCEPT !.deps = Append(@, dep)]
           one == [t EXCEPT !.rest = Rest(Tail(@), t.told)]
           many == [t EXCEPT !.rest[1].table.packages = Tail(names)]
<1>1. May(p, "depend") /\ options' = options
  BY DEF Depend
<1>2. \E a \in {one, many} : /\ Len(names) # 1 \/ a = one
                             /\ Len(names) = 1 \/ a = many
                             /\ pkg' = FindPackage([pkg EXCEPT ![p] = a], q)
  BY DEF Depend, Became
<1>3. /\ r.state = "processing" /\ c.op = "depend" /\ {"op", "table"} \subseteq DOMAIN c
      /\ "packages" \in DOMAIN c.table
  BY <1>1, ReadyMay, NamesCall DEF Ready
<1>4. DOMAIN r = Fields /\ List(r.deps) /\ List(r.rest) /\ c = r.rest[1] /\ v.rest = AllHashed(r.rest) /\ v.rest # <<>>
      /\ v.rest[1] = c /\ r.rest # <<>>
  BY <1>3, ReadyIs, HashedIs DEF Ready
<1>5. View(t) = DependWork(v, c)
  <2>1. Wanted(dep) = <<IF "namespace" \in DOMAIN c.table THEN c.table.namespace ELSE "",
                        Head(names), Given(c, "locally", FALSE)>>
    BY DEF Wanted, Dependency, FindNameSpace, Arg, Given
  <2> HIDE DEF dep
  <2>2. View(t) = [v EXCEPT !.deps = Append(@, Wanted(dep))]
    BY <1>4, ViewDeps
  <2> QED BY <2>1, <2>2 DEF DependWork
<1>6. DependWork(v, c) = QuietWork(p[2], v, c, None)
  BY <1>3 DEF QuietWork
<1> HIDE DEF dep
<1>7. /\ DOMAIN t = Fields /\ t.rest = r.rest /\ t.cmds = r.cmds /\ t.state = "processing"
  BY <1>3, <1>4 DEF Fields
<1> HIDE DEF t
<1>8. CASE Len(names) = 1
  <2>1. ~OneOfMany(c) /\ c.op \notin Noting
    BY <1>3, <1>8 DEF OneOfMany, Noting, Asking
  <2>2. Moved(p[2], pkg[p], one)
    BY <1>3, <1>5, <1>6, <1>7, <2>1, QuietMoved DEF Ready
  <2> QED BY <1>1, <1>2, <1>8, <2>2
<1>9. CASE Len(names) # 1
  <2> DEFINE d == [c EXCEPT !.table.packages = Tail(names)]
             rest == [r.rest EXCEPT ![1] = d]
  <2>1. many = [t EXCEPT !.rest = rest]
    BY <1>4, <1>7
  <2>2. AllHashed(rest) = [AllHashed(r.rest) EXCEPT ![1] = d]
    <3>1. 1 \in DOMAIN r.rest
      BY <1>4 DEF List
    <3>2. d.op = "depend"
      BY <1>3
    <3>3. Hashed(d) = d
      <4> HIDE DEF d
      <4> QED BY <3>2, HashedIs
    <3> HIDE DEF d
    <3> QED BY <3>1, <3>3 DEF AllHashed
  <2> HIDE DEF rest
  <2>3. /\ many.cmds = r.cmds /\ many.state = "processing" /\ many.rest = rest
        /\ \A g \in Visible \ {"rest"} : many[g] = t[g]
    BY <1>7, <2>1 DEF Fields, Visible
  <2> HIDE DEF many
  <2>4. View(many) = [View(t) EXCEPT !.rest = AllHashed(rest)]
    BY <2>3, ViewRest
  <2> DEFINE w == DependWork(v, c)
  <2>5. w.rest = v.rest /\ DOMAIN w = Visible
    BY DEF DependWork, View, Visible
  <2>6. [w EXCEPT !.rest = [v.rest EXCEPT ![1] = d]] = [w EXCEPT !.rest[1].table.packages = Tail(names)]
    <3> HIDE DEF w, v, names, c
    <3> QED BY <1>4, <2>5
  <2>7. Effect(p[2], v, None) = [w EXCEPT !.rest[1].table.packages = Tail(names)]
    <3>1. OneOfMany(c)
      BY <1>3, <1>9 DEF OneOfMany
    <3>2. Work(p[2], v, c, None) = w
      BY <1>3, <1>6 DEF Work, Asking
    <3> HIDE DEF w, v, names, c
    <3> QED BY <1>4, <3>1, <3>2 DEF Effect, names
  <2>8. View(many) = Effect(p[2], v, None)
    <3> HIDE DEF d, w
    <3> QED BY <1>4, <1>5, <2>2, <2>4, <2>6, <2>7 DEF w
  <2>9. Possible(c, None)
    BY <1>3 DEF Possible, Asking
  <2>10. Moved(p[2], pkg[p], many)
    BY <1>4, <2>3, <2>8, <2>9 DEF Moved, Ready
  <2> QED BY <1>1, <1>2, <1>9, <2>10
<1> QED BY <1>8, <1>9

\* The answer of a lookup, with its note.
LEMMA AnswerMoves ==
  ASSUME NEW p, Ready(p), Call(p).op = "feature", options' = options,
         NEW answer, answer = None \/ \E x : answer = <<x>>,
         Answer(p, answer, <<AnswerNote(Call(p).key, answer)>>)
  PROVE  Moves(p)
<1> DEFINE r == pkg[p]
           v == View(r)
           c == Call(p)
           key == c.key
           note == AnswerNote(key, answer)
           desc == Append(r.desc, note)
           s == [r EXCEPT !.state = "processing", !.desc = desc, !.told = Put(@, key, answer)]
           t == [r EXCEPT !["desc"] = desc]
           u == [t EXCEPT !.told = Put(@, key, answer)]
<1>1. /\ DOMAIN r = Fields /\ List(r.rest) /\ List(r.desc) /\ Hashed(c) = c /\ v.rest # <<>>
  BY ReadyIs, HashedIs
<1>2. r.desc \o <<note>> = desc
  <2> HIDE DEF note
  <2> QED BY <1>1 DEF List
<1>3. pkg' = Became(p, s)
  BY <1>2 DEF Answer
<1> HIDE DEF note, desc
<1>4. v.desc = r.desc /\ DOMAIN v = Visible /\ View(t) = [v EXCEPT !["desc"] = desc]
  <2>1. v.desc = r.desc /\ DOMAIN v = Visible
    BY DEF View, Visible
  <2>2. View(t) = [v EXCEPT !["desc"] = desc]
    BY <1>1, ViewShared DEF Shared
  <2> QED BY <2>1, <2>2
<1>5. DOMAIN t = Fields
  BY <1>1
<1>6. View(u) = IF key = "ls" THEN View(t) ELSE [View(t) EXCEPT !.told = Put(@, key, answer)]
  <2> HIDE DEF t, key
  <2> QED BY <1>5, ViewTold
<1>7. /\ DOMAIN s = Fields /\ s.rest = r.rest /\ s.cmds = r.cmds /\ s.state = "processing"
      /\ \A g \in Visible : s[g] = u[g]
  BY <1>1 DEF Fields, Visible
<1> HIDE DEF s, t, u
<1>8. View(s) = View(u)
  BY <1>7, ViewSame
<1>9. View(s) = FeatureWork(v, c, answer)
  <2>1. desc = Append(v.desc, AnswerNote(c.key, answer))
    BY <1>4 DEF desc, note
  <2> HIDE DEF v, c
  <2>2. CASE key = "ls"
    <3>1. View(s) = [v EXCEPT !.desc = desc]
      BY <1>4, <1>6, <1>8, <2>2
    <3>2. [v EXCEPT !.desc = desc, !.told = IF c.key = "ls" THEN @ ELSE Put(@, c.key, answer)]
            = [v EXCEPT !.desc = desc]
      BY <1>4, <2>2 DEF Visible
    <3> QED BY <2>1, <3>1, <3>2 DEF FeatureWork
  <2>3. CASE key # "ls"
    <3>1. View(s) = [[v EXCEPT !.desc = desc] EXCEPT !.told = Put(@, key, answer)]
      BY <1>4, <1>6, <1>8, <2>3
    <3>2. [v EXCEPT !.desc = desc, !.told = IF c.key = "ls" THEN @ ELSE Put(@, c.key, answer)]
            = [[v EXCEPT !.desc = desc] EXCEPT !.told = Put(@, key, answer)]
      BY <1>4, <2>3 DEF Visible
    <3> QED BY <2>1, <3>1, <3>2 DEF FeatureWork
  <2> QED BY <2>2, <2>3
<1>10. Work(p[2], v, c, answer) = FeatureWork(v, c, answer)
  BY DEF Work, Asking
<1>11. Possible(c, answer) /\ ~OneOfMany(c)
  BY DEF Possible, OneOfMany, Asking
<1>12. View(s).rest = v.rest
  <2>1. View(s).rest = AllHashed(s.rest) /\ v.rest = AllHashed(r.rest)
    BY DEF View
  <2> QED BY <1>7, <2>1
<1>13. Tidy(Tail(v.rest))
  BY <1>1, TailTidy DEF Ready, Sound
<1> QED BY <1>1, <1>3, <1>7, <1>9, <1>10, <1>11, <1>12, <1>13, CallMoves DEF Ready

LEMMA FoundMoves ==
  ASSUME NEW p, Ready(p), Call(p).op = "feature", options.many["--build-info-ignore-fv"] = <<>>,
         KeyFound(p) \/ NoKey(p)
  PROVE  Moves(p)
<1>1. CASE KeyFound(p)
  <2> DEFINE value == features[Key(p)]
             key == Call(p).key
             answer == <<value>>
  <2>1. Answer(p, answer, FeatureNote(key, value)) /\ options' = options
    BY <1>1 DEF KeyFound
  <2>2. key \notin Range(options.many["--build-info-ignore-fv"])
    BY DEF Range
  <2> HIDE DEF value, key
  <2>3. FeatureNote(key, value) = <<AnswerNote(key, answer)>>
    BY <2>2 DEF FeatureNote, AnswerNote, None
  <2> HIDE DEF answer
  <2>4. \E x : answer = <<x>>
    BY DEF answer
  <2> QED BY <2>1, <2>3, <2>4, AnswerMoves DEF key
<1>2. CASE NoKey(p)
  <2>1. Answer(p, None, NilNote(Call(p).key)) /\ options' = options
    BY <1>2 DEF NoKey
  <2>2. NilNote(Call(p).key) = <<AnswerNote(Call(p).key, None)>>
    BY DEF NilNote, AnswerNote
  <2> QED BY <2>1, <2>2, AnswerMoves
<1> QED BY <1>1, <1>2

-----------------------------------------------------------------------------
(* What is recorded of every package.                                      *)

FirstFlags(o) == IF "--clean" \in o.given THEN {"clean"} ELSE {}

Recorded(p, r, o) ==
  /\ List(r.cmds)
  /\ r.state = "created" => \E file : r = NewPackage(file, o)
  /\ r.state # "created" => Traced(p[2], FirstFlags(o), View(r))
  /\ r.state = "done" => r.rest = <<>>
  /\ r.state = "looking" => r.rest[1].op = "feature"
  /\ r.state = "adding" => r.rest[1].op = "overlay"

RecipeInv ==
  options.many["--build-info-ignore-fv"] = <<>> => \A p \in DOMAIN pkg : Recorded(p, pkg[p], options)

LEMMA TracedSound ==
  ASSUME NEW name, NEW flags, NEW v, Traced(name, flags, v)
  PROVE  Sound(v)
<1>1. PICK n, hash, h, answers : n \in Nat /\ Trace(name, hash, flags, n, h, answers) /\ h[n] = v
  BY DEF Traced
<1> n \in Nat
  BY <1>1
<1>2. n \in 0 .. n
  OBVIOUS
<1> QED BY <1>1, <1>2 DEF Trace

\* A package in the middle of its file can make its next call.
LEMMA RecordedReady ==
  ASSUME PkgInv, NEW p \in DOMAIN pkg, Recorded(p, pkg[p], options), pkg[p].state # "created", pkg[p].rest # <<>>
  PROVE  Ready(p)
<1>1. Sound(View(pkg[p]))
  BY TracedSound DEF Recorded
<1> QED BY <1>1 DEF Ready, Recorded

LEMMA MovedRecorded ==
  ASSUME NotesSuffice, NEW p, NEW r, NEW o, Recorded(p, r, o), r.state # "created", NEW s, Moved(p[2], r, s)
  PROVE  Recorded(p, s, o)
<1>1. Traced(p[2], FirstFlags(o), View(r))
  BY DEF Recorded
<1>2. PICK answer : Possible(View(r).rest[1], answer) /\ View(s) = Effect(p[2], View(r), answer)
  BY DEF Moved
<1>3. Traced(p[2], FirstFlags(o), View(s))
  BY <1>1, <1>2, TraceGoesOn DEF Moved
<1> QED BY <1>3 DEF Recorded, Moved

\* What changes nothing but the state.
LEMMA StaysRecorded ==
  ASSUME NEW p, NEW r, NEW o, Recorded(p, r, o), r.state # "created", NEW s, \A g \in Visible : s[g] = r[g],
         s.state # "created", s.state = "done" => r.rest = <<>>,
         s.state = "looking" => r.rest[1].op = "feature", s.state = "adding" => r.rest[1].op = "overlay"
  PROVE  Recorded(p, s, o)
<1>1. View(s) = View(r)
  BY ViewSame
<1>2. s.cmds = r.cmds /\ s.rest = r.rest
  BY DEF Visible
<1> QED BY <1>1, <1>2 DEF Recorded

LEMMA NewRecorded ==
  ASSUME NEW p, NEW file, NEW o
  PROVE  Recorded(p, NewPackage(file, o), o)
<1>1. NewPackage(file, o).cmds = <<>> /\ NewPackage(file, o).state = "created"
  BY DEF NewPackage
<1>2. List(<<>>)
  BY ShortLists DEF None
<1> QED BY <1>1, <1>2 DEF Recorded

\* A package's file begins.
LEMMA ProcessRecorded ==
  ASSUME NotesSuffice, PkgInv, NEW p \in DOMAIN pkg, Recorded(p, pkg[p], options), Process(p)
  PROVE  \E s : Recorded(p, s, options) /\ pkg' = [pkg EXCEPT ![p] = s]
<1> DEFINE r == pkg[p]
           hash == HashFile(r.file)
           x == TextOf(hash)
           rest == Rest(x, <<>>)
           note == PackageNote(p[2], hash)
           s == [r EXCEPT !.state = "processing", !.desc = note, !.rest = rest]
           v == View(s)
           w == Opened(p[2], hash, FirstFlags(options))
<1>1. pkg' = [pkg EXCEPT ![p] = s] /\ r.state = "created"
  <2>1. Run(r.file) = x
    BY DEF Run, TextOf
  <2> QED BY <2>1 DEF Process
<1>2. PICK file : r = NewPackage(file, options)
  BY <1>1 DEF Recorded
<1>3. /\ DOMAIN r = Fields /\ r.told = <<>> /\ r.deps = <<>> /\ r.cmds = <<>> /\ r.units = <<>> /\ r.fetches = <<>>
      /\ r.install = <<>> /\ r.intercept = {} /\ r.flags = FirstFlags(options) /\ r.extractTo = <<>>
  <2> DEFINE n == NewPackage(file, options)
  <2>1. n.flags = FirstFlags(options)
    BY DEF NewPackage, FirstFlags
  <2>2. /\ n.told = <<>> /\ n.deps = <<>> /\ n.cmds = <<>> /\ n.units = <<>> /\ n.fetches = <<>>
        /\ n.install = <<>> /\ n.intercept = {} /\ n.extractTo = <<>>
    BY DEF NewPackage
  <2>3. DOMAIN n = Fields
    BY DEF NewPackage, Fields
  <2> QED BY <1>2, <2>1, <2>2, <2>3
<1> HIDE DEF rest, note
<1>4. /\ s.rest = rest /\ s.desc = note /\ s.told = <<>> /\ s.deps = <<>> /\ s.cmds = <<>> /\ s.units = <<>>
      /\ s.fetches = <<>> /\ s.install = <<>> /\ s.intercept = {} /\ s.flags = FirstFlags(options)
      /\ s.extractTo = <<>> /\ s.state = "processing"
  BY <1>3 DEF Fields
<1> HIDE DEF s
<1>5. Decisive(<<>>) = <<>>
  BY DEF Decisive
<1>6. AllHashed(rest) = rest
  <2>1. List(x) /\ AllHashed(x) = x /\ \A i \in 1 .. Len(x) : Proper(x[i])
    BY TextHashed, TextTidy
  <2> HIDE DEF x
  <2>2. AllHashed(Rest(x, <<>>)) = Rest(AllHashed(x), Decisive(<<>>))
    BY <2>1, HashedRest
  <2> QED BY <1>5, <2>1, <2>2 DEF rest
<1>7. [i \in DOMAIN <<>> |-> Wanted(<<>>[i])] = <<>> /\ [i \in DOMAIN <<>> |-> Command(<<>>[i])] = <<>>
  OBVIOUS
<1>8. v = w
  BY <1>4, <1>5, <1>6, <1>7 DEF View, Opened, rest, note
<1>9. Traced(p[2], FirstFlags(options), v)
  BY <1>8, TraceBegins
<1>10. List(s.cmds)
  BY <1>4, ShortLists DEF None
<1>11. Recorded(p, s, options)
  BY <1>4, <1>9, <1>10 DEF Recorded
<1> QED BY <1>1, <1>11

\* The steps that leave the calls and what they have done as they are.
LEMMA StaysStep ==
  ASSUME PkgInv, NEW p \in DOMAIN pkg, Recorded(p, pkg[p], options),
         Processed(p) \/ LuaError(p) \/ LookUp(p) \/ KeyMissing(p) \/ OverlayReach(p)
  PROVE  \E s : Recorded(p, s, options) /\ pkg' = [pkg EXCEPT ![p] = s]
<1> DEFINE r == pkg[p]
<1>1. DOMAIN r = Fields
  BY DEF PkgInv, Good, Shape
<1>2. ASSUME NEW state, NEW asked, NEW prefix, NEW seen, NEW after, r.state # "created",
             state # "created", state = "done" => r.rest = <<>>,
             state = "looking" => r.rest[1].op = "feature", state = "adding" => r.rest[1].op = "overlay"
      PROVE  Recorded(p, [r EXCEPT !.state = state, !.asked = asked, !.prefix = prefix, !.seen = seen, !.after = after],
                      options)
  <2> DEFINE s == [r EXCEPT !.state = state, !.asked = asked, !.prefix = prefix, !.seen = seen, !.after = after]
  <2>1. s.state = state /\ \A g \in Visible : s[g] = r[g]
    BY <1>1 DEF Fields, Visible
  <2> HIDE DEF s
  <2>2. Recorded(p, s, options)
    BY <1>2, <2>1, StaysRecorded
  <2> QED BY <2>2 DEF s
<1>3. \A op : May(p, op) => r.state = "processing" /\ r.rest[1].op = op
  BY DEF May, Is, Call
<1>4. CASE Processed(p)
  <2>1. pkg' = [pkg EXCEPT ![p] = [r EXCEPT !.state = "done", !.asked = @, !.prefix = @, !.seen = @, !.after = @]]
    BY <1>1, <1>4 DEF Processed, Fields
  <2>2. r.rest = <<>> /\ r.state = "processing"
    BY <1>4 DEF Processed
  <2> QED BY <1>2, <2>1, <2>2
<1>5. CASE LuaError(p)
  <2>1. pkg' = [pkg EXCEPT ![p] = [r EXCEPT !.state = "failed", !.asked = @, !.prefix = @, !.seen = @, !.after = @]]
    BY <1>1, <1>5 DEF LuaError, Fields
  <2>2. r.state = "processing"
    BY <1>5 DEF LuaError
  <2> QED BY <1>2, <2>1, <2>2
<1>6. CASE LookUp(p)
  <2>1. pkg' = [pkg EXCEPT ![p] = [r EXCEPT !.state = "looking", !.asked = Call(p).key, !.prefix = p[2],
                                             !.seen = DOMAIN features, !.after = @]]
    BY <1>1, <1>6 DEF LookUp, Fields
  <2>2. r.state = "processing" /\ r.rest[1].op = "feature"
    BY <1>3, <1>6 DEF LookUp
  <2> QED BY <1>2, <2>1, <2>2
<1>7. CASE KeyMissing(p)
  <2>1. pkg' = [pkg EXCEPT ![p] = [r EXCEPT !.state = "looking", !.asked = @, !.prefix = Shorter(@),
                                             !.seen = @, !.after = @]]
    BY <1>1, <1>7 DEF KeyMissing, Fields
  <2>2. r.state = "looking" /\ r.rest[1].op = "feature"
    BY <1>7 DEF KeyMissing, Recorded
  <2> QED BY <1>2, <2>1, <2>2
<1>8. CASE OverlayReach(p)
  <2>1. pkg' = [pkg EXCEPT ![p] = [r EXCEPT !.state = "adding", !.asked = @, !.prefix = @, !.seen = @,
                                             !.after = Tail(overlays)]]
    BY <1>1, <1>8 DEF OverlayReach, Fields
  <2>2. r.state = "processing" /\ r.rest[1].op = "overlay"
    BY <1>3, <1>8 DEF OverlayReach
  <2> QED BY <1>2, <2>1, <2>2
<1> QED BY <1>4, <1>5, <1>6, <1>7, <1>8

\* The options are those of the command line.
LEMMA OptionsStay ==
  ASSUME [Next]_vars
  PROVE  options' = options
<1>1. ASSUME NEW p, Process(p) \/ Processed(p) \/ LuaError(p)
      PROVE  options' = options
  BY <1>1 DEF Process, Processed, LuaError
<1>2. ASSUME NEW p, Asks(p)
      PROVE  options' = options
  BY <1>2 DEF Asks, LookUp, KeyFound, KeyMissing, NoKey
<1>3. ASSUME NEW p, Shares(p)
      PROVE  options' = options
  <2>1. ASSUME NEW path, Splice(p, path)
        PROVE  options' = options
    BY <2>1 DEF Splice, Does
  <2> QED BY <1>3, <2>1 DEF Shares, FeatureSet, Depend, OverlayReach, OverlayLink, Require, OptionallyRequire,
                            Required, Does
<1>4. ASSUME NEW p, Describes(p)
      PROVE  options' = options
  BY <1>4 DEF Describes, BuildDir, Intercept, InstallFile, Ls, Cmd, Restore, SetFlag, Does
<1>5. ASSUME NEW p, Gathers(p)
      PROVE  options' = options
  BY <1>5 DEF Gathers, FetchDl, FetchGit, LinkGit, CopyGit, CopyFile, FetchDeps, Extract, Patch, FetchLocal, Does
<1>6. CASE Finish \/ Stopped \/ UNCHANGED vars
  BY <1>6 DEF Finish, Stopped, vars
<1> QED BY <1>1, <1>2, <1>3, <1>4, <1>5, <1>6 DEF Next

\* A step of a package, which may create another.
LEMMA PackageStep ==
  ASSUME NotesSuffice, PkgInv, OverlayInv, options.many["--build-info-ignore-fv"] = <<>>,
         NEW p \in DOMAIN pkg, Recorded(p, pkg[p], options),
         Process(p) \/ Processed(p) \/ LuaError(p) \/ Asks(p) \/ Shares(p) \/ Describes(p) \/ Gathers(p)
  PROVE  \E s : /\ Recorded(p, s, options)
                /\ pkg' = [pkg EXCEPT ![p] = s] \/ \E q : pkg' = FindPackage([pkg EXCEPT ![p] = s], q)
<1> DEFINE r == pkg[p]
<1>1. \A op : May(p, op) => r.state # "created" /\ r.rest # <<>>
  BY DEF May, Is
<1>2. r.state \in {"looking", "adding"} => r.rest # <<>>
  BY DEF PkgInv, Good, Shape
<1>3. DOMAIN r = Fields /\ (r.rest # <<>> => Call(p) = r.rest[1])
  BY DEF PkgInv, Good, Shape, Call
<1>4. (r.state # "created" /\ r.rest # <<>>) => Ready(p)
  BY RecordedReady
<1>5. ASSUME r.state # "created", Moves(p)
      PROVE  \E s : Recorded(p, s, options) /\ pkg' = [pkg EXCEPT ![p] = s]
  BY <1>5, MovedRecorded DEF Moves
<1>6. CASE Process(p)
  BY <1>6, ProcessRecorded
<1>7. CASE Processed(p) \/ LuaError(p) \/ LookUp(p) \/ KeyMissing(p) \/ OverlayReach(p)
  BY <1>7, StaysStep
<1>8. CASE KeyFound(p) \/ NoKey(p)
  <2>1. r.state = "looking"
    BY <1>8 DEF KeyFound, NoKey
  <2>2. Ready(p) /\ Call(p).op = "feature"
    BY <1>2, <1>3, <1>4, <2>1 DEF Recorded
  <2> QED BY <1>5, <1>8, <2>1, <2>2, FoundMoves
<1>9. CASE FeatureSet(p)
  BY <1>1, <1>4, <1>5, <1>9, SetMoves DEF FeatureSet
<1>10. CASE Depend(p)
  <2>1. r.state # "created" /\ Ready(p)
    BY <1>1, <1>4, <1>10 DEF Depend
  <2>2. PICK s, q : Moved(p[2], r, s) /\ pkg' = FindPackage([pkg EXCEPT ![p] = s], q)
    BY <1>10, <2>1, DependMoved
  <2> QED BY <2>1, <2>2, MovedRecorded
<1>11. CASE OverlayLink(p)
  <2>1. r.state = "adding"
    BY <1>11 DEF OverlayLink
  <2>2. Ready(p) /\ Call(p).op = "overlay"
    BY <1>2, <1>3, <1>4, <2>1 DEF Recorded
  <2> QED BY <1>5, <1>11, <2>1, <2>2, LinkMoves
<1>12. CASE Require(p) \/ OptionallyRequire(p)
  BY <1>1, <1>4, <1>5, <1>12, RequireMoves DEF Require, OptionallyRequire
<1>13. CASE Required(p)
  BY <1>1, <1>4, <1>5, <1>13, RequiredMoves DEF Required
<1>14. CASE Describes(p)
  BY <1>1, <1>4, <1>5, <1>14, DescribesMoves
     DEF Describes, BuildDir, Intercept, InstallFile, Ls, Cmd, Restore, SetFlag
<1>15. CASE Gathers(p)
  BY <1>1, <1>4, <1>5, <1>15, GathersMoves
     DEF Gathers, FetchDl, FetchGit, LinkGit, CopyGit, CopyFile, FetchDeps, Extract, Patch, FetchLocal, Fetch
<1> QED BY <1>6, <1>7, <1>8, <1>9, <1>10, <1>11, <1>12, <1>13, <1>14, <1>15 DEF Asks, Shares

\* Whatever step the program takes.
LEMMA RecipeStep ==
  ASSUME NotesSuffice, PkgInv, OverlayInv, RecipeInv, [Next]_vars
  PROVE  RecipeInv'
<1>1. options' = options
  BY OptionsStay
<1> SUFFICES ASSUME options.many["--build-info-ignore-fv"] = <<>>
             PROVE  \A p \in DOMAIN pkg' : Recorded(p, pkg'[p], options)
  BY <1>1 DEF RecipeInv
<1>2. \A p \in DOMAIN pkg : Recorded(p, pkg[p], options)
  BY DEF RecipeInv
<1>3. ASSUME NEW p \in DOMAIN pkg,
             Process(p) \/ Processed(p) \/ LuaError(p) \/ Asks(p) \/ Shares(p) \/ Describes(p) \/ Gathers(p)
      PROVE  \A u \in DOMAIN pkg' : Recorded(u, pkg'[u], options)
  <2>1. PICK s : /\ Recorded(p, s, options)
                 /\ pkg' = [pkg EXCEPT ![p] = s] \/ \E q : pkg' = FindPackage([pkg EXCEPT ![p] = s], q)
    BY <1>2, <1>3, PackageStep
  <2>2. CASE pkg' = [pkg EXCEPT ![p] = s]
    BY <1>2, <2>1, <2>2
  <2>3. ASSUME NEW q, pkg' = FindPackage([pkg EXCEPT ![p] = s], q)
        PROVE  \A u \in DOMAIN pkg' : Recorded(u, pkg'[u], options)
    <3>1. \A u \in DOMAIN pkg' : \/ u = p /\ pkg'[u] = s
                                 \/ u \in DOMAIN pkg /\ pkg'[u] = pkg[u]
                                 \/ \E file : pkg'[u] = NewPackage(file, options)
      BY <2>3 DEF FindPackage, Put
    <3> QED BY <1>2, <2>1, <3>1, NewRecorded
  <2> QED BY <2>1, <2>2, <2>3
<1>4. CASE Finish \/ Stopped \/ UNCHANGED vars
  BY <1>2, <1>4 DEF Finish, Stopped, vars
<1> QED BY <1>3, <1>4 DEF Next

LEMMA InitRecipe == Init => RecipeInv
<1> SUFFICES ASSUME Init PROVE RecipeInv
  OBVIOUS
<1>1. pkg = [p \in {Base} |-> NewPackage(BaseFile, options)]
  BY Zenon DEF Init, Start
<1> QED BY <1>1, NewRecorded DEF RecipeInv

\* What the hash shows of a unit.
LEMMA ShownIs ==
  ASSUME NEW p, NEW u, List(u.of)
  PROVE  Shown(p, u)[1] = u.type /\ Shown(p, u)[2] = u.shown
<1> DEFINE a == <<u.type, u.shown>>
           b == [i \in DOMAIN u.of |-> FetchHash(p, u.of[i])]
<1>1. List(b)
  <2> DEFINE of == u.of
             m == [i \in DOMAIN of |-> FetchHash(p, of[i])]
  <2>1. List(of) /\ m = [i \in DOMAIN of |-> m[i]]
    OBVIOUS
  <2> HIDE DEF of
  <2>2. List(m)
    <3> HIDE DEF m
    <3> QED BY <2>1, MappedList
  <2> QED BY <2>2 DEF of
<1>2. Len(a) = 2 /\ a[1] = u.type /\ a[2] = u.shown /\ List(a)
  <2>1. \A x, y : <<x, y>> \in Seq({x, y})
    OBVIOUS
  <2>2. List(a)
    BY <2>1 DEF List
  <2> QED BY <2>2
<1> HIDE DEF a, b
<1>3. Begins(a, a \o b)
  BY <1>1, <1>2, ConcatList
<1>4. (a \o b)[1] = a[1] /\ (a \o b)[2] = a[2]
  BY <1>2, <1>3 DEF Begins
<1> QED BY <1>2, <1>4 DEF Shown, a, b

\* The same information is taken of views that are alike.
LEMMA InfoAlike ==
  ASSUME NEW p, NEW q, Info(p) = Info(q), Units(pkg[p].units), Units(pkg[q].units)
  PROVE  Alike(View(pkg[p]), View(pkg[q]))
<1> DEFINE s == pkg[p].units
           t == pkg[q].units
           m == [i \in DOMAIN s |-> Shown(p, s[i])]
           n == [i \in DOMAIN t |-> Shown(q, t[i])]
<1>1. pkg[p].desc = pkg[q].desc /\ m = n
  BY DEF Info
<1>2. View(pkg[p]).desc = pkg[p].desc /\ View(pkg[q]).desc = pkg[q].desc
      /\ View(pkg[p]).units = s /\ View(pkg[q]).units = t
  BY DEF View
<1>3. /\ DOMAIN m = DOMAIN s /\ DOMAIN n = DOMAIN t
      /\ \A i \in DOMAIN s : m[i] = Shown(p, s[i])
      /\ \A i \in DOMAIN t : n[i] = Shown(q, t[i])
  OBVIOUS
<1> HIDE DEF s, t, m, n
<1>4. /\ DOMAIN s = 1 .. Len(s) /\ Len(s) \in Nat /\ DOMAIN t = 1 .. Len(t) /\ Len(t) \in Nat
      /\ \A i \in 1 .. Len(s) : List(s[i].of)
      /\ \A i \in 1 .. Len(t) : List(t[i].of)
  BY AllHashedIs DEF Units, s, t
<1>5. Len(s) = Len(t)
  <2>1. 1 .. Len(s) = 1 .. Len(t)
    BY <1>1, <1>3, <1>4
  <2>2. \A a, b \in Nat : 1 .. a = 1 .. b => a = b
    <3> SUFFICES ASSUME NEW a \in Nat, NEW b \in Nat, 1 .. a = 1 .. b PROVE a = b
      OBVIOUS
    <3>1. a > 0 => a \in 1 .. b
      OBVIOUS
    <3>2. b > 0 => b \in 1 .. a
      OBVIOUS
    <3> QED BY <3>1, <3>2
  <2> QED BY <1>4, <2>1, <2>2
<1>6. ASSUME NEW i \in 1 .. Len(s)
      PROVE  s[i].type = t[i].type /\ s[i].shown = t[i].shown
  <2>1. Shown(p, s[i]) = Shown(q, t[i])
    BY <1>1, <1>3, <1>4, <1>5
  <2>2. List(s[i].of) /\ List(t[i].of)
    BY <1>4, <1>5
  <2>3. Shown(p, s[i])[1] = s[i].type /\ Shown(p, s[i])[2] = s[i].shown
    BY <2>2, ShownIs
  <2>4. Shown(q, t[i])[1] = t[i].type /\ Shown(q, t[i])[2] = t[i].shown
    BY <2>2, ShownIs
  <2> QED BY <2>1, <2>3, <2>4
<1> QED BY <1>1, <1>2, <1>5, <1>6 DEF Alike

\* What is built is in the view.
LEMMA RecipeSeen ==
  ASSUME NEW p, NEW q, View(pkg[p]) = View(pkg[q])
  PROVE  Recipe(p) = Recipe(q)
<1>1. \A u : Recipe(u) = [deps |-> View(pkg[u]).deps, cmds |-> View(pkg[u]).cmds, units |-> View(pkg[u]).units,
                          fetches |-> View(pkg[u]).fetches, install |-> View(pkg[u]).install,
                          intercept |-> View(pkg[u]).intercept, flags |-> View(pkg[u]).flags,
                          extractTo |-> View(pkg[u]).extractTo]
  BY DEF Recipe, View, Wanted, Command
<1> QED BY <1>1

LEMMA RecordedSame ==
  ASSUME NotesSuffice, RecipeInv
  PROVE  SameInfoSameBuild
<1> SUFFICES ASSUME NEW p \in DOMAIN pkg, NEW q \in DOMAIN pkg,
                    options.many["--build-info-ignore-fv"] = <<>>, p[2] = q[2],
                    pkg[p].state = "done", pkg[q].state = "done", Info(p) = Info(q)
             PROVE  Recipe(p) = Recipe(q)
  BY DEF SameInfoSameBuild
<1> DEFINE y == View(pkg[p])
           z == View(pkg[q])
           flags == FirstFlags(options)
<1>1. Traced(p[2], flags, y) /\ Traced(p[2], flags, z) /\ pkg[p].rest = <<>> /\ pkg[q].rest = <<>>
  BY DEF RecipeInv, Recorded
<1>2. y.rest = <<>> /\ z.rest = <<>>
  <2>1. AllHashed(<<>>) = <<>>
    BY DEF AllHashed
  <2> QED BY <1>1, <2>1 DEF View
<1>3. Units(pkg[p].units) /\ Units(pkg[q].units)
  <2>1. Sound(y) /\ Sound(z)
    BY <1>1, TracedSound
  <2>2. y.units = pkg[p].units /\ z.units = pkg[q].units
    BY DEF View
  <2> HIDE DEF y, z
  <2> QED BY <2>1, <2>2 DEF Sound
<1>4. Alike(y, z)
  BY <1>3, InfoAlike
<1> HIDE DEF y, z, flags
<1>5. y = z
  BY <1>1, <1>2, <1>4, SameTrace
<1> QED BY <1>5, RecipeSeen DEF y, z

\* The inductive invariant for it: every package has got to where it is by the
\* calls of its file and the answers it was given.
THEOREM RecipeInvariance == ASSUME NotesSuffice PROVE Spec => []RecipeInv
<1>1. IInv /\ RecipeInv /\ [Next]_vars => RecipeInv'
  BY RecipeStep DEF IInv
<1> QED BY <1>1, InitRecipe, Invariance, PTL DEF Spec

\* buildinfo.cpp 54-101, toplevel.cpp 80-120: if the notes of a text suffice, then
\* two packages of the same name with the same hash are built alike, whatever the
\* other files have done to the features, the files and the overlays they saw.
THEOREM SameInfoSameBuildHolds == ASSUME NotesSuffice PROVE Spec => []SameInfoSameBuild
<1>1. RecipeInv => SameInfoSameBuild
  BY RecordedSame
<1> QED BY <1>1, RecipeInvariance, PTL
=============================================================================
