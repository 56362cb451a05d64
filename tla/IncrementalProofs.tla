-------------------------- MODULE IncrementalProofs --------------------------
(***************************************************************************)
(* Incremental builds, for any packages with any dependencies that are not *)
(* circular, any sources and any sequence of runs.  All that an ordinary   *)
(* run takes for built is what a build from nothing would make, but for    *)
(* the runs after a forced one until a clean run has built everything; a   *)
(* run after which nothing changed is followed by one with nothing to do.  *)
(***************************************************************************)
EXTENDS Incremental, FiniteSetTheorems, WellFoundedInduction, TLAPS

-----------------------------------------------------------------------------
(* Files and descriptions.                                                 *)

\* What is made is there, and known by its package.
LEMMA MadeIs ==
  ASSUME NEW p, NEW v, NEW S
  PROVE  Made(p, v, S) # None /\ Made(p, v, S).of = p
<1>1. DOMAIN Made(p, v, S) = {"of", "shows", "with"} /\ DOMAIN None = {}
  BY DEF Made, None
<1> QED BY <1>1 DEF Made

\* What a description says.
LEMMA DescriptionIs ==
  ASSUME NEW p
  PROVE  /\ Description(p) # None
         /\ DOMAIN Description(p).deps = DOMAIN Depends[p]
         /\ \A i \in DOMAIN Depends[p] : Description(p).deps[i] = BuildInfoOf(Depends[p][i])
         /\ p \notin Local => Description(p).src = src[p]
<1> DEFINE links == [i \in DOMAIN Depends[p] |-> BuildInfoOf(Depends[p][i])]
           version == IF p \in Local THEN "" ELSE src[p]
<1>1. Description(p) = [src |-> version, deps |-> links]
  BY DEF Description
<1>2. /\ DOMAIN links = DOMAIN Depends[p]
      /\ \A i \in DOMAIN Depends[p] : links[i] = BuildInfoOf(Depends[p][i])
      /\ p \notin Local => version = src[p]
  OBVIOUS
<1> HIDE DEF links, version
<1>3. DOMAIN Description(p) = {"src", "deps"} /\ DOMAIN None = {}
  BY <1>1 DEF None
<1>4. Description(p).deps = links /\ Description(p).src = version
  BY <1>1
<1> QED BY <1>2, <1>3, <1>4

\* Dependencies are packages, and those in the list.
LEMMA DependenciesIn ==
  ASSUME NEW p \in Packages
  PROVE  /\ Dependencies(p) \subseteq Packages
         /\ \A i \in DOMAIN Depends[p] : Depends[p][i] \in Dependencies(p)
         /\ \A d \in Dependencies(p) : \E i \in DOMAIN Depends[p] : d = Depends[p][i]
<1>1. Depends[p] \in Seq(Packages)
  BY GraphAssumption
<1>2. \A i \in DOMAIN Depends[p] : Depends[p][i] \in Packages
  BY <1>1
<1> QED BY <1>2 DEF Dependencies, Range

-----------------------------------------------------------------------------
(* What is reached over the dependencies.                                  *)

\* What is reached goes on to the dependencies of all that does not stop it, ...
LEMMA ReachedClosed ==
  ASSUME NEW p \in Packages, NEW stops
  PROVE  Dependencies(p) \subseteq Reached(p, stops) /\ Closed(Reached(p, stops), stops)
<1>1. Dependencies(p) \subseteq Reached(p, stops)
  BY DependenciesIn DEF Reached
<1>2. ASSUME NEW d \in Reached(p, stops) \ stops, NEW e \in Dependencies(d)
      PROVE  e \in Reached(p, stops)
  <2>1. d \in Packages /\ e \in Packages
    BY <1>2, DependenciesIn DEF Reached
  <2>2. ASSUME NEW S \in SUBSET Packages, Dependencies(p) \subseteq S, Closed(S, stops)
        PROVE  e \in S
    BY <1>2, <2>2 DEF Reached, Closed
  <2> QED BY <2>1, <2>2 DEF Reached
<1> QED BY <1>1, <1>2 DEF Closed

\* ... comes by way of a dependency, ...
LEMMA ReachedUnfold ==
  ASSUME NEW p \in Packages, NEW stops, NEW q
  PROVE  q \in Reached(p, stops)
           <=> \E d \in Dependencies(p) : q = d \/ (d \notin stops /\ q \in Reached(d, stops))
<1>1. ASSUME NEW d \in Dependencies(p), q = d \/ (d \notin stops /\ q \in Reached(d, stops))
      PROVE  q \in Reached(p, stops)
  <2>1. d \in Packages /\ d \in Reached(p, stops)
    BY ReachedClosed, DependenciesIn
  <2>2. ASSUME d \notin stops, q \in Reached(d, stops)
        PROVE  q \in Reached(p, stops)
    <3>1. q \in Packages
      BY <2>2 DEF Reached
    <3>2. ASSUME NEW S \in SUBSET Packages, Dependencies(p) \subseteq S, Closed(S, stops)
          PROVE  q \in S
      <4>1. Dependencies(d) \subseteq S
        BY <2>2, <3>2 DEF Closed
      <4> QED BY <2>2, <3>2, <4>1 DEF Reached
    <3> QED BY <3>1, <3>2 DEF Reached
  <2> QED BY <1>1, <2>1, <2>2
<1>2. ASSUME q \in Reached(p, stops)
      PROVE  \E d \in Dependencies(p) : q = d \/ (d \notin stops /\ q \in Reached(d, stops))
  <2> DEFINE S == {r \in Packages : \E d \in Dependencies(p) :
                      r = d \/ (d \notin stops /\ r \in Reached(d, stops))}
  <2>1. S \in SUBSET Packages /\ Dependencies(p) \subseteq S
    BY DependenciesIn
  <2>2. ASSUME NEW e \in S \ stops, NEW r \in Dependencies(e)
        PROVE  r \in S
    <3>1. r \in Packages
      BY <2>2, DependenciesIn
    <3>2. PICK d \in Dependencies(p) : e = d \/ (d \notin stops /\ e \in Reached(d, stops))
      BY <2>2
    <3>3. d \in Packages
      BY DependenciesIn
    <3>4. d \notin stops /\ r \in Reached(d, stops)
      BY <2>2, <3>2, <3>3, ReachedClosed DEF Closed
    <3> QED BY <3>1, <3>4
  <2>3. Closed(S, stops)
    BY <2>2 DEF Closed
  <2> HIDE DEF S
  <2>4. q \in S
    BY <1>2, <2>1, <2>3 DEF Reached
  <2> QED BY <2>4 DEF S
<1> QED BY <1>1, <1>2

\* ... and is reached too if nothing stops it.
LEMMA ReachedMore ==
  ASSUME NEW p \in Packages, NEW stops
  PROVE  Reached(p, stops) \subseteq Reached(p, {}) /\ Reached(p, stops) \subseteq Packages
<1>1. Reached(p, {}) \in SUBSET Packages
  BY DEF Reached
<1>2. Dependencies(p) \subseteq Reached(p, {}) /\ Closed(Reached(p, {}), stops)
  BY ReachedClosed DEF Closed
<1> QED BY <1>1, <1>2 DEF Reached

\* What the commands of a package find is among its dependencies' dependencies.
LEMMA FoundReached ==
  ASSUME NEW p \in Packages
  PROVE  /\ Found(p) \subseteq Reached(p, {}) /\ Found(p) \subseteq Packages
         /\ StagingPackages(p) = Reached(p, Intercepting) /\ StagingPackages(p) \subseteq Found(p)
<1>1. StagingPackages(p) = Reached(p, Intercepting)
  BY DEF StagingPackages, Staging
<1>2. DependedPackages(p) \subseteq Reached(p, {})
  BY ReachedClosed, ReachedMore DEF DependedPackages, Depended
<1>3. Reached(p, {}) \subseteq Packages
  BY DEF Reached
<1> QED BY <1>1, <1>2, <1>3, ReachedMore DEF Found

\* A set that is closed under dependencies holds all its members find.
LEMMA FoundWithin ==
  ASSUME NEW S \in SUBSET Packages, \A p \in S : Dependencies(p) \subseteq S, NEW p \in S
  PROVE  Found(p) \subseteq S
<1>1. Closed(S, {}) /\ Dependencies(p) \subseteq S
  BY DEF Closed
<1>2. Reached(p, {}) \subseteq S
  BY <1>1 DEF Reached
<1> QED BY <1>2, FoundReached

\* No package finds itself, nor in a circle.
LEMMA FoundAcyclic ==
  ASSUME NEW S \in SUBSET Packages, S # {}
  PROVE  \E p \in S : Found(p) \cap S = {}
<1> DEFINE T == {q \in Packages : q \in S \/ Reached(q, {}) \cap S # {}}
<1>1. T \in SUBSET Packages /\ T # {}
  OBVIOUS
<1>2. PICK p \in T : Dependencies(p) \cap T = {}
  BY <1>1, GraphAssumption
<1>3. p \in Packages
  OBVIOUS
<1>4. ASSUME NEW r \in Reached(p, {}), r \in S PROVE FALSE
  <2>1. PICK d \in Dependencies(p) : r = d \/ r \in Reached(d, {})
    BY <1>3, ReachedUnfold
  <2>2. d \in T
    BY <1>3, <1>4, <2>1, DependenciesIn
  <2> QED BY <1>2, <2>2
<1>5. p \in S
  BY <1>4
<1> QED BY <1>3, <1>4, <1>5, FoundReached

-----------------------------------------------------------------------------
(* A build from nothing.                                                   *)

\* What a set of packages that holds all its members find gets from nothing.
Solves(S, f) ==
  /\ \A p \in S : Found(p) \subseteq S
  /\ f = [p \in S |-> Made(p, src[p], {f[q] : q \in Found(p)})]

\* One more package can be built if all it finds has been.
LEMMA OneMore ==
  ASSUME NEW S \in SUBSET Packages, NEW f, Solves(S, f), NEW p \in Packages \ S, Found(p) \subseteq S
  PROVE  \E g : Solves(S \cup {p}, g)
<1> DEFINE new == Made(p, src[p], {f[q] : q \in Found(p)})
           g == [r \in S \cup {p} |-> IF r = p THEN new ELSE f[r]]
<1>1. g[p] = new /\ \A r \in S : g[r] = f[r]
  OBVIOUS
<1>2. ASSUME NEW r \in S \cup {p}
      PROVE  Found(r) \subseteq S /\ {g[q] : q \in Found(r)} = {f[q] : q \in Found(r)}
  <2>1. Found(r) \subseteq S
    BY DEF Solves
  <2> HIDE DEF g
  <2> QED BY <1>1, <2>1
<1>3. ASSUME NEW r \in S \cup {p}
      PROVE  g[r] = Made(r, src[r], {g[q] : q \in Found(r)})
  <2>1. CASE r = p
    <3> HIDE DEF g
    <3> QED BY <1>1, <1>2, <2>1
  <2>2. CASE r \in S
    <3>1. f[r] = Made(r, src[r], {f[q] : q \in Found(r)})
      BY <2>2 DEF Solves
    <3> HIDE DEF g
    <3> QED BY <1>1, <1>2, <2>2, <3>1
  <2> QED BY <2>1, <2>2
<1>4. g = [r \in S \cup {p} |-> g[r]]
  OBVIOUS
<1> HIDE DEF g
<1>5. g = [r \in S \cup {p} |-> Made(r, src[r], {g[q] : q \in Found(r)})]
  BY <1>3, <1>4
<1>6. \A r \in S \cup {p} : Found(r) \subseteq S \cup {p}
  BY <1>2
<1> QED BY <1>5, <1>6 DEF Solves

\* A set for which there is no more to build has everything.
LEMMA AllSolved == \E f : Solves(Packages, f)
<1> DEFINE Left == {S \in SUBSET Packages : \E f : Solves(Packages \ S, f)}
<1>1. IsWellFoundedOn(StrictSubsetOrdering(Packages), SUBSET Packages)
  <2>1. FiniteSubsetsOf(Packages) = SUBSET Packages
    BY FS_FiniteSubsetsOfFinite, GraphAssumption
  <2>2. IsWellFoundedOn(StrictSubsetOrdering(Packages), FiniteSubsetsOf(Packages))
    BY FS_StrictSubsetOrderingWellFounded
  <2> QED BY <2>1, <2>2
<1>2. Packages \in Left
  <2>1. Packages \ Packages = {}
    OBVIOUS
  <2>2. \E f : Solves({}, f)
    <3>1. Solves({}, [p \in {} |-> None])
      BY DEF Solves
    <3> QED BY <3>1
  <2> QED BY <2>1, <2>2
<1>3. Left \subseteq SUBSET Packages
  OBVIOUS
<1>4. PICK S \in Left : \A T \in Left : <<T, S>> \notin StrictSubsetOrdering(Packages)
  <2> HIDE DEF Left
  <2> QED BY <1>1, <1>2, <1>3, WFMin
<1>5. S = {}
  <2> SUFFICES ASSUME S # {} PROVE FALSE
    OBVIOUS
  <2>1. S \in SUBSET Packages
    BY <1>3
  <2>2. PICK p \in S : Found(p) \cap S = {}
    BY <2>1, FoundAcyclic
  <2>3. PICK f : Solves(Packages \ S, f)
    OBVIOUS
  <2>4. Found(p) \subseteq Packages \ S /\ p \in Packages \ (Packages \ S)
    BY <2>1, <2>2, FoundReached
  <2>5. \E g : Solves((Packages \ S) \cup {p}, g)
    BY <2>3, <2>4, OneMore
  <2>6. (Packages \ S) \cup {p} = Packages \ (S \ {p})
    BY <2>1
  <2>7. S \ {p} \in Left
    BY <2>1, <2>5, <2>6
  <2>8. <<S \ {p}, S>> \in StrictSubsetOrdering(Packages)
    BY <2>1, <2>2 DEF StrictSubsetOrdering
  <2> QED BY <1>4, <2>7, <2>8
<1> QED
  <2>1. Packages \ {} = Packages
    OBVIOUS
  <2> QED BY <1>4, <1>5, <2>1

\* The recursion of FromScratch has a solution, as no package finds itself.
LEMMA FromScratchIs ==
  \A p \in Packages : FromScratch[p] = Made(p, src[p], {FromScratch[q] : q \in Found(p)})
<1>1. PICK f : f = [p \in Packages |-> Made(p, src[p], {f[q] : q \in Found(p)})]
  BY AllSolved DEF Solves
<1>2. FromScratch = [p \in Packages |-> Made(p, src[p], {FromScratch[q] : q \in Found(p)})]
  BY <1>1, Zenon DEF FromScratch
<1> QED BY <1>2

\* What is made of what was made from nothing is what is made from nothing.
LEMMA ScratchOf ==
  ASSUME NEW S \in SUBSET Packages, \A p \in S : Found(p) \subseteq S,
         \A p \in S : tar[p] = Made(p, src[p], {tar[q] : q \in Found(p)})
  PROVE  \A p \in S : tar[p] = FromScratch[p]
<1> DEFINE T == {p \in S : tar[p] # FromScratch[p]}
<1> SUFFICES ASSUME T # {} PROVE FALSE
  OBVIOUS
<1>1. PICK p \in T : Found(p) \cap T = {}
  BY FoundAcyclic
<1>2. \A q \in Found(p) : tar[q] = FromScratch[q]
  BY <1>1
<1>3. {tar[q] : q \in Found(p)} = {FromScratch[q] : q \in Found(p)}
  BY <1>2
<1> QED BY <1>1, <1>3, FromScratchIs

-----------------------------------------------------------------------------
(* The state of a run, and of the files between the runs.                  *)

\* What a package was built on is what it finds.
Consistent(p) == tar[p] = Made(p, src[p], {tar[q] : q \in Found(p)})

Shape ==
  /\ src \in Sources
  /\ built \subseteq Packages /\ wasBuilt \subseteq built
  /\ hash = [p \in Packages |-> hash[p]] /\ info = [p \in Packages |-> info[p]]
  /\ output = [p \in Packages |-> output[p]] /\ tar = [p \in Packages |-> tar[p]]
  /\ ~running => forced = {} /\ clean = FALSE /\ built = {}

FileInv ==
  \A p \in Packages :
    /\ tar[p] # None => tar[p].of = p
    /\ output[p] # None => p \in Hashing /\ output[p] = tar[p]
    /\ info[p] # None => DOMAIN info[p].deps = DOMAIN Depends[p]
    /\ hash[p] # None => DOMAIN hash[p].deps = DOMAIN Depends[p]

\* What a run knows of a package it is done with: in an ordinary one its
\* description is that of the moment, and what is always built has been.
Known(p) ==
  /\ Dependencies(p) \subseteq built
  /\ hash[p] # None \/ Suppressed(p)
  /\ hash[p] = info[p]
  /\ forced = {} =>
       /\ hash[p] = Description(p) /\ Described(p) /\ tar[p] # None
       /\ CodeUpdated(p) \/ clean => Consistent(p)
       /\ CodeUpdated(p) => output[p] = IF p \in Hashing THEN tar[p] ELSE None

BuiltInv == \A p \in built : Known(p)

\* A package that is added to what is built is not seen by what was built before.
LEMMA Adding ==
  ASSUME built \subseteq Packages, \A r \in built : Dependencies(r) \subseteq built,
         NEW p \in Packages, p \notin built, Dependencies(p) \subseteq built,
         src' = src,
         \A d \in built : hash'[d] = hash[d] /\ output'[d] = output[d] /\ tar'[d] = tar[d],
         NEW r \in built \cup {p}
  PROVE  /\ Description(r)' = Description(r) /\ (Described(r)' <=> Described(r))
         /\ Found(r) \subseteq built /\ \A q \in Found(r) : tar'[q] = tar[q]
         /\ {tar'[q] : q \in Found(r)} = {tar[q] : q \in Found(r)}
<1>1. Dependencies(r) \subseteq built /\ r \in Packages
  OBVIOUS
<1>2. \A d \in Dependencies(r) : BuildInfoOf(d)' = BuildInfoOf(d)
  BY <1>1 DEF BuildInfoOf
<1>3. Described(r)' <=> Described(r)
  BY <1>2 DEF Described
<1>4. Description(r)' = Description(r)
  <2>1. \A i \in DOMAIN Depends[r] : BuildInfoOf(Depends[r][i])' = BuildInfoOf(Depends[r][i])
    BY <1>1, <1>2, DependenciesIn
  <2>2. [i \in DOMAIN Depends[r] |-> BuildInfoOf(Depends[r][i])']
          = [i \in DOMAIN Depends[r] |-> BuildInfoOf(Depends[r][i])]
    BY <2>1
  <2> QED BY <2>2, Zenon DEF Description
<1>5. Found(r) \subseteq built
  <2>1. Closed(built, {})
    BY DEF Closed
  <2>2. Reached(r, {}) \subseteq built
    BY <1>1, <2>1 DEF Reached
  <2> QED BY <1>1, <2>2, FoundReached
<1> QED BY <1>3, <1>4, <1>5

\* The steps that add a package to what is built.
LEMMA AddingSteps ==
  ASSUME Shape, BuiltInv, NEW p \in Packages, Suppress(p) \/ NotRequired(p) \/ Build(p)
  PROVE  /\ p \notin built /\ Dependencies(p) \subseteq built /\ running /\ running'
         /\ built' = built \cup {p} /\ src' = src /\ forced' = forced /\ clean' = clean
         /\ settled' = settled /\ tainted' = tainted
         /\ \A d \in Packages \ {p} : /\ hash'[d] = hash[d] /\ output'[d] = output[d]
                                      /\ tar'[d] = tar[d] /\ info'[d] = info[d]
         /\ \A r \in built \cup {p} :
              /\ Description(r)' = Description(r) /\ (Described(r)' <=> Described(r))
              /\ Found(r) \subseteq built /\ \A q \in Found(r) : tar'[q] = tar[q]
              /\ {tar'[q] : q \in Found(r)} = {tar[q] : q \in Found(r)}
<1>1. /\ p \notin built /\ Dependencies(p) \subseteq built /\ running /\ running'
      /\ built' = built \cup {p} /\ src' = src /\ forced' = forced /\ clean' = clean
      /\ settled' = settled /\ tainted' = tainted
  BY DEF Suppress, NotRequired, Build, Ready, runVars, history
<1>2. \A d \in Packages \ {p} : /\ hash'[d] = hash[d] /\ output'[d] = output[d]
                                /\ tar'[d] = tar[d] /\ info'[d] = info[d]
  <2>1. CASE Suppress(p) \/ NotRequired(p)
    BY <2>1 DEF Suppress, NotRequired, Shape, diskVars
  <2>2. CASE Build(p)
    BY <2>2 DEF Build, Shape
  <2> QED BY <2>1, <2>2
<1>3. built \subseteq Packages /\ \A r \in built : Dependencies(r) \subseteq built
  BY DEF Shape, BuiltInv, Known
<1>4. \A d \in built : hash'[d] = hash[d] /\ output'[d] = output[d] /\ tar'[d] = tar[d]
  BY <1>1, <1>2, <1>3
<1> QED BY <1>1, <1>2, <1>3, <1>4, Adding

\* What a build makes.
LEMMA BuildMakes ==
  ASSUME Shape, NEW p \in Packages, Build(p)
  PROVE  /\ tar'[p] = Made(p, src[p], {tar[q] : q \in Found(p)})
         /\ tar'[p] # None /\ tar'[p].of = p
         /\ output'[p] = IF p \in Hashing THEN tar'[p] ELSE None
         /\ info'[p] = Description(p) /\ hash'[p] = Description(p)
<1> DEFINE new == Made(p, src[p], {tar[q] : q \in Found(p)})
<1>1. /\ tar' = [tar EXCEPT ![p] = new]
      /\ output' = [output EXCEPT ![p] = IF p \in Hashing THEN new ELSE None]
      /\ info' = [info EXCEPT ![p] = Description(p)] /\ hash' = [hash EXCEPT ![p] = Description(p)]
  BY DEF Build, Promoted
<1>2. new # None /\ new.of = p
  BY MadeIs
<1> HIDE DEF new
<1>3. tar'[p] = new /\ output'[p] = (IF p \in Hashing THEN new ELSE None)
      /\ info'[p] = Description(p) /\ hash'[p] = Description(p)
  BY <1>1 DEF Shape
<1> QED BY <1>2, <1>3 DEF new

\* What a package that is left alone gets.
LEMMA SuppressDoes ==
  ASSUME Shape, NEW p \in Packages, Suppress(p)
  PROVE  Suppressed(p) /\ hash'[p] = info[p] /\ UNCHANGED diskVars /\ wasBuilt' = wasBuilt
BY DEF Suppress, Existing, Shape

\* What is not built was described like that before.
LEMMA NotRequiredDoes ==
  ASSUME Shape, NEW p \in Packages, NotRequired(p)
  PROVE  /\ ~Suppressed(p) /\ Described(p) /\ ~CodeUpdated(p) /\ tar[p] # None
         /\ ~clean /\ info[p] = Description(p) /\ hash'[p] = Description(p)
         /\ UNCHANGED diskVars /\ wasBuilt' = wasBuilt
<1>1. Before(p, info) = Description(p) /\ Description(p) # None
  BY DescriptionIs DEF NotRequired, Same
<1>2. ~clean /\ info[p] = Description(p)
  BY <1>1 DEF Before
<1>3. hash' = [hash EXCEPT ![p] = Description(p)]
  BY DEF NotRequired
<1> QED BY <1>2, <1>3 DEF NotRequired, Same, Shape

\* The steps after which no run is on.
LEMMA Ends ==
  ASSUME Shape, NEW p \in Packages, Fail(p) \/ EndRun
  PROVE  /\ running' = FALSE /\ forced' = {} /\ clean' = FALSE /\ built' = {} /\ wasBuilt' = {}
         /\ hash' = NoRun /\ UNCHANGED <<src, tar>>
         /\ info' = [q \in Packages |-> info'[q]] /\ output' = [q \in Packages |-> output'[q]]
         /\ \A q \in Packages : info'[q] \in {info[q], None} /\ output'[q] \in {output[q], None}
<1>1. CASE EndRun
  BY <1>1 DEF EndRun, Ended, diskVars, Shape
<1>2. CASE Fail(p)
  <2>1. Before(p, info) \in {info[p], None} /\ Before(p, output) \in {output[p], None}
    BY DEF Before
  <2>2. /\ info' = [info EXCEPT ![p] = Before(p, info)] /\ output' = [output EXCEPT ![p] = Before(p, output)]
        /\ Ended /\ UNCHANGED <<src, tar>>
    BY <1>2 DEF Fail
  <2> QED BY <2>1, <2>2 DEF Ended, Shape
<1> QED BY <1>1, <1>2

\* No step leaves the types.
LEMMA ShapeStep ==
  ASSUME Shape, BuiltInv, [Next]_vars
  PROVE  Shape'
<1>1. ASSUME NEW p \in Packages, Suppress(p) \/ NotRequired(p) \/ Build(p)
      PROVE  Shape'
  <2>1. /\ hash' = [q \in Packages |-> hash'[q]] /\ info' = [q \in Packages |-> info'[q]]
        /\ output' = [q \in Packages |-> output'[q]] /\ tar' = [q \in Packages |-> tar'[q]]
    <3>1. CASE Suppress(p) \/ NotRequired(p)
      BY <3>1 DEF Suppress, NotRequired, Shape, diskVars
    <3>2. CASE Build(p)
      BY <3>2 DEF Build, Shape
    <3> QED BY <1>1, <3>1, <3>2
  <2>2. wasBuilt' = wasBuilt \/ wasBuilt' = wasBuilt \cup {p}
    BY <1>1 DEF Suppress, NotRequired, Build
  <2>3. /\ running' /\ built' = built \cup {p} /\ src' = src
    BY <1>1, AddingSteps
  <2> QED BY <2>1, <2>2, <2>3 DEF Shape
<1>2. ASSUME NEW p \in Packages, Fail(p) \/ EndRun
      PROVE  Shape'
  <2>1. hash' = [q \in Packages |-> hash'[q]]
    BY <1>2, Ends DEF NoRun
  <2> QED BY <1>2, <2>1, Ends DEF Shape
<1>3. ASSUME NEW versions \in Sources, NEW order \in Orders, StartRun(versions, order)
      PROVE  Shape'
  BY <1>3 DEF StartRun, Shape, flagVars, diskVars
<1>4. CASE UNCHANGED vars
  BY <1>4 DEF Shape, vars, runVars, flagVars, diskVars, history
<1>5. Base \in Packages
  BY GraphAssumption
<1> QED BY <1>1, <1>2, <1>3, <1>4, <1>5 DEF Next

\* The files stay those of their packages.
LEMMA FileStep ==
  ASSUME Shape, BuiltInv, FileInv, [Next]_vars
  PROVE  FileInv'
<1>1. ASSUME NEW p \in Packages, Suppress(p) \/ NotRequired(p) \/ Build(p)
      PROVE  FileInv'
  <2>1. \A d \in Packages \ {p} : /\ hash'[d] = hash[d] /\ output'[d] = output[d]
                                  /\ tar'[d] = tar[d] /\ info'[d] = info[d]
    BY <1>1, AddingSteps
  <2>2. DOMAIN Description(p).deps = DOMAIN Depends[p]
    BY DescriptionIs
  <2>3. CASE Build(p)
    <3>1. /\ tar'[p] # None /\ tar'[p].of = p
          /\ output'[p] = IF p \in Hashing THEN tar'[p] ELSE None
          /\ info'[p] = Description(p) /\ hash'[p] = Description(p)
      BY <2>3, BuildMakes
    <3> QED BY <2>1, <2>2, <3>1 DEF FileInv
  <2>4. CASE Suppress(p)
    BY <2>1, <2>4, SuppressDoes DEF FileInv, diskVars
  <2>5. CASE NotRequired(p)
    BY <2>1, <2>2, <2>5, NotRequiredDoes DEF FileInv, diskVars
  <2> QED BY <1>1, <2>3, <2>4, <2>5
<1>2. ASSUME NEW p \in Packages, Fail(p) \/ EndRun
      PROVE  FileInv'
  BY <1>2, Ends DEF FileInv, NoRun
<1>3. ASSUME NEW versions \in Sources, NEW order \in Orders, StartRun(versions, order)
      PROVE  FileInv'
  BY <1>3 DEF StartRun, FileInv, flagVars, diskVars
<1>4. CASE UNCHANGED vars
  BY <1>4 DEF FileInv, vars, runVars, flagVars, diskVars, history
<1>5. Base \in Packages
  BY GraphAssumption
<1> QED BY <1>1, <1>2, <1>3, <1>4, <1>5 DEF Next

\* What is added to what is built changes nothing for what was there.
LEMMA BuiltStep ==
  ASSUME Shape, BuiltInv, [Next]_vars
  PROVE  BuiltInv'
<1>1. ASSUME NEW p \in Packages, Suppress(p) \/ NotRequired(p) \/ Build(p)
      PROVE  BuiltInv'
  <2>1. /\ p \notin built /\ Dependencies(p) \subseteq built
        /\ built' = built \cup {p} /\ src' = src /\ forced' = forced /\ clean' = clean
    BY <1>1, AddingSteps
  <2>2. ASSUME NEW r \in built
        PROVE  /\ hash'[r] = hash[r] /\ output'[r] = output[r] /\ tar'[r] = tar[r] /\ info'[r] = info[r]
               /\ Description(r)' = Description(r) /\ (Described(r)' <=> Described(r))
               /\ Consistent(r)' <=> Consistent(r)
               /\ Suppressed(r)' <=> Suppressed(r)
    <3>1. r \in Packages \ {p} /\ r \in built \cup {p}
      BY <2>1 DEF Shape
    <3>2. /\ hash'[r] = hash[r] /\ output'[r] = output[r] /\ tar'[r] = tar[r] /\ info'[r] = info[r]
          /\ Description(r)' = Description(r) /\ (Described(r)' <=> Described(r))
          /\ {tar'[q] : q \in Found(r)} = {tar[q] : q \in Found(r)}
      BY <1>1, <3>1, AddingSteps
    <3>3. Consistent(r)' <=> Consistent(r)
      BY <2>1, <3>2 DEF Consistent
    <3> QED BY <2>1, <3>2, <3>3 DEF Suppressed
  <2>3. /\ Description(p)' = Description(p) /\ (Described(p)' <=> Described(p))
        /\ {tar'[q] : q \in Found(p)} = {tar[q] : q \in Found(p)}
    BY <1>1, AddingSteps
  <2>4. /\ hash'[p] # None \/ Suppressed(p)'
        /\ hash'[p] = info'[p]
        /\ forced = {} =>
             /\ hash'[p] = Description(p) /\ Described(p) /\ tar'[p] # None
             /\ CodeUpdated(p) \/ clean => Consistent(p)'
             /\ CodeUpdated(p) => output'[p] = IF p \in Hashing THEN tar'[p] ELSE None
    <3>1. CASE Suppress(p)
      BY <2>1, <3>1, SuppressDoes DEF Suppressed, diskVars
    <3>2. CASE NotRequired(p)
      BY <3>2, NotRequiredDoes, DescriptionIs DEF diskVars
    <3>3. CASE Build(p)
      <4>1. Consistent(p)'
        BY <2>1, <2>3, <3>3, BuildMakes DEF Consistent
      <4>2. Described(p)
        BY <3>3 DEF Build
      <4> QED BY <3>3, <4>1, <4>2, BuildMakes, DescriptionIs
    <3> QED BY <1>1, <3>1, <3>2, <3>3
  <2>5. \A r \in built : Known(r)'
    BY <2>1, <2>2 DEF BuiltInv, Known
  <2>6. Known(p)'
    BY <2>1, <2>3, <2>4 DEF Known
  <2> QED BY <2>1, <2>5, <2>6 DEF BuiltInv
<1>2. ASSUME NEW p \in Packages, Fail(p) \/ EndRun
      PROVE  BuiltInv'
  BY <1>2, Ends DEF BuiltInv
<1>3. ASSUME NEW versions \in Sources, NEW order \in Orders, StartRun(versions, order)
      PROVE  BuiltInv'
  BY <1>3 DEF StartRun, BuiltInv, Shape, flagVars
<1>4. CASE UNCHANGED vars
  <2>1. UNCHANGED <<src, forced, clean, built, hash, info, output, tar>>
    BY <1>4 DEF vars, runVars, flagVars, diskVars, history
  <2>2. \A d : BuildInfoOf(d)' = BuildInfoOf(d)
    BY <2>1 DEF BuildInfoOf
  <2>3. ASSUME NEW r \in built
        PROVE  /\ Description(r)' = Description(r) /\ (Described(r)' <=> Described(r))
               /\ (Consistent(r)' <=> Consistent(r)) /\ (Suppressed(r)' <=> Suppressed(r))
    <3>1. Description(r)' = Description(r)
      BY <2>1, <2>2, Zenon DEF Description
    <3>2. Consistent(r)' <=> Consistent(r)
      BY <2>1 DEF Consistent
    <3> QED BY <2>1, <2>2, <3>1, <3>2 DEF Described, Suppressed
  <2> QED BY <2>1, <2>3 DEF BuiltInv, Known
<1>5. Base \in Packages
  BY GraphAssumption
<1> QED BY <1>1, <1>2, <1>3, <1>4, <1>5 DEF Next

-----------------------------------------------------------------------------
(* Nothing to do.                                                          *)

\* How the files show a dependency, and the description that gives.
Link(d) == IF d \in Hashing THEN output[d] ELSE info[d]

Shown(p) ==
  [src |-> IF p \in Local THEN "" ELSE src[p],
   deps |-> [i \in DOMAIN Depends[p] |-> Link(Depends[p][i])]]

FitsFiles(p) ==
  /\ tar[p] # None
  /\ info[p] = Shown(p)
  /\ \A d \in Dependencies(p) : Link(d) # None
  /\ CodeUpdated(p) => Consistent(p) /\ output[p] = IF p \in Hashing THEN tar[p] ELSE None

\* After a run that built everything, and as long as nothing changes, the files
\* fit one another, and no step of an ordinary run changes them.
SettledInv ==
  settled /\ forced = {} =>
    /\ ~clean
    /\ \A p \in Packages : FitsFiles(p)
    /\ \A p \in wasBuilt : CodeUpdated(p)

\* What is built already is described as the files show it.
LEMMA KnownLinks ==
  ASSUME BuiltInv, NEW p, Dependencies(p) \subseteq built
  PROVE  \A d \in Dependencies(p) : BuildInfoOf(d) = Link(d)
BY DEF BuiltInv, Known, BuildInfoOf, Link

\* So a description can be read off the files.
LEMMA KnownDescription ==
  ASSUME BuiltInv, NEW p \in Packages, Dependencies(p) \subseteq built
  PROVE  /\ Description(p) = Shown(p)
         /\ Described(p) <=> \A d \in Dependencies(p) : Link(d) # None
<1>1. \A i \in DOMAIN Depends[p] : BuildInfoOf(Depends[p][i]) = Link(Depends[p][i])
  BY KnownLinks, DependenciesIn
<1>2. [i \in DOMAIN Depends[p] |-> BuildInfoOf(Depends[p][i])]
        = [i \in DOMAIN Depends[p] |-> Link(Depends[p][i])]
  BY <1>1
<1>3. Description(p) = Shown(p)
  BY <1>2, Zenon DEF Description, Shown
<1> QED BY <1>3, KnownLinks DEF Described

\* Files that stay fit one another still.
LEMMA FitsStay ==
  ASSUME NEW p \in Packages, FitsFiles(p), UNCHANGED <<src, tar, info, output>>
  PROVE  FitsFiles(p)'
<1>1. \A d : Link(d)' = Link(d)
  BY DEF Link
<1>2. [i \in DOMAIN Depends[p] |-> Link(Depends[p][i])'] = [i \in DOMAIN Depends[p] |-> Link(Depends[p][i])]
  BY <1>1
<1>3. Consistent(p)' <=> Consistent(p)
  BY DEF Consistent
<1>4. Shown(p)' = Shown(p)
  BY <1>2, Zenon DEF Shown
<1> QED BY <1>1, <1>3, <1>4 DEF FitsFiles

\* An ordinary run on files that fit builds only what is always built, and that
\* comes out as it was.
LEMMA SettledStep ==
  ASSUME Shape, BuiltInv, SettledInv, [Next]_vars
  PROVE  SettledInv'
<1> SUFFICES ASSUME settled', forced' = {}
             PROVE  /\ ~clean'
                    /\ \A p \in Packages : FitsFiles(p)'
                    /\ \A p \in wasBuilt' : CodeUpdated(p)
  BY DEF SettledInv
<1>1. ASSUME NEW p \in Packages, Suppress(p) \/ NotRequired(p) \/ Build(p)
      PROVE  /\ ~clean'
             /\ \A q \in Packages : FitsFiles(q)'
             /\ \A q \in wasBuilt' : CodeUpdated(q)
  <2>1. /\ p \notin built /\ Dependencies(p) \subseteq built /\ src' = src
        /\ forced' = forced /\ clean' = clean /\ settled' = settled
    BY <1>1, AddingSteps
  <2>2. ~clean /\ (\A q \in Packages : FitsFiles(q)) /\ \A q \in wasBuilt : CodeUpdated(q)
    BY <2>1 DEF SettledInv
  <2>3. ~Suppressed(p)
    BY <2>1 DEF Suppressed
  <2>4. UNCHANGED <<src, tar, info, output>> /\ \A q \in wasBuilt' : CodeUpdated(q)
    <3>1. CASE NotRequired(p)
      BY <2>1, <2>2, <3>1, NotRequiredDoes DEF diskVars
    <3>2. CASE Build(p)
      <4>1. Description(p) = info[p] /\ Described(p)
        BY <2>1, <2>2, KnownDescription DEF FitsFiles
      <4>2. CodeUpdated(p)
        BY <2>2, <3>2, <4>1 DEF Build, Same, Before, FitsFiles
      <4>3. /\ tar'[p] = tar[p] /\ output'[p] = output[p] /\ info'[p] = info[p]
        <5>1. /\ tar[p] = Made(p, src[p], {tar[q] : q \in Found(p)})
              /\ output[p] = IF p \in Hashing THEN tar[p] ELSE None
          BY <2>2, <4>2 DEF FitsFiles, Consistent
        <5>2. /\ tar'[p] = Made(p, src[p], {tar[q] : q \in Found(p)})
              /\ output'[p] = IF p \in Hashing THEN tar'[p] ELSE None
              /\ info'[p] = Description(p)
          BY <3>2, BuildMakes
        <5> QED BY <4>1, <5>1, <5>2
      <4>4. \A d \in Packages \ {p} : output'[d] = output[d] /\ tar'[d] = tar[d] /\ info'[d] = info[d]
        BY <1>1, AddingSteps
      <4>5. /\ output' = [d \in Packages |-> output'[d]] /\ tar' = [d \in Packages |-> tar'[d]]
            /\ info' = [d \in Packages |-> info'[d]]
        BY <3>2 DEF Build, Shape
      <4>6. tar' = tar /\ output' = output /\ info' = info
        BY <4>3, <4>4, <4>5 DEF Shape
      <4>7. wasBuilt' = wasBuilt \cup {p}
        BY <3>2 DEF Build
      <4> QED BY <2>1, <2>2, <4>2, <4>6, <4>7
    <3> QED BY <1>1, <2>3, <3>1, <3>2, SuppressDoes
  <2> QED BY <2>1, <2>2, <2>4, FitsStay
<1>2. CASE EndRun
  <2>1. Base \in built /\ forced = {} /\ UNCHANGED <<src, tar, info, output>>
        /\ clean' = FALSE /\ wasBuilt' = {}
    BY <1>2 DEF EndRun, Ended, diskVars
  <2>2. built = Packages
    BY <2>1, GraphAssumption DEF BuiltInv, Known, Shape
  <2>3. ASSUME NEW p \in Packages PROVE FitsFiles(p)
    <3>1. Known(p) /\ Dependencies(p) \subseteq built
      BY <2>2 DEF BuiltInv, Known
    <3>2. /\ tar[p] # None /\ info[p] = Description(p) /\ Described(p)
          /\ CodeUpdated(p) => Consistent(p) /\ output[p] = IF p \in Hashing THEN tar[p] ELSE None
      BY <2>1, <3>1 DEF Known
    <3> QED BY <3>1, <3>2, KnownDescription DEF FitsFiles
  <2> QED BY <2>1, <2>3, FitsStay
<1>3. ASSUME NEW p \in Packages, Fail(p) PROVE FALSE
  BY <1>3 DEF Fail
<1>4. ASSUME NEW versions \in Sources, NEW order \in Orders, StartRun(versions, order)
      PROVE  /\ ~clean'
             /\ \A p \in Packages : FitsFiles(p)'
             /\ \A p \in wasBuilt' : CodeUpdated(p)
  <2>1. /\ settled /\ src' = src /\ ~clean' /\ ~running
        /\ UNCHANGED <<wasBuilt, tar, info, output>>
    BY <1>4 DEF StartRun, flagVars, diskVars
  <2>2. forced = {}
    BY <2>1 DEF Shape
  <2> QED BY <2>1, <2>2, FitsStay DEF SettledInv
<1>5. CASE UNCHANGED vars
  <2>1. UNCHANGED <<src, forced, clean, wasBuilt, settled, tar, info, output>>
    BY <1>5 DEF vars, runVars, flagVars, diskVars, history
  <2>2. ~clean /\ (\A q \in Packages : FitsFiles(q)) /\ \A q \in wasBuilt : CodeUpdated(q)
    BY <2>1 DEF SettledInv
  <2>3. \A q \in Packages : FitsFiles(q)'
    BY <2>1, <2>2, FitsStay
  <2> QED BY <2>1, <2>2, <2>3
<1> QED BY <1>1, <1>2, <1>3, <1>4, <1>5 DEF Next

-----------------------------------------------------------------------------
(* What a description says of a build.                                     *)
(*                                                                         *)
(* H is a set of builds <<p, D, M, F>>: package p was built with the       *)
(* description D when the packages of its staging directory had the tars   *)
(* F, and M came out.                                                      *)

\* What the description of a build says of a dependency shows all the tars that
\* were found because of it: its hashed output contains them, or its description
\* is that of a build of its own.
Proves(d, link, F, H) ==
  IF d \in Hashing
  THEN /\ F[d] = link
       /\ d \notin Intercepting =>
            \A q \in StagingPackages(d) :
              /\ F[q] \in link.with /\ F[q].of = q
              /\ \A made \in link.with : made.of = q => made = F[q]
  ELSE \E G : /\ <<d, link, F[d], G>> \in H
              /\ d \notin Intercepting => \A q \in StagingPackages(d) : F[q] = G[q]

Grounded(p, D, M, F, H) ==
  /\ p \in Packages
  /\ F = [q \in StagingPackages(p) |-> F[q]]
  /\ M = Made(p, D.src, {F[q] : q \in StagingPackages(p)})
  /\ \A i \in DOMAIN Depends[p] : Proves(Depends[p][i], D.deps[i], F, H)

\* A description tells two builds apart.
Functional(H) ==
  \A p, D, M1, F1, M2, F2 : <<p, D, M1, F1>> \in H /\ <<p, D, M2, F2>> \in H => M1 = M2 /\ F1 = F2

StagingTars(p) == [q \in StagingPackages(p) |-> tar[q]]

\* The builds behind the files and behind what the run has done, except those of
\* packages that are always built.
Recorded(H) ==
  /\ Functional(H)
  /\ \A p, D, M, F : <<p, D, M, F>> \in H => Grounded(p, D, M, F, H)
  /\ \A p \in Packages : ~CodeUpdated(p) /\ info[p] # None => \E F : <<p, info[p], tar[p], F>> \in H
  /\ \A p \in built : ~CodeUpdated(p) => <<p, hash[p], tar[p], StagingTars(p)>> \in H

UpInv ==
  ~tainted =>
    /\ forced = {}
    /\ \A p \in built : Consistent(p)
    /\ \E H : Recorded(H)

\* Two builds with one description found the same and made the same.
LEMMA SameBuild ==
  ASSUME NEW H, Functional(H), NEW p, NEW D, NEW M1, NEW F1, NEW M2, NEW F2,
         Grounded(p, D, M1, F1, H), Grounded(p, D, M2, F2, H)
  PROVE  M1 = M2 /\ F1 = F2
<1>1. p \in Packages
  BY DEF Grounded
<1>2. ASSUME NEW q \in StagingPackages(p)
      PROVE  F1[q] = F2[q]
  <2>1. PICK d \in Dependencies(p) : q = d \/ (d \notin Intercepting /\ q \in Reached(d, Intercepting))
    BY <1>1, <1>2, FoundReached, ReachedUnfold
  <2>2. PICK i \in DOMAIN Depends[p] : d = Depends[p][i]
    BY <1>1, DependenciesIn
  <2>3. Proves(d, D.deps[i], F1, H) /\ Proves(d, D.deps[i], F2, H)
    BY <2>2 DEF Grounded
  <2>4. d \in Packages /\ StagingPackages(d) = Reached(d, Intercepting)
    BY <1>1, DependenciesIn, FoundReached
  <2>5. CASE d \in Hashing
    BY <2>1, <2>3, <2>4, <2>5 DEF Proves
  <2>6. CASE d \notin Hashing
    <3>1. PICK G1 : /\ <<d, D.deps[i], F1[d], G1>> \in H
                    /\ d \notin Intercepting => \A r \in StagingPackages(d) : F1[r] = G1[r]
      BY <2>3, <2>6 DEF Proves
    <3>2. PICK G2 : /\ <<d, D.deps[i], F2[d], G2>> \in H
                    /\ d \notin Intercepting => \A r \in StagingPackages(d) : F2[r] = G2[r]
      BY <2>3, <2>6 DEF Proves
    <3>3. F1[d] = F2[d] /\ G1 = G2
      BY <3>1, <3>2, Zenon DEF Functional
    <3> QED BY <2>1, <2>4, <3>1, <3>2, <3>3
  <2> QED BY <2>5, <2>6
<1>3. F1 = [q \in StagingPackages(p) |-> F1[q]] /\ F2 = [q \in StagingPackages(p) |-> F2[q]]
  BY DEF Grounded
<1>4. F1 = F2
  BY <1>2, <1>3
<1> QED BY <1>4 DEF Grounded

\* More builds leave what is grounded grounded.
LEMMA GroundedMore ==
  ASSUME NEW H, NEW H2, H \subseteq H2, NEW p, NEW D, NEW M, NEW F, Grounded(p, D, M, F, H)
  PROVE  Grounded(p, D, M, F, H2)
<1>1. ASSUME NEW d, NEW link, Proves(d, link, F, H) PROVE Proves(d, link, F, H2)
  BY <1>1 DEF Proves
<1> QED BY <1>1 DEF Grounded

\* The build that a package could have now is grounded.
LEMMA NowGrounded ==
  ASSUME Shape, FileInv, BuiltInv, forced = {}, \A r \in built : Consistent(r),
         NEW H, \A r \in built : ~CodeUpdated(r) => <<r, hash[r], tar[r], StagingTars(r)>> \in H,
         NEW p \in Packages, Dependencies(p) \subseteq built, Described(p), p \notin Local
  PROVE  Grounded(p, Description(p), Made(p, src[p], {tar[q] : q \in StagingPackages(p)}),
                  StagingTars(p), H)
<1> DEFINE F == StagingTars(p)
           D == Description(p)
<1>1. F = [q \in StagingPackages(p) |-> F[q]] /\ \A q \in StagingPackages(p) : F[q] = tar[q]
  BY DEF StagingTars
<1>2. D.src = src[p]
  BY DescriptionIs
<1>3. {F[q] : q \in StagingPackages(p)} = {tar[q] : q \in StagingPackages(p)}
  BY <1>1
<1>4. ASSUME NEW i \in DOMAIN Depends[p], NEW d, d = Depends[p][i]
      PROVE  Proves(d, D.deps[i], F, H)
  <2>1. d \in Dependencies(p) /\ d \in built /\ d \in Packages /\ d # Base
    BY <1>4, DependenciesIn, GraphAssumption
  <2>2. D.deps[i] = BuildInfoOf(d) /\ BuildInfoOf(d) # None
    BY <1>4, <2>1, DescriptionIs DEF Described
  <2>3. StagingPackages(d) = Reached(d, Intercepting) /\ StagingPackages(d) \subseteq Found(d)
    BY <2>1, FoundReached
  <2>4. d \in StagingPackages(p)
        /\ (d \notin Intercepting => StagingPackages(d) \subseteq StagingPackages(p))
    BY <2>1, <2>3, FoundReached, ReachedUnfold
  <2>5. CASE d \in Hashing
    <3>1. F[d] = D.deps[i] /\ D.deps[i] = tar[d]
      BY <1>1, <2>1, <2>2, <2>4, <2>5 DEF BuildInfoOf, FileInv
    <3>2. ASSUME d \notin Intercepting, NEW q \in StagingPackages(d)
          PROVE  /\ F[q] \in tar[d].with /\ F[q].of = q
                 /\ \A made \in tar[d].with : made.of = q => made = F[q]
      <4>1. Found(d) \subseteq built
        BY <2>1, FoundWithin DEF Shape, BuiltInv, Known
      <4>2. \A x \in Found(d) : tar[x].of = x
        <5>1. ASSUME NEW x \in built PROVE tar[x].of = x
          <6> DEFINE found == {tar[y] : y \in Found(x)}
          <6>1. tar[x] = Made(x, src[x], found)
            BY DEF Consistent
          <6> HIDE DEF found
          <6> QED BY <6>1, MadeIs
        <5> QED BY <4>1, <5>1
      <4>3. d \in Embedding
        <5>1. Dependencies(d) # {}
          BY <2>1, <2>3, <3>2, ReachedUnfold
        <5>2. Depends[d] # <<>>
          BY <5>1 DEF Dependencies, Range
        <5> QED BY <2>5, <3>2, <5>2, IncrementalAssumption
      <4>4. tar[d].with = {tar[x] : x \in Found(d)}
        <5>1. tar[d] = Made(d, src[d], {tar[x] : x \in Found(d)})
          BY <2>1 DEF Consistent
        <5> DEFINE found == {tar[x] : x \in Found(d)}
        <5> HIDE DEF found
        <5>2. Made(d, src[d], found).with = found
          BY <4>3 DEF Made
        <5> QED BY <5>1, <5>2 DEF found
      <4>5. q \in Found(d) /\ F[q] = tar[q]
        BY <1>1, <2>3, <2>4, <3>2
      <4> QED BY <4>2, <4>4, <4>5
    <3> QED BY <2>5, <3>1, <3>2 DEF Proves
  <2>6. CASE d \notin Hashing
    <3>1. ~CodeUpdated(d)
      BY <2>1, <2>6, IncrementalAssumption DEF CodeUpdated
    <3>2. <<d, hash[d], tar[d], StagingTars(d)>> \in H
      BY <2>1, <3>1
    <3>3. D.deps[i] = hash[d] /\ F[d] = tar[d]
      BY <1>1, <2>2, <2>4, <2>6 DEF BuildInfoOf
    <3>4. d \notin Intercepting => \A q \in StagingPackages(d) : F[q] = StagingTars(d)[q]
      BY <1>1, <2>4 DEF StagingTars
    <3> HIDE DEF F, D
    <3> QED BY <2>6, <3>2, <3>3, <3>4, Zenon DEF Proves
  <2> QED BY <2>5, <2>6
<1> HIDE DEF F, D
<1>5. Grounded(p, D, Made(p, src[p], {tar[q] : q \in StagingPackages(p)}), F, H)
  BY <1>1, <1>2, <1>3, <1>4 DEF Grounded
<1> QED BY <1>5 DEF F, D

\* When a clean run has built everything, its builds are behind the files.
LEMMA CleanRecorded ==
  ASSUME Shape, FileInv, BuiltInv, forced = {}, clean, built = Packages
  PROVE  \E H : Recorded(H)
<1> DEFINE Entry(p) == <<p, hash[p], tar[p], StagingTars(p)>>
           Kept == {p \in Packages : ~CodeUpdated(p)}
<1> PICK H : H = {Entry(p) : p \in Kept}
  OBVIOUS
<1>1. \A p \in Packages : ~CodeUpdated(p) => Entry(p) \in H
  OBVIOUS
<1>2. Functional(H)
  BY Zenon DEF Functional
<1>3. ASSUME NEW p \in Packages
      PROVE  /\ hash[p] = info[p] /\ hash[p] = Description(p) /\ Described(p) /\ Consistent(p)
             /\ Dependencies(p) \subseteq built
  BY <1>3 DEF BuiltInv, Known
<1>4. ASSUME NEW p \in Packages, ~CodeUpdated(p)
      PROVE  Grounded(p, hash[p], tar[p], StagingTars(p), H)
  <2>1. p \notin Local /\ Found(p) = StagingPackages(p)
    BY <1>4 DEF CodeUpdated, Found
  <2>2. Grounded(p, Description(p), Made(p, src[p], {tar[q] : q \in StagingPackages(p)}),
                 StagingTars(p), H)
    BY <1>1, <1>3, <2>1, NowGrounded
  <2> QED BY <1>3, <2>1, <2>2 DEF Consistent
<1>5. \A p, D, M, F : <<p, D, M, F>> \in H => Grounded(p, D, M, F, H)
  BY <1>4
<1>6. \A p \in Packages : ~CodeUpdated(p) => <<p, info[p], tar[p], StagingTars(p)>> \in H
  BY <1>1, <1>3
<1>7. \A p \in built : ~CodeUpdated(p) => <<p, hash[p], tar[p], StagingTars(p)>> \in H
  BY <1>1
<1> HIDE DEF Entry, Kept
<1> QED BY <1>2, <1>5, <1>6, <1>7 DEF Recorded

\* A build adds itself to the builds behind the files; a package that is not
\* built is the build that its description was kept of.
LEMMA UpStep ==
  ASSUME Shape, FileInv, BuiltInv, UpInv, [Next]_vars
  PROVE  UpInv'
<1> SUFFICES ASSUME ~tainted'
             PROVE  /\ forced' = {}
                    /\ \A p \in built' : Consistent(p)'
                    /\ \E H : Recorded(H)'
  BY DEF UpInv
<1>1. ASSUME NEW p \in Packages, Suppress(p) \/ NotRequired(p) \/ Build(p)
      PROVE  /\ forced' = {}
             /\ \A q \in built' : Consistent(q)'
             /\ \E H : Recorded(H)'
  <2>1. /\ p \notin built /\ Dependencies(p) \subseteq built /\ built' = built \cup {p}
        /\ src' = src /\ forced' = forced /\ tainted' = tainted
    BY <1>1, AddingSteps
  <2>2. forced = {} /\ \A q \in built : Consistent(q)
    BY <2>1 DEF UpInv
  <2>3. PICK H : Recorded(H)
    BY <2>1 DEF UpInv
  <2>4. \A d \in Packages \ {p} : hash'[d] = hash[d] /\ tar'[d] = tar[d] /\ info'[d] = info[d]
    BY <1>1, AddingSteps
  <2>5. ASSUME NEW r \in built \cup {p}
        PROVE  /\ {tar'[q] : q \in Found(r)} = {tar[q] : q \in Found(r)}
               /\ StagingTars(r)' = StagingTars(r)
    <3>1. r \in Packages
      BY DEF Shape
    <3>2. /\ {tar'[q] : q \in Found(r)} = {tar[q] : q \in Found(r)}
          /\ \A q \in Found(r) : tar'[q] = tar[q]
      BY <1>1, AddingSteps
    <3>3. \A q \in StagingPackages(r) : tar'[q] = tar[q]
      BY <3>1, <3>2, FoundReached
    <3> QED BY <3>2, <3>3 DEF StagingTars
  <2>6. \A r \in built : Consistent(r)'
    BY <2>1, <2>2, <2>4, <2>5 DEF Consistent, Shape
  <2>7. ~CodeUpdated(p) => Found(p) = StagingPackages(p) /\ p \notin Local
    BY DEF CodeUpdated, Found
  <2>8. ASSUME Described(p), ~CodeUpdated(p)
        PROVE  Grounded(p, Description(p), Made(p, src[p], {tar[q] : q \in StagingPackages(p)}),
                        StagingTars(p), H)
    <3>1. \A r \in built : ~CodeUpdated(r) => <<r, hash[r], tar[r], StagingTars(r)>> \in H
      BY <2>3 DEF Recorded
    <3> QED BY <2>1, <2>2, <2>7, <2>8, <3>1, NowGrounded
  <2>9. CASE Suppress(p)
    BY <2>2, <2>9, SuppressDoes DEF Suppressed
  <2>10. CASE NotRequired(p)
    <3>1. /\ Described(p) /\ ~CodeUpdated(p) /\ info[p] = Description(p) /\ hash'[p] = Description(p)
          /\ UNCHANGED <<info, tar>>
      BY <2>10, NotRequiredDoes DEF diskVars
    <3>2. PICK F : <<p, Description(p), tar[p], F>> \in H
      BY <2>3, <3>1, DescriptionIs DEF Recorded
    <3>3. Grounded(p, Description(p), tar[p], F, H) /\ Functional(H)
      BY <2>3, <3>2 DEF Recorded
    <3>4. /\ tar[p] = Made(p, src[p], {tar[q] : q \in StagingPackages(p)})
          /\ F = StagingTars(p)
      BY <2>8, <3>1, <3>3, SameBuild
    <3>5. Consistent(p)'
      BY <2>1, <2>7, <3>1, <3>4 DEF Consistent
    <3>6. <<p, hash'[p], tar'[p], StagingTars(p)'>> \in H
      BY <2>5, <3>1, <3>2, <3>4
    <3>7. \A r \in built : ~CodeUpdated(r) => <<r, hash'[r], tar'[r], StagingTars(r)'>> \in H
      BY <2>1, <2>3, <2>4, <2>5 DEF Recorded, Shape
    <3>8. Recorded(H)'
      BY <2>1, <2>3, <3>1, <3>6, <3>7 DEF Recorded
    <3> QED BY <2>1, <2>2, <2>6, <3>5, <3>8
  <2>11. CASE Build(p)
    <3>1. /\ tar'[p] = Made(p, src[p], {tar[q] : q \in Found(p)}) /\ Described(p)
          /\ info'[p] = Description(p) /\ hash'[p] = Description(p)
      BY <2>11, BuildMakes DEF Build
    <3>2. Consistent(p)'
      BY <2>1, <2>5, <3>1 DEF Consistent
    <3>3. ASSUME NEW H2, H \subseteq H2
          PROVE  /\ \A r \in built : ~CodeUpdated(r) => <<r, hash'[r], tar'[r], StagingTars(r)'>> \in H2
                 /\ \A q \in Packages \ {p} : ~CodeUpdated(q) /\ info'[q] # None
                      => \E F : <<q, info'[q], tar'[q], F>> \in H2
      BY <2>1, <2>3, <2>4, <2>5, <3>3 DEF Recorded, Shape
    <3>4. CASE CodeUpdated(p)
      <4>1. Recorded(H)'
        BY <2>1, <2>3, <3>3, <3>4 DEF Recorded
      <4> QED BY <2>1, <2>2, <2>6, <3>2, <4>1
    <3>5. CASE ~CodeUpdated(p)
      <4> DEFINE D == Description(p)
                 M == Made(p, src[p], {tar[q] : q \in StagingPackages(p)})
                 F == StagingTars(p)
      <4>1. Grounded(p, D, M, F, H)
        BY <2>8, <3>1, <3>5
      <4>2. tar'[p] = M /\ hash'[p] = D /\ info'[p] = D /\ StagingTars(p)' = F
        BY <2>5, <2>7, <3>1, <3>5
      <4> HIDE DEF D, M, F
      <4> PICK H2 : H2 = H \cup {<<p, D, M, F>>}
        OBVIOUS
      <4>3. \A q, D1, M1, F1 : <<q, D1, M1, F1>> \in H2 => Grounded(q, D1, M1, F1, H)
        BY <2>3, <4>1 DEF Recorded
      <4>4. Functional(H2)
        <5> SUFFICES ASSUME NEW q, NEW D1, NEW M1, NEW F1, NEW M2, NEW F2,
                            <<q, D1, M1, F1>> \in H2, <<q, D1, M2, F2>> \in H2
                     PROVE  M1 = M2 /\ F1 = F2
          BY Zenon DEF Functional
        <5>1. Grounded(q, D1, M1, F1, H) /\ Grounded(q, D1, M2, F2, H)
          BY <4>3
        <5>2. Functional(H)
          BY <2>3 DEF Recorded
        <5> QED BY <5>1, <5>2, SameBuild
      <4>5. H \subseteq H2 /\ <<p, D, M, F>> \in H2
        OBVIOUS
      <4>6. \A q, D1, M1, F1 : <<q, D1, M1, F1>> \in H2 => Grounded(q, D1, M1, F1, H2)
        BY <4>3, <4>5, GroundedMore
      <4>7. \A r \in built' : ~CodeUpdated(r) => <<r, hash'[r], tar'[r], StagingTars(r)'>> \in H2
        BY <2>1, <3>3, <4>2, <4>5
      <4>8. \A q \in Packages : ~CodeUpdated(q) /\ info'[q] # None
              => \E G : <<q, info'[q], tar'[q], G>> \in H2
        BY <3>3, <4>2, <4>5
      <4>9. Recorded(H2)'
        BY <4>4, <4>6, <4>7, <4>8 DEF Recorded
      <4> QED BY <2>1, <2>2, <2>6, <3>2, <4>9
    <3> QED BY <3>4, <3>5
  <2> QED BY <1>1, <2>9, <2>10, <2>11
<1>2. ASSUME NEW p \in Packages, Fail(p) \/ EndRun
      PROVE  /\ forced' = {}
             /\ \A q \in built' : Consistent(q)'
             /\ \E H : Recorded(H)'
  <2>1. /\ forced' = {} /\ built' = {} /\ tar' = tar
        /\ \A q \in Packages : info'[q] \in {info[q], None}
    BY <1>2, Ends DEF Ended
  <2>2. PICK H : Recorded(H)
    <3>1. CASE ~tainted
      BY <3>1 DEF UpInv
    <3>2. CASE tainted
      <4>1. EndRun /\ clean /\ forced = {}
        BY <1>2, <3>2 DEF Fail, EndRun
      <4>2. built = Packages
        BY <4>1, GraphAssumption DEF EndRun, BuiltInv, Known, Shape
      <4> QED BY <4>1, <4>2, CleanRecorded
    <3> QED BY <3>1, <3>2
  <2>3. Recorded(H)'
    BY <2>1, <2>2 DEF Recorded
  <2> QED BY <2>1, <2>3
<1>3. ASSUME NEW versions \in Sources, NEW order \in Orders, StartRun(versions, order)
      PROVE  /\ forced' = {}
             /\ \A q \in built' : Consistent(q)'
             /\ \E H : Recorded(H)'
  <2>1. /\ ~tainted /\ forced' = {} /\ ~running
        /\ UNCHANGED <<built, hash, info, tar>>
    BY <1>3 DEF StartRun, flagVars, diskVars
  <2>2. built = {}
    BY <2>1 DEF Shape
  <2>3. PICK H : Recorded(H)
    BY <2>1 DEF UpInv
  <2>4. Recorded(H)'
    BY <2>1, <2>2, <2>3 DEF Recorded
  <2> QED BY <2>1, <2>2, <2>4
<1>4. CASE UNCHANGED vars
  <2>1. UNCHANGED <<tainted, src, forced, built, hash, info, tar>>
    BY <1>4 DEF vars, runVars, flagVars, diskVars, history
  <2>2. PICK H : Recorded(H)
    BY <2>1 DEF UpInv
  <2>3. \A p : StagingTars(p)' = StagingTars(p) /\ (Consistent(p)' <=> Consistent(p))
    BY <2>1 DEF StagingTars, Consistent
  <2>4. Recorded(H)'
    BY <2>1, <2>2, <2>3 DEF Recorded
  <2> QED BY <2>1, <2>3, <2>4 DEF UpInv
<1>5. Base \in Packages
  BY GraphAssumption
<1> QED BY <1>1, <1>2, <1>3, <1>4, <1>5 DEF Next

-----------------------------------------------------------------------------
(* The invariant and what follows from it.                                 *)

IInv == Shape /\ FileInv /\ BuiltInv /\ SettledInv /\ UpInv

\* Nothing has been built before the first run.
LEMMA InitInv == Init => IInv
<1> SUFFICES ASSUME Init PROVE IInv
  OBVIOUS
<1>1. Shape /\ FileInv /\ BuiltInv /\ SettledInv
  BY DEF Init, Shape, FileInv, BuiltInv, SettledInv, NoRun
<1>2. Recorded({})
  BY DEF Init, Recorded, Functional, NoRun
<1>3. UpInv
  BY <1>2 DEF Init, UpInv
<1> QED BY <1>1, <1>3 DEF IInv

\* The inductive invariant: the types, the files, what the run knows of what is
\* built, files that fit, and builds behind them.
THEOREM Invariance == Spec => []IInv
<1>1. IInv /\ [Next]_vars => IInv'
  BY ShapeStep, FileStep, BuiltStep, SettledStep, UpStep DEF IInv
<1> QED
  BY <1>1, InitInv, PTL DEF Spec

\* The state keeps its types, and a hash output file always fits the tar.
THEOREM TypeCorrect == Spec => []TypeOK
<1>1. ASSUME Shape, FileInv, BuiltInv PROVE TypeOK
  <2>1. \A p \in built : hash[p] # None \/ Suppressed(p)
    BY <1>1 DEF BuiltInv, Known
  <2>2. \A p \in Packages : output[p] # None => p \in Hashing /\ output[p] = tar[p]
    BY <1>1 DEF FileInv
  <2>3. ASSUME NEW p \in Packages
        PROVE  /\ \A d \in {info[p], hash[p]} \ {None} : DOMAIN d.deps = DOMAIN Depends[p]
               /\ \A made \in {tar[p], output[p]} \ {None} : made.of = p
    BY <1>1 DEF FileInv
  <2> QED BY <1>1, <2>1, <2>2, <2>3 DEF Shape, TypeOK
<1> QED
  BY <1>1, Invariance, PTL DEF IInv

\* package.cpp 631-681, 984-1020: a run after one that built everything, with
\* nothing changed, runs the commands of packages only that are always built.
\* Forced, clean and failed runs may come anywhere before.
THEOREM NothingToDoHolds == Spec => []NothingToDo
<1>1. SettledInv => NothingToDo
  BY DEF SettledInv, NothingToDo
<1> QED
  BY <1>1, Invariance, PTL DEF IInv

\* package.cpp 467-533, 631-681: what an ordinary run takes for built is what a build
\* of everything from nothing would make, whatever becomes of the sources and whatever
\* was built, failed or cleaned before; after a forced run so it is in every clean run,
\* and in all runs again once a clean run has built everything.
THEOREM AllUpToDateHolds == Spec => []AllUpToDate
<1>1. ASSUME Shape, BuiltInv, UpInv
      PROVE  AllUpToDate
  <2> SUFFICES ASSUME forced = {}, tainted => clean
               PROVE  \A p \in built : tar[p] = FromScratch[p]
    BY DEF AllUpToDate
  <2>1. built \in SUBSET Packages /\ \A p \in built : Found(p) \subseteq built
    <3>1. built \in SUBSET Packages /\ \A p \in built : Dependencies(p) \subseteq built
      BY <1>1 DEF Shape, BuiltInv, Known
    <3> QED BY <3>1, FoundWithin
  <2>2. \A p \in built : Consistent(p)
    BY <1>1 DEF BuiltInv, Known, UpInv
  <2> QED BY <2>1, <2>2, ScratchOf DEF Consistent
<1>2. Shape /\ BuiltInv /\ UpInv => AllUpToDate
  BY <1>1
<1> QED
  BY <1>2, Invariance, PTL DEF IInv
=============================================================================
