------------------------------- MODULE Download -------------------------------
(***************************************************************************)
(* DownloadFetch::fetch, called by the build threads of all packages, and  *)
(* what they share: the DLObject of each file name (its mutex, the hash    *)
(* the run has committed to) and the files under dl/, which later runs     *)
(* find again.  A file is its content; a hash is the content it is of.     *)
(***************************************************************************)
CONSTANTS
  Units,     \* the download units of all packages
  Files,     \* file names under dl/
  File,      \* File[u]: full_name() of unit u
  Contents,  \* what servers may send, and hashes in Digest files
  Want,      \* Want[u]: the hash of u, NoHash when HASH() was never asked for
  NoHash,
  NoFile,
  Nobody

Parameters ==
  /\ File \in [Units -> Files]
  /\ Want \in [Units -> Contents \cup {NoHash}]
  /\ NoHash \notin Contents /\ NoFile \notin Contents
  /\ Nobody \notin Units

ASSUME DownloadAssumption == Parameters

VARIABLES
  pc,    \* where the fetch of each unit is
  lock,  \* DLObject::lock
  hash,  \* DLObject::hash
  dl     \* dl/<file>

vars == <<pc, lock, hash, dl>>

\* What is under dl/ was sent completely, by some server in some run.
TypeOK ==
  /\ pc \in [Units -> {"idle", "waiting", "commit", "look", "verify", "fetched", "failed"}]
  /\ lock \in [Files -> Units \cup {Nobody}]
  /\ hash \in [Files -> Contents \cup {NoHash}]
  /\ dl \in [Files -> Contents \cup {NoFile}]

\* A process starts with no DLObject, and with the files of earlier ones.
Init ==
  /\ pc = [u \in Units |-> "idle"]
  /\ lock = [f \in Files |-> Nobody]
  /\ hash = [f \in Files |-> NoHash]
  /\ dl \in [Files -> Contents \cup {NoFile}]

-----------------------------------------------------------------------------
Goto(u, place) == pc' = [pc EXCEPT ![u] = place]

\* The unique_lock goes out of scope.
Unlock(u) == lock' = [lock EXCEPT ![File[u]] = Nobody]

\* fetch() is called: findDLObject finds or makes the object of the name.
Call(u) ==
  /\ pc[u] = "idle"
  /\ Goto(u, "waiting")
  /\ UNCHANGED <<lock, hash, dl>>

Lock(u) ==
  /\ pc[u] = "waiting"
  /\ lock[File[u]] = Nobody
  /\ lock' = [lock EXCEPT ![File[u]] = u]
  /\ Goto(u, "commit")
  /\ UNCHANGED <<hash, dl>>

Conflict(u) ==
  /\ Want[u] # NoHash
  /\ hash[File[u]] \notin {NoHash, Want[u]}

\* Another package has downloaded the file with another hash.
Refuse(u) ==
  /\ pc[u] = "commit" /\ Conflict(u)
  /\ Goto(u, "failed")
  /\ Unlock(u)
  /\ UNCHANGED <<hash, dl>>

\* Mutant: the first package's hash is not recorded.
CommitNothing(u) ==
  /\ pc[u] = "commit" /\ ~Conflict(u)
  /\ Goto(u, "look")
  /\ UNCHANGED <<lock, hash, dl>>

\* The first package that has a hash for the file commits everybody to it.
Commit(u) ==
  /\ pc[u] = "commit" /\ ~Conflict(u)
  /\ hash' = IF Want[u] = NoHash THEN hash ELSE [hash EXCEPT ![File[u]] = Want[u]]
  /\ Goto(u, "look")
  /\ UNCHANGED <<lock, dl>>

\* The file is there, from this run or an earlier one.
Have(u) ==
  /\ pc[u] = "look"
  /\ dl[File[u]] # NoFile
  /\ Goto(u, "verify")
  /\ UNCHANGED <<lock, hash, dl>>

\* wget, from the tarball cache or from upstream, into a .tmp file that is
\* renamed when it is complete.
Get(u, c) ==
  /\ pc[u] = "look"
  /\ dl[File[u]] = NoFile
  /\ dl' = [dl EXCEPT ![File[u]] = c]
  /\ Goto(u, "verify")
  /\ UNCHANGED <<lock, hash>>

\* Mutant: wget writes the file itself, and a failure leaves part of it.
GetFailsPartial(u) ==
  /\ pc[u] = "look"
  /\ dl[File[u]] = NoFile
  /\ dl' = [dl EXCEPT ![File[u]] = Nobody]
  /\ Goto(u, "failed")
  /\ Unlock(u)
  /\ UNCHANGED hash

\* Mutant: the exception leaves the lock taken.
GetFailsLocked(u) ==
  /\ pc[u] = "look"
  /\ dl[File[u]] = NoFile
  /\ Goto(u, "failed")
  /\ UNCHANGED <<lock, hash, dl>>

\* Both wgets have failed: an exception.
GetFails(u) ==
  /\ pc[u] = "look"
  /\ dl[File[u]] = NoFile
  /\ Goto(u, "failed")
  /\ Unlock(u)
  /\ UNCHANGED <<hash, dl>>

Matches(u) == Want[u] \in {NoHash, dl[File[u]]}

Verified(u) ==
  /\ pc[u] = "verify" /\ Matches(u)
  /\ Goto(u, "fetched")
  /\ Unlock(u)
  /\ UNCHANGED <<hash, dl>>

\* The file is removed, so that the next attempt downloads it again.
Mismatch(u) ==
  /\ pc[u] = "verify" /\ ~Matches(u)
  /\ dl' = [dl EXCEPT ![File[u]] = NoFile]
  /\ Goto(u, "failed")
  /\ Unlock(u)
  /\ UNCHANGED hash

\* The package is built once more, locally, and fetches once more.
Refetch(u) ==
  /\ pc[u] = "fetched"
  /\ Goto(u, "idle")
  /\ UNCHANGED <<lock, hash, dl>>

\* The run ends or is killed, and another one starts: dl/ is what is left.
Restart ==
  /\ pc' = [u \in Units |-> "idle"]
  /\ lock' = [f \in Files |-> Nobody]
  /\ hash' = [f \in Files |-> NoHash]
  /\ UNCHANGED dl

Fetch(u) ==
  \/ Lock(u)
  \/ Refuse(u) \/ Commit(u)
  \/ Have(u) \/ (\E c \in Contents : Get(u, c)) \/ GetFails(u)
  \/ Verified(u) \/ Mismatch(u)

Next ==
  \/ \E u \in Units : Call(u) \/ Fetch(u) \/ Refetch(u)
  \/ Restart

Spec == Init /\ [][Next]_vars

\* wget ends, and a thread that waits for the mutex gets it in the end.
Fairness == \A u \in Units : SF_vars(Fetch(u))

FairSpec == Spec /\ Fairness

-----------------------------------------------------------------------------
\* Properties.

\* fetch.cpp:110-137, 169-180: what a package was told is there with the hash
\* it asked for is there, whoever else fetches the file since, until the
\* package extracts it, which it does without the lock.
FetchedStays ==
  \A u \in Units :
    pc[u] = "fetched" /\ Want[u] # NoHash => dl[File[u]] = Want[u]

\* fetch.cpp:111-112: packages with conflicting hashes for one file never both
\* get it in one run, in any order and however often they try.
NoConflict ==
  \A u, v \in Units :
    /\ File[u] = File[v] /\ pc[u] = "fetched" /\ pc[v] = "fetched"
    /\ Want[u] # NoHash /\ Want[v] # NoHash
    => Want[u] = Want[v]

\* One unit at a time is between the look at the file and the verification,
\* and it holds the lock of the file's name.
Exclusive ==
  \A u \in Units :
    pc[u] \in {"commit", "look", "verify"} => lock[File[u]] = u

\* fetch.cpp:167-183, extraction.cpp:58-62: from the moment a package with a hash
\* is told that it has its file until it is done, dl/<file> does not change.
Shared == INSTANCE SharedSource WITH
  Users <- Units,
  Place <- File,
  Nothing <- NoFile,
  content <- dl,
  held <- [u \in Units |-> IF pc[u] = "fetched" /\ Want[u] # NoHash THEN Want[u] ELSE NoFile]
ImplementsShared == Shared!Spec

\* Every fetch ends, well or not, with the exceptions on its way.
FetchEnds ==
  \A u \in Units : pc[u] = "waiting" ~> pc[u] \in {"idle", "fetched", "failed"}
===============================================================================
