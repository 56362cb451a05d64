----------------------------- MODULE MCGitFetch ------------------------------
(* Units of several packages in one directory of source/ and in one the       *)
(* developer keeps.                                                           *)
EXTENDS GitFetch, TLC

CONSTANTS a, b, c, h, lib, own, here, there, x, y

\* In lib, a and b follow the branch of origin, b with a hash in its Digest file.
\* In own, c wants a commit and h the branch the developer keeps.
AllUnits == {a, b, c, h}
AllDirs == (a :> lib) @@ (b :> lib) @@ (c :> own) @@ (h :> own)
OneUri == (a :> here) @@ (b :> here) @@ (c :> here) @@ (h :> here)
AllRefspecs == (a :> "origin/branch") @@ (b :> "origin/branch") @@ (c :> x) @@ (h :> "branch")
Digests == (a :> None) @@ (b :> x) @@ (c :> None) @@ (h :> None)
TwoDirs == {lib, own}
Own == {own}
HereAndThere == {here, there}
TwoCommits == {x, y}
==============================================================================
