------------------------------ MODULE MCDownload -------------------------------
(* Five units and two file names: two agree on the hash of a file, one has     *)
(* another hash for it, one has none; the second file has one user.            *)
EXTENDS Download, TLC

CONSTANTS a, b, c, d, e, good, other, one, two

AllUnits == {a, b, c, d, e}
Names == (a :> one) @@ (b :> one) @@ (c :> one) @@ (d :> one) @@ (e :> two)
Hashes == (a :> good) @@ (b :> good) @@ (c :> other) @@ (d :> NoHash) @@ (e :> other)
TwoFiles == {one, two}
TwoContents == {good, other}
================================================================================
