----------------------------- MODULE MCBuildInfo -----------------------------
(* Several sets of places where a run may be stopped.                         *)
EXTENDS BuildInfo

TwoVersions == {1, 2}

\* The places at which no file that a decision rests on is half way.
Careful == {"prepare", "check", "restoreStaging", "fetch", "commands"}

OnlyInstall == {"packInstall"}
Plain == {"plain"}
Never == {FALSE}
Sometimes == BOOLEAN
=============================================================================
