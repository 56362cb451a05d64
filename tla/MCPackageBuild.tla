--------------------------- MODULE MCPackageBuild ----------------------------
(* base needs left and right, and both need common: common is built once     *)
(* by its own thread and again, locally, by the threads of its users.        *)
EXTENDS PackageBuild, TLC

CONSTANTS base, left, right, common

SharedPackages == {base, left, right, common}
Shared == (base :> {left, right}) @@ (left :> {common}) @@ (right :> {common})
            @@ (common :> {})

\* left wants common built locally, right only needs it.
SharedLocally == (base :> {}) @@ (left :> {common}) @@ (right :> {}) @@ (common :> {})

\* Only the two users and what they share, which both want built locally.
TwinPackages == {left, right, common}
Twins == (left :> {common}) @@ (right :> {common}) @@ (common :> {})
TwinsLocally == Twins

NoPackages == {}
CleanLeft == {left}
InterceptLeft == {left}
NotForced == {{}}
ForcedOrNot == {{}, {common}}

\* A package never built, one that was, one that was with .build.info.new left
\* by a later failure, one whose first build failed after its tar was written.
Files(new, old, staging) == [newInfo |-> new, info |-> old, tar |-> staging]
AnyLeftovers == {Files(FALSE, FALSE, "none"), Files(FALSE, TRUE, "whole"),
                 Files(TRUE, TRUE, "whole"), Files(TRUE, FALSE, "whole")}
=============================================================================
