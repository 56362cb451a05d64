---------------------------- MODULE MCScheduler ------------------------------
(* Small dependency graphs for Scheduler.                                   *)
EXTENDS Scheduler, TLC

CONSTANTS base, left, right, common

DiamondPackages == {base, left, right, common}

\* base needs left and right, which share a dependency.
Diamond ==
  (base :> {left, right}) @@ (left :> {common}) @@ (right :> {common})
    @@ (common :> {})
=============================================================================
