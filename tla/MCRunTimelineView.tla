-------------------------- MODULE MCRunTimelineView --------------------------
(* RunTimelineView for TLC; the sessions are interchangeable.                *)
EXTENDS RunTimelineView, TLC

CONSTANTS a, b

SessionSymmetry == Permutations(Sessions)
=============================================================================
