------------------------ MODULE MCWorkspaceListView ------------------------
(* WorkspaceListView for TLC; no SYMMETRY, the run checks liveness.          *)
EXTENDS WorkspaceListView, TLC

CONSTANTS w1, c1, c2
=============================================================================
