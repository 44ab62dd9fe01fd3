--------------------------- MODULE MCRefreshQueue ---------------------------
(***************************************************************************)
(* Small instances of RefreshQueue for TLC.                                *)
(***************************************************************************)
EXTENDS RefreshQueue, TLC

CONSTANTS e1, e2, w1, w2, aapl, msft, manual, stale

\* Enqueuers and workers are interchangeable.
Symmetric == Permutations(Enqueuers) \cup Permutations(Workers)
=============================================================================
