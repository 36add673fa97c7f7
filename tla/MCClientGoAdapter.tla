------------------------- MODULE MCClientGoAdapter -------------------------
(* Model-checking instance of ClientGoAdapter. *)
EXTENDS ClientGoAdapter

\* Every registered view but workqueue_depth, whose LastValue aggregation
\* of Inc/Dec is checked on its own (run depth_gauge).
ViewsButDepth == Registered \ {"ViewDepth"}

\* workqueue_depth alone.
DepthView == {"ViewDepth"}

Sym == Permutations(Names)
=============================================================================
