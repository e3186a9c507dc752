--------------------------- MODULE MCCreativeAssets ---------------------------
(* Instances of CreativeAssets for TLC. *)
EXTENDS CreativeAssets, TLC

\* An imagined spec next to one of the pipeline, an edit, a render and an
\* approval, in one version of the campaign, and a worker that may die.
StudioBudget == [op \in Ops |-> 1]

\* Workers are alike, and so are clients.
Alike == Permutations(Workers) \cup Permutations(Clients)
=============================================================================
