------------------------------ MODULE MCPipeline ------------------------------
(* Instances of Pipeline for TLC: graphs and budgets of requests. *)
EXTENDS Pipeline, TLC

CONSTANTS t1, t2, c1, c2

\* The graph of app/modules/pipeline/config.py.
FullStages == {"input_normalizer", "strategy", "brand_identity",
               "website_builder", "creative_asset", "qa"}
FullDependsOn ==
  [input_normalizer |-> {},
   strategy |-> {"input_normalizer"},
   brand_identity |-> {"strategy"},
   website_builder |-> {"input_normalizer", "strategy", "brand_identity"},
   creative_asset |-> {"strategy", "brand_identity"},
   qa |-> {"website_builder", "creative_asset"}]
ImageStages == {"brand_identity", "website_builder", "creative_asset"}
FullGates == {"strategy", "brand_identity", "website_builder"}

\* A gate and the stage behind it.
ChainStages == {"brand_identity", "creative_asset"}
ChainDependsOn == [brand_identity |-> {}, creative_asset |-> {"brand_identity"}]
ChainGates == {"brand_identity"}

\* A single stage, whose loop has two iterations.
SoloStages == {"qa"}
SoloDependsOn == [qa |-> {}]
SoloGates == {}

-----------------------------------------------------------------------------
(* Budgets: which requests the users of an instance may send, and how often *)

\* The agents that publish partial work (app/modules/pipeline/agents).
SomeStreaming == Stages \cap ImageStages
TwoStreaming == {"brand_identity", "creative_asset"}

Some(f) == [op \in Ops |-> IF op \in DOMAIN f THEN f[op] ELSE 0]

Began == [onboard |-> 1, create |-> 1]

SoloBudget ==
  Some(Began @@ [pause |-> 1, resume |-> 1, cancel |-> 1, retry |-> 1, reject |-> 1])
RunsBudget == Some([onboard |-> 1, create |-> 2, approve |-> 1, die |-> 1, worker |-> 1])
GraphBudget ==
  Some(Began @@ [approve |-> 3, pause |-> 1, resume |-> 1, retry |-> 1, edit |-> 1, die |-> 1])

TaskSymmetry == Permutations(Tasks)
=============================================================================
