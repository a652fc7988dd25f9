---------------------------- MODULE MCPipelinePool ----------------------------
(* Small instances of PipelinePool for TLC. *)
EXTENDS PipelinePool, TLC

CONSTANTS A, B

ServesAll == [l \in Launchers |-> Models]
CatalogOrder == [m \in Models |-> IF m = A THEN 1 ELSE 2]
TwoNodes == [m \in Models |-> 2]
OnePipeline == [m \in Models |-> 1]
TwoOfA == [m \in Models |-> IF m = A THEN 2 ELSE 1]

Symmetry ==
  Permutations(PipelineIds) \cup Permutations(Launchers) \cup Permutations(Nodes)
=============================================================================
