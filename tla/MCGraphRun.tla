--------------------------- MODULE MCGraphRun ---------------------------
(* Instances of GraphRun for TLC.                                       *)
EXTENDS GraphRun, TLC

CONSTANTS a, b, c, d

\* c waits for a and b; d waits for c.
GraphNodes == {a, b, c, d}
GraphEdges == {<<a, c>>, <<b, c>>, <<c, d>>}
GraphTerminals == {d}

\* a and b have the same place in the graph.
Symmetry == Permutations({a, b})
=========================================================================
