----------------------------- MODULE MCPipeline -----------------------------
(* Instances of Pipeline for TLC.  Two bodies of one structure, a loop that *)
(* changes a number: one calls two tools, the other is over the burst cap.  *)
EXTENDS Pipeline, TLC

LoopBody(f, n, calls, size) ==
  [fp     |-> f,
   tokens |-> <<[kind |-> "static", value |-> "attempt"], [kind |-> "number", value |-> n]>>,
   tools  |-> [parses |-> TRUE, calls |-> calls, functions |-> <<>>, tools |-> <<>>],
   len    |-> size]

CONSTANTS f1, f2

MCBodies == {LoopBody(f1, "1", <<"A", "B">>, 1), LoopBody(f2, "2", <<>>, 12)}

Symmetry == Permutations(Requests)
=============================================================================
