-------------------------- MODULE MCGenerationGate --------------------------
(* Instances of GenerationGate with a few threads. *)
EXTENDS GenerationGate, TLC

(* Threads are interchangeable. *)
Symmetry == Permutations(Threads)
=============================================================================
