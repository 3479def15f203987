-------------------------- MODULE MCSessionRouter -------------------------
(* Sessions, workflows and handlers are interchangeable.                     *)
EXTENDS SessionRouter, TLC

Interchangeable ==
  Permutations(Sessions) \cup Permutations(Workflows) \cup Permutations(Handlers)
===========================================================================
