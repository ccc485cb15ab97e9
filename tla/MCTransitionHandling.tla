------------------------ MODULE MCTransitionHandling ------------------------
(* Instances of TransitionHandling for TLC. *)
EXTENDS TransitionHandling, TLC

(* Requests and tokens are interchangeable in the safety properties. *)
Symmetry == Permutations(Req) \cup Permutations(Tokens)
=============================================================================
