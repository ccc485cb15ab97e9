----------------------------- MODULE MCWebSockets -----------------------------
(* Instances of WebSockets for TLC; sockets are interchangeable. *)
EXTENDS WebSockets, TLC

Symmetry == Permutations(Sockets)
=============================================================================
