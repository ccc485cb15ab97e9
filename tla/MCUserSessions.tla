---------------------------- MODULE MCUserSessions ----------------------------
(* Instances of UserSessions for TLC; requests are interchangeable, and users. *)
EXTENDS UserSessions, TLC

Symmetry == Permutations(Req) \cup Permutations(Users)
=============================================================================
