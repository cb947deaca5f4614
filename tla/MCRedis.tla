------------------------------- MODULE MCRedis -------------------------------
(* Instances of Redis: sessions and contents are interchangeable. *)
EXTENDS Redis, TLC

Symmetric == Permutations(Session) \cup Permutations(Email)

=============================================================================
