------------------------------ MODULE MCMaildir ------------------------------
(* Instances of Maildir: sessions and files are interchangeable. *)
EXTENDS Maildir, TLC

Symmetric == Permutations(Session) \cup Permutations(Key)

=============================================================================
