-------------------------- MODULE MCReadWriteLock --------------------------
(***************************************************************************)
(* Four tasks: a writer and three readers, of which one can be waiting, one*)
(* be in and one be leaving, in any exchange of the roles.                 *)
(***************************************************************************)
EXTENDS ReadWriteLock, TLC

CONSTANTS t1, t2, t3, t4

MCTask == {t1, t2, t3, t4}

=============================================================================
