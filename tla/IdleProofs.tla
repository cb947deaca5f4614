----------------------------- MODULE IdleProofs ------------------------------
(***************************************************************************)
(* Proofs about Idle, for any number of changes.                           *)
(***************************************************************************)
EXTENDS Idle, TLAPS

\* Every step of the session, its client and the others keeps the invariant.
LEMMA IdleStep == IdleInv /\ [Next]_vars => IdleInv'
<1> SUFFICES ASSUME IdleInv, [Next]_vars PROVE IdleInv'
  OBVIOUS
<1>1. CASE UNCHANGED vars
  BY <1>1 DEF vars, IdleInv
<1>2. CASE Command \/ StartIdle \/ Answer
  BY <1>2 DEF Command, StartIdle, Answer, IdleInv
<1>3. CASE Round
  BY <1>3 DEF Round, IdleInv
<1>4. CASE Wake \/ Written
  BY <1>4 DEF Wake, Written, IdleInv
<1>5. CASE Done \/ Change \/ Delete
  BY <1>5 DEF Done, Change, Delete, IdleInv
<1> QED  BY <1>1, <1>2, <1>3, <1>4, <1>5 DEF Next

\* However a session leaves IDLE, its client has been told of all that the
\* session has taken notice of.
THEOREM NoticedIsTold == Spec => []SeenIsTold
<1>1. Init => IdleInv
  BY DEF Init, IdleInv
<1>2. IdleInv => SeenIsTold
  BY DEF IdleInv, SeenIsTold
<1> QED  BY <1>1, <1>2, IdleStep, PTL DEF Spec

=============================================================================
