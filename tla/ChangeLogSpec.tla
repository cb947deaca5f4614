--------------------------- MODULE ChangeLogSpec ---------------------------
(***************************************************************************)
(* The change log on its own, as an abstract specification: its only step  *)
(* records a change of one kind to a set of UIDs.                          *)
(***************************************************************************)
EXTENDS ChangeLog

VARIABLE log

Init == log = EmptyLog

Next == /\ log.highest < MaxModSeq
        /\ \E S \in SUBSET Uid, kind \in {"update", "expunge"} :
               log' = Record(log, S, kind)

Spec == Init /\ [][Next]_log

=============================================================================
