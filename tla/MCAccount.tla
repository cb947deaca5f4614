----------------------------- MODULE MCAccount ------------------------------
(***************************************************************************)
(* What the connections of one user share besides messages: the mailboxes  *)
(* by name, the Sieve scripts, the user itself, and the lock file by which *)
(* processes exclude each other.  They have no state in common, so a       *)
(* behaviour changes only one of them, and the backend of the others does  *)
(* not matter.  One session renames mailboxes at a time, the others create *)
(* and delete them meanwhile.                                              *)
(***************************************************************************)
EXTENDS FileLock, Names, Filters, Users

VARIABLE part      \* which of them changes in this behaviour

MCName == {<<"INBOX">>, <<"a">>, <<"b">>, <<"a", "b">>, <<"b", "b">>}

MCInit ==
    /\ Init /\ NamesInit /\ ScriptsInit /\ UsersInit
    /\ part \in {"mailboxes", "scripts", "users", "lock"}
    /\ part # "mailboxes" => backend = "dict"
    /\ part # "scripts" => store = "dict"
    /\ part # "users" => users = "dict"

MCNext ==
    /\ UNCHANGED part
    /\ \/ part = "lock" /\ Next /\ UNCHANGED <<nameVars, scriptVars, userVars>>
       \/ part = "mailboxes" /\ NamesNext /\ UNCHANGED <<vars, scriptVars, userVars>>
       \/ part = "scripts" /\ ScriptsNext /\ UNCHANGED <<vars, nameVars, userVars>>
       \/ part = "users" /\ UsersNext /\ UNCHANGED <<vars, nameVars, scriptVars>>

MCSpec == MCInit /\ [][MCNext]_<<part, vars, nameVars, scriptVars, userVars>>

=============================================================================
