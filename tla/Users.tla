------------------------------- MODULE Users --------------------------------
(***************************************************************************)
(* The metadata of one user and its versions: get, set and delete of the   *)
(* Identity of the dict, redis and maildir backends, as the handlers of    *)
(* admin/handlers/user.py call them.  An entity tag names a version; set   *)
(* may name the version it is to replace.  The dict backend sets in one    *)
(* step; redis reads under WATCH and writes in a transaction; maildir has  *)
(* no tags, and replaces what is in its files, which are locked throughout.*)
(***************************************************************************)
EXTENDS Naturals

CONSTANTS
    Admin,     \* requests that may be in progress at once
    MaxTag     \* bound: the versions ever made

VARIABLES
    users,     \* "dict", "redis" or "maildir", which does not change
    version,   \* the tag of the stored version, 0 if there is no user
    tag,       \* the tags given so far; new_entity_tag does not repeat one
    pending,   \* redis: the SetUser requests between WATCH and EXEC
    replaced   \* history: the version last replaced, and the one that was named

userVars == <<users, version, tag, pending, replaced>>

\* previous_entity_tag: a tag, None for a user that is new, or REPLACE_ANY.
ReplaceAny == MaxTag + 1
Named == 0..MaxTag \cup {ReplaceAny}

UsersInit ==
    /\ users \in {"dict", "redis", "maildir"}
    /\ version = 0 /\ tag = 0 /\ pending = [a \in Admin |-> {}]
    /\ replaced = <<0, 0>>

-----------------------------------------------------------------------------
\* can_replace of the version v, or of no user.
CanReplace(named, v) == named = ReplaceAny \/ named = v

\* Every WATCH of the key is broken by a write.
Broken == [a \in Admin |-> {[p EXCEPT !.broken = TRUE] : p \in pending[a]}]

Store(named) ==
    /\ tag < MaxTag /\ tag' = tag + 1
    /\ version' = tag' /\ replaced' = <<version, named>>

\* set of the dict backend.
Set(named) ==
    /\ users = "dict" /\ CanReplace(named, version) /\ Store(named)
    /\ UNCHANGED <<users, pending>>

\* set of the maildir backend, which has no tags to compare.
Overwrite ==
    /\ users = "maildir" /\ Store(ReplaceAny)
    /\ UNCHANGED <<users, pending>>

\* set of the redis backend: a user that is there is compared, one that is not
\* may be made by any set.
Watch(a, named) ==
    /\ users = "redis" /\ pending[a] = {}
    /\ version # 0 => CanReplace(named, version)
    /\ pending' = [pending EXCEPT ![a] = {[named |-> named, broken |-> FALSE]}]
    /\ UNCHANGED <<users, version, tag, replaced>>

\* A mistake: nothing is watched.
ExecuteUnwatched(a) ==
    /\ \E p \in pending[a] : Store(p.named) /\ pending' = [Broken EXCEPT ![a] = {}]
    /\ UNCHANGED users

\* EXEC writes, unless the key was written since WATCH: CannotReplaceUser.
Execute(a) ==
    /\ \E p \in pending[a] :
         IF p.broken
         THEN pending' = [pending EXCEPT ![a] = {}] /\ UNCHANGED <<version, tag, replaced>>
         ELSE Store(p.named) /\ pending' = [Broken EXCEPT ![a] = {}]
    /\ UNCHANGED users

\* delete; the connection of a request is lost before its EXEC.
DeleteUser ==
    /\ version # 0 /\ version' = 0
    /\ pending' = Broken
    /\ UNCHANGED <<users, tag, replaced>>

Lose(a) ==
    /\ pending[a] # {} /\ pending' = [pending EXCEPT ![a] = {}]
    /\ UNCHANGED <<users, version, tag, replaced>>

UsersNext ==
    \/ \E named \in Named : Set(named) \/ \E a \in Admin : Watch(a, named)
    \/ \E a \in Admin : Execute(a) \/ Lose(a)
    \/ Overwrite \/ DeleteUser

UsersSpec == UsersInit /\ [][UsersNext]_userVars

-----------------------------------------------------------------------------
(* A set that names a version replaces just that one: of two requests that *)
(* read the same version, the second does not undo the first.              *)
NoLostUpdate == replaced[1] # 0 => CanReplace(replaced[2], replaced[1])

(* Why, for the proof: a request whose key has not been written since its  *)
(* WATCH may still replace the version that is there.                      *)
WatchInv ==
    /\ users # "redis" => \A a \in Admin : pending[a] = {}
    /\ pending \in [Admin -> SUBSET [named : Named, broken : BOOLEAN]]
    /\ NoLostUpdate
    /\ \A a \in Admin : \A p \in pending[a] :
           ~p.broken /\ version # 0 => CanReplace(p.named, version)

=============================================================================
