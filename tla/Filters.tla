------------------------------- MODULE Filters -------------------------------
(***************************************************************************)
(* The named Sieve scripts of a user and the active one of them, in the    *)
(* dict backend (backend/dict/filter.py) and in the redis backend          *)
(* (backend/redis/filter.py and its scripts), as ManageSieve connections   *)
(* change them (sieve/manage/state.py) and message delivery reads them.    *)
(*                                                                         *)
(* dict: a dictionary of scripts and the name of the active one.  redis: a *)
(* hash from names to keys, in which the empty name is the active script,  *)
(* and a hash from keys to scripts; a pipeline or a script is one step.    *)
(***************************************************************************)
EXTENDS Naturals, Functions

CONSTANTS
    ScriptName,   \* the names of scripts
    MaxKey        \* bound: the scripts ever stored

VARIABLES
    store,        \* "dict" or "redis", which does not change
    names,        \* the key of each name that is there
    active,       \* dict: the active name; redis: the active key
    scripts,      \* the keys whose script is stored; the dict backend has no keys,
                  \* each script that is put counts as a new one
    puts,         \* the scripts stored so far
    outdated      \* history: a name was given a new script while it was active

scriptVars == <<store, names, active, scripts, puts, outdated>>

ScriptsInit ==
    /\ store \in {"dict", "redis"}
    /\ names = << >> /\ active = {} /\ scripts = {} /\ puts = 0
    /\ outdated = FALSE

-----------------------------------------------------------------------------
IsActive(n) ==
    IF store = "dict" THEN n \in active ELSE n \in DOMAIN names /\ names[n] \in active

\* put: PUTSCRIPT.  A redis key that is outdated keeps its script.
Put(n) ==
    /\ puts < MaxKey /\ puts' = puts + 1
    /\ names' = [m \in DOMAIN names \cup {n} |-> IF m = n THEN puts' ELSE names[m]]
    /\ scripts' = IF store = "dict" THEN Range(names') ELSE scripts \cup {puts'}
    /\ outdated' = (outdated \/ IsActive(n))
    /\ UNCHANGED <<store, active>>

\* delete: DELETESCRIPT, NONEXISTENT without the name and ACTIVE if it is that.
DeleteScript(n) ==
    /\ n \in DOMAIN names /\ ~IsActive(n)
    /\ names' = [m \in DOMAIN names \ {n} |-> names[m]]
    /\ scripts' = scripts \ {names[n]}
    /\ UNCHANGED <<store, active, puts, outdated>>

\* A mistake: the active name is left behind.
RenameOnly(before, after) ==
    /\ before \in DOMAIN names /\ after \notin DOMAIN names
    /\ names' = [n \in (DOMAIN names \ {before}) \cup {after} |->
                  IF n = after THEN names[before] ELSE names[n]]
    /\ UNCHANGED <<store, active, scripts, puts, outdated>>

\* A mistake: a script of the new name is replaced.
RenameOver(before, after) ==
    /\ before \in DOMAIN names /\ before # after
    /\ names' = [n \in (DOMAIN names \ {before}) \cup {after} |->
                  IF n = after THEN names[before] ELSE names[n]]
    /\ active' = IF store = "dict" /\ before \in active THEN {after} ELSE active
    /\ UNCHANGED <<store, scripts, puts, outdated>>

\* rename: RENAMESCRIPT, NONEXISTENT or ALREADYEXISTS.  The dict backend renames
\* the active script too; for redis, the key stays the same.
Rename(before, after) ==
    /\ before \in DOMAIN names /\ after \notin DOMAIN names
    /\ names' = [n \in (DOMAIN names \ {before}) \cup {after} |->
                  IF n = after THEN names[before] ELSE names[n]]
    /\ active' = IF store = "dict" /\ before \in active THEN {after} ELSE active
    /\ UNCHANGED <<store, scripts, puts, outdated>>

\* set_active and clear_active: SETACTIVE with a name or without.
SetActive(n) ==
    /\ n \in DOMAIN names
    /\ active' = {IF store = "dict" THEN n ELSE names[n]}
    /\ outdated' = FALSE
    /\ UNCHANGED <<store, names, scripts, puts>>

ClearActive ==
    /\ active' = {} /\ outdated' = FALSE
    /\ UNCHANGED <<store, names, scripts, puts>>

ScriptsNext ==
    \/ \E n \in ScriptName : Put(n) \/ DeleteScript(n) \/ SetActive(n)
    \/ \E before, after \in ScriptName : Rename(before, after)
    \/ ClearActive

ScriptsSpec == ScriptsInit /\ [][ScriptsNext]_scriptVars

-----------------------------------------------------------------------------
\* get_active, which delivery runs: no script, or a key; and the active name of
\* get_all, which LISTSCRIPTS shows.
GetActive == IF store = "dict" THEN {names[n] : n \in active \cap DOMAIN names} ELSE active \cap scripts
ActiveName == {n \in DOMAIN names : IsActive(n)}

(* However scripts are put, renamed, deleted and made active, the active   *)
(* script can be read when a message is delivered: nothing takes it away.  *)
ActiveReadable == active # {} => GetActive # {}

(* The script that is run is the one LISTSCRIPTS shows as the active one,  *)
(* and GETSCRIPT of that name gets: except in the redis backend, after     *)
(* PUTSCRIPT has outdated it and before the next SETACTIVE.                *)
ActiveShown ==
    (store = "redis" /\ outdated) \/ GetActive = {names[n] : n \in ActiveName}

(* What the two rest on, for the proofs: no two names share a key, and the *)
(* scripts of names and the active one are kept.                           *)
ScriptsInv ==
    /\ store \in {"dict", "redis"} /\ puts \in Nat /\ outdated \in BOOLEAN
    /\ \A n \in DOMAIN names : names[n] \in 1..puts /\ names[n] \in scripts
    /\ \A m, n \in DOMAIN names : names[m] = names[n] => m = n
    /\ store = "dict" => active \subseteq DOMAIN names
    /\ store = "redis" => /\ active \subseteq scripts
                          /\ outdated \/ \A k \in active : \E n \in DOMAIN names : names[n] = k

=============================================================================
