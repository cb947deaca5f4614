----------------------------- MODULE ManageSieve -----------------------------
(***************************************************************************)
(* One ManageSieve connection: ManageSieveConnection of pymap/sieve/manage *)
(* /__init__.py, which answers every command, failed ones too, and keeps   *)
(* on.  What the commands do to the scripts is in Filters.                 *)
(***************************************************************************)
CONSTANTS
    Owner,     \* the users who have scripts
    NoOwner    \* of a connection without a session

ASSUME ManageSieveAssumption == NoOwner \notin Owner

VARIABLES
    task,      \* what the connection waits for
    command,   \* the command it runs
    owner,     \* the user of _state
    offered,   \* _offer_starttls
    entered,   \* the users whose sessions are open till the connection ends
    who        \* history: the user the client believes it works for

sieveVars == <<task, command, owner, offered, entered, who>>

SieveCommand ==
    {"NOOP", "CAPABILITY", "LOGOUT", "AUTHENTICATE", "STARTTLS", "UNAUTHENTICATE", "SCRIPT", "INVALID"}

SieveInit ==
    /\ task = "greeting" /\ command = NoOwner /\ offered \in BOOLEAN
    /\ owner = NoOwner /\ entered = {} /\ who = NoOwner

-----------------------------------------------------------------------------
Answer(believes) == task' = "ready" /\ who' = believes

\* _do_greeting: rejected, or failing at login; with the capabilities, which
\* name the owner if there is one; with NO if the session has no scripts.
Greeting ==
    /\ task = "greeting"
    /\ \/ task' = "closed" /\ UNCHANGED <<owner, entered, who>>
       \/ Answer(NoOwner) /\ UNCHANGED <<owner, entered>>
       \/ \E u \in Owner : entered' = {u} /\ owner' \in {u, NoOwner} /\ Answer(owner')
    /\ UNCHANGED <<command, offered>>

ReadCommand ==
    /\ task = "ready"
    /\ command' \in SieveCommand /\ task' = "running"
    /\ UNCHANGED <<owner, offered, entered, who>>

Hangup ==
    /\ task = "ready" /\ task' = "closed"
    /\ UNCHANGED <<command, owner, offered, entered, who>>

Running(commands) == task = "running" /\ command \in commands

\* What changes nothing: NOOP, CAPABILITY, a line that is not a command, a
\* command that needs a session or must have none, one on the scripts, and any
\* command that raises.
Plain ==
    /\ task = "running"
    /\ \/ command \notin {"LOGOUT", "AUTHENTICATE", "STARTTLS", "UNAUTHENTICATE"}
       \/ command = "UNAUTHENTICATE" /\ owner = NoOwner
       \/ command \in {"AUTHENTICATE", "STARTTLS"} /\ owner # NoOwner
    /\ Answer(who)
    /\ UNCHANGED <<command, owner, offered, entered>>

SieveLogout ==
    /\ Running({"LOGOUT"}) /\ task' = "closed"
    /\ UNCHANGED <<command, owner, offered, entered, who>>

\* A mistake: the state is made before it is known whether the session serves
\* scripts at all.
DoAuthenticateEarly ==
    /\ Running({"AUTHENTICATE"}) /\ owner = NoOwner
    /\ \/ Answer(who) /\ UNCHANGED <<owner, entered>>
       \/ \E u \in Owner : entered' = entered \cup {u} /\ owner' = u /\ Answer(who)
       \/ \E u \in Owner : entered' = entered \cup {u} /\ owner' = u /\ Answer(u)
    /\ UNCHANGED <<command, offered>>

\* _do_authenticate: no such mechanism, given up, or rejected; a session of a
\* backend without scripts, which is open but not used; or accepted.
DoAuthenticate ==
    /\ Running({"AUTHENTICATE"}) /\ owner = NoOwner
    /\ \/ Answer(who) /\ UNCHANGED <<owner, entered>>
       \/ \E u \in Owner : entered' = entered \cup {u} /\ Answer(who) /\ UNCHANGED owner
       \/ \E u \in Owner : entered' = entered \cup {u} /\ owner' = u /\ Answer(u)
    /\ UNCHANGED <<command, offered>>

\* _do_starttls: OK, the handshake, then the capabilities; a handshake that
\* fails is answered NO after the OK.
DoStartTLS ==
    /\ Running({"STARTTLS"}) /\ owner = NoOwner
    /\ Answer(who)
    /\ offered' \in IF offered THEN BOOLEAN ELSE {FALSE}
    /\ UNCHANGED <<command, owner, entered>>

\* _do_unauthenticate; the session stays open.
DoUnauthenticate ==
    /\ Running({"UNAUTHENTICATE"}) /\ owner # NoOwner
    /\ owner' = NoOwner /\ Answer(NoOwner)
    /\ UNCHANGED <<command, offered, entered>>

SieveNext ==
    \/ Greeting \/ ReadCommand \/ Hangup \/ Plain \/ SieveLogout
    \/ DoAuthenticate \/ DoStartTLS \/ DoUnauthenticate

SieveSpec == SieveInit /\ [][SieveNext]_sieveVars

-----------------------------------------------------------------------------
\* Between commands, the scripts that the next one changes are those of the
\* user the responses have told, whose session is still open.
OwnerAsTold == task = "ready" => owner = who /\ (owner # NoOwner => owner \in entered)

=============================================================================
