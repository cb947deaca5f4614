----------------------------- MODULE Connection -----------------------------
(***************************************************************************)
(* One IMAP connection: IMAPConnection._run_state, which reads commands,   *)
(* runs them and writes what they answer or raise, and the part of         *)
(* ConnectionState that decides which commands may run: the session, the   *)
(* selected mailbox, STARTTLS, and the limit of bad commands.  The client  *)
(* may leave at any moment, other connections create and delete mailboxes, *)
(* the backend may time out or fail, and the server may be shut down.      *)
(*                                                                         *)
(* "told" and "errors" are what the client makes of the responses alone.   *)
(***************************************************************************)
EXTENDS Naturals, FiniteSets

CONSTANTS
    User, Mailbox,
    Limit,      \* config.bad_command_limit; 0 is none
    None

ASSUME ConnectionAssumption ==
    /\ Limit \in Nat
    /\ None \notin User /\ None \notin [user : User, mailbox : Mailbox, readonly : BOOLEAN]

VARIABLES
    phase,      \* what the task of the connection waits for
    cmd,        \* the command it runs: its kind, and the mailbox of SELECT
    session,    \* the user of _session
    selected,   \* _selected: whose mailbox, its name (lookup), read-only
    starttls,   \* whether STARTTLS is in _capability
    secure,     \* whether self.auth is tls_auth, which has PLAIN
    bad,        \* bad_commands
    exists,     \* external: the mailboxes that there are
    answers,    \* history: tagged responses to cmd
    told,       \* history: the mailbox that the client believes selected
    errors,     \* history: BAD responses since the last OK, up to Limit
    ended       \* history: how the connection ended

vars == <<phase, cmd, session, selected, starttls, secure, bad, exists, answers, told, errors, ended>>
state == <<session, selected, starttls, secure>>

\* The classes of parsing/command: CommandNonAuth, CommandSelect, CommandAuth
\* and CommandAny.  LIST stands for the commands that answer updates of the
\* selected mailbox if there is one, STORE for those that need it read-write.
NonAuth == {"LOGIN", "AUTHENTICATE", "STARTTLS"}
Selecting == {"CLOSE", "STORE", "FETCH", "IDLE"}
Opening == {"SELECT", "EXAMINE"}
Auth == {"LIST"} \cup Opening \cup Selecting
Command ==
    [kind : (NonAuth \cup Auth \cup {"NOOP", "LOGOUT", "INVALID"}) \ Opening]
        \cup [kind : Opening, mailbox : Mailbox]

Init ==
    /\ phase = "greeting" /\ cmd = None
    /\ session = None /\ selected = None /\ starttls \in BOOLEAN /\ secure = FALSE
    /\ bad = 0 /\ exists = User \X Mailbox
    /\ answers = 0 /\ told = None /\ errors = 0 /\ ended = "no"

-----------------------------------------------------------------------------
\* The loop is left; why the client was told BYE, or was not.
End(how) ==
    /\ phase' = "closed" /\ ended' = how
    /\ UNCHANGED <<bad, answers, told, errors>>

\* What the client makes of the answer to cmd.
Heard(condition) ==
    /\ answers' = answers + 1
    /\ errors' = CASE condition = "OK" -> 0
                   [] condition = "BAD" /\ errors < Limit -> errors + 1
                   [] OTHER -> errors
    /\ told' = IF cmd.kind \in Opening /\ condition # "BAD"
               THEN IF condition = "OK" THEN <<cmd.mailbox, cmd.kind = "EXAMINE">> ELSE None
               ELSE IF cmd.kind = "CLOSE" /\ condition = "OK" THEN None
               ELSE told

\* A mistake: the commands before this one are counted, not this one.
ReturnedLate(condition, bye) ==
    /\ Heard(condition)
    /\ bad' = IF condition # "BAD" THEN 0 ELSE IF bad < Limit THEN bad + 1 ELSE bad
    /\ IF bye \/ (Limit > 0 /\ bad >= Limit)
       THEN phase' = "closed" /\ ended' = IF bye THEN "bye" ELSE "errors"
       ELSE phase' = (IF cmd.kind = "STARTTLS" /\ condition = "OK" THEN "handshake" ELSE "ready")
            /\ UNCHANGED ended

\* A response that was returned is written, and counted.  The BYE of too many
\* errors is added to it only then, and is not written.
Returned(condition, bye) ==
    LET count == IF condition = "BAD" /\ Limit > 0 THEN bad + 1 ELSE 0 IN
    /\ Heard(condition)
    /\ bad' = count
    /\ IF bye \/ (Limit > 0 /\ count >= Limit)
       THEN phase' = "closed" /\ ended' = IF bye THEN "bye" ELSE "errors"
       ELSE phase' = (IF cmd.kind = "STARTTLS" /\ condition = "OK" THEN "handshake" ELSE "ready")
            /\ UNCHANGED ended

\* A mistake: nothing is written.
RaisedQuietly(condition) ==
    /\ phase' = "ready"
    /\ UNCHANGED <<bad, ended, answers, told, errors>>

\* One that was raised is written, and not counted.
Raised(condition) ==
    /\ Heard(condition)
    /\ phase' = "ready"
    /\ UNCHANGED <<bad, ended>>

-----------------------------------------------------------------------------
\* do_greeting: rejected, with a session of preauth_credentials, from
\* localhost, or as usual; a login that fails otherwise ends it without a word.
Greet ==
    /\ phase = "greeting"
    /\ \/ \E how \in {"bye", "quietly"} : End(how) /\ UNCHANGED state
       \/ /\ phase' = "ready"
          /\ \/ \E u \in User : session' = u /\ UNCHANGED secure
             \/ secure' \in BOOLEAN /\ UNCHANGED session
          /\ UNCHANGED <<selected, starttls, bad, answers, told, errors, ended>>
    /\ UNCHANGED <<cmd, exists>>

\* read_command: a whole command, or one that needs a continuation first.
Read ==
    /\ phase = "ready"
    /\ cmd' \in Command
    /\ answers' = 0
    /\ phase' \in {"literal", "running"}
    /\ UNCHANGED <<state, bad, exists, told, errors, ended>>

\* _interrupt: it is parsed again with what has been read.
Continue ==
    /\ phase = "literal"
    /\ phase' = "running"
    /\ UNCHANGED <<cmd, state, bad, exists, answers, told, errors, ended>>

\* The client is gone while its command is read.
Leave ==
    /\ phase \in {"ready", "literal"}
    /\ End("left")
    /\ UNCHANGED <<cmd, state, exists>>

\* The task is cancelled, or the client is gone while its command runs.
Cancel ==
    /\ phase \in {"ready", "literal", "running", "sasl", "idling", "updating"}
    /\ End("bye")
    /\ UNCHANGED <<cmd, state, exists>>

-----------------------------------------------------------------------------
\* The checks of do_command; AUTHENTICATE does not go through it.
Allowed(c) ==
    /\ c.kind # "INVALID"
    /\ c.kind \in NonAuth \ {"AUTHENTICATE"} => session = None
    /\ c.kind \in Auth => session # None
    /\ c.kind \in Selecting => selected # None

Refuse ==
    /\ phase = "running" /\ ~Allowed(cmd)
    /\ Returned("BAD", FALSE)
    /\ UNCHANGED <<state, cmd, exists>>

Runs(kinds) == phase = "running" /\ cmd.kind \in kinds /\ Allowed(cmd)

\* The selected mailbox is looked up by its name among those of the session.
Found == <<session, selected.mailbox>> \in exists

\* do_noop; check_mailbox raises if the mailbox is gone.
Noop ==
    /\ Runs({"NOOP"})
    /\ IF selected # None /\ session # None /\ ~Found THEN Raised("NO") ELSE Returned("OK", FALSE)
    /\ UNCHANGED <<state, cmd, exists>>

\* CloseConnection: OK with BYE.
Logout ==
    /\ Runs({"LOGOUT"})
    /\ Heard("OK") /\ phase' = "closed" /\ ended' = "bye"
    /\ UNCHANGED <<bad, state, cmd, exists>>

\* do_login, _login, do_authenticate.
Login ==
    /\ Runs({"LOGIN"})
    /\ \/ Raised("NO") /\ UNCHANGED session      \* LOGINDISABLED, or InvalidAuth
       \/ secure /\ session' \in User /\ Returned("OK", FALSE)
    /\ UNCHANGED <<selected, starttls, secure, cmd, exists>>

\* authenticate() begins: a mechanism that there is not, or a challenge.
Authenticate ==
    /\ Runs({"AUTHENTICATE"})
    /\ IF secure
       THEN phase' = "sasl" /\ UNCHANGED <<bad, answers, told, errors, ended>>
       ELSE Returned("NO", FALSE)
    /\ UNCHANGED <<state, cmd, exists>>

\* The client's answer: given up, rejected, or accepted.
Respond ==
    /\ phase = "sasl"
    /\ \/ \E condition \in {"BAD", "NO"} : Raised(condition) /\ UNCHANGED session
       \/ session' \in User /\ Returned("OK", FALSE)
    /\ UNCHANGED <<selected, starttls, secure, cmd, exists>>

\* do_starttls, and the handshake after the response.
StartTLS ==
    /\ Runs({"STARTTLS"})
    /\ IF starttls
       THEN starttls' = FALSE /\ secure' = TRUE /\ Returned("OK", FALSE)
       ELSE Raised("NO") /\ UNCHANGED <<starttls, secure>>
    /\ UNCHANGED <<session, selected, cmd, exists>>

Handshake ==
    /\ phase = "handshake"
    /\ \/ phase' = "ready" /\ UNCHANGED <<bad, answers, told, errors, ended>>
       \/ End("quietly")
    /\ UNCHANGED <<state, cmd, exists>>

\* _load_updates and fork(): a mailbox that is gone is told with BYE.
List ==
    /\ Runs({"LIST"})
    /\ Returned("OK", selected # None /\ ~Found)
    /\ UNCHANGED <<state, cmd, exists>>

\* A mistake: the old mailbox stays if there is no new one.
SelectOver ==
    /\ Runs(Opening)
    /\ IF <<session, cmd.mailbox>> \in exists
       THEN /\ selected' = [user |-> session, mailbox |-> cmd.mailbox,
                            readonly |-> cmd.kind = "EXAMINE"]
            /\ Returned("OK", FALSE)
       ELSE UNCHANGED selected /\ Raised("NO")
    /\ UNCHANGED <<session, starttls, secure, cmd, exists>>

\* do_select: what was selected is given up whatever comes of it.
Select ==
    /\ Runs(Opening)
    /\ IF <<session, cmd.mailbox>> \in exists
       THEN /\ selected' = [user |-> session, mailbox |-> cmd.mailbox,
                            readonly |-> cmd.kind = "EXAMINE"]
            /\ Returned("OK", FALSE)
       ELSE selected' = None /\ Raised("NO")
    /\ UNCHANGED <<session, starttls, secure, cmd, exists>>

\* do_close: a mailbox that is read-only or gone stays selected.
Close ==
    /\ Runs({"CLOSE"})
    /\ IF selected.readonly \/ ~Found
       THEN Raised("NO") /\ UNCHANGED selected
       ELSE Returned("OK", FALSE) /\ selected' = None
    /\ UNCHANGED <<session, starttls, secure, cmd, exists>>

\* do_store, do_fetch and the others on the selected mailbox.
Use ==
    /\ Runs({"STORE", "FETCH"})
    /\ IF ~Found \/ (cmd.kind = "STORE" /\ selected.readonly)
       THEN Raised("NO") ELSE Returned("OK", FALSE)
    /\ UNCHANGED <<state, cmd, exists>>

\* idle(): while it waits for DONE, the other task may find the mailbox gone.
StartIdle ==
    /\ Runs({"IDLE"})
    /\ \/ phase' = "idling" /\ UNCHANGED <<bad, answers, told, errors, ended>>
       \/ Raised("NO")                           \* IDLE is disabled
    /\ UNCHANGED <<state, cmd, exists>>

Updates ==
    /\ phase = "idling" /\ ~Found
    /\ phase' = "updating"
    /\ UNCHANGED <<cmd, state, bad, exists, answers, told, errors, ended>>

Done ==
    /\ phase \in {"idling", "updating"}
    /\ IF phase = "updating" THEN Raised("NO")
       ELSE \E condition \in {"OK", "BAD"} : Returned(condition, FALSE)
    /\ UNCHANGED <<state, cmd, exists>>

\* A command of the backend waits too long, which may be while it logs in.
\* do_select has given up the selected mailbox by then.
TimeOut ==
    /\ phase = "running" /\ Allowed(cmd) /\ cmd.kind \notin {"LOGOUT", "STARTTLS", "AUTHENTICATE"}
    /\ Raised("NO")
    /\ selected' = IF cmd.kind \in Opening THEN None ELSE selected
    /\ UNCHANGED <<session, starttls, secure, cmd, exists>>

\* Other connections.
Others ==
    /\ phase # "closed"
    /\ \E m \in User \X Mailbox : exists' = IF m \in exists THEN exists \ {m} ELSE exists \cup {m}
    /\ UNCHANGED <<phase, cmd, state, bad, answers, told, errors, ended>>

Next ==
    \/ Greet \/ Read \/ Continue \/ Leave \/ Cancel
    \/ Refuse \/ Noop \/ Logout \/ Login \/ Authenticate \/ Respond \/ StartTLS \/ Handshake
    \/ List \/ Select \/ Close \/ Use \/ StartIdle \/ Updates \/ Done \/ TimeOut
    \/ Others

Spec == Init /\ [][Next]_vars

-----------------------------------------------------------------------------
\* A command gets one tagged response before the next one is read; one that
\* gets none ends the connection, with BYE unless the client has left.
AnsweredOnce ==
    /\ answers <= 1
    /\ phase = "ready" /\ cmd # None => answers = 1
    /\ phase = "closed" /\ cmd # None /\ answers = 0 => ended \in {"bye", "left"}

\* A selected mailbox as the client can know it.
Shown(sel) == IF sel = None THEN None ELSE <<sel.mailbox, sel.readonly>>

\* Between commands the server's selected mailbox is the one the client was
\* told of, whatever failed, timed out or was refused on the way.  (It need not
\* be the session's own: AUTHENTICATE is not refused and may begin another.)
SelectedAsTold == phase = "ready" => told = Shown(selected)

\* The connection ends with the command that makes Limit bad ones in a row, and
\* never over errors that the client can count fewer of since the last OK.
BudgetKept ==
    Limit > 0 => /\ phase = "ready" => bad < Limit /\ bad <= errors
                 /\ ended = "errors" => errors = Limit

\* What they rest on, for the proofs: which command each phase belongs to, and
\* that every answer tells of what happens to the selected mailbox.
Busy == {"literal", "running", "sasl", "idling", "updating"}

AnswerInv ==
    /\ phase \in {"greeting", "ready", "handshake", "closed"} \cup Busy
    /\ phase \in Busy => cmd \in Command /\ answers = 0
    /\ phase = "greeting" => cmd = None
    /\ phase = "sasl" => cmd.kind = "AUTHENTICATE"
    /\ phase \in {"idling", "updating"} => cmd.kind = "IDLE"
    /\ phase = "handshake" => answers = 1
    /\ answers \in {0, 1} /\ AnsweredOnce

BudgetInv ==
    /\ bad \in Nat /\ errors \in 0..Limit
    /\ Limit > 0 /\ phase # "closed" => bad <= errors /\ bad < Limit
    /\ ended = "errors" => errors = Limit /\ phase = "closed"

ConnectionInv ==
    /\ AnswerInv /\ BudgetInv
    /\ told = Shown(selected)
    /\ exists \subseteq User \X Mailbox

=============================================================================
