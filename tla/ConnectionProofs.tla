-------------------------- MODULE ConnectionProofs ---------------------------
(***************************************************************************)
(* Proofs about Connection, for any users, mailboxes and limit of errors,  *)
(* and about ManageSieve, for any users.                                   *)
(***************************************************************************)
EXTENDS Connection, ManageSieve, TLAPS

\* A connection that has just been made.
LEMMA ConnectionInit == Init => ConnectionInv
BY ConnectionAssumption
   DEF Init, ConnectionInv, AnswerInv, BudgetInv, AnsweredOnce, Shown, Busy

\* Of most commands the client learns nothing about the selected mailbox.
LEMMA HeardNothing ==
    ASSUME NEW condition \in {"OK", "NO", "BAD"}, Heard(condition),
           condition = "BAD" \/ cmd.kind \notin Opening \cup {"CLOSE"}
    PROVE  told' = told
BY DEF Heard, Opening

\* The count of errors that the client can make stays within the limit.
LEMMA HeardErrors ==
    ASSUME BudgetInv, NEW condition \in {"OK", "NO", "BAD"}, Heard(condition)
    PROVE  /\ errors' \in 0..Limit
           /\ condition = "NO" => errors' = errors
           /\ condition = "BAD" => errors' = IF errors < Limit THEN errors + 1 ELSE errors
BY ConnectionAssumption DEF Heard, BudgetInv

\* A response that is returned is the only answer to the command, and is counted.
LEMMA ReturnedKeeps ==
    ASSUME ConnectionInv, phase \in Busy,
           NEW condition \in {"OK", "NO", "BAD"}, NEW bye \in BOOLEAN, Returned(condition, bye)
    PROVE  AnswerInv' /\ BudgetInv'
<1>1. PICK to \in {"closed", "handshake", "ready"} : phase' = to
  BY DEF Returned
<1>2. answers' = 1
  BY DEF ConnectionInv, AnswerInv, Returned, Heard
<1>3. AnswerInv'
  BY <1>1, <1>2 DEF AnswerInv, AnsweredOnce, Busy
<1>4. bad' = IF condition = "BAD" /\ Limit > 0 THEN bad + 1 ELSE 0
  BY DEF Returned
<1>5. BudgetInv /\ phase # "closed" /\ Heard(condition) /\ errors' \in 0..Limit
  BY HeardErrors DEF ConnectionInv, Returned, Busy
<1>6. bad' \in Nat /\ (Limit > 0 => bad' <= errors' /\ bad' <= Limit)
  BY <1>4, <1>5, HeardErrors, ConnectionAssumption DEF BudgetInv
<1>7. /\ phase' # "closed" => ~(Limit > 0 /\ bad' >= Limit)
      /\ ended' = "errors" => ended = "errors" \/ (Limit > 0 /\ bad' >= Limit)
  BY <1>4 DEF Returned
<1>8. ended' = "errors" => errors' = Limit /\ phase' = "closed"
  <2>1. ended # "errors"
    BY <1>5 DEF BudgetInv
  <2>2. Limit > 0 /\ bad' >= Limit => errors' = Limit
    BY <1>5, <1>6, ConnectionAssumption
  <2> QED  BY <1>7, <2>1, <2>2 DEF Returned
<1> QED  BY <1>3, <1>5, <1>6, <1>7, <1>8, ConnectionAssumption DEF BudgetInv

\* One that is raised is the only answer as well.
LEMMA RaisedKeeps ==
    ASSUME ConnectionInv, phase \in Busy,
           NEW condition \in {"NO", "BAD"}, Raised(condition)
    PROVE  AnswerInv' /\ BudgetInv'
<1>1. phase' = "ready" /\ answers' = 1 /\ bad' = bad /\ ended' = ended /\ Heard(condition)
  BY DEF ConnectionInv, AnswerInv, Raised, Heard
<1>2. AnswerInv'
  BY <1>1 DEF AnswerInv, AnsweredOnce, Busy
<1>3. BudgetInv /\ phase # "closed"
  BY DEF ConnectionInv, Busy
<1>4. errors' \in 0..Limit /\ errors' >= errors
  BY <1>1, <1>3, HeardErrors, ConnectionAssumption DEF BudgetInv
<1> QED  BY <1>1, <1>2, <1>3, <1>4, ConnectionAssumption DEF BudgetInv

\* A phase in which the command is not over yet, or its handshake is to come.
LEMMA PhaseKeeps ==
    ASSUME ConnectionInv, AnswerInv', phase # "closed", phase' # "closed",
           UNCHANGED <<bad, errors, ended>>
    PROVE  BudgetInv'
BY DEF ConnectionInv, BudgetInv

\* The loop is left without another answer.
LEMMA EndKeeps ==
    ASSUME ConnectionInv, phase # "closed", cmd' = cmd,
           NEW how \in {"bye", "left", "quietly"}, End(how),
           how = "quietly" => phase \in {"greeting", "handshake"}
    PROVE  AnswerInv' /\ BudgetInv'
<1>1. AnswerInv'
  BY DEF End, ConnectionInv, AnswerInv, AnsweredOnce, Busy
<1>2. BudgetInv'
  BY DEF End, ConnectionInv, BudgetInv
<1> QED  BY <1>1, <1>2

\* A command that leaves the selected mailbox as it is, and whose answer tells
\* nothing of one.
LEMMA AnswerKeeps ==
    ASSUME ConnectionInv, phase \in Busy, UNCHANGED <<selected, exists>>,
           NEW condition \in {"OK", "NO", "BAD"}, NEW bye \in BOOLEAN,
           Returned(condition, bye) \/ (condition # "OK" /\ Raised(condition)),
           condition = "BAD" \/ cmd.kind \notin Opening \cup {"CLOSE"}
    PROVE  ConnectionInv'
<1>1. AnswerInv' /\ BudgetInv'
  BY ReturnedKeeps, RaisedKeeps
<1>2. Heard(condition)
  BY DEF Returned, Raised
<1>3. told' = told
  BY <1>2, HeardNothing
<1> QED  BY <1>1, <1>3 DEF ConnectionInv, Shown

\* What happens without an answer.
LEMMA QuietStep ==
    ASSUME ConnectionInv,
           Greet \/ Read \/ Continue \/ Leave \/ Cancel \/ Handshake \/ Updates \/ Others
    PROVE  ConnectionInv'
<1>1. UNCHANGED <<selected, told>>
  BY DEF Greet, Read, Continue, Leave, Cancel, Handshake, Updates, Others, End, state
<1>2. told' = Shown(selected')
  BY <1>1 DEF ConnectionInv
<1>3. exists' \subseteq User \X Mailbox
  BY DEF ConnectionInv, Greet, Read, Continue, Leave, Cancel, Handshake, Updates, Others
<1>4. ASSUME NEW how \in {"bye", "left", "quietly"}, End(how), phase # "closed", cmd' = cmd,
             how = "quietly" => phase \in {"greeting", "handshake"}
      PROVE  AnswerInv' /\ BudgetInv'
  BY <1>4, EndKeeps
<1>5. CASE Greet
  <2>1. ASSUME NEW how \in {"bye", "quietly"}, End(how)
        PROVE  AnswerInv' /\ BudgetInv'
    BY <1>4, <1>5, <2>1 DEF Greet
  <2>2. ASSUME phase' = "ready", UNCHANGED <<bad, answers, errors, ended>>
        PROVE  AnswerInv' /\ BudgetInv'
    <3>1. AnswerInv' /\ phase # "closed" /\ phase' # "closed"
      BY <1>5, <2>2 DEF Greet, ConnectionInv, AnswerInv, AnsweredOnce, Busy
    <3> QED  BY <2>2, <3>1, PhaseKeeps
  <2>3. AnswerInv' /\ BudgetInv'
    BY <1>5, <2>1, <2>2 DEF Greet
  <2> QED  BY <1>2, <1>3, <2>3 DEF ConnectionInv
<1>6. CASE Read \/ Continue \/ Updates
  <2>1. AnswerInv' /\ phase # "closed" /\ phase' # "closed" /\ UNCHANGED <<bad, errors, ended>>
    BY <1>6 DEF Read, Continue, Updates, ConnectionInv, AnswerInv, AnsweredOnce, Busy
  <2>2. BudgetInv'
    BY <2>1, PhaseKeeps
  <2> QED  BY <1>2, <1>3, <2>1, <2>2 DEF ConnectionInv
<1>7. CASE Leave \/ Cancel
  <2>1. AnswerInv' /\ BudgetInv'
    BY <1>4, <1>7 DEF Leave, Cancel
  <2> QED  BY <1>2, <1>3, <2>1 DEF ConnectionInv
<1>8. CASE Handshake
  <2>1. ASSUME phase' = "ready", UNCHANGED <<bad, answers, errors, ended>>
        PROVE  AnswerInv' /\ BudgetInv'
    <3>1. AnswerInv' /\ phase # "closed" /\ phase' # "closed"
      BY <1>8, <2>1 DEF Handshake, ConnectionInv, AnswerInv, AnsweredOnce, Busy
    <3> QED  BY <2>1, <3>1, PhaseKeeps
  <2>2. AnswerInv' /\ BudgetInv'
    BY <1>4, <1>8, <2>1 DEF Handshake
  <2> QED  BY <1>2, <1>3, <2>2 DEF ConnectionInv
<1>9. CASE Others
  <2>1. AnswerInv' /\ BudgetInv'
    BY <1>9 DEF Others, ConnectionInv, AnswerInv, BudgetInv, AnsweredOnce
  <2> QED  BY <1>2, <1>3, <2>1 DEF ConnectionInv
<1> QED  BY <1>5, <1>6, <1>7, <1>8, <1>9

\* The commands that neither select a mailbox nor close it.
LEMMA PlainStep ==
    ASSUME ConnectionInv,
           \/ Refuse \/ Noop \/ Login \/ Authenticate \/ Respond \/ StartTLS
           \/ List \/ Use \/ StartIdle \/ Done
    PROVE  ConnectionInv'
<1>1. UNCHANGED <<selected, exists, cmd>>
  BY DEF Refuse, Noop, Login, Authenticate, Respond, StartTLS, List, Use, StartIdle, Done, state
<1>2. phase \in Busy
  BY DEF Refuse, Noop, Login, Authenticate, Respond, StartTLS, List, Use, StartIdle, Done, Runs, Busy
<1>3. Refuse \/ cmd.kind \notin Opening \cup {"CLOSE"}
  BY <1>2 DEF Noop, Login, Authenticate, Respond, StartTLS, List, Use, StartIdle, Done, Runs,
              Opening, ConnectionInv, AnswerInv
<1>4. CASE Refuse
  BY <1>1, <1>2, <1>4, AnswerKeeps DEF Refuse
<1>5. CASE \E c \in {"OK", "NO", "BAD"}, bye \in BOOLEAN :
              Returned(c, bye) \/ (c # "OK" /\ Raised(c))
  BY <1>1, <1>2, <1>3, <1>4, <1>5, AnswerKeeps
<1>6. CASE phase = "running" /\ UNCHANGED <<bad, answers, told, errors, ended>>
           /\ \/ phase' = "sasl" /\ cmd.kind = "AUTHENTICATE"
              \/ phase' = "idling" /\ cmd.kind = "IDLE"
  <2>1. AnswerInv' /\ phase # "closed" /\ phase' # "closed"
    BY <1>1, <1>6 DEF ConnectionInv, AnswerInv, AnsweredOnce, Busy
  <2>2. BudgetInv'
    BY <1>6, <2>1, PhaseKeeps
  <2> QED  BY <1>1, <1>6, <2>1, <2>2 DEF ConnectionInv, Shown
<1>7. CASE Noop \/ Login \/ Use
  BY <1>5, <1>7 DEF Noop, Login, Use
<1>8. CASE Authenticate \/ StartIdle
  BY <1>5, <1>6, <1>8 DEF Authenticate, StartIdle, Runs
<1>9. CASE Respond \/ StartTLS \/ Done
  BY <1>5, <1>9 DEF Respond, StartTLS, Done
<1>10. CASE List
  BY <1>5, <1>10 DEF List
<1> QED  BY <1>4, <1>7, <1>8, <1>9, <1>10

\* LOGOUT is answered, and told BYE.
LEMMA LogoutStep ==
    ASSUME ConnectionInv, Logout
    PROVE  ConnectionInv'
<1>1. /\ phase \in Busy /\ phase' = "closed" /\ ended' = "bye" /\ Heard("OK")
      /\ UNCHANGED <<bad, cmd, selected, exists>> /\ cmd.kind = "LOGOUT"
  BY DEF Logout, Runs, Busy, state
<1>2. told' = told
  BY <1>1, HeardNothing DEF Opening
<1>3. AnswerInv'
  BY <1>1 DEF Heard, ConnectionInv, AnswerInv, AnsweredOnce, Busy
<1>4. errors' \in 0..Limit
  BY <1>1, HeardErrors DEF ConnectionInv
<1>5. BudgetInv'
  BY <1>1, <1>4 DEF ConnectionInv, BudgetInv
<1> QED  BY <1>1, <1>2, <1>3, <1>5 DEF ConnectionInv, Shown

\* The answers to SELECT and to CLOSE, as the client takes them.
LEMMA HeardSelection ==
    ASSUME NEW condition \in {"OK", "NO"}, Heard(condition)
    PROVE  /\ cmd.kind \in Opening
              => told' = IF condition = "OK" THEN <<cmd.mailbox, cmd.kind = "EXAMINE">> ELSE None
           /\ cmd.kind = "CLOSE" => told' = IF condition = "OK" THEN None ELSE told
BY DEF Heard, Opening

\* What the client is told of SELECT and CLOSE is what becomes of the mailbox.
LEMMA SelectedStep ==
    ASSUME ConnectionInv, Select \/ Close
    PROVE  ConnectionInv'
<1>1. phase \in Busy /\ UNCHANGED <<exists, cmd>> /\ cmd.kind \in Opening \cup {"CLOSE"}
  BY DEF Select, Close, Runs, Busy
<1>2. ASSUME NEW condition \in {"OK", "NO"},
             IF condition = "OK" THEN Returned("OK", FALSE) ELSE Raised("NO")
      PROVE  AnswerInv' /\ BudgetInv' /\ Heard(condition)
  BY <1>1, <1>2, ReturnedKeeps, RaisedKeeps DEF Returned, Raised
<1>3. CASE Select
  <2>1. ASSUME <<session, cmd.mailbox>> \in exists, Returned("OK", FALSE),
               selected' = [user |-> session, mailbox |-> cmd.mailbox,
                            readonly |-> cmd.kind = "EXAMINE"]
        PROVE  ConnectionInv'
    <3>1. selected' \in [user : User, mailbox : Mailbox, readonly : BOOLEAN]
      BY <2>1 DEF ConnectionInv
    <3>2. Shown(selected') = <<cmd.mailbox, cmd.kind = "EXAMINE">>
      BY <2>1, <3>1, ConnectionAssumption DEF Shown
    <3>3. AnswerInv' /\ BudgetInv' /\ Heard("OK") /\ cmd.kind \in Opening
      BY <1>2, <1>3, <2>1 DEF Select, Runs
    <3>4. told' = <<cmd.mailbox, cmd.kind = "EXAMINE">>
      BY <3>3, HeardSelection
    <3> QED  BY <1>1, <3>2, <3>3, <3>4 DEF ConnectionInv, Shown
  <2>2. ASSUME Raised("NO"), selected' = None
        PROVE  ConnectionInv'
    <3>1. AnswerInv' /\ BudgetInv' /\ Heard("NO") /\ cmd.kind \in Opening
      BY <1>2, <1>3, <2>2 DEF Select, Runs
    <3>2. told' = None
      BY <3>1, HeardSelection
    <3> QED  BY <1>1, <2>2, <3>1, <3>2 DEF ConnectionInv, Shown
  <2> QED  BY <1>3, <2>1, <2>2 DEF Select
<1>4. CASE Close
  <2>1. ASSUME Raised("NO"), UNCHANGED selected
        PROVE  ConnectionInv'
    <3>1. AnswerInv' /\ BudgetInv' /\ Heard("NO") /\ cmd.kind = "CLOSE"
      BY <1>2, <1>4, <2>1 DEF Close, Runs
    <3>2. told' = told
      BY <3>1, HeardSelection
    <3> QED  BY <1>1, <2>1, <3>1, <3>2 DEF ConnectionInv, Shown
  <2>2. ASSUME Returned("OK", FALSE), selected' = None
        PROVE  ConnectionInv'
    <3>1. AnswerInv' /\ BudgetInv' /\ Heard("OK") /\ cmd.kind = "CLOSE"
      BY <1>2, <1>4, <2>2 DEF Close, Runs
    <3>2. told' = None
      BY <3>1, HeardSelection
    <3> QED  BY <1>1, <2>2, <3>1, <3>2 DEF ConnectionInv, Shown
  <2> QED  BY <1>4, <2>1, <2>2 DEF Close
<1> QED  BY <1>3, <1>4

\* A timeout of SELECT leaves nothing selected, and the client is told as much.
LEMMA TimeOutStep ==
    ASSUME ConnectionInv, TimeOut
    PROVE  ConnectionInv'
<1>1. phase \in Busy /\ UNCHANGED <<exists, cmd>> /\ Raised("NO")
  BY DEF TimeOut, Busy
<1>2. AnswerInv' /\ BudgetInv'
  BY <1>1, RaisedKeeps
<1>3. CASE cmd.kind \in Opening
  <2>1. told' = None /\ selected' = None
    BY <1>1, <1>3, HeardSelection DEF Raised, TimeOut
  <2> QED  BY <1>1, <1>2, <2>1 DEF ConnectionInv, Shown
<1>4. CASE cmd.kind \notin Opening
  <2>1. told' = told /\ selected' = selected
    BY <1>1, <1>4, HeardNothing, HeardSelection DEF Raised, TimeOut
  <2> QED  BY <1>1, <1>2, <2>1 DEF ConnectionInv, Shown
<1> QED  BY <1>3, <1>4

LEMMA ConnectionStep ==
    ASSUME ConnectionInv, [Next]_vars
    PROVE  ConnectionInv'
<1>1. CASE UNCHANGED vars
  BY <1>1 DEF vars, ConnectionInv, AnswerInv, BudgetInv, AnsweredOnce, Shown
<1>2. CASE Next
  BY <1>2, QuietStep, PlainStep, LogoutStep, SelectedStep, TimeOutStep DEF Next
<1> QED  BY <1>1, <1>2

LEMMA ConnectionAlways == Spec => []ConnectionInv
BY ConnectionInit, ConnectionStep, PTL DEF Spec

-----------------------------------------------------------------------------
\* _run_state answers every command once before it reads the next, or ends the
\* connection: with BYE, unless the client has left.
THEOREM EveryCommandAnswered == Spec => []AnsweredOnce
<1>1. ConnectionInv => AnsweredOnce
  BY DEF ConnectionInv, AnswerInv
<1> QED  BY <1>1, ConnectionAlways, PTL

\* Whatever do_select, do_close or a timeout does to _selected, the responses
\* have told the client of it when the next command is read.
THEOREM SelectionIsTold == Spec => []SelectedAsTold
<1>1. ConnectionInv => SelectedAsTold
  BY DEF ConnectionInv, SelectedAsTold
<1> QED  BY <1>1, ConnectionAlways, PTL

\* bad_commands against bad_command_limit: the connection ends with the command
\* that uses the limit up, and with no other.
THEOREM BadCommandsLimited == Spec => []BudgetKept
<1>1. ConnectionInv => BudgetKept
  BY ConnectionAssumption DEF ConnectionInv, BudgetInv, BudgetKept
<1> QED  BY <1>1, ConnectionAlways, PTL

-----------------------------------------------------------------------------
(* The ManageSieve server. *)

\* The state of a ManageSieve connection is made for the user that the same
\* response names and whose session has just been opened; so whatever fails on
\* the way, the next command changes the scripts of that user.
THEOREM ScriptsOfTheOwner == SieveSpec => []OwnerAsTold
<1> DEFINE Told == /\ owner = who /\ (owner # NoOwner => owner \in entered)
                   /\ task = "greeting" => owner = NoOwner
<1>1. SieveInit => Told
  BY DEF SieveInit
<1>2. Told /\ [SieveNext]_sieveVars => Told'
  <2> SUFFICES ASSUME Told, [SieveNext]_sieveVars PROVE Told'
    OBVIOUS
  <2>1. CASE Greeting
    BY <2>1 DEF Greeting, Answer
  <2>2. CASE DoAuthenticate
    BY <2>2 DEF DoAuthenticate, Answer
  <2>3. CASE DoUnauthenticate
    BY <2>3 DEF DoUnauthenticate, Answer
  <2>4. CASE DoStartTLS \/ Plain \/ ReadCommand \/ Hangup \/ SieveLogout \/ UNCHANGED sieveVars
    BY <2>4 DEF DoStartTLS, Plain, ReadCommand, Hangup, SieveLogout, Answer, sieveVars
  <2> QED  BY <2>1, <2>2, <2>3, <2>4 DEF SieveNext
<1>3. Told => OwnerAsTold
  BY DEF OwnerAsTold
<1> QED  BY <1>1, <1>2, <1>3, PTL DEF SieveSpec

=============================================================================
