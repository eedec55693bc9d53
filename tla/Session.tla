------------------------------ MODULE Session -------------------------------
(***************************************************************************)
(* A DM session: the API of omadmclient.c and the callbacks that the       *)
(* SyncML toolkit makes while it parses a reply (callbacks.c).             *)
(*                                                                         *)
(* The application follows the loop of the README:                         *)
(*     start; while (get_next_packet) { send; process_reply }; close       *)
(* and may add generic alerts between the calls.  The server answers each  *)
(* packet with a header and any commands, as far as its budget goes.  One  *)
(* action is one API call, except process_reply, which is one action for   *)
(* each callback: StartMessage ... EndMessage.  The tree operations behind *)
(* Add, Get, Exec... are reduced to the code they return.                  *)
(*                                                                         *)
(* Allocations are taken to succeed.                                       *)
(***************************************************************************)
EXTENDS Integers, Sequences, FiniteSets

CONSTANTS
    Accounts,       \* DM accounts: which credentials they hold
    TreeOp,         \* commands on the tree: Add, Copy, Delete, Replace, Exec, Get
    DevInfo,        \* subset of BOOLEAN: can get_device_info succeed, or fail?
    TreeCode,       \* what a tree operation may return
    UserCode,       \* what the UI callback may return
    MaxStarts,      \* bound: session starts on the handle
    MaxGeneric,     \* bound: generic alerts
    MaxItems,       \* bound: items of a command
    MaxCmds,        \* bound: commands in one reply
    MaxNest,        \* bound: depth of Sequence and Atomic
    MaxSequence,    \* bound: depth of Sequence in Sequence
    MaxPackets,     \* bound: message_id
    MaxServerCmds,  \* bound: commands and challenges of the server in all
    MaxFaults,      \* bound: encoding and parsing errors in all
    HeaderCode,     \* what the server may say of a header ...
    RequestCode,    \* ... and of a request
    StaleRef        \* what the memory of a freed cmdID may read as

ASSUME SessionAssumption ==
    /\ Accounts \subseteq [clt : BOOLEAN, srv : BOOLEAN]
    /\ TreeOp \subseteq {"Add", "Copy", "Delete", "Replace", "Exec", "Get"}
    /\ DevInfo \subseteq BOOLEAN
    /\ TreeCode \subseteq Nat /\ UserCode \subseteq Nat
    /\ HeaderCode \subseteq Nat /\ RequestCode \subseteq Nat /\ StaleRef \subseteq Nat
    /\ MaxStarts \in Nat /\ MaxGeneric \in Nat /\ MaxItems \in Nat /\ MaxCmds \in Nat
    /\ MaxNest \in Nat /\ MaxSequence \in Nat /\ MaxPackets \in Nat
    /\ MaxServerCmds \in Nat /\ MaxFaults \in Nat

VARIABLES
    elem, old_elem, message_id, issued, settled,    \* see Elements
    state,          \* internP->state
    account,        \* internP->account, NoAccount for NULL
    srv_auth,       \* what the server's credentials are worth
    clt_auth,       \* what the server said of ours
    alert_cb,       \* is there a UI callback?
    sequence,       \* cmdID of the Sequence being processed, 0 for NULL
    seq_code,
    reply_ref,      \* msgID of the reply being answered
    nest,           \* toolkit: the open Sequence and Atomic elements
    nextCmd,        \* toolkit: cmdID of the next command of the reply
    phase,          \* what the application is doing
    ret,            \* result of its last call
    starts,         \* session starts so far
    budget, faults, \* what the environment may still do
    verdict,        \* history: the last credentials checked since the start
    log             \* history: the commands of the reply being processed

listVars == <<elem, old_elem, message_id, issued, settled>>
seqVars == <<sequence, seq_code>>
appVars == <<state, account, starts, alert_cb>>
authVars == <<srv_auth, verdict>>
rxVars == <<reply_ref, nest, nextCmd, log>>
envVars == <<budget, faults>>
vars == <<listVars, seqVars, appVars, authVars, clt_auth, rxVars, envVars, phase, ret>>

-----------------------------------------------------------------------------
(* Protocol elements and codes                                             *)

RequestElem == [type : {"Alert", "Replace", "Generic"}, n : 0 .. MaxStarts + MaxGeneric]
StatusElem == [type : {"Status"}, msgRef : Nat, cmdRef : Nat, code : Nat]
ResultsElem == [type : {"Results"}, msgRef : Nat, cmdRef : Nat, items : Nat]

\* The list operations and StatusForCommand; the bounds of Elements concern
\* its own next-state relation only.
INSTANCE Elements WITH Request <- RequestElem, Status <- StatusElem, Results <- ResultsElem,
                       MsgRef <- Int, MaxMessageId <- 0, MaxElem <- 0

NONE == 0
AUTHENTICATION_ACCEPTED == 212
NOT_EXECUTED == 215
NOT_MODIFIED == 304
OPTIONAL_FEATURE_NOT_SUPPORTED == 406

\* An account is allocated, then gets its addresses, then its credentials.
NoAccount == [alloc |-> FALSE, addr |-> FALSE, clt |-> FALSE, srv |-> FALSE]
NoAddress == [NoAccount EXCEPT !.alloc = TRUE]
Filled(a) == [alloc |-> TRUE, addr |-> TRUE, clt |-> a.clt, srv |-> a.srv]

\* create_status: cmdRef 0 answers the header of the message.
create_status(msg, code, cmd) ==
    [type |-> "Status", msgRef |-> msg, cmdRef |-> cmd, code |-> code]

IsHeaderStatus(e) == e.type = "Status" /\ e.cmdRef = 0

\* Mutant of StatusPerItem: one status for the whole command.
MutantOneStatus(msg, cmd, codes) ==
    [i \in 1 .. (IF codes = <<>> THEN 0 ELSE 1) |-> create_status(msg, codes[i], cmd)]

\* n statuses for one command, the codes being those of its items.
StatusPerItem(msg, cmd, codes) ==
    [i \in DOMAIN codes |-> create_status(msg, codes[i], cmd)]

SessionInit ==
    /\ ElemInit
    /\ state = "UNKNOWN" /\ account = NoAccount
    /\ srv_auth = NONE /\ clt_auth = NONE
    /\ alert_cb = FALSE
    /\ sequence = 0 /\ seq_code = NONE
    /\ reply_ref = 0 /\ nest = <<>> /\ nextCmd = 1
    /\ phase = "idle" /\ ret = "NONE" /\ starts = 0
    /\ budget = MaxServerCmds /\ faults = MaxFaults
    /\ verdict = "none" /\ log = <<>>

-----------------------------------------------------------------------------
(* The API                                                                 *)

\* The application may call any function between two steps of its loop.
Between == phase \in {"idle", "call", "wait", "done"}

omadmclient_set_UI_callback ==
    /\ Between
    /\ ~ alert_cb
    /\ alert_cb' = TRUE
    /\ UNCHANGED <<listVars, seqVars, state, account, starts, authVars, clt_auth, rxVars,
                   envVars, phase, ret>>

omadmclient_add_generic_alert(n) ==
    LET alert == [type |-> "Generic", n |-> n]
    IN  /\ Between
        /\ alert \notin issued
        /\ elem' = add_element(elem, alert)
        /\ issued' = issued \cup {alert}
        /\ UNCHANGED <<old_elem, message_id, settled, seqVars, appVars, authVars, clt_auth,
                       rxVars, envVars, phase, ret>>

CanStart == phase \in {"idle", "done"} /\ starts < MaxStarts

\* omadmclient_session_start once the account has been read.  The element
\* lists, srv_auth and clt_auth keep what an earlier session on the same
\* handle left in them.
Started(a) ==
    /\ account' = Filled(a)
    /\ srv_auth' = IF a.srv THEN srv_auth ELSE AUTHENTICATION_ACCEPTED
    /\ clt_auth' = IF a.clt THEN clt_auth ELSE AUTHENTICATION_ACCEPTED
    /\ message_id' = 0
    /\ verdict' = "none"
    /\ starts' = starts + 1
    /\ UNCHANGED <<elem, old_elem, issued, settled, seqVars, alert_cb, rxVars, envVars>>

\* It fails: a mandatory object is missing (USAGE), or the account is not
\* found, or cannot be read completely and stays in the session as it is.
StartFails ==
    /\ \/ account' = account /\ ret' \in {"USAGE", "INTERNAL"}
       \/ account' = NoAddress /\ ret' = "INTERNAL"
       \/ \E a \in Accounts : account' = Filled(a) /\ ret' = "INTERNAL"
    /\ starts' = starts + 1
    /\ phase' = "idle"
    /\ UNCHANGED <<listVars, seqVars, alert_cb, authVars, clt_auth, rxVars, envVars>>

omadmclient_session_start(a) ==
    /\ CanStart
    /\ Started(a)
    /\ state' = "CLIENT_INIT"
    /\ phase' = "call" /\ ret' = "NONE"

omadmclient_session_start_fails ==
    /\ CanStart
    /\ StartFails
    /\ UNCHANGED state

\* A package #0 starts the session before it is validated, and the state
\* becomes SERVER_INIT whatever the outcome (unless it cannot be decoded,
\* which changes nothing).
omadmclient_session_start_on_alert ==
    /\ CanStart
    /\ state' = "SERVER_INIT"
    /\ \/ StartFails
       \/ /\ \E a \in Accounts : Started(a)
          /\ \/ ret' = "NONE" /\ phase' = "call"
             \/ ret' = "USAGE" /\ phase' = "idle"

\* prvCreatePacket1: the two elements of package #1, unless the device
\* information cannot be read or no session was started.
prvCreatePacket1(devInfo) ==
    IF state \in {"CLIENT_INIT", "SERVER_INIT"} /\ devInfo
    THEN <<[type |-> "Alert", n |-> starts], [type |-> "Replace", n |-> starts]>>
    ELSE <<>>

\* prvGetHeader reads the addresses of the account and, unless the server has
\* accepted us, its credentials.  They are there, or a null pointer is read.
HeaderReadable ==
    /\ account.addr
    /\ clt_auth \in {AUTHENTICATION_ACCEPTED, SUCCESS} \/ account.clt

\* Mutant of ComposeError: the list is freed.
MutantComposeError(list) == elem' = <<>> /\ UNCHANGED old_elem

\* prvComposeMessage gives up half way: the list stays as it is.
ComposeError(list) == elem' = list /\ UNCHANGED old_elem

\* omadmclient_get_next_packet.  A packet is handed out with the type found
\* in account->toServerCred, whether or not there is one.
omadmclient_get_next_packet(devInfo) ==
    LET new == prvCreatePacket1(devInfo)
        list == elem \o new
    IN  /\ phase \in {"idle", "call"}
        /\ account.alloc
        /\ message_id < MaxPackets
        /\ state' = IF new = <<>> THEN state ELSE "IN_SESSION"
        /\ issued' = issued \cup {new[i] : i \in DOMAIN new}
        /\ message_id' = message_id + 1
        /\ \/ /\ ~ HeaderReadable
              /\ phase' = "crashed" /\ elem' = list
              /\ UNCHANGED <<old_elem, faults, ret>>
           \/ /\ HeaderReadable
              /\ elem' = <<>>
              /\ old_elem' = refresh_elements(list, old_elem, message_id')
              /\ IF NothingToSay(list) THEN phase' = "done" /\ ret' = "END"
                 ELSE IF account.clt THEN phase' = "wait" /\ ret' = "NONE"
                 ELSE phase' = "crashed" /\ UNCHANGED ret
              /\ UNCHANGED faults
           \/ \* the toolkit cannot encode the message
              /\ HeaderReadable
              /\ faults > 0 /\ faults' = faults - 1
              /\ ComposeError(list)
              /\ ret' = "INTERNAL" /\ phase' \in {phase, "done"}
        /\ UNCHANGED <<settled, seqVars, account, starts, alert_cb, authVars, clt_auth,
                       rxVars, budget>>

\* There is no account.
get_next_packet_usage ==
    /\ phase \in {"idle", "call"}
    /\ ~ account.alloc
    /\ ret' = "USAGE"
    /\ UNCHANGED <<listVars, seqVars, appVars, authVars, clt_auth, rxVars, envVars, phase>>

\* omadmclient_session_close frees both lists and everything else.
omadmclient_session_close ==
    /\ Between
    /\ phase' = "closed"
    /\ elem' = <<>> /\ old_elem' = <<>> /\ settled' = issued
    /\ account' = NoAccount /\ state' = "UNKNOWN" /\ alert_cb' = FALSE
    /\ srv_auth' = NONE /\ clt_auth' = NONE /\ sequence' = 0 /\ seq_code' = NONE
    /\ message_id' = 0 /\ reply_ref' = 0
    /\ UNCHANGED <<issued, starts, nest, nextCmd, log, verdict, envVars, ret>>

-----------------------------------------------------------------------------
(* omadmclient_process_reply: the header                                   *)

\* Mutant of check_credentials: bad credentials give an error number.
MutantErrorNumber(cred) ==
    IF cred = "good" THEN AUTHENTICATION_ACCEPTED ELSE IF cred = "bad" THEN -1 ELSE srv_auth

\* What check_credentials makes of the header's credentials; without any the
\* earlier result stands.
check_credentials(cred) ==
    IF cred = "good" THEN AUTHENTICATION_ACCEPTED
    ELSE IF cred = "bad" THEN INVALID_CREDENTIALS ELSE srv_auth

prv_start_message_cb(cred) ==
    /\ phase = "wait"
    /\ cred # "none" => account.srv
    /\ phase' = "reply"
    /\ sequence' = 0 /\ seq_code' = NONE
    /\ reply_ref' = reply_ref + 1
    /\ srv_auth' = check_credentials(cred)
    /\ verdict' = IF cred = "none" THEN verdict ELSE cred
    /\ elem' = add_element(elem, create_status(reply_ref', srv_auth', 0))
    /\ nest' = <<>> /\ nextCmd' = 1 /\ log' = <<>>
    /\ UNCHANGED <<old_elem, message_id, issued, settled, appVars, clt_auth, envVars, ret>>

\* The header has credentials and the account has no toClientCred to compare
\* them with: a null pointer is read.
start_message_crash ==
    /\ phase = "wait"
    /\ ~ account.srv
    /\ phase' = "crashed"
    /\ UNCHANGED <<listVars, seqVars, appVars, authVars, clt_auth, rxVars, envVars, ret>>

\* No answer comes, and the application stops.
reply_lost ==
    /\ phase = "wait"
    /\ phase' = "done"
    /\ UNCHANGED <<listVars, seqVars, appVars, authVars, clt_auth, rxVars, envVars, ret>>

prv_end_message_cb ==
    /\ phase = "reply"
    /\ nest = <<>>
    /\ phase' = "call" /\ ret' = "NONE"
    /\ UNCHANGED <<listVars, seqVars, appVars, authVars, clt_auth, rxVars, envVars>>

\* The reply, or the rest of it, cannot be parsed (a Sequence as the first
\* command of a group is such a reply), or holds a command without a handler
\* (Put, Sync, Move): smlProcessData gives up.  What was queued so far stays
\* queued, and the application goes on or stops.
process_reply_fails ==
    /\ phase \in {"wait", "reply"}
    /\ faults > 0 /\ faults' = faults - 1
    /\ ret' = "INTERNAL" /\ phase' \in {"call", "done"}
    /\ UNCHANGED <<listVars, seqVars, appVars, authVars, clt_auth, rxVars, budget>>

-----------------------------------------------------------------------------
(* The commands of a reply                                                 *)

Enclosing == {nest[i].cmd : i \in {j \in DOMAIN nest : nest[j].kind = "Sequence"}}

\* A command reaches its callback; the log keeps what was done with it: how
\* many items went to the tree or to the user, and what the user said.
Command(op, items, ran, said) ==
    /\ phase = "reply"
    /\ Len(log) < MaxCmds
    /\ budget > 0 /\ budget' = budget - 1
    /\ nextCmd' = nextCmd + 1
    /\ log' = Append(log, [cmd |-> nextCmd, op |-> op, within |-> Enclosing,
                           items |-> items, ran |-> ran, said |-> said])
    /\ UNCHANGED <<old_elem, message_id, issued, settled, appVars, authVars, clt_auth,
                   reply_ref, faults, phase, ret>>

\* Mutant of Accepted: a server is refused only after bad credentials.
MutantNotRefused == srv_auth # INVALID_CREDENTIALS

\* Are the commands of the server to be obeyed?
Accepted == srv_auth = AUTHENTICATION_ACCEPTED

\* Mutant of SequenceStopped: a Sequence always goes on.
MutantNeverStopped == FALSE

\* The fate of the Sequence being processed, read from seq_code.
SequenceAborted == sequence # 0 /\ seq_code = NOT_MODIFIED
SequenceStopped == sequence # 0 /\ seq_code \notin {NOT_MODIFIED, SUCCESS}

Answer(statuses) == elem' = elem \o statuses

\* prv_do_generic_cmd_cb, prv_get_cmd_cb and prv_exec_cmd_cb: codes are what
\* the tree returns for the items, if they get that far.  Get also queues
\* the values it read, in one Results element after the statuses.
TreeCommand(op, codes) ==
    LET read == Cardinality({i \in DOMAIN codes : codes[i] = SUCCESS})
        results == [type |-> "Results", msgRef |-> reply_ref, cmdRef |-> nextCmd, items |-> read]
    IN  /\ UNCHANGED <<seqVars, nest>>
        /\ \/ /\ SequenceStopped
              /\ Command(op, Len(codes), 0, NONE)
              /\ UNCHANGED elem
           \/ /\ ~ SequenceStopped /\ ~ Accepted
              /\ Command(op, Len(codes), 0, NONE)
              /\ Answer(<<create_status(reply_ref, srv_auth, nextCmd)>>)
           \/ /\ ~ SequenceStopped /\ Accepted /\ SequenceAborted
              /\ Command(op, Len(codes), 0, NONE)
              /\ Answer(StatusPerItem(reply_ref, nextCmd, [i \in DOMAIN codes |-> NOT_EXECUTED]))
           \/ /\ ~ SequenceStopped /\ Accepted /\ ~ SequenceAborted
              /\ Command(op, Len(codes), Len(codes), NONE)
              /\ Answer(StatusPerItem(reply_ref, nextCmd, codes)
                        \o IF op = "Get" /\ read > 0 THEN <<results>> ELSE <<>>)

\* prv_alert_cmd_cb when the user is not asked: what it answers instead.  ui
\* is the kind of interaction, "none" when the alert cannot be read.
Refusal(ui) ==
    IF SequenceAborted THEN NOT_EXECUTED
    ELSE IF ~ Accepted THEN srv_auth
    ELSE IF ~ alert_cb THEN OPTIONAL_FEATURE_NOT_SUPPORTED
    ELSE COMMAND_FAILED

AsksUser(ui) == ~ SequenceAborted /\ ~ SequenceStopped /\ Accepted /\ alert_cb /\ ui # "none"

\* prv_alert_cmd_cb: code is what the user interface returns if it is asked.
prv_alert_cmd_cb(ui, code) ==
    LET reply(c) == Answer(<<create_status(reply_ref, c, nextCmd)>>)
    IN  /\ UNCHANGED <<sequence, nest>>
        /\ \/ /\ SequenceStopped
              /\ Command(ui, 1, 0, NONE)
              /\ UNCHANGED <<elem, seq_code>>
           \/ /\ ~ SequenceStopped /\ ~ AsksUser(ui)
              /\ Command(ui, 1, 0, NONE)
              /\ reply(Refusal(ui)) /\ UNCHANGED seq_code
           \/ /\ AsksUser(ui)
              /\ Command(ui, 1, 1, code)
              /\ reply(code)
              /\ seq_code' = IF sequence # 0 /\ ui = "confirm" THEN code ELSE seq_code

\* prv_start_atomic_cb: the commands inside are processed one by one like any
\* others.
prv_start_atomic_cb ==
    /\ Len(nest) < MaxNest
    /\ Command("Atomic", 1, 0, NONE)
    /\ nest' = Append(nest, [kind |-> "Atomic", cmd |-> nextCmd])
    /\ IF Accepted THEN UNCHANGED elem
       ELSE Answer(<<create_status(reply_ref, srv_auth, nextCmd)>>)
    /\ UNCHANGED seqVars

Innermost(kind) == nest # <<>> /\ nest[Len(nest)].kind = kind

Leave == nest' = SubSeq(nest, 1, Len(nest) - 1)

prv_end_atomic_cb ==
    /\ phase = "reply"
    /\ Innermost("Atomic")
    /\ Leave
    /\ UNCHANGED <<listVars, seqVars, appVars, authVars, clt_auth, reply_ref, nextCmd, log,
                   envVars, phase, ret>>

\* prv_start_sequence_cb: an open Sequence is forgotten.
prv_start_sequence_cb ==
    /\ Len(nest) < MaxNest
    /\ Cardinality(Enclosing) < MaxSequence
    /\ Command("Sequence", 1, 0, NONE)
    /\ nest' = Append(nest, [kind |-> "Sequence", cmd |-> nextCmd])
    /\ sequence' = nextCmd
    /\ seq_code' = IF Accepted THEN SUCCESS ELSE srv_auth
    /\ UNCHANGED elem

\* prv_end_sequence_cb.  The Sequence element was freed when it began and is
\* read here: its cmdID may still be there, or read as something else.
prv_end_sequence_cb(cmdRef) ==
    /\ phase = "reply"
    /\ Innermost("Sequence")
    /\ Leave
    /\ cmdRef \in (IF sequence = 0 THEN {0} ELSE {sequence} \cup StaleRef)
    /\ Answer(<<create_status(reply_ref, seq_code, cmdRef)>>)
    /\ sequence' = 0 /\ seq_code' = NONE
    /\ UNCHANGED <<old_elem, message_id, issued, settled, appVars, authVars, clt_auth,
                   reply_ref, nextCmd, log, envVars, phase, ret>>

\* ... or not be readable at all.
end_sequence_crash ==
    /\ phase = "reply"
    /\ Innermost("Sequence")
    /\ sequence # 0 /\ StaleRef # {}
    /\ phase' = "crashed"
    /\ UNCHANGED <<listVars, seqVars, appVars, authVars, clt_auth, rxVars, envVars, ret>>

-----------------------------------------------------------------------------
(* The statuses of a reply                                                 *)

\* prv_status_cmd_cb for the header: the server's view of our credentials.
\* (A challenge also replaces the nonce of account->toServerCred.)
status_header(code) ==
    /\ phase = "reply" /\ nest = <<>>
    /\ clt_auth' = code
    /\ UNCHANGED <<listVars, seqVars, appVars, authVars, rxVars, envVars, phase, ret>>

\* prv_status_cmd_cb for a request: see Elements.  Asking for a request again
\* takes from the server's budget.
prv_status_cmd_cb(iMsgRef, cmdRef, code) ==
    /\ phase = "reply" /\ nest = <<>>
    /\ IF code \in {INVALID_CREDENTIALS, MISSING_CREDENTIALS}
       THEN budget > 0 /\ budget' = budget - 1
       ELSE UNCHANGED budget
    /\ StatusForCommand(iMsgRef, cmdRef, code)
    /\ UNCHANGED <<seqVars, appVars, authVars, clt_auth, rxVars, faults, phase, ret>>

-----------------------------------------------------------------------------
Codes == UNION {[1 .. n -> TreeCode] : n \in 0 .. MaxItems}

ServerStatus ==
    \/ \E code \in HeaderCode : status_header(code)
    \/ \E k \in DOMAIN old_elem, code \in RequestCode :
           \E m \in {AnyMessage, old_elem[k].sentIn} :
               prv_status_cmd_cb(m, old_elem[k].cmdID, code)

ServerCommand ==
    \/ \E op \in TreeOp, codes \in Codes : TreeCommand(op, codes)
    \/ \E ui \in {"none", "inform", "confirm"}, code \in UserCode : prv_alert_cmd_cb(ui, code)
    \/ prv_start_atomic_cb
    \/ prv_start_sequence_cb

Finish ==
    \/ prv_end_atomic_cb
    \/ \E cmdRef \in {sequence, 0} \cup StaleRef : prv_end_sequence_cb(cmdRef)
    \/ end_sequence_crash
    \/ prv_end_message_cb

Reply == \E cred \in {"none", "good", "bad"} : prv_start_message_cb(cred)

NextPacket == \E devInfo \in DevInfo : omadmclient_get_next_packet(devInfo)

Application ==
    \/ omadmclient_set_UI_callback
    \/ \E n \in 1 .. MaxGeneric : omadmclient_add_generic_alert(n)
    \/ \E a \in Accounts : omadmclient_session_start(a)
    \/ omadmclient_session_start_fails
    \/ omadmclient_session_start_on_alert
    \/ NextPacket
    \/ get_next_packet_usage
    \/ omadmclient_session_close

SessionNext ==
    \/ Application
    \/ Reply \/ start_message_crash \/ reply_lost \/ process_reply_fails
    \/ ServerCommand \/ ServerStatus \/ Finish

SessionSpec == SessionInit /\ [][SessionNext]_vars

\* The application goes on with its loop, an answer or a failure to get one
\* comes back, and the toolkit reads a reply to its end.
FairSpec ==
    /\ SessionSpec
    /\ WF_vars(phase = "call" /\ NextPacket)
    /\ WF_vars(Reply \/ reply_lost)
    /\ WF_vars(Finish)
-----------------------------------------------------------------------------
(* Properties                                                              *)

LogEntry == [cmd : Nat \ {0}, op : TreeOp \cup {"none", "inform", "confirm", "Atomic", "Sequence"},
             within : SUBSET Nat, items : Nat, ran : Nat, said : Nat]

AppFieldsOK ==
    /\ state \in {"UNKNOWN", "SERVER_INIT", "CLIENT_INIT", "IN_SESSION"}
    /\ account \in [alloc : BOOLEAN, addr : BOOLEAN, clt : BOOLEAN, srv : BOOLEAN]
    /\ srv_auth \in {NONE, AUTHENTICATION_ACCEPTED, INVALID_CREDENTIALS}
    /\ clt_auth \in Nat /\ alert_cb \in BOOLEAN
    /\ phase \in {"idle", "call", "wait", "reply", "done", "crashed", "closed"}
    /\ ret \in {"NONE", "END", "USAGE", "INTERNAL"}
    /\ starts \in 0 .. MaxStarts /\ budget \in Nat /\ faults \in Nat
    /\ verdict \in {"none", "good", "bad"}

ReplyFieldsOK ==
    /\ sequence \in Nat /\ seq_code \in Nat
    /\ reply_ref \in Nat /\ nextCmd \in Nat \ {0}
    /\ nest \in Seq([kind : {"Atomic", "Sequence"}, cmd : Nat \ {0}])
    /\ log \in Seq(LogEntry)

\* Types of the session's fields.
SessionTypeOK == ElemTypeOK /\ AppFieldsOK /\ ReplyFieldsOK

\* The requests of the library survive everything the session does with them:
\* package #1, generic alerts added at any moment, encoding errors, replies
\* that cannot be parsed, resends, a second session on the same handle.
SessionKeepsRequests == NoRequestLost

\* When get_next_packet says END, what it takes off the list unsent is the
\* status of a header and nothing else: no answer to a command, no result,
\* no request.  (prvComposeMessage counts elements from -1, and relies on the
\* callbacks having queued the header's status before anything else.)
EndLosesNothing ==
    [][ret # "END" /\ ret' = "END" =>
           \A i \in DOMAIN elem : IsHeaderStatus(elem[i])]_vars

\* Was command e in a Sequence with command f, and after it?
SameSequence(f, e) == f.cmd < e.cmd /\ f.within \cap e.within # {}

Entries == {log[i] : i \in DOMAIN log}

\* The confirmations of the user before e, in a Sequence that e belongs to.
Said(e) == {f.said : f \in {g \in Entries : g.op = "confirm" /\ g.ran > 0 /\ SameSequence(g, e)}}

\* Once the user has refused a confirmation in a Sequence, no later command of
\* the Sequence reaches the tree or the user.
SequenceObeysUser ==
    phase = "reply" => \A e \in Entries : e.ran > 0 => Said(e) \subseteq {SUCCESS}

\* How many statuses the callbacks owe a command of the reply, from the log
\* alone: one for each item on the tree and one for an alert, none of both in
\* a Sequence that was stopped, and one for all of a command that is refused.
\* An Atomic is answered only if it is refused (prv_start_atomic_cb).
Due(e) ==
    CASE e.op = "Sequence" -> 0
      [] e.op = "Atomic"   -> IF Accepted THEN 0 ELSE 1
      [] OTHER ->
            IF e.within # {} /\ (~ Accepted \/ ~ Said(e) \subseteq {SUCCESS, NOT_MODIFIED})
            THEN 0
            ELSE IF ~ Accepted THEN 1 ELSE e.items

Answers(cmd) ==
    {i \in DOMAIN elem : elem[i].type = "Status" /\ elem[i].msgRef = reply_ref /\ elem[i].cmdRef = cmd}

\* The Sequences of the reply that have come to their end, by number.
EndedSequences == {e.cmd : e \in {f \in Entries : f.op = "Sequence"}} \ Enclosing

\* Whatever else was queued, resent or answered since, the list has every
\* status that is due to a command of the reply.  A command has more than its
\* due only by the status that ends a Sequence: prv_end_sequence_cb reads the
\* number it answers from freed memory, which may be that of any command or
\* of none, so nothing is said of the Sequence itself having its status.
ItemsAnswered ==
    phase = "reply" =>
        \A e \in Entries :
            /\ Cardinality(Answers(e.cmd)) >= Due(e)
            /\ Cardinality(Answers(e.cmd)) <= Due(e) + Cardinality(EndedSequences)

\* In the first session of a handle, a command reaches the tree or the user
\* only if the server's last credentials were good, or the account has none
\* to compare them with.
OnlyAuthenticatedServerActs ==
    phase = "reply" /\ starts = 1 =>
        \A e \in Entries : e.ran > 0 => ~ account.srv \/ verdict = "good"

\* A session comes to its end: get_next_packet and process_reply do not keep
\* the application and a server with a finite agenda talking for ever.
SessionEnds == phase = "call" ~> phase \in {"done", "crashed", "closed"}
=============================================================================
