------------------------------ MODULE Elements ------------------------------
(***************************************************************************)
(* The two lists of protocol elements of a session (dmcore/src/utils.c)    *)
(* and the composition of a message from them (prvComposeMessage in        *)
(* omadmclient.c).                                                         *)
(*                                                                         *)
(*   elem      elem_first .. elem_last: what the next message will hold    *)
(*   old_elem  requests already sent and still without a final status;     *)
(*             the head of the linked list is old_elem[1]                  *)
(*                                                                         *)
(* A cell of old_elem carries the identifiers a status of the server must  *)
(* quote.  The message number is stored in an int8_t, while the number     *)
(* written in the header is an int: sentIn is that full number, kept here  *)
(* so that properties can speak of the two.                                *)
(***************************************************************************)
EXTENDS Integers, Sequences, FiniteSets

CONSTANTS
    Request,        \* Alert and Replace elements, each a distinct allocation
    Status,         \* Status elements
    Results,        \* Results elements
    MsgRef,         \* the message references statuses are tried with
    MaxMessageId,   \* bound on message_id
    MaxElem         \* bound on the length of elem

ASSUME ElementsAssumption ==
    /\ Request \cap (Status \cup Results) = {}
    /\ Status \cap Results = {}
    /\ MsgRef \subseteq Int
    /\ MaxMessageId \in Nat
    /\ MaxElem \in Nat

VARIABLES
    elem,           \* internP->elem_first
    old_elem,       \* internP->old_elem
    message_id,     \* internP->message_id
    issued,         \* history: the requests given to add_element so far
    settled         \* history: the requests freed after a final status

elemVars == <<elem, old_elem, message_id, issued, settled>>

Element == Request \cup Status \cup Results

\* The conversion done by storing an int in the int8_t msg_id of a cell.
Int8(n) == ((n + 128) % 256) - 128

Cell == [element : Request, msg_id : -128 .. 127, cmdID : Nat \ {0}, sentIn : Nat]

\* The status codes that matter here: 101, then 401 and 407; any other code
\* is final.
IN_PROGRESS == 101
INVALID_CREDENTIALS == 401
MISSING_CREDENTIALS == 407
SUCCESS == 200
COMMAND_FAILED == 500

-----------------------------------------------------------------------------
(* List operations of utils.c                                              *)

add_element(list, e) == Append(list, e)

\* refresh_elements: the requests of the list are pushed one by one on the
\* front of old_elem, so the last of them comes first; the rest is freed.
\* In message mid the element at position i was given cmdID i.
RequestAt(list) == {i \in DOMAIN list : list[i] \in Request}

Place(list, i) == Cardinality({j \in RequestAt(list) : j >= i})

CellAt(list, mid, i) ==
    [element |-> list[i], msg_id |-> Int8(mid), cmdID |-> i, sentIn |-> mid]

\* Mutant of Pushed: each push overwrites the one before it.
MutantLastOnly(list, mid) ==
    [k \in 1 .. IF RequestAt(list) = {} THEN 0 ELSE 1 |->
        CellAt(list, mid, CHOOSE i \in RequestAt(list) : Place(list, i) = 1)]

Pushed(list, mid) ==
    [k \in 1 .. Cardinality(RequestAt(list)) |->
        CellAt(list, mid, CHOOSE i \in RequestAt(list) : Place(list, i) = k)]

refresh_elements(list, old, mid) == Pushed(list, mid) \o old

\* retrieve_element: a status names a cell by message and command; a message
\* reference that is not a number is read as -1 and stands for any message.
AnyMessage == -1

\* Mutant of Names: the message is not compared.
MutantAnyMessage(iMsgRef, cmdRef, cell) == cell.cmdID = cmdRef

Names(iMsgRef, cmdRef, cell) ==
    /\ cell.msg_id = iMsgRef \/ iMsgRef = AnyMessage
    /\ cell.cmdID = cmdRef

\* The cell found is the first one named.
Found(old, iMsgRef, cmdRef, k) ==
    /\ k \in DOMAIN old
    /\ Names(iMsgRef, cmdRef, old[k])
    /\ \A j \in DOMAIN old : j < k => ~ Names(iMsgRef, cmdRef, old[j])

Without(old, k) ==
    [j \in 1 .. Len(old) - 1 |-> IF j < k THEN old[j] ELSE old[j + 1]]

\* Mutants of put_back_element: the cell is forgotten; the element is put
\* back in place of its cell.
MutantForgotten(old, cell) == old
MutantBareElement(old, cell) == <<cell.element>> \o old

put_back_element(old, cell) == <<cell>> \o old

\* Mutants of NothingToSay: the count starts one lower; the count starts one
\* higher.
MutantPairOfStatuses(list) == Len(list) <= 2 /\ \A i \in DOMAIN list : list[i] \in Status
MutantLoneStatus(list) == Len(list) = 0

\* prvComposeMessage counts what it encodes: a request or a Results is worth
\* a packet, and so are two Status; a lone Status answers a header only.
NothingToSay(list) ==
    /\ Len(list) <= 1
    /\ \A i \in DOMAIN list : list[i] \in Status

-----------------------------------------------------------------------------
(* Actions                                                                 *)

ElemInit ==
    /\ elem = <<>>
    /\ old_elem = <<>>
    /\ message_id = 0
    /\ issued = {}
    /\ settled = {}

\* A request is created: package #1, or omadmclient_add_generic_alert.
AddRequest(r) ==
    /\ r \notin issued
    /\ elem' = add_element(elem, r)
    /\ issued' = issued \cup {r}
    /\ UNCHANGED <<old_elem, message_id, settled>>

\* A callback answers a command of the server.
AddReply(e) ==
    /\ elem' = add_element(elem, e)
    /\ UNCHANGED <<old_elem, message_id, issued, settled>>

\* prvComposeMessage succeeds (whether it then returns DMCLT_ERR_NONE or
\* DMCLT_ERR_END).
Compose ==
    /\ message_id' = message_id + 1
    /\ old_elem' = refresh_elements(elem, old_elem, message_id')
    /\ elem' = <<>>
    /\ UNCHANGED <<issued, settled>>

\* The toolkit refuses an element (workspace full): the number is consumed,
\* the list is kept and goes out, numbered anew, with the next message.
ComposeFails ==
    /\ message_id' = message_id + 1
    /\ UNCHANGED <<elem, old_elem, issued, settled>>

\* The command part of prv_status_cmd_cb (cmdRef other than "0").
StatusForCommand(iMsgRef, cmdRef, code) ==
    \E k \in DOMAIN old_elem :
        /\ Found(old_elem, iMsgRef, cmdRef, k)
        /\ \/ /\ code = IN_PROGRESS
              /\ old_elem' = put_back_element(Without(old_elem, k), old_elem[k])
              /\ UNCHANGED <<elem, settled>>
           \/ /\ code \in {INVALID_CREDENTIALS, MISSING_CREDENTIALS}
              /\ old_elem' = Without(old_elem, k)
              /\ elem' = add_element(elem, old_elem[k].element)
              /\ UNCHANGED settled
           \/ /\ code \notin {IN_PROGRESS, INVALID_CREDENTIALS, MISSING_CREDENTIALS}
              /\ old_elem' = Without(old_elem, k)
              /\ settled' = settled \cup {old_elem[k].element}
              /\ UNCHANGED elem
        /\ UNCHANGED <<message_id, issued>>

\* What a server may quote, rightly or wrongly.
CmdRef == 1 .. MaxElem
StatusCode == {IN_PROGRESS, SUCCESS, INVALID_CREDENTIALS, MISSING_CREDENTIALS,
               COMMAND_FAILED}

ElemNext ==
    \/ /\ Len(elem) < MaxElem
       /\ \/ \E r \in Request : AddRequest(r)
          \/ \E e \in Status \cup Results : AddReply(e)
    \/ message_id < MaxMessageId /\ (Compose \/ ComposeFails)
    \/ \E m \in MsgRef, c \in CmdRef, code \in StatusCode :
           /\ code \in {INVALID_CREDENTIALS, MISSING_CREDENTIALS} => Len(elem) < MaxElem
           /\ StatusForCommand(m, c, code)

ElemSpec == ElemInit /\ [][ElemNext]_elemVars
-----------------------------------------------------------------------------
(* Properties                                                              *)

Queued(r) == \E i \in DOMAIN elem : elem[i] = r
Outstanding(r) == \E k \in DOMAIN old_elem : old_elem[k].element = r

\* Types of the lists and counters.
ElemTypeOK ==
    /\ elem \in Seq(Element)
    /\ old_elem \in Seq(Cell)
    /\ message_id \in Nat
    /\ issued \subseteq Request
    /\ settled \subseteq Request

\* No request is lost, freed early or listed twice: until its final status a
\* request is in exactly one cell of exactly one of the two lists, whatever
\* statuses come back and in whatever order; afterwards it is in none.
NoRequestLost ==
    /\ \A r \in Request : (r \in issued /\ r \notin settled) <=> (Queued(r) \/ Outstanding(r))
    /\ \A r \in Request : ~ (Queued(r) /\ Outstanding(r))
    /\ \A i, j \in DOMAIN elem : elem[i] = elem[j] /\ elem[i] \in Request => i = j
    /\ \A k, l \in DOMAIN old_elem : old_elem[k].element = old_elem[l].element => k = l
    /\ settled \subseteq issued

\* The server quotes the number it read in the header.  As long as fewer than
\* 256 messages were composed, such a status reaches the request it is about
\* and no other, for every request sent in one of the first 127 messages.
\* (Later messages are stored under a negative msg_id, which no status quotes.)
AnswerReachesItsRequest ==
    message_id <= 256 =>
        \A k \in DOMAIN old_elem :
            old_elem[k].sentIn <= 127 =>
                Found(old_elem, old_elem[k].sentIn, old_elem[k].cmdID, k)

\* The requests as Delivery.tla sees them.
FateOf(r) ==
    IF r \in settled THEN "settled"
    ELSE IF Outstanding(r) THEN "sent"
    ELSE IF Queued(r) THEN "queued" ELSE "new"

fateBar == [r \in Request |-> FateOf(r)]

Abstract == INSTANCE Delivery WITH fate <- fateBar

\* Every step of the lists is a step of the delivery promise or changes
\* nothing in it.
DeliversRequests == Abstract!DeliverySpec
=============================================================================
