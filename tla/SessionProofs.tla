--------------------------- MODULE SessionProofs ----------------------------
(***************************************************************************)
(* Proofs about Session: an END loses no answer, only an authenticated     *)
(* server acts, the fields of a session are well typed, and its requests   *)
(* survive everything it does with the two lists; as long as no Sequence   *)
(* is inside another, the commands of a Sequence obey the user, and every  *)
(* command of a reply gets its answers.  The lemmas on the list operations *)
(* are those of ElementsProofs.                                            *)
(***************************************************************************)
EXTENDS Session, FiniteSetTheorems, SequenceTheorems, TLAPS

-----------------------------------------------------------------------------
(* Sequences of anything                                                   *)

IsSeq(s) == s \in Seq({s[i] : i \in DOMAIN s})

\* A sequence over some set is a sequence of anything.
LEMMA SeqIsSeq ==
  ASSUME NEW S, NEW s \in Seq(S)
  PROVE  IsSeq(s)
<1>1. s \in [1 .. Len(s) -> S] /\ Len(s) \in Nat /\ DOMAIN s = 1 .. Len(s)
  BY LenProperties
<1> DEFINE T == {s[i] : i \in DOMAIN s}
<1>2. s \in [1 .. Len(s) -> T]
  BY <1>1
<1> HIDE DEF T
<1>3. s \in Seq(T)
  BY <1>1, <1>2, IsASeq
<1> QED
  BY <1>3 DEF IsSeq, T

\* Joining sequences keeps the first part in its place.
LEMMA ConcatKeeps ==
  ASSUME NEW p, NEW q, IsSeq(p), IsSeq(q)
  PROVE  /\ IsSeq(p \o q)
         /\ Len(p \o q) = Len(p) + Len(q) /\ Len(p) \in Nat /\ Len(q) \in Nat
         /\ \A i \in DOMAIN p : i \in DOMAIN (p \o q) /\ (p \o q)[i] = p[i]
         /\ \A i \in DOMAIN (p \o q) :
                \/ i \in DOMAIN p
                \/ \E j \in DOMAIN q : (p \o q)[i] = q[j]
<1> DEFINE S == {p[i] : i \in DOMAIN p} \cup {q[i] : i \in DOMAIN q}
<1>1. p \in Seq(S) /\ q \in Seq(S)
  <2>1. /\ p \in [1 .. Len(p) -> {p[i] : i \in DOMAIN p}] /\ Len(p) \in Nat
        /\ q \in [1 .. Len(q) -> {q[i] : i \in DOMAIN q}] /\ Len(q) \in Nat
    BY LenProperties DEF IsSeq
  <2>2. p \in [1 .. Len(p) -> S] /\ q \in [1 .. Len(q) -> S]
    BY <2>1
  <2> HIDE DEF S
  <2>3. p \in Seq(S)
    BY <2>1, <2>2, IsASeq
  <2>4. q \in Seq(S)
    BY <2>1, <2>2, IsASeq
  <2> QED
    BY <2>3, <2>4
<1>2. /\ p \o q \in Seq(S)
      /\ Len(p \o q) = Len(p) + Len(q)
      /\ \A k \in 1 .. Len(p) + Len(q) :
            (p \o q)[k] = IF k <= Len(p) THEN p[k] ELSE q[k - Len(p)]
  BY <1>1, ConcatProperties
<1>3. /\ DOMAIN p = 1 .. Len(p) /\ DOMAIN q = 1 .. Len(q)
      /\ DOMAIN (p \o q) = 1 .. Len(p) + Len(q) /\ Len(p) \in Nat /\ Len(q) \in Nat
  BY <1>1, <1>2, LenProperties
<1>4. \A i \in DOMAIN p : i \in DOMAIN (p \o q) /\ (p \o q)[i] = p[i]
  BY <1>2, <1>3
<1>5. ASSUME NEW i \in DOMAIN (p \o q), i \notin DOMAIN p
      PROVE  \E j \in DOMAIN q : (p \o q)[i] = q[j]
  <2>1. i - Len(p) \in DOMAIN q /\ (p \o q)[i] = q[i - Len(p)]
    BY <1>2, <1>3, <1>5
  <2> QED
    BY <2>1
<1> QED
  BY <1>2, <1>3, <1>4, <1>5, SeqIsSeq

\* Appending is joining a sequence of one.
LEMMA AppendKeeps ==
  ASSUME NEW p, NEW e, IsSeq(p)
  PROVE  /\ IsSeq(Append(p, e))
         /\ \A i \in DOMAIN p : i \in DOMAIN Append(p, e) /\ Append(p, e)[i] = p[i]
         /\ \E i \in DOMAIN Append(p, e) : Append(p, e)[i] = e
         /\ \A i \in DOMAIN Append(p, e) : i \in DOMAIN p \/ Append(p, e)[i] = e
<1> DEFINE S == {p[i] : i \in DOMAIN p} \cup {e}
<1>1. p \in Seq(S)
  <2>1. p \in [1 .. Len(p) -> {p[i] : i \in DOMAIN p}] /\ Len(p) \in Nat
    BY LenProperties DEF IsSeq
  <2>2. p \in [1 .. Len(p) -> S]
    BY <2>1
  <2> QED
    BY <2>1, <2>2, IsASeq
<1>2. /\ Append(p, e) \in Seq(S)
      /\ Len(Append(p, e)) = Len(p) + 1
      /\ \A i \in 1 .. Len(p) : Append(p, e)[i] = p[i]
      /\ Append(p, e)[Len(p) + 1] = e
  BY <1>1, AppendProperties
<1>3. /\ DOMAIN p = 1 .. Len(p) /\ DOMAIN Append(p, e) = 1 .. Len(p) + 1 /\ Len(p) \in Nat
  BY <1>1, <1>2, LenProperties
<1>4. Len(p) + 1 \in DOMAIN Append(p, e)
  BY <1>3
<1>5. \A i \in DOMAIN p : i \in DOMAIN Append(p, e) /\ Append(p, e)[i] = p[i]
  BY <1>2, <1>3
<1>6. \A i \in DOMAIN Append(p, e) : i \in DOMAIN p \/ Append(p, e)[i] = e
  BY <1>2, <1>3
<1> QED
  BY <1>2, <1>4, <1>5, <1>6, SeqIsSeq

-----------------------------------------------------------------------------
(* An END loses no answer                                                  *)

HasHeader(list) == \E i \in DOMAIN list : IsHeaderStatus(list[i])
Owes(list) == \E i \in DOMAIN list : list[i] \notin RequestElem /\ ~ IsHeaderStatus(list[i])

\* Whatever answers a command shares the list with the status of a header, so
\* that together they are worth a packet.
HeaderInv ==
    /\ starts \in 0 .. MaxStarts
    /\ IsSeq(elem)
    /\ Owes(elem) => HasHeader(elem)
    /\ phase = "reply" => HasHeader(elem)

\* The ways a step may change the list.
Kept == elem' = elem /\ (phase' = "reply" => phase = "reply")
Emptied == elem' = <<>> /\ phase' # "reply"
Requested == \E q : /\ IsSeq(q) /\ \A i \in DOMAIN q : q[i] \in RequestElem
                    /\ elem' = elem \o q /\ phase' # "reply"
Answered == \E q : IsSeq(q) /\ elem' = elem \o q /\ phase = "reply"
Headed == \E e : IsHeaderStatus(e) /\ elem' = Append(elem, e)

Shape == Kept \/ Emptied \/ Requested \/ Answered \/ Headed

\* HeaderInv is preserved by any change of these shapes.
LEMMA ShapeKeepsHeader ==
  ASSUME HeaderInv, Shape, starts' \in 0 .. MaxStarts
  PROVE  HeaderInv'
<1> USE DEF HeaderInv
<1>1. CASE Kept
  BY <1>1 DEF Kept, Owes, HasHeader, IsSeq
<1>2. CASE Emptied
  <2>1. IsSeq(<<>>)
    BY EmptySeq, SeqIsSeq
  <2> QED
    BY <1>2, <2>1 DEF Emptied, Owes, HasHeader, IsSeq
<1>3. CASE Requested
  <2>1. PICK q : /\ IsSeq(q) /\ \A i \in DOMAIN q : q[i] \in RequestElem
                 /\ elem' = elem \o q /\ phase' # "reply"
    BY <1>3 DEF Requested
  <2>2. /\ IsSeq(elem')
        /\ \A i \in DOMAIN elem : i \in DOMAIN elem' /\ elem'[i] = elem[i]
        /\ \A i \in DOMAIN elem' : i \in DOMAIN elem \/ \E j \in DOMAIN q : elem'[i] = q[j]
    BY <2>1, ConcatKeeps
  <2>3. Owes(elem') => Owes(elem)
    BY <2>1, <2>2 DEF Owes
  <2>4. HasHeader(elem) => HasHeader(elem')
    BY <2>2 DEF HasHeader
  <2> QED
    BY <2>1, <2>2, <2>3, <2>4 DEF Owes, HasHeader, IsSeq
<1>4. CASE Answered
  <2>1. PICK q : IsSeq(q) /\ elem' = elem \o q /\ phase = "reply"
    BY <1>4 DEF Answered
  <2>2. IsSeq(elem') /\ \A i \in DOMAIN elem : i \in DOMAIN elem' /\ elem'[i] = elem[i]
    BY <2>1, ConcatKeeps
  <2>3. HasHeader(elem')
    BY <2>1, <2>2 DEF HasHeader
  <2> QED
    BY <2>2, <2>3 DEF Owes, HasHeader, IsSeq
<1>5. CASE Headed
  <2>1. PICK e : IsHeaderStatus(e) /\ elem' = Append(elem, e)
    BY <1>5 DEF Headed
  <2>2. IsSeq(elem') /\ \E i \in DOMAIN elem' : elem'[i] = e
    BY <2>1, AppendKeeps
  <2>3. HasHeader(elem')
    BY <2>1, <2>2 DEF HasHeader
  <2> QED
    BY <2>2, <2>3 DEF Owes, HasHeader, IsSeq
<1> QED
  BY <1>1, <1>2, <1>3, <1>4, <1>5 DEF Shape

\* One element is a sequence of anything, and appending it is joining it.
LEMMA OneElement ==
  ASSUME NEW e
  PROVE  IsSeq(<<e>>) /\ DOMAIN <<e>> = {1} /\ <<e>>[1] = e
<1>1. <<e>> \in Seq({e})
  OBVIOUS
<1>2. IsSeq(<<e>>)
  BY <1>1, SeqIsSeq
<1>3. DOMAIN <<e>> = {1} /\ <<e>>[1] = e
  OBVIOUS
<1> QED
  BY <1>2, <1>3

LEMMA AppendJoins ==
  ASSUME NEW p, NEW e, IsSeq(p)
  PROVE  Append(p, e) = p \o <<e>>
<1> DEFINE S == {p[i] : i \in DOMAIN p} \cup {e}
<1>1. p \in Seq(S)
  <2>1. p \in [1 .. Len(p) -> {p[i] : i \in DOMAIN p}] /\ Len(p) \in Nat
    BY LenProperties DEF IsSeq
  <2>2. p \in [1 .. Len(p) -> S]
    BY <2>1
  <2> QED
    BY <2>1, <2>2, IsASeq
<1>2. e \in S
  OBVIOUS
<1> QED
  BY <1>1, <1>2, AppendIsConcat

-----------------------------------------------------------------------------
(* The steps of the session have these shapes                              *)

LEMMA StatusesAreSeq ==
  ASSUME NEW n \in Nat, NEW codes, DOMAIN codes = 1 .. n, NEW msg, NEW cmd
  PROVE  IsSeq(StatusPerItem(msg, cmd, codes))
<1> DEFINE s == StatusPerItem(msg, cmd, codes)
           T == {create_status(msg, codes[i], cmd) : i \in 1 .. n}
<1>1. s \in [1 .. n -> T]
  BY DEF StatusPerItem
<1> HIDE DEF s, T
<1>2. s \in Seq(T)
  BY <1>1, IsASeq
<1>3. IsSeq(s)
  BY <1>2, SeqIsSeq
<1> QED
  BY <1>3 DEF s

\* A tree command answers while a reply is processed, or answers nothing.
LEMMA TreeCommandShape ==
  ASSUME NEW op \in TreeOp, NEW codes \in Codes, TreeCommand(op, codes)
  PROVE  Shape
<1> DEFINE read == Cardinality({i \in DOMAIN codes : codes[i] = SUCCESS})
           results == [type |-> "Results", msgRef |-> reply_ref, cmdRef |-> nextCmd,
                       items |-> read]
           none == [i \in DOMAIN codes |-> NOT_EXECUTED]
           tail == IF op = "Get" /\ read > 0 THEN <<results>> ELSE <<>>
<1>1. PICK n \in 0 .. MaxItems : codes \in [1 .. n -> TreeCode]
  BY DEF Codes
<1>2. n \in Nat /\ DOMAIN codes = 1 .. n /\ DOMAIN none = 1 .. n
  BY <1>1, SessionAssumption
<1>3. IsSeq(tail)
  <2>1. IsSeq(<<>>)
    BY EmptySeq, SeqIsSeq
  <2> QED
    BY <2>1, OneElement
<1>4. phase = "reply" /\ phase' = phase
  BY DEF TreeCommand, Command
<1>5. CASE UNCHANGED elem
  BY <1>4, <1>5 DEF Shape, Kept
<1>6. CASE elem' = elem \o <<create_status(reply_ref, srv_auth, nextCmd)>>
  BY <1>4, <1>6, OneElement DEF Shape, Answered
<1>7. CASE elem' = elem \o StatusPerItem(reply_ref, nextCmd, none)
  <2>1. IsSeq(StatusPerItem(reply_ref, nextCmd, none))
    BY <1>2, StatusesAreSeq
  <2> QED
    BY <2>1, <1>4, <1>7 DEF Shape, Answered
<1>8. CASE elem' = elem \o (StatusPerItem(reply_ref, nextCmd, codes) \o tail)
  <2>1. IsSeq(StatusPerItem(reply_ref, nextCmd, codes) \o tail)
    BY <1>2, <1>3, StatusesAreSeq, ConcatKeeps
  <2> QED
    BY <2>1, <1>4, <1>8 DEF Shape, Answered
<1> QED
  BY <1>5, <1>6, <1>7, <1>8 DEF TreeCommand, Answer

\* package #1 is made of requests.
LEMMA Packet1Requests ==
  ASSUME NEW devInfo, starts \in 0 .. MaxStarts
  PROVE  /\ IsSeq(prvCreatePacket1(devInfo))
         /\ \A i \in DOMAIN prvCreatePacket1(devInfo) : prvCreatePacket1(devInfo)[i] \in RequestElem
<1> DEFINE two == <<[type |-> "Alert", n |-> starts], [type |-> "Replace", n |-> starts]>>
<1>1. two \in Seq(RequestElem)
  <2>1. starts \in 0 .. MaxStarts + MaxGeneric
    BY SessionAssumption
  <2> QED
    BY <2>1 DEF RequestElem
<1>2. IsSeq(two) /\ \A i \in DOMAIN two : two[i] \in RequestElem
  BY <1>1, SeqIsSeq, ElementOfSeq, LenProperties
<1>3. IsSeq(<<>>)
  BY EmptySeq, SeqIsSeq
<1>4. \A i \in DOMAIN <<>> : <<>>[i] \in RequestElem
  OBVIOUS
<1> QED
  BY <1>2, <1>3, <1>4 DEF prvCreatePacket1

\* What the application does.
LEMMA ApplicationShape ==
  ASSUME HeaderInv, Application
  PROVE  Shape /\ starts' \in 0 .. MaxStarts
<1> USE DEF HeaderInv
<1>1. CASE omadmclient_set_UI_callback
  BY <1>1 DEF omadmclient_set_UI_callback, Shape, Kept, listVars
<1>2. ASSUME NEW n \in 1 .. MaxGeneric, omadmclient_add_generic_alert(n)
      PROVE  Shape /\ starts' \in 0 .. MaxStarts
  <2> DEFINE alert == [type |-> "Generic", n |-> n]
  <2>1. alert \in RequestElem
    <3>1. n \in 0 .. MaxStarts + MaxGeneric
      BY SessionAssumption
    <3> QED
      BY <3>1 DEF RequestElem
  <2>2. /\ elem' = Append(elem, alert) /\ phase' = phase /\ phase # "reply" /\ starts' = starts
    BY <1>2 DEF omadmclient_add_generic_alert, add_element, Between, appVars
  <2>3. /\ elem' = elem \o <<alert>> /\ IsSeq(<<alert>>)
        /\ \A i \in DOMAIN <<alert>> : <<alert>>[i] \in RequestElem
    BY <2>1, <2>2, AppendJoins, OneElement
  <2> QED
    BY <2>2, <2>3 DEF Shape, Requested
<1>3. ASSUME NEW a, CanStart, Started(a), phase' \in {"call", "idle"}
      PROVE  Shape /\ starts' \in 0 .. MaxStarts
  <2>1. elem' = elem /\ phase' # "reply" /\ starts' = starts + 1 /\ starts < MaxStarts
    BY <1>3 DEF Started, CanStart
  <2> QED
    BY <2>1, SessionAssumption DEF Shape, Kept
<1>4. ASSUME CanStart, StartFails
      PROVE  Shape /\ starts' \in 0 .. MaxStarts
  <2>1. elem' = elem /\ phase' # "reply" /\ starts' = starts + 1 /\ starts < MaxStarts
    BY <1>4 DEF StartFails, CanStart, listVars
  <2> QED
    BY <2>1, SessionAssumption DEF Shape, Kept
<1>5. ASSUME NEW a \in Accounts, omadmclient_session_start(a)
      PROVE  Shape /\ starts' \in 0 .. MaxStarts
  BY <1>3, <1>5 DEF omadmclient_session_start
<1>6. CASE omadmclient_session_start_fails
  BY <1>4, <1>6 DEF omadmclient_session_start_fails
<1>7. CASE omadmclient_session_start_on_alert
  BY <1>3, <1>4, <1>7 DEF omadmclient_session_start_on_alert
<1>8. ASSUME NEW devInfo \in DevInfo, omadmclient_get_next_packet(devInfo)
      PROVE  Shape /\ starts' \in 0 .. MaxStarts
  <2> DEFINE new == prvCreatePacket1(devInfo)
  <2>1. IsSeq(new) /\ \A i \in DOMAIN new : new[i] \in RequestElem
    BY Packet1Requests
  <2>2. /\ elem' = <<>> \/ elem' = elem \o new
        /\ phase' # "reply" /\ starts' = starts
    BY <1>8 DEF omadmclient_get_next_packet, ComposeError
  <2> QED
    BY <2>1, <2>2 DEF Shape, Emptied, Requested
<1>9. CASE get_next_packet_usage
  BY <1>9 DEF get_next_packet_usage, Shape, Kept, listVars, appVars
<1>10. CASE omadmclient_session_close
  BY <1>10 DEF omadmclient_session_close, Shape, Emptied
<1> QED
  BY <1>1, <1>2, <1>5, <1>6, <1>7, <1>8, <1>9, <1>10 DEF Application, NextPacket

\* What the toolkit and the server make the callbacks do.
LEMMA ReplyShape ==
  ASSUME HeaderInv,
         Reply \/ start_message_crash \/ reply_lost \/ process_reply_fails
           \/ ServerCommand \/ ServerStatus \/ Finish
  PROVE  Shape /\ starts' = starts
<1> USE DEF HeaderInv
<1>1. ASSUME NEW cred, prv_start_message_cb(cred)
      PROVE  Shape /\ starts' = starts
  <2> DEFINE st == create_status(reply_ref', srv_auth', 0)
  <2>1. elem' = Append(elem, st) /\ starts' = starts
    BY <1>1 DEF prv_start_message_cb, add_element, appVars
  <2>2. IsHeaderStatus(st)
    BY DEF IsHeaderStatus, create_status
  <2> QED
    BY <2>1, <2>2 DEF Shape, Headed
<1>2. CASE start_message_crash \/ reply_lost
  BY <1>2 DEF start_message_crash, reply_lost, Shape, Kept, listVars, appVars
<1>3. CASE process_reply_fails
  BY <1>3 DEF process_reply_fails, Shape, Kept, listVars, appVars
<1>4. ASSUME NEW op \in TreeOp, NEW codes \in Codes, TreeCommand(op, codes)
      PROVE  Shape /\ starts' = starts
  <2>1. starts' = starts
    BY <1>4 DEF TreeCommand, Command, appVars
  <2> QED
    BY <2>1, <1>4, TreeCommandShape
<1>5. ASSUME NEW ui, NEW code, prv_alert_cmd_cb(ui, code)
      PROVE  Shape /\ starts' = starts
  <2>1. /\ phase = "reply" /\ phase' = phase /\ starts' = starts
        /\ \/ elem' = elem
           \/ \E c : elem' = elem \o <<create_status(reply_ref, c, nextCmd)>>
    BY <1>5 DEF prv_alert_cmd_cb, Command, Answer, appVars
  <2> QED
    BY <2>1, OneElement DEF Shape, Kept, Answered
<1>6. CASE prv_start_atomic_cb
  <2>1. /\ phase = "reply" /\ phase' = phase /\ starts' = starts
        /\ \/ elem' = elem
           \/ elem' = elem \o <<create_status(reply_ref, srv_auth, nextCmd)>>
    BY <1>6 DEF prv_start_atomic_cb, Command, Answer, appVars
  <2> QED
    BY <2>1, OneElement DEF Shape, Kept, Answered
<1>7. CASE prv_start_sequence_cb
  BY <1>7 DEF prv_start_sequence_cb, Command, appVars, Shape, Kept
<1>8. ASSUME NEW cmdRef, prv_end_sequence_cb(cmdRef)
      PROVE  Shape /\ starts' = starts
  <2>1. /\ phase = "reply" /\ starts' = starts
        /\ elem' = elem \o <<create_status(reply_ref, seq_code, cmdRef)>>
    BY <1>8 DEF prv_end_sequence_cb, Answer, appVars
  <2> QED
    BY <2>1, OneElement DEF Shape, Answered
<1>9. CASE end_sequence_crash \/ prv_end_atomic_cb \/ prv_end_message_cb
  BY <1>9 DEF end_sequence_crash, prv_end_atomic_cb, prv_end_message_cb, Shape, Kept, listVars,
              appVars
<1>10. ASSUME NEW code, status_header(code)
       PROVE  Shape /\ starts' = starts
  BY <1>10 DEF status_header, Shape, Kept, listVars, appVars
<1>11. ASSUME NEW m, NEW c, NEW code, prv_status_cmd_cb(m, c, code)
       PROVE  Shape /\ starts' = starts
  <2>1. /\ phase = "reply" /\ phase' = phase /\ starts' = starts
        /\ elem' = elem \/ \E e : elem' = Append(elem, e)
    BY <1>11 DEF prv_status_cmd_cb, StatusForCommand, add_element, appVars
  <2> QED
    BY <2>1, OneElement, AppendJoins DEF Shape, Kept, Answered
<1> QED
  BY <1>1, <1>2, <1>3, <1>4, <1>5, <1>6, <1>7, <1>8, <1>9, <1>10, <1>11
     DEF Reply, ServerCommand, ServerStatus, Finish

LEMMA HeaderInvInit == SessionInit => HeaderInv
<1> SUFFICES ASSUME SessionInit PROVE HeaderInv
  OBVIOUS
<1>1. IsSeq(<<>>)
  BY EmptySeq, SeqIsSeq
<1> QED
  BY <1>1, SessionAssumption DEF SessionInit, ElemInit, HeaderInv, Owes

LEMMA HeaderInvNext == HeaderInv /\ [SessionNext]_vars => HeaderInv'
<1> SUFFICES ASSUME HeaderInv, [SessionNext]_vars PROVE HeaderInv'
  OBVIOUS
<1>1. CASE Application
  BY <1>1, ApplicationShape, ShapeKeepsHeader
<1>2. CASE Reply \/ start_message_crash \/ reply_lost \/ process_reply_fails
             \/ ServerCommand \/ ServerStatus \/ Finish
  <2>1. Shape /\ starts' = starts
    BY <1>2, ReplyShape
  <2>2. starts' \in 0 .. MaxStarts
    BY <2>1 DEF HeaderInv
  <2> QED
    BY <2>1, <2>2, ShapeKeepsHeader
<1>3. CASE UNCHANGED vars
  BY <1>3 DEF vars, listVars, appVars, HeaderInv, Owes, HasHeader, IsSeq
<1> QED
  BY <1>1, <1>2, <1>3 DEF SessionNext

\* The step that says END.
LEMMA EndStep ==
  ASSUME HeaderInv, SessionNext, ret # "END", ret' = "END"
  PROVE  \A i \in DOMAIN elem : IsHeaderStatus(elem[i])
<1>1. PICK devInfo \in DevInfo : omadmclient_get_next_packet(devInfo)
  BY DEF SessionNext, Application, NextPacket, Reply, ServerCommand, ServerStatus, Finish,
         omadmclient_set_UI_callback, omadmclient_add_generic_alert, omadmclient_session_start,
         omadmclient_session_start_fails, omadmclient_session_start_on_alert, StartFails,
         get_next_packet_usage, omadmclient_session_close, prv_start_message_cb,
         start_message_crash, reply_lost, process_reply_fails, TreeCommand, Command,
         prv_alert_cmd_cb, prv_start_atomic_cb, prv_start_sequence_cb, prv_end_atomic_cb,
         prv_end_sequence_cb, end_sequence_crash, prv_end_message_cb, status_header,
         prv_status_cmd_cb
<1> DEFINE new == prvCreatePacket1(devInfo)
           list == elem \o new
<1>2. NothingToSay(list)
  BY <1>1 DEF omadmclient_get_next_packet
<1>3. /\ IsSeq(elem) /\ IsSeq(new)
  BY Packet1Requests DEF HeaderInv
<1>4. /\ Len(list) = Len(elem) + Len(new) /\ Len(elem) \in Nat /\ Len(new) \in Nat
      /\ \A i \in DOMAIN elem : i \in DOMAIN list /\ list[i] = elem[i]
  BY <1>3, ConcatKeeps
<1>5. Len(elem) <= 1 /\ DOMAIN elem = 1 .. Len(elem)
  BY <1>2, <1>3, <1>4, LenProperties DEF NothingToSay, IsSeq
<1>6. \A i \in DOMAIN elem : elem[i] \in StatusElem
  BY <1>2, <1>4 DEF NothingToSay
<1> SUFFICES ASSUME NEW i \in DOMAIN elem, ~ IsHeaderStatus(elem[i])
             PROVE  FALSE
  OBVIOUS
<1>7. elem[i] \notin RequestElem
  BY <1>6 DEF StatusElem, RequestElem
<1>8. PICK j \in DOMAIN elem : IsHeaderStatus(elem[j])
  BY <1>7 DEF HeaderInv, Owes, HasHeader
<1>9. i = j
  BY <1>4, <1>5
<1> QED
  BY <1>8, <1>9

\* When get_next_packet says END, nothing but the status of a header is taken
\* off the list unsent, in any session, with any server and any errors.
THEOREM EndLosesNoAnswer == SessionSpec => EndLosesNothing
<1>1. HeaderInv /\ [SessionNext]_vars =>
        [ret # "END" /\ ret' = "END" => \A i \in DOMAIN elem : IsHeaderStatus(elem[i])]_vars
  BY EndStep
<1> QED
  BY <1>1, HeaderInvInit, HeaderInvNext, PTL DEF SessionSpec, EndLosesNothing

-----------------------------------------------------------------------------
(* Only an authenticated server acts                                       *)

\* In the first session, srv_auth is what the last credentials were worth, and
\* it stays what it is while the commands of a reply are processed.
AuthInv ==
    /\ starts \in Nat
    /\ starts = 0 => srv_auth = NONE /\ ~ account.alloc /\ phase \in {"idle", "closed"}
    /\ starts = 1 /\ Accepted => ~ account.srv \/ verdict = "good"
    /\ IsSeq(log)
    /\ phase = "reply" => \A i \in DOMAIN log : log[i].ran > 0 => Accepted

\* Steps that leave the authentication and the log alone, and that do not
\* open a reply.
Quiet ==
    /\ UNCHANGED <<srv_auth, verdict, account, starts, log>>
    /\ phase' = "reply" => phase = "reply"
    /\ starts = 0 => phase' \in {"idle", "closed"}

LEMMA QuietKeepsAuth ==
  ASSUME AuthInv, Quiet
  PROVE  AuthInv'
BY DEF AuthInv, Quiet, Accepted, IsSeq

\* A command is logged as run only if the server is accepted.
LEMMA CommandKeepsAuth ==
  ASSUME AuthInv, NEW op, NEW items, NEW ran, NEW said, Command(op, items, ran, said),
         ran > 0 => Accepted
  PROVE  AuthInv'
<1> DEFINE e == [cmd |-> nextCmd, op |-> op, within |-> Enclosing,
                 items |-> items, ran |-> ran, said |-> said]
<1>1. /\ phase = "reply" /\ phase' = phase /\ log' = Append(log, e) /\ e.ran = ran
      /\ UNCHANGED <<srv_auth, verdict, account, starts>>
  BY DEF Command, appVars, authVars
<1>2. /\ IsSeq(log')
      /\ \A i \in DOMAIN log : i \in DOMAIN log' /\ log'[i] = log[i]
      /\ \A i \in DOMAIN log' : i \in DOMAIN log \/ log'[i] = e
  BY <1>1, AppendKeeps DEF AuthInv
<1>3. \A i \in DOMAIN log' : log'[i].ran > 0 => Accepted
  BY <1>1, <1>2 DEF AuthInv
<1> HIDE DEF e
<1> QED
  BY <1>1, <1>2, <1>3 DEF AuthInv, Accepted, IsSeq

LEMMA AuthInvInit == SessionInit => AuthInv
<1> SUFFICES ASSUME SessionInit PROVE AuthInv
  OBVIOUS
<1>1. IsSeq(<<>>)
  BY EmptySeq, SeqIsSeq
<1> QED
  BY <1>1 DEF SessionInit, AuthInv, Accepted, AUTHENTICATION_ACCEPTED, NONE, NoAccount

LEMMA AuthInvApplication ==
  ASSUME AuthInv, Application
  PROVE  AuthInv'
<1>1. CASE omadmclient_set_UI_callback
  BY <1>1, QuietKeepsAuth DEF omadmclient_set_UI_callback, Quiet, authVars, rxVars, AuthInv
<1>2. ASSUME NEW n \in 1 .. MaxGeneric, omadmclient_add_generic_alert(n)
      PROVE  AuthInv'
  BY <1>2, QuietKeepsAuth DEF omadmclient_add_generic_alert, Quiet, appVars, authVars, rxVars,
                              AuthInv
<1>3. ASSUME NEW a \in Accounts, Started(a), phase' \in {"call", "idle"}
      PROVE  AuthInv'
  <2>1. /\ starts' = starts + 1 /\ starts \in Nat /\ log' = log
        /\ account'.srv = a.srv
        /\ srv_auth' = IF a.srv THEN srv_auth ELSE AUTHENTICATION_ACCEPTED
    BY <1>3 DEF Started, Filled, rxVars, AuthInv
  <2>2. starts' = 1 /\ Accepted' => ~ account'.srv
    BY <2>1 DEF AuthInv, Accepted, NONE, AUTHENTICATION_ACCEPTED
  <2> QED
    BY <2>1, <2>2, <1>3 DEF AuthInv, IsSeq
<1>4. ASSUME StartFails
      PROVE  AuthInv'
  <2>1. /\ starts' = starts + 1 /\ starts \in Nat /\ log' = log /\ phase' = "idle"
        /\ srv_auth' = srv_auth /\ verdict' = verdict
    BY <1>4 DEF StartFails, rxVars, authVars, AuthInv
  <2>2. ~ (starts' = 1 /\ Accepted')
    BY <2>1 DEF AuthInv, Accepted, NONE, AUTHENTICATION_ACCEPTED
  <2> QED
    BY <2>1, <2>2 DEF AuthInv, IsSeq
<1>5. ASSUME NEW a \in Accounts, omadmclient_session_start(a)
      PROVE  AuthInv'
  BY <1>3, <1>5 DEF omadmclient_session_start
<1>6. CASE omadmclient_session_start_fails
  BY <1>4, <1>6 DEF omadmclient_session_start_fails
<1>7. CASE omadmclient_session_start_on_alert
  BY <1>3, <1>4, <1>7 DEF omadmclient_session_start_on_alert
<1>8. ASSUME NEW devInfo \in DevInfo, omadmclient_get_next_packet(devInfo)
      PROVE  AuthInv'
  <2>1. /\ UNCHANGED <<srv_auth, verdict, account, starts, log>>
        /\ phase' # "reply" /\ account.alloc
    BY <1>8 DEF omadmclient_get_next_packet, authVars, rxVars
  <2> QED
    BY <2>1, QuietKeepsAuth DEF Quiet, AuthInv
<1>9. CASE get_next_packet_usage
  BY <1>9, QuietKeepsAuth DEF get_next_packet_usage, Quiet, appVars, authVars, rxVars, AuthInv
<1>10. CASE omadmclient_session_close
  <2>1. /\ srv_auth' = NONE /\ account' = NoAccount /\ phase' = "closed" /\ log' = log
        /\ starts' = starts
    BY <1>10 DEF omadmclient_session_close
  <2> QED
    BY <2>1 DEF AuthInv, Accepted, NONE, AUTHENTICATION_ACCEPTED, NoAccount, IsSeq
<1> QED
  BY <1>1, <1>2, <1>5, <1>6, <1>7, <1>8, <1>9, <1>10 DEF Application, NextPacket

LEMMA AuthInvReply ==
  ASSUME AuthInv,
         Reply \/ start_message_crash \/ reply_lost \/ process_reply_fails
           \/ ServerCommand \/ ServerStatus \/ Finish
  PROVE  AuthInv'
<1> USE DEF appVars, authVars, rxVars
<1>1. ASSUME NEW cred \in {"none", "good", "bad"}, prv_start_message_cb(cred)
      PROVE  AuthInv'
  <2>1. /\ phase = "wait" /\ phase' = "reply" /\ log' = <<>> /\ starts' = starts
        /\ account' = account
        /\ srv_auth' = check_credentials(cred)
        /\ verdict' = IF cred = "none" THEN verdict ELSE cred
    BY <1>1 DEF prv_start_message_cb
  <2>2. starts' = 1 /\ Accepted' => ~ account'.srv \/ verdict' = "good"
    BY <1>1, <2>1 DEF AuthInv, Accepted, check_credentials, prv_start_message_cb,
                      INVALID_CREDENTIALS, AUTHENTICATION_ACCEPTED
  <2>3. IsSeq(<<>>)
    BY EmptySeq, SeqIsSeq
  <2> QED
    BY <2>1, <2>2, <2>3 DEF AuthInv, IsSeq
<1>2. CASE start_message_crash \/ reply_lost \/ process_reply_fails
  BY <1>2, QuietKeepsAuth DEF start_message_crash, reply_lost, process_reply_fails, Quiet, AuthInv
<1>3. ASSUME NEW op \in TreeOp, NEW codes \in Codes, TreeCommand(op, codes)
      PROVE  AuthInv'
  BY <1>3, CommandKeepsAuth DEF TreeCommand
<1>4. ASSUME NEW ui, NEW code, prv_alert_cmd_cb(ui, code)
      PROVE  AuthInv'
  BY <1>4, CommandKeepsAuth DEF prv_alert_cmd_cb, AsksUser
<1>5. CASE prv_start_atomic_cb \/ prv_start_sequence_cb
  BY <1>5, CommandKeepsAuth DEF prv_start_atomic_cb, prv_start_sequence_cb
<1>6. ASSUME NEW cmdRef, prv_end_sequence_cb(cmdRef)
      PROVE  AuthInv'
  BY <1>6, QuietKeepsAuth DEF prv_end_sequence_cb, Quiet, AuthInv
<1>7. CASE end_sequence_crash \/ prv_end_atomic_cb \/ prv_end_message_cb
  BY <1>7, QuietKeepsAuth DEF end_sequence_crash, prv_end_atomic_cb, prv_end_message_cb, Quiet,
                              AuthInv
<1>8. ASSUME NEW code, status_header(code)
      PROVE  AuthInv'
  BY <1>8, QuietKeepsAuth DEF status_header, Quiet, AuthInv
<1>9. ASSUME NEW m, NEW c, NEW code, prv_status_cmd_cb(m, c, code)
      PROVE  AuthInv'
  BY <1>9, QuietKeepsAuth DEF prv_status_cmd_cb, Quiet, AuthInv
<1> QED
  BY <1>1, <1>2, <1>3, <1>4, <1>5, <1>6, <1>7, <1>8, <1>9
     DEF Reply, ServerCommand, ServerStatus, Finish

\* In the first session of a handle no command reaches the tree or the user
\* unless the server's last credentials were good or none are required.
THEOREM OnlyAuthenticatedActs == SessionSpec => []OnlyAuthenticatedServerActs
<1>1. AuthInv /\ [SessionNext]_vars => AuthInv'
  <2> SUFFICES ASSUME AuthInv, [SessionNext]_vars PROVE AuthInv'
    OBVIOUS
  <2>1. CASE UNCHANGED vars
    BY <2>1 DEF vars, appVars, authVars, rxVars, AuthInv, Accepted, IsSeq
  <2> QED
    BY <2>1, AuthInvApplication, AuthInvReply DEF SessionNext
<1>2. AuthInv => OnlyAuthenticatedServerActs
  BY DEF AuthInv, OnlyAuthenticatedServerActs, Entries
<1> QED
  BY <1>1, <1>2, AuthInvInit, PTL DEF SessionSpec

-----------------------------------------------------------------------------
(* The lists of a session                                                  *)

Lists == INSTANCE ElementsProofs WITH
             Request <- RequestElem, Status <- StatusElem, Results <- ResultsElem,
             MsgRef <- Int, MaxMessageId <- 0, MaxElem <- 0

ReplyElem == StatusElem \cup ResultsElem

-----------------------------------------------------------------------------
(* The lists of Session are lists of Elements                              *)

LEMMA ListsAssumption == Lists!ElementsAssumption
BY DEF Lists!ElementsAssumption, RequestElem, StatusElem, ResultsElem

LEMMA SameSets == Element = Lists!Element /\ Cell = Lists!Cell
BY DEF Element, Lists!Element, Cell, Lists!Cell

LEMMA RepliesAreNoRequests == RequestElem \cap ReplyElem = {}
BY DEF RequestElem, StatusElem, ResultsElem, ReplyElem

LEMMA SamePushed ==
  ASSUME NEW list, NEW mid
  PROVE  /\ Pushed(list, mid) = Lists!Pushed(list, mid)
         /\ RequestAt(list) = Lists!RequestAt(list)
BY DEF Pushed, Lists!Pushed, RequestAt, Lists!RequestAt, Place, Lists!Place, CellAt,
       Lists!CellAt, Int8, Lists!Int8, Cardinality, Lists!Cardinality

LEMMA SameWithout ==
  ASSUME NEW old, NEW k
  PROVE  Without(old, k) = Lists!Without(old, k)
BY DEF Without, Lists!Without

-----------------------------------------------------------------------------
(* Which requests a list holds                                             *)

Requests(list) == {list[i] : i \in RequestAt(list)}
Waiting(old) == {old[k].element : k \in DOMAIN old}

\* Every request that is issued and not settled is in one place of one list.
ListsOK(list, old, iss, set) ==
    /\ list \in Seq(Element) /\ old \in Seq(Cell)
    /\ Lists!OnePlaceEach(list) /\ Lists!OneCellEach(old)
    /\ Requests(list) \cap Waiting(old) = {}
    /\ Requests(list) \cup Waiting(old) = iss \ set
    /\ set \subseteq iss /\ iss \subseteq RequestElem

LEMMA ListsOKTypes ==
  ASSUME NEW list, NEW old, NEW iss, NEW set, ListsOK(list, old, iss, set)
  PROVE  /\ Len(list) \in Nat /\ DOMAIN list = 1 .. Len(list)
         /\ \A i \in DOMAIN list : list[i] \in Element
         /\ \A k \in DOMAIN old : old[k] \in Cell /\ old[k].element \in RequestElem
<1>1. list \in Seq(Element) /\ old \in Seq(Cell)
  BY DEF ListsOK
<1>2. \A k \in DOMAIN old : old[k] \in Cell
  BY <1>1, ElementOfSeq, LenProperties
<1>3. \A k \in DOMAIN old : old[k].element \in RequestElem
  BY <1>2 DEF Cell
<1> QED
  BY <1>1, <1>2, <1>3, ElementOfSeq, LenProperties

\* Answers queued behind a list change nothing for its requests.
LEMMA JoinReplies ==
  ASSUME NEW list, NEW old, NEW iss, NEW set, ListsOK(list, old, iss, set),
         NEW q \in Seq(ReplyElem)
  PROVE  ListsOK(list \o q, old, iss, set)
<1>1. list \in Seq(Element) /\ q \in Seq(Element) /\ IsSeq(list) /\ IsSeq(q)
  <2>1. ReplyElem \subseteq Element
    BY DEF ReplyElem, Element
  <2>2. q \in [1 .. Len(q) -> ReplyElem] /\ Len(q) \in Nat
    BY LenProperties
  <2>3. q \in [1 .. Len(q) -> Element]
    BY <2>1, <2>2
  <2>4. q \in Seq(Element)
    BY <2>2, <2>3, IsASeq
  <2>5. list \in Seq(Element)
    BY DEF ListsOK
  <2> QED
    BY <2>4, <2>5, SeqIsSeq
<1>2. list \o q \in Seq(Element)
  BY <1>1, ConcatProperties
<1>3. /\ \A i \in DOMAIN list : i \in DOMAIN (list \o q) /\ (list \o q)[i] = list[i]
      /\ \A i \in DOMAIN (list \o q) :
            i \in DOMAIN list \/ \E j \in DOMAIN q : (list \o q)[i] = q[j]
  BY <1>1, ConcatKeeps
<1>4. \A j \in DOMAIN q : q[j] \notin RequestElem
  <2>1. \A j \in DOMAIN q : q[j] \in ReplyElem
    BY ElementOfSeq, LenProperties
  <2> QED
    BY <2>1, RepliesAreNoRequests
<1>5. RequestAt(list \o q) = RequestAt(list)
  BY <1>3, <1>4 DEF RequestAt
<1>6. Requests(list \o q) = Requests(list)
  BY <1>3, <1>5 DEF Requests, RequestAt
<1>7. Lists!OnePlaceEach(list \o q)
  BY <1>3, <1>4 DEF ListsOK, Lists!OnePlaceEach
<1> QED
  BY <1>2, <1>6, <1>7 DEF ListsOK

\* A request at the end of a list.
LEMMA AppendRequest ==
  ASSUME NEW list \in Seq(Element), Lists!OnePlaceEach(list),
         NEW r \in RequestElem, r \notin Requests(list)
  PROVE  /\ Append(list, r) \in Seq(Element)
         /\ Lists!OnePlaceEach(Append(list, r))
         /\ Requests(Append(list, r)) = Requests(list) \cup {r}
<1>1. r \in Element /\ \A i \in DOMAIN list : list[i] # r
  BY DEF Element, Requests, RequestAt
<1>2. /\ Append(list, r) \in Seq(Element)
      /\ Lists!OnePlaceEach(Append(list, r))
  BY <1>1, Lists!AppendPlaces, SameSets, ListsAssumption DEF Lists!ElementsAssumption
<1>3. IsSeq(list)
  BY SeqIsSeq
<1>4. /\ \A i \in DOMAIN list : i \in DOMAIN Append(list, r) /\ Append(list, r)[i] = list[i]
      /\ \E i \in DOMAIN Append(list, r) : Append(list, r)[i] = r
      /\ \A i \in DOMAIN Append(list, r) : i \in DOMAIN list \/ Append(list, r)[i] = r
  BY <1>3, AppendKeeps
<1>5. Requests(Append(list, r)) \subseteq Requests(list) \cup {r}
  BY <1>4 DEF Requests, RequestAt
<1>6. Requests(list) \subseteq Requests(Append(list, r))
  BY <1>4 DEF Requests, RequestAt
<1>7. r \in Requests(Append(list, r))
  BY <1>4 DEF Requests, RequestAt
<1> QED
  BY <1>2, <1>5, <1>6, <1>7

LEMMA NewRequest ==
  ASSUME NEW list, NEW old, NEW iss, NEW set, ListsOK(list, old, iss, set),
         NEW r \in RequestElem, r \notin iss
  PROVE  ListsOK(Append(list, r), old, iss \cup {r}, set)
<1>1. r \notin Requests(list) /\ r \notin Waiting(old) /\ r \notin set
  BY DEF ListsOK
<1>2. /\ Append(list, r) \in Seq(Element)
      /\ Lists!OnePlaceEach(Append(list, r))
      /\ Requests(Append(list, r)) = Requests(list) \cup {r}
  BY <1>1, AppendRequest DEF ListsOK
<1> QED
  BY <1>1, <1>2 DEF ListsOK

\* refresh_elements turns the requests of the list into cells.
LEMMA Refreshed ==
  ASSUME NEW list, NEW old, NEW iss, NEW set, ListsOK(list, old, iss, set), NEW mid \in Nat
  PROVE  ListsOK(<<>>, refresh_elements(list, old, mid), iss, set)
<1> DEFINE P == Pushed(list, mid)
           new == P \o old
<1>1. list \in Seq(Element) /\ old \in Seq(Cell) /\ Lists!OnePlaceEach(list)
      /\ Lists!OneCellEach(old)
  BY DEF ListsOK
<1>2. /\ P \in Seq(Cell)
      /\ Lists!CellsOf(P) = {Lists!CellAt(list, mid, i) : i \in RequestAt(list)}
      /\ Lists!OneCellEach(P)
  BY <1>1, Lists!PushedCells, SamePushed, SameSets, ListsAssumption
     DEF Lists!ElementsAssumption
<1>3. \A i \in RequestAt(list) : Lists!CellAt(list, mid, i).element = list[i]
  BY DEF Lists!CellAt
<1>4. \A s : Waiting(s) = {c.element : c \in Lists!CellsOf(s)}
  BY DEF Waiting, Lists!CellsOf
<1>5. Waiting(P) = Requests(list)
  <2>1. Waiting(P) = {c.element : c \in {Lists!CellAt(list, mid, i) : i \in RequestAt(list)}}
    BY <1>2, <1>4
  <2> QED
    BY <2>1, <1>3 DEF Requests
<1>6. \A c \in Lists!CellsOf(P), d \in Lists!CellsOf(old) : c.element # d.element
  <2>1. Waiting(P) \cap Waiting(old) = {}
    BY <1>5 DEF ListsOK
  <2> QED
    BY <2>1, <1>4
<1>7. /\ new \in Seq(Cell) /\ Lists!OneCellEach(new)
      /\ Lists!CellsOf(new) = Lists!CellsOf(P) \cup Lists!CellsOf(old)
  BY <1>1, <1>2, <1>6, Lists!ConcatCells, SameSets, ListsAssumption
     DEF Lists!ElementsAssumption
<1>8. Waiting(new) = Requests(list) \cup Waiting(old)
  <2>1. Waiting(new) = {c.element : c \in Lists!CellsOf(P) \cup Lists!CellsOf(old)}
    BY <1>4, <1>7
  <2>2. Waiting(new) = Waiting(P) \cup Waiting(old)
    BY <2>1, <1>4
  <2> QED
    BY <2>2, <1>5
<1>9. <<>> \in Seq(Element) /\ Requests(<<>>) = {} /\ Lists!OnePlaceEach(<<>>)
  BY EmptySeq DEF Requests, RequestAt, Lists!OnePlaceEach
<1> HIDE DEF new, P
<1>10. ListsOK(<<>>, new, iss, set)
  BY <1>7, <1>8, <1>9 DEF ListsOK
<1> QED
  BY <1>10 DEF refresh_elements, new, P

\* retrieve_element takes one request out of old_elem.
LEMMA Unlinked ==
  ASSUME NEW list, NEW old, NEW iss, NEW set, ListsOK(list, old, iss, set),
         NEW k \in DOMAIN old
  PROVE  /\ Without(old, k) \in Seq(Cell) /\ Lists!OneCellEach(Without(old, k))
         /\ Lists!CellsOf(Without(old, k)) = Lists!CellsOf(old) \ {old[k]}
         /\ Waiting(Without(old, k)) = Waiting(old) \ {old[k].element}
         /\ old[k].element \in Waiting(old)
<1>1. old \in Seq(Cell) /\ Lists!OneCellEach(old)
  BY DEF ListsOK
<1>2. /\ Without(old, k) \in Seq(Cell)
      /\ Lists!CellsOf(Without(old, k)) = Lists!CellsOf(old) \ {old[k]}
      /\ Lists!OneCellEach(Without(old, k))
  BY <1>1, Lists!WithoutCells, SameWithout, SameSets, ListsAssumption
     DEF Lists!ElementsAssumption
<1>3. \A s : Waiting(s) = {c.element : c \in Lists!CellsOf(s)}
  BY DEF Waiting, Lists!CellsOf
<1>4. \A c \in Lists!CellsOf(old) : c.element = old[k].element => c = old[k]
  BY <1>1 DEF Lists!CellsOf, Lists!OneCellEach
<1>5. old[k] \in Lists!CellsOf(old)
  BY DEF Lists!CellsOf
<1>6. Waiting(Without(old, k)) = {c.element : c \in Lists!CellsOf(old) \ {old[k]}}
  BY <1>2, <1>3
<1>7. Waiting(Without(old, k)) = Waiting(old) \ {old[k].element}
  BY <1>3, <1>4, <1>6
<1> QED
  BY <1>2, <1>3, <1>5, <1>7

\* What prv_status_cmd_cb then does with it: put it back, queue it again, or
\* free it.
LEMMA StatusKeepsLists ==
  ASSUME NEW list, NEW old, NEW iss, NEW set, ListsOK(list, old, iss, set),
         NEW k \in DOMAIN old
  PROVE  /\ ListsOK(list, put_back_element(Without(old, k), old[k]), iss, set)
         /\ ListsOK(Append(list, old[k].element), Without(old, k), iss, set)
         /\ ListsOK(list, Without(old, k), iss, set \cup {old[k].element})
<1> DEFINE W == Without(old, k)
           r == old[k].element
           back == <<old[k]>> \o W
<1>1. /\ W \in Seq(Cell) /\ Lists!OneCellEach(W)
      /\ Lists!CellsOf(W) = Lists!CellsOf(old) \ {old[k]}
      /\ Waiting(W) = Waiting(old) \ {r} /\ r \in Waiting(old)
  BY Unlinked
<1>2. r \in RequestElem /\ old[k] \in Cell
  BY ListsOKTypes
<1>3. \A s : Waiting(s) = {c.element : c \in Lists!CellsOf(s)}
  BY DEF Waiting, Lists!CellsOf
<1>4. r \notin Requests(list)
  BY <1>1 DEF ListsOK
<1>5. /\ <<old[k]>> \in Seq(Cell) /\ Lists!CellsOf(<<old[k]>>) = {old[k]}
      /\ Lists!OneCellEach(<<old[k]>>)
  <2>1. DOMAIN <<old[k]>> = {1} /\ <<old[k]>>[1] = old[k]
    BY OneElement
  <2> QED
    BY <1>2, <2>1 DEF Lists!CellsOf, Lists!OneCellEach
<1>6. \A c \in Lists!CellsOf(<<old[k]>>), d \in Lists!CellsOf(W) : c.element # d.element
  BY <1>1, <1>3, <1>5
<1>7. /\ back \in Seq(Cell) /\ Lists!OneCellEach(back)
      /\ Lists!CellsOf(back) = {old[k]} \cup Lists!CellsOf(W)
  BY <1>1, <1>5, <1>6, Lists!ConcatCells, SameSets, ListsAssumption
     DEF Lists!ElementsAssumption
<1>8. Waiting(back) = Waiting(old)
  <2>1. Waiting(back) = {c.element : c \in {old[k]} \cup Lists!CellsOf(W)}
    BY <1>3, <1>7
  <2>2. Waiting(back) = {r} \cup Waiting(W)
    BY <1>3, <2>1
  <2> QED
    BY <1>1, <2>2
<1>9. /\ Append(list, r) \in Seq(Element)
      /\ Lists!OnePlaceEach(Append(list, r))
      /\ Requests(Append(list, r)) = Requests(list) \cup {r}
  BY <1>2, <1>4, AppendRequest DEF ListsOK
<1> HIDE DEF back, W, r
<1>10. ListsOK(list, back, iss, set)
  BY <1>7, <1>8 DEF ListsOK
<1>11. ListsOK(Append(list, r), W, iss, set)
  BY <1>1, <1>9 DEF ListsOK
<1>12. ListsOK(list, W, iss, set \cup {r})
  BY <1>1, <1>4 DEF ListsOK
<1> QED
  BY <1>10, <1>11, <1>12 DEF put_back_element, back, W, r

-----------------------------------------------------------------------------
(* The inductive invariant                                                 *)

\* The elements of package #1 carry the number of their session; the next
\* ones are new.
FreshInv ==
    \A r \in issued :
        r.type # "Generic" =>
            /\ r.n <= starts
            /\ state \in {"CLIENT_INIT", "SERVER_INIT"} => r.n < starts

SessionInv ==
    /\ ListsOK(elem, old_elem, issued, settled) /\ message_id \in Nat
    /\ FreshInv
    /\ AppFieldsOK /\ ReplyFieldsOK

LEMMA SessionInvMeans == SessionInv => SessionTypeOK /\ NoRequestLost
<1> SUFFICES ASSUME SessionInv PROVE SessionTypeOK /\ NoRequestLost
  OBVIOUS
<1> USE DEF SessionInv, ListsOK
<1>1. SessionTypeOK
  BY DEF SessionTypeOK, ElemTypeOK
<1>2. \A r \in RequestElem : Queued(r) <=> r \in Requests(elem)
  BY DEF Queued, Requests, RequestAt
<1>3. \A r \in RequestElem : Outstanding(r) <=> r \in Waiting(old_elem)
  BY DEF Outstanding, Waiting
<1>4. NoRequestLost
  BY <1>2, <1>3 DEF NoRequestLost, Lists!OnePlaceEach, Lists!OneCellEach
<1> QED
  BY <1>1, <1>4

LEMMA SessionInvInit == SessionInit => SessionInv
<1> SUFFICES ASSUME SessionInit PROVE SessionInv
  OBVIOUS
<1> USE DEF SessionInit, ElemInit
<1>1. ListsOK(<<>>, <<>>, {}, {})
  <2>1. <<>> \in Seq(Element) /\ <<>> \in Seq(Cell)
    BY EmptySeq
  <2>2. Requests(<<>>) = {} /\ Waiting(<<>>) = {}
    BY DEF Requests, RequestAt, Waiting
  <2> QED
    BY <2>1, <2>2 DEF ListsOK, Lists!OnePlaceEach, Lists!OneCellEach
<1>2. AppFieldsOK
  <2>1. NoAccount \in [alloc : BOOLEAN, addr : BOOLEAN, clt : BOOLEAN, srv : BOOLEAN]
    BY DEF NoAccount
  <2> QED
    <3>1. 0 \in 0 .. MaxStarts /\ MaxServerCmds \in Nat /\ MaxFaults \in Nat
      BY SessionAssumption
    <3> QED
      BY <2>1, <3>1 DEF AppFieldsOK, NONE
<1>3. ReplyFieldsOK
  BY EmptySeq DEF ReplyFieldsOK, NONE
<1> QED
  BY <1>1, <1>2, <1>3 DEF SessionInv, FreshInv

\* The step leaves the lists alone.
SameLists == UNCHANGED <<elem, old_elem, message_id, issued, settled>>

LEMMA SameListsOK ==
  ASSUME SessionInv, SameLists
  PROVE  ListsOK(elem, old_elem, issued, settled)' /\ (message_id \in Nat)'
BY DEF SessionInv, SameLists, ListsOK

-----------------------------------------------------------------------------
(* What the application does                                               *)

LEMMA InvSetUI ==
  ASSUME SessionInv, omadmclient_set_UI_callback
  PROVE  SessionInv'
<1> USE DEF omadmclient_set_UI_callback, listVars, seqVars, authVars, rxVars, envVars
<1>1. ListsOK(elem, old_elem, issued, settled)' /\ (message_id \in Nat)'
  BY SameListsOK DEF SameLists
<1>2. FreshInv'
  BY DEF SessionInv, FreshInv
<1>3. AppFieldsOK' /\ ReplyFieldsOK'
  BY DEF SessionInv, AppFieldsOK, ReplyFieldsOK
<1> QED
  BY <1>1, <1>2, <1>3 DEF SessionInv

LEMMA InvGenericAlert ==
  ASSUME SessionInv, NEW n \in 1 .. MaxGeneric, omadmclient_add_generic_alert(n)
  PROVE  SessionInv'
<1> DEFINE alert == [type |-> "Generic", n |-> n]
<1> USE DEF omadmclient_add_generic_alert, appVars, seqVars, authVars, rxVars, envVars
<1>1. alert \in RequestElem
  <2>1. n \in 0 .. MaxStarts + MaxGeneric
    BY SessionAssumption
  <2> QED
    BY <2>1 DEF RequestElem
<1>2. ListsOK(Append(elem, alert), old_elem, issued \cup {alert}, settled)
  BY <1>1, NewRequest DEF SessionInv
<1>3. /\ elem' = Append(elem, alert) /\ old_elem' = old_elem /\ settled' = settled
      /\ issued' = issued \cup {alert} /\ message_id' = message_id
  BY DEF add_element
<1>4. FreshInv'
  BY <1>3 DEF SessionInv, FreshInv
<1>5. AppFieldsOK' /\ ReplyFieldsOK'
  BY DEF SessionInv, AppFieldsOK, ReplyFieldsOK
<1> QED
  BY <1>2, <1>3, <1>4, <1>5 DEF SessionInv

LEMMA AccountTypes ==
  ASSUME NEW a \in Accounts
  PROVE  /\ Filled(a) \in [alloc : BOOLEAN, addr : BOOLEAN, clt : BOOLEAN, srv : BOOLEAN]
         /\ NoAddress \in [alloc : BOOLEAN, addr : BOOLEAN, clt : BOOLEAN, srv : BOOLEAN]
         /\ NoAccount \in [alloc : BOOLEAN, addr : BOOLEAN, clt : BOOLEAN, srv : BOOLEAN]
<1>1. a.clt \in BOOLEAN /\ a.srv \in BOOLEAN
  BY SessionAssumption
<1> QED
  BY <1>1 DEF Filled, NoAddress, NoAccount

LEMMA InvStarted ==
  ASSUME SessionInv, NEW a \in Accounts, CanStart, Started(a),
         state' \in {"CLIENT_INIT", "SERVER_INIT"},
         phase' \in {"call", "idle"}, ret' \in {"NONE", "USAGE"}
  PROVE  SessionInv'
<1> USE DEF Started, seqVars, rxVars, envVars
<1>1. starts \in Nat /\ starts' = starts + 1 /\ starts' \in 0 .. MaxStarts
  BY SessionAssumption DEF SessionInv, AppFieldsOK, CanStart
<1>2. ListsOK(elem, old_elem, issued, settled)' /\ (message_id \in Nat)'
  BY DEF SessionInv, ListsOK
<1>3. FreshInv'
  <2>1. \A r \in issued : r.type # "Generic" => r.n \in Nat
    BY DEF SessionInv, ListsOK, RequestElem
  <2> QED
    BY <1>1, <2>1 DEF SessionInv, FreshInv
<1>4. AppFieldsOK'
  <2>1. /\ account' \in [alloc : BOOLEAN, addr : BOOLEAN, clt : BOOLEAN, srv : BOOLEAN]
        /\ srv_auth' \in {NONE, AUTHENTICATION_ACCEPTED, INVALID_CREDENTIALS}
        /\ clt_auth' \in Nat
    BY AccountTypes DEF SessionInv, AppFieldsOK, AUTHENTICATION_ACCEPTED
  <2> QED
    BY <1>1, <2>1 DEF SessionInv, AppFieldsOK
<1>5. ReplyFieldsOK'
  BY DEF SessionInv, ReplyFieldsOK
<1> QED
  BY <1>2, <1>3, <1>4, <1>5 DEF SessionInv

LEMMA InvStartFails ==
  ASSUME SessionInv, CanStart, StartFails, state' \in {state, "SERVER_INIT"}
  PROVE  SessionInv'
<1> USE DEF StartFails, listVars, seqVars, rxVars, envVars, authVars
<1>1. starts \in Nat /\ starts' = starts + 1 /\ starts' \in 0 .. MaxStarts
  BY SessionAssumption DEF SessionInv, AppFieldsOK, CanStart
<1>2. ListsOK(elem, old_elem, issued, settled)' /\ (message_id \in Nat)'
  BY SameListsOK DEF SameLists
<1>3. FreshInv'
  <2>1. \A r \in issued : r.type # "Generic" => r.n \in Nat
    BY DEF SessionInv, ListsOK, RequestElem
  <2> QED
    BY <1>1, <2>1 DEF SessionInv, FreshInv
<1>4. AppFieldsOK'
  <2>1. account' \in [alloc : BOOLEAN, addr : BOOLEAN, clt : BOOLEAN, srv : BOOLEAN]
    <3>1. NoAddress \in [alloc : BOOLEAN, addr : BOOLEAN, clt : BOOLEAN, srv : BOOLEAN]
      BY DEF NoAddress, NoAccount
    <3> QED
      BY <3>1, AccountTypes DEF SessionInv, AppFieldsOK
  <2> QED
    BY <1>1, <2>1 DEF SessionInv, AppFieldsOK
<1>5. ReplyFieldsOK'
  BY DEF SessionInv, ReplyFieldsOK
<1> QED
  BY <1>2, <1>3, <1>4, <1>5 DEF SessionInv

\* package #1, if it is made, is made of two new requests.
LEMMA Packet1New ==
  ASSUME SessionInv, NEW devInfo
  PROVE  LET new == prvCreatePacket1(devInfo)
         IN  ListsOK(elem \o new, old_elem, issued \cup {new[i] : i \in DOMAIN new}, settled)
<1> DEFINE new == prvCreatePacket1(devInfo)
           alert == [type |-> "Alert", n |-> starts]
           replace == [type |-> "Replace", n |-> starts]
<1>0. elem \in Seq(Element) /\ IsSeq(elem)
  BY SeqIsSeq DEF SessionInv, ListsOK
<1>1. CASE new = <<>>
  <2>1. elem \o <<>> = elem /\ {<<>>[i] : i \in DOMAIN <<>>} = {}
    BY <1>0
  <2>2. issued \cup {} = issued
    OBVIOUS
  <2>3. ListsOK(elem \o <<>>, old_elem, issued \cup {<<>>[i] : i \in DOMAIN <<>>}, settled)
    BY <2>1, <2>2 DEF SessionInv
  <2> QED
    BY <1>1, <2>3
<1>2. CASE new = <<alert, replace>> /\ state \in {"CLIENT_INIT", "SERVER_INIT"}
  <2>1. alert \in RequestElem /\ replace \in RequestElem
    <3>1. starts \in 0 .. MaxStarts + MaxGeneric
      BY SessionAssumption DEF SessionInv, AppFieldsOK
    <3> QED
      BY <3>1 DEF RequestElem
  <2>2. alert \notin issued /\ replace \notin issued /\ alert # replace
    <3>1. starts \in Nat
      BY SessionAssumption DEF SessionInv, AppFieldsOK
    <3> QED
      BY <1>2, <3>1 DEF SessionInv, FreshInv
  <2> HIDE DEF alert, replace
  <2>3. ListsOK(Append(elem, alert), old_elem, issued \cup {alert}, settled)
    BY <2>1, <2>2, NewRequest DEF SessionInv
  <2>4. ListsOK(Append(Append(elem, alert), replace), old_elem,
                (issued \cup {alert}) \cup {replace}, settled)
    BY <2>1, <2>2, <2>3, NewRequest
  <2>5. Append(Append(elem, alert), replace) = elem \o <<alert, replace>>
    <3>1. alert \in Element /\ replace \in Element
      BY <2>1 DEF Element
    <3> QED
      BY <1>0, <3>1
  <2>6. {new[i] : i \in DOMAIN new} = {alert, replace}
    <3>1. DOMAIN new = {1, 2} /\ new[1] = alert /\ new[2] = replace
      BY <1>2
    <3> QED
      BY <3>1
  <2>7. (issued \cup {alert}) \cup {replace} = issued \cup {alert, replace}
    OBVIOUS
  <2> QED
    BY <1>2, <2>4, <2>5, <2>6, <2>7
<1> QED
  BY <1>1, <1>2 DEF prvCreatePacket1

LEMMA InvNextPacket ==
  ASSUME SessionInv, NEW devInfo \in DevInfo, omadmclient_get_next_packet(devInfo)
  PROVE  SessionInv'
<1> DEFINE new == prvCreatePacket1(devInfo)
           list == elem \o new
           iss == issued \cup {new[i] : i \in DOMAIN new}
<1>1. ListsOK(list, old_elem, iss, settled)
  BY Packet1New
<1>2. /\ \/ elem' = list /\ old_elem' = old_elem
         \/ elem' = <<>> /\ old_elem' = refresh_elements(list, old_elem, message_id')
      /\ message_id' = message_id + 1 /\ settled' = settled /\ issued' = iss
      /\ state' = IF new = <<>> THEN state ELSE "IN_SESSION"
      /\ starts' = starts
  BY DEF omadmclient_get_next_packet, ComposeError
<1>3. message_id' \in Nat
  BY <1>2 DEF SessionInv
<1>4. ListsOK(elem', old_elem', issued', settled')
  <2> HIDE DEF list, iss
  <2>1. ListsOK(<<>>, refresh_elements(list, old_elem, message_id'), iss, settled)
    BY <1>1, <1>3, Refreshed
  <2> QED
    BY <1>1, <1>2, <2>1
<1>5. FreshInv'
  <2>1. CASE new = <<>>
    <3>1. {new[i] : i \in DOMAIN new} = {}
      BY <2>1
    <3> QED
      BY <1>2, <2>1, <3>1 DEF SessionInv, FreshInv
  <2>2. CASE new # <<>>
    <3>1. \A i \in DOMAIN new : new[i].n = starts
      BY <2>2 DEF prvCreatePacket1
    <3>2. starts \in Nat
      BY SessionAssumption DEF SessionInv, AppFieldsOK
    <3> HIDE DEF new
    <3> QED
      BY <1>2, <2>2, <3>1, <3>2 DEF SessionInv, FreshInv
  <2> QED
    BY <2>1, <2>2
<1>6. AppFieldsOK'
  <2>1. /\ phase' \in {"idle", "call", "wait", "reply", "done", "crashed", "closed"}
        /\ ret' \in {"NONE", "END", "USAGE", "INTERNAL"}
        /\ faults' \in Nat
    BY DEF omadmclient_get_next_packet, SessionInv, AppFieldsOK
  <2>2. UNCHANGED <<account, starts, alert_cb, srv_auth, verdict, clt_auth, budget>>
    BY DEF omadmclient_get_next_packet, authVars
  <2>3. state' \in {"UNKNOWN", "SERVER_INIT", "CLIENT_INIT", "IN_SESSION"}
    BY <1>2 DEF SessionInv, AppFieldsOK
  <2> QED
    BY <2>1, <2>2, <2>3 DEF SessionInv, AppFieldsOK
<1>7. ReplyFieldsOK'
  BY DEF omadmclient_get_next_packet, seqVars, rxVars, SessionInv, ReplyFieldsOK
<1> QED
  BY <1>3, <1>4, <1>5, <1>6, <1>7 DEF SessionInv

LEMMA InvUsage ==
  ASSUME SessionInv, get_next_packet_usage
  PROVE  SessionInv'
<1> USE DEF get_next_packet_usage, listVars, seqVars, appVars, authVars, rxVars, envVars
<1>1. ListsOK(elem, old_elem, issued, settled)' /\ (message_id \in Nat)'
  BY SameListsOK DEF SameLists
<1>2. FreshInv'
  BY DEF SessionInv, FreshInv
<1>3. AppFieldsOK' /\ ReplyFieldsOK'
  BY DEF SessionInv, AppFieldsOK, ReplyFieldsOK
<1> QED
  BY <1>1, <1>2, <1>3 DEF SessionInv

LEMMA InvClose ==
  ASSUME SessionInv, omadmclient_session_close
  PROVE  SessionInv'
<1> USE DEF omadmclient_session_close, envVars
<1>1. ListsOK(<<>>, <<>>, issued, issued)
  <2>1. <<>> \in Seq(Element) /\ <<>> \in Seq(Cell)
    BY EmptySeq
  <2>2. Requests(<<>>) = {} /\ Waiting(<<>>) = {}
    BY DEF Requests, RequestAt, Waiting
  <2> QED
    BY <2>1, <2>2 DEF ListsOK, Lists!OnePlaceEach, Lists!OneCellEach, SessionInv
<1>2. FreshInv'
  BY DEF SessionInv, FreshInv
<1>3. AppFieldsOK'
  BY DEF SessionInv, AppFieldsOK, NoAccount, NONE
<1>4. ReplyFieldsOK'
  BY DEF SessionInv, ReplyFieldsOK, NONE
<1> QED
  BY <1>1, <1>2, <1>3, <1>4 DEF SessionInv

LEMMA InvApplication ==
  ASSUME SessionInv, Application
  PROVE  SessionInv'
<1>1. ASSUME NEW a \in Accounts, omadmclient_session_start(a)
      PROVE  SessionInv'
  BY <1>1, InvStarted DEF omadmclient_session_start
<1>2. CASE omadmclient_session_start_fails
  BY <1>2, InvStartFails DEF omadmclient_session_start_fails
<1>3. CASE omadmclient_session_start_on_alert
  <2>1. CASE StartFails
    BY <1>3, <2>1, InvStartFails DEF omadmclient_session_start_on_alert
  <2>2. ASSUME NEW a \in Accounts, Started(a),
               phase' \in {"call", "idle"} /\ ret' \in {"NONE", "USAGE"}
        PROVE  SessionInv'
    BY <1>3, <2>2, InvStarted DEF omadmclient_session_start_on_alert
  <2> QED
    BY <1>3, <2>1, <2>2 DEF omadmclient_session_start_on_alert
<1> QED
  BY <1>1, <1>2, <1>3, InvSetUI, InvGenericAlert, InvNextPacket, InvUsage, InvClose
     DEF Application, NextPacket

-----------------------------------------------------------------------------
(* What a reply makes the callbacks do                                     *)

LEMMA StatusTyped ==
  ASSUME NEW msg \in Nat, NEW code \in Nat, NEW cmd \in Nat
  PROVE  /\ create_status(msg, code, cmd) \in ReplyElem
         /\ <<create_status(msg, code, cmd)>> \in Seq(ReplyElem)
<1>1. create_status(msg, code, cmd) \in ReplyElem
  BY DEF create_status, ReplyElem, StatusElem
<1> QED
  BY <1>1

LEMMA StatusesTyped ==
  ASSUME NEW msg \in Nat, NEW cmd \in Nat, NEW n \in Nat, NEW codes \in [1 .. n -> Nat]
  PROVE  StatusPerItem(msg, cmd, codes) \in Seq(ReplyElem)
<1>1. \A i \in 1 .. n : create_status(msg, codes[i], cmd) \in ReplyElem
  BY StatusTyped
<1>2. StatusPerItem(msg, cmd, codes) \in [1 .. n -> ReplyElem]
  BY <1>1 DEF StatusPerItem
<1> QED
  BY <1>2, IsASeq

\* The values a callback answers with are codes.
LEMMA CodesTyped ==
  ASSUME SessionInv
  PROVE  /\ srv_auth \in Nat /\ seq_code \in Nat /\ reply_ref \in Nat /\ nextCmd \in Nat
         /\ sequence \in Nat
BY DEF SessionInv, AppFieldsOK, ReplyFieldsOK, NONE, AUTHENTICATION_ACCEPTED,
       INVALID_CREDENTIALS

LEMMA EnclosingTyped ==
  ASSUME SessionInv
  PROVE  Enclosing \subseteq Nat
<1> DEFINE N == [kind : {"Atomic", "Sequence"}, cmd : Nat \ {0}]
<1>1. nest \in Seq(N)
  BY DEF SessionInv, ReplyFieldsOK
<1>2. \A j \in DOMAIN nest : nest[j] \in N
  <2> HIDE DEF N
  <2> QED
    BY <1>1, ElementOfSeq, LenProperties
<1>3. \A j \in DOMAIN nest : nest[j].cmd \in Nat
  BY <1>2
<1> QED
  BY <1>3 DEF Enclosing

\* Whatever a command does, it is logged, and takes a number.
LEMMA CommandFields ==
  ASSUME SessionInv, NEW op \in TreeOp \cup {"none", "inform", "confirm", "Atomic", "Sequence"},
         NEW items \in Nat, NEW ran \in Nat, NEW said \in Nat, Command(op, items, ran, said)
  PROVE  /\ AppFieldsOK' /\ FreshInv'
         /\ log' \in Seq(LogEntry) /\ nextCmd' \in Nat \ {0} /\ reply_ref' \in Nat
         /\ UNCHANGED <<old_elem, message_id, issued, settled>>
<1> DEFINE e == [cmd |-> nextCmd, op |-> op, within |-> Enclosing, items |-> items,
                 ran |-> ran, said |-> said]
<1> USE DEF Command, appVars, authVars
<1>1. nextCmd \in Nat \ {0} /\ log \in Seq(LogEntry) /\ reply_ref \in Nat
  BY DEF SessionInv, ReplyFieldsOK
<1>2. e \in LogEntry
  BY <1>1, EnclosingTyped DEF LogEntry
<1>3. log' \in Seq(LogEntry)
  <2>1. log' = Append(log, e)
    OBVIOUS
  <2> HIDE DEF e
  <2> QED
    BY <1>1, <1>2, <2>1, AppendProperties
<1>4. AppFieldsOK'
  <2>1. budget' \in Nat
    BY DEF SessionInv, AppFieldsOK
  <2> QED
    BY <2>1 DEF SessionInv, AppFieldsOK
<1>5. FreshInv'
  BY DEF SessionInv, FreshInv
<1> QED
  BY <1>1, <1>3, <1>4, <1>5

\* A command that only answers keeps the invariant.
LEMMA InvAnswered ==
  ASSUME SessionInv, NEW op \in TreeOp \cup {"none", "inform", "confirm", "Atomic", "Sequence"},
         NEW items \in Nat, NEW ran \in Nat, NEW said \in Nat, Command(op, items, ran, said),
         NEW q \in Seq(ReplyElem), elem' = elem \o q \/ elem' = elem,
         sequence' \in Nat, seq_code' \in Nat,
         nest' \in Seq([kind : {"Atomic", "Sequence"}, cmd : Nat \ {0}])
  PROVE  SessionInv'
<1>1. ListsOK(elem \o q, old_elem, issued, settled)
  BY JoinReplies DEF SessionInv
<1>2. /\ AppFieldsOK' /\ FreshInv'
      /\ log' \in Seq(LogEntry) /\ nextCmd' \in Nat \ {0} /\ reply_ref' \in Nat
      /\ UNCHANGED <<old_elem, message_id, issued, settled>>
  BY CommandFields
<1>3. ListsOK(elem', old_elem', issued', settled') /\ message_id' \in Nat
  BY <1>1, <1>2 DEF SessionInv
<1>4. ReplyFieldsOK'
  BY <1>2 DEF ReplyFieldsOK
<1> QED
  BY <1>2, <1>3, <1>4 DEF SessionInv

LEMMA InvTreeCommand ==
  ASSUME SessionInv, NEW op \in TreeOp, NEW codes \in Codes, TreeCommand(op, codes)
  PROVE  SessionInv'
<1> DEFINE read == Cardinality({i \in DOMAIN codes : codes[i] = SUCCESS})
           results == [type |-> "Results", msgRef |-> reply_ref, cmdRef |-> nextCmd,
                       items |-> read]
           none == [i \in DOMAIN codes |-> NOT_EXECUTED]
           tail == IF op = "Get" /\ read > 0 THEN <<results>> ELSE <<>>
           full == StatusPerItem(reply_ref, nextCmd, codes) \o tail
<1>0. /\ srv_auth \in Nat /\ seq_code \in Nat /\ reply_ref \in Nat /\ nextCmd \in Nat
      /\ sequence \in Nat /\ nest \in Seq([kind : {"Atomic", "Sequence"}, cmd : Nat \ {0}])
  BY CodesTyped DEF SessionInv, ReplyFieldsOK
<1>1. PICK n \in 0 .. MaxItems : codes \in [1 .. n -> TreeCode]
  BY DEF Codes
<1>2. /\ n \in Nat /\ codes \in [1 .. n -> Nat] /\ none \in [1 .. n -> Nat]
      /\ DOMAIN codes = 1 .. n /\ Len(codes) \in Nat
  <2>1. n \in Nat /\ codes \in [1 .. n -> Nat] /\ none \in [1 .. n -> Nat]
    <3>1. n \in Nat /\ TreeCode \subseteq Nat /\ 215 \in Nat
      BY SessionAssumption
    <3>2. codes \in [1 .. n -> Nat]
      BY <1>1, <3>1
    <3>3. DOMAIN codes = 1 .. n
      BY <1>1
    <3> QED
      BY <3>1, <3>2, <3>3 DEF NOT_EXECUTED
  <2>2. codes \in Seq(Nat)
    BY <2>1, IsASeq
  <2> QED
    BY <2>1, <2>2, LenProperties
<1>3. read \in Nat
  <2>1. IsFiniteSet(1 .. n)
    BY <1>2, FS_Interval
  <2>2. {i \in DOMAIN codes : codes[i] = SUCCESS} \in SUBSET (1 .. n)
    BY <1>2
  <2>3. IsFiniteSet({i \in DOMAIN codes : codes[i] = SUCCESS})
    BY <2>1, <2>2, FS_Subset
  <2> QED
    BY <2>3, FS_CardinalityType
<1>4. /\ <<create_status(reply_ref, srv_auth, nextCmd)>> \in Seq(ReplyElem)
      /\ StatusPerItem(reply_ref, nextCmd, none) \in Seq(ReplyElem)
      /\ StatusPerItem(reply_ref, nextCmd, codes) \in Seq(ReplyElem)
  BY <1>0, <1>2, StatusTyped, StatusesTyped
<1>5. full \in Seq(ReplyElem)
  <2>1. results \in ReplyElem
    <3> HIDE DEF read
    <3> QED
      BY <1>0, <1>3 DEF ReplyElem, ResultsElem
  <2> HIDE DEF results
  <2>2. <<results>> \in Seq(ReplyElem)
    BY <2>1
  <2>3. tail \in Seq(ReplyElem)
    BY <2>2, EmptySeq
  <2> HIDE DEF tail
  <2> QED
    BY <1>4, <2>3, ConcatProperties
<1>6. UNCHANGED <<sequence, seq_code, nest>>
  BY DEF TreeCommand, seqVars
<1>7. \E ran \in Nat, q \in Seq(ReplyElem) :
        Command(op, Len(codes), ran, NONE) /\ (elem' = elem \o q \/ elem' = elem)
  <2> HIDE DEF full
  <2>1. CASE elem' = elem /\ Command(op, Len(codes), 0, NONE)
    BY <2>1, <1>4
  <2>2. CASE /\ elem' = elem \o <<create_status(reply_ref, srv_auth, nextCmd)>>
             /\ Command(op, Len(codes), 0, NONE)
    BY <2>2, <1>4
  <2>3. CASE /\ elem' = elem \o StatusPerItem(reply_ref, nextCmd, none)
             /\ Command(op, Len(codes), 0, NONE)
    BY <2>3, <1>4
  <2>4. CASE elem' = elem \o full /\ Command(op, Len(codes), Len(codes), NONE)
    BY <2>4, <1>2, <1>5
  <2> QED
    BY <2>1, <2>2, <2>3, <2>4 DEF TreeCommand, Answer, full
<1> QED
  BY <1>0, <1>2, <1>6, <1>7, InvAnswered DEF NONE

LEMMA InvAlert ==
  ASSUME SessionInv, NEW ui \in {"none", "inform", "confirm"}, NEW code \in UserCode,
         prv_alert_cmd_cb(ui, code)
  PROVE  SessionInv'
<1>0. /\ srv_auth \in Nat /\ seq_code \in Nat /\ reply_ref \in Nat /\ nextCmd \in Nat
      /\ sequence \in Nat /\ nest \in Seq([kind : {"Atomic", "Sequence"}, cmd : Nat \ {0}])
      /\ code \in Nat
  BY CodesTyped, SessionAssumption DEF SessionInv, ReplyFieldsOK
<1>1. Refusal(ui) \in Nat
  BY <1>0 DEF Refusal, NOT_EXECUTED, OPTIONAL_FEATURE_NOT_SUPPORTED, COMMAND_FAILED
<1>2. /\ <<create_status(reply_ref, code, nextCmd)>> \in Seq(ReplyElem)
      /\ <<create_status(reply_ref, Refusal(ui), nextCmd)>> \in Seq(ReplyElem)
  BY <1>0, <1>1, StatusTyped
<1>3. nest' = nest /\ sequence' = sequence /\ seq_code' \in {seq_code, code}
  BY DEF prv_alert_cmd_cb
<1>4. \E ran \in Nat, said \in Nat, q \in Seq(ReplyElem) :
        Command(ui, 1, ran, said) /\ (elem' = elem \o q \/ elem' = elem)
  <2>1. CASE elem' = elem /\ Command(ui, 1, 0, NONE)
    BY <2>1, <1>2 DEF NONE
  <2>2. CASE /\ elem' = elem \o <<create_status(reply_ref, Refusal(ui), nextCmd)>>
             /\ Command(ui, 1, 0, NONE)
    BY <2>2, <1>2 DEF NONE
  <2>3. CASE /\ elem' = elem \o <<create_status(reply_ref, code, nextCmd)>>
             /\ Command(ui, 1, 1, code)
    BY <2>3, <1>0, <1>2
  <2> QED
    BY <2>1, <2>2, <2>3 DEF prv_alert_cmd_cb, Answer
<1> QED
  BY <1>0, <1>3, <1>4, InvAnswered

LEMMA InvStartGroup ==
  ASSUME SessionInv, prv_start_atomic_cb \/ prv_start_sequence_cb
  PROVE  SessionInv'
<1> DEFINE N == [kind : {"Atomic", "Sequence"}, cmd : Nat \ {0}]
<1>0. /\ srv_auth \in Nat /\ seq_code \in Nat /\ reply_ref \in Nat
      /\ nextCmd \in Nat \ {0} /\ sequence \in Nat /\ nest \in Seq(N)
  BY CodesTyped DEF SessionInv, ReplyFieldsOK
<1>1. <<create_status(reply_ref, srv_auth, nextCmd)>> \in Seq(ReplyElem)
  BY <1>0, StatusTyped
<1>2. [kind |-> "Atomic", cmd |-> nextCmd] \in N /\ [kind |-> "Sequence", cmd |-> nextCmd] \in N
  BY <1>0
<1>3. /\ Append(nest, [kind |-> "Atomic", cmd |-> nextCmd]) \in Seq(N)
      /\ Append(nest, [kind |-> "Sequence", cmd |-> nextCmd]) \in Seq(N)
  <2> HIDE DEF N
  <2> QED
    BY <1>0, <1>2, AppendProperties
<1>4. CASE prv_start_atomic_cb
  <2>1. /\ Command("Atomic", 1, 0, NONE) /\ sequence' = sequence /\ seq_code' = seq_code
        /\ nest' \in Seq(N)
        /\ \/ elem' = elem \o <<create_status(reply_ref, srv_auth, nextCmd)>>
           \/ elem' = elem
    BY <1>3, <1>4 DEF prv_start_atomic_cb, Answer, seqVars
  <2> QED
    BY <1>0, <1>1, <2>1, InvAnswered DEF NONE
<1>5. CASE prv_start_sequence_cb
  <2>1. /\ Command("Sequence", 1, 0, NONE) /\ sequence' \in Nat /\ seq_code' \in Nat
        /\ nest' \in Seq(N) /\ elem' = elem
    BY <1>0, <1>3, <1>5 DEF prv_start_sequence_cb, SUCCESS
  <2> QED
    BY <1>1, <2>1, InvAnswered DEF NONE
<1> QED
  BY <1>4, <1>5

LEMMA InvEndGroup ==
  ASSUME SessionInv,
         prv_end_atomic_cb \/ \E cmdRef \in {sequence, 0} \cup StaleRef : prv_end_sequence_cb(cmdRef)
  PROVE  SessionInv'
<1> DEFINE N == [kind : {"Atomic", "Sequence"}, cmd : Nat \ {0}]
<1>0. nest \in Seq(N) /\ ReplyFieldsOK
  BY DEF SessionInv, ReplyFieldsOK
<1>1. SubSeq(nest, 1, Len(nest) - 1) \in Seq(N)
  <2> HIDE DEF N
  <2>1. Len(nest) \in Nat
    BY <1>0, LenProperties
  <2>2. \A i \in 1 .. Len(nest) - 1 : i \in DOMAIN nest
    BY <1>0, <2>1, LenProperties
  <2> QED
    BY <1>0, <2>1, <2>2
<1>2. CASE prv_end_atomic_cb
  <2> USE <1>2 DEF prv_end_atomic_cb, listVars, seqVars, appVars, authVars, envVars
  <2>1. ListsOK(elem, old_elem, issued, settled)' /\ (message_id \in Nat)'
    BY SameListsOK DEF SameLists
  <2>2. FreshInv' /\ AppFieldsOK'
    BY DEF SessionInv, FreshInv, AppFieldsOK
  <2>3. ReplyFieldsOK'
    BY <1>0, <1>1 DEF ReplyFieldsOK, Leave
  <2> QED
    BY <2>1, <2>2, <2>3 DEF SessionInv
<1>3. ASSUME NEW cmdRef \in {sequence, 0} \cup StaleRef, prv_end_sequence_cb(cmdRef)
      PROVE  SessionInv'
  <2> USE <1>3 DEF prv_end_sequence_cb, appVars, authVars, envVars
  <2>1. cmdRef \in Nat
    BY SessionAssumption, CodesTyped
  <2>2. <<create_status(reply_ref, seq_code, cmdRef)>> \in Seq(ReplyElem)
    BY <2>1, StatusTyped, CodesTyped
  <2>3. ListsOK(elem \o <<create_status(reply_ref, seq_code, cmdRef)>>, old_elem, issued, settled)
    BY <2>2, JoinReplies DEF SessionInv
  <2>4. ListsOK(elem', old_elem', issued', settled') /\ message_id' \in Nat
    BY <2>3 DEF SessionInv, Answer
  <2>5. FreshInv' /\ AppFieldsOK'
    BY DEF SessionInv, FreshInv, AppFieldsOK
  <2>6. ReplyFieldsOK'
    BY <1>0, <1>1 DEF ReplyFieldsOK, Leave, NONE
  <2> QED
    BY <2>4, <2>5, <2>6 DEF SessionInv
<1> QED
  BY <1>2, <1>3

LEMMA InvStartMessage ==
  ASSUME SessionInv, NEW cred \in {"none", "good", "bad"}, prv_start_message_cb(cred)
  PROVE  SessionInv'
<1> USE DEF prv_start_message_cb, appVars, envVars
<1>1. /\ reply_ref' \in Nat
      /\ srv_auth' \in {NONE, AUTHENTICATION_ACCEPTED, INVALID_CREDENTIALS}
  BY DEF SessionInv, AppFieldsOK, ReplyFieldsOK, check_credentials
<1>2. create_status(reply_ref', srv_auth', 0) \in ReplyElem
      /\ <<create_status(reply_ref', srv_auth', 0)>> \in Seq(ReplyElem)
  BY <1>1, StatusTyped DEF NONE, AUTHENTICATION_ACCEPTED, INVALID_CREDENTIALS
<1>3. elem' = elem \o <<create_status(reply_ref', srv_auth', 0)>>
  <2>1. IsSeq(elem)
    BY SeqIsSeq DEF SessionInv, ListsOK
  <2> QED
    BY <2>1, AppendJoins DEF add_element
<1>4. ListsOK(elem \o <<create_status(reply_ref', srv_auth', 0)>>, old_elem, issued, settled)
  BY <1>2, JoinReplies DEF SessionInv
<1>5. ListsOK(elem', old_elem', issued', settled') /\ message_id' \in Nat
  BY <1>3, <1>4 DEF SessionInv
<1>6. FreshInv'
  BY DEF SessionInv, FreshInv
<1>7. AppFieldsOK'
  BY <1>1 DEF SessionInv, AppFieldsOK
<1>8. ReplyFieldsOK'
  BY <1>1, EmptySeq DEF ReplyFieldsOK, NONE
<1> QED
  BY <1>5, <1>6, <1>7, <1>8 DEF SessionInv

LEMMA InvStatus ==
  ASSUME SessionInv, NEW m, NEW c, NEW code, prv_status_cmd_cb(m, c, code)
  PROVE  SessionInv'
<1> USE DEF prv_status_cmd_cb, seqVars, appVars, authVars, rxVars
<1>1. PICK k \in DOMAIN old_elem :
        /\ \/ /\ old_elem' = put_back_element(Without(old_elem, k), old_elem[k])
              /\ UNCHANGED <<elem, settled>>
           \/ /\ old_elem' = Without(old_elem, k)
              /\ elem' = Append(elem, old_elem[k].element)
              /\ UNCHANGED settled
           \/ /\ old_elem' = Without(old_elem, k)
              /\ settled' = settled \cup {old_elem[k].element}
              /\ UNCHANGED elem
        /\ UNCHANGED <<message_id, issued>>
  BY DEF StatusForCommand, add_element
<1>2. ListsOK(elem', old_elem', issued', settled') /\ message_id' \in Nat
  <2>1. /\ ListsOK(elem, put_back_element(Without(old_elem, k), old_elem[k]), issued, settled)
        /\ ListsOK(Append(elem, old_elem[k].element), Without(old_elem, k), issued, settled)
        /\ ListsOK(elem, Without(old_elem, k), issued, settled \cup {old_elem[k].element})
    BY StatusKeepsLists DEF SessionInv
  <2>2. CASE /\ old_elem' = put_back_element(Without(old_elem, k), old_elem[k])
             /\ UNCHANGED <<elem, settled>>
    BY <1>1, <2>1, <2>2 DEF SessionInv
  <2>3. CASE /\ old_elem' = Without(old_elem, k) /\ UNCHANGED settled
             /\ elem' = Append(elem, old_elem[k].element)
    BY <1>1, <2>1, <2>3 DEF SessionInv
  <2>4. CASE /\ old_elem' = Without(old_elem, k) /\ UNCHANGED elem
             /\ settled' = settled \cup {old_elem[k].element}
    BY <1>1, <2>1, <2>4 DEF SessionInv
  <2> QED
    BY <1>1, <2>2, <2>3, <2>4
<1>3. FreshInv'
  BY <1>1 DEF SessionInv, FreshInv
<1>4. budget' \in Nat
  BY DEF SessionInv, AppFieldsOK
<1>5. AppFieldsOK' /\ ReplyFieldsOK'
  BY <1>4 DEF SessionInv, AppFieldsOK, ReplyFieldsOK
<1> QED
  BY <1>2, <1>3, <1>5 DEF SessionInv

\* Steps that touch neither the lists nor the fields of the reply.
LEMMA InvOtherSteps ==
  ASSUME SessionInv,
         \/ start_message_crash \/ reply_lost \/ process_reply_fails
         \/ end_sequence_crash \/ prv_end_message_cb
         \/ \E code \in HeaderCode : status_header(code)
         \/ UNCHANGED vars
  PROVE  SessionInv'
<1> USE DEF start_message_crash, reply_lost, process_reply_fails, end_sequence_crash,
            prv_end_message_cb, status_header, vars, listVars, seqVars, appVars, authVars, rxVars,
            envVars
<1>1. ListsOK(elem, old_elem, issued, settled)' /\ (message_id \in Nat)'
  BY SameListsOK DEF SameLists
<1>2. FreshInv'
  BY DEF SessionInv, FreshInv
<1>3. faults' \in Nat /\ clt_auth' \in Nat
  BY SessionAssumption DEF SessionInv, AppFieldsOK
<1>4. phase' \in {"idle", "call", "wait", "reply", "done", "crashed", "closed"}
      /\ ret' \in {"NONE", "END", "USAGE", "INTERNAL"}
  BY DEF SessionInv, AppFieldsOK
<1>5. UNCHANGED <<state, account, srv_auth, alert_cb, starts, budget, verdict>>
  OBVIOUS
<1>6. AppFieldsOK'
  BY <1>3, <1>4, <1>5 DEF SessionInv, AppFieldsOK
<1>7. ReplyFieldsOK'
  BY DEF SessionInv, ReplyFieldsOK
<1> QED
  BY <1>1, <1>2, <1>6, <1>7 DEF SessionInv

LEMMA SessionInvNext == SessionInv /\ [SessionNext]_vars => SessionInv'
<1> SUFFICES ASSUME SessionInv, [SessionNext]_vars PROVE SessionInv'
  OBVIOUS
<1>1. CASE ServerCommand
  BY <1>1, InvTreeCommand, InvAlert, InvStartGroup DEF ServerCommand
<1>2. CASE ServerStatus
  BY <1>2, InvStatus, InvOtherSteps DEF ServerStatus
<1>3. CASE Finish
  BY <1>3, InvEndGroup, InvOtherSteps DEF Finish
<1>4. CASE Reply
  BY <1>4, InvStartMessage DEF Reply
<1> QED
  BY <1>1, <1>2, <1>3, <1>4, InvApplication, InvOtherSteps DEF SessionNext

LEMMA SessionInvAlways == SessionSpec => []SessionInv
BY SessionInvInit, SessionInvNext, PTL DEF SessionSpec

-----------------------------------------------------------------------------
(* The theorems                                                            *)

\* The fields of a session keep their types through any number of sessions
\* on the handle: the cells of old_elem with their int8_t numbers, the codes
\* that answer the server, the nesting of a reply.
THEOREM SessionTypeCorrect == SessionSpec => []SessionTypeOK
BY SessionInvMeans, SessionInvAlways, PTL

\* No request of the library is lost or sent from two places: not by package
\* #1, generic alerts added between two calls, errors of the encoder or the
\* parser, statuses in any order, nor a second session on the same handle.
THEOREM SessionLosesNoRequest == SessionSpec => []SessionKeepsRequests
<1>1. SessionInv => SessionKeepsRequests
  BY SessionInvMeans DEF SessionKeepsRequests
<1> QED
  BY <1>1, SessionInvAlways, PTL

-----------------------------------------------------------------------------
(* The log of a reply                                                      *)

\* The places of the open Sequences in nest.
Open == {i \in DOMAIN nest : nest[i].kind = "Sequence"}

\* One Sequence at most is open, and it is the one being processed.
NestInv ==
    /\ \A i, j \in Open : i = j
    /\ \A i \in Open : nest[i].cmd = sequence /\ sequence # 0
    /\ sequence # 0 => Open # {}

\* Commands are logged under their numbers, and after what they are in.
LogInv ==
    /\ nextCmd = Len(log) + 1 /\ Len(log) <= MaxCmds
    /\ \A i \in DOMAIN log : log[i].cmd = i /\ log[i].within \subseteq 1 .. (i - 1)
    /\ sequence # 0 => sequence \in DOMAIN log /\ log[sequence].op = "Sequence"

Confirmed(lg) == {j \in DOMAIN lg : lg[j].op = "confirm" /\ lg[j].ran > 0}

\* What the user said in Sequence s; and before command i, in its Sequence.
SaidIn(lg, s) == {lg[j].said : j \in {k \in Confirmed(lg) : s \in lg[k].within}}
SaidBefore(lg, i) == {lg[j].said : j \in {k \in Confirmed(lg) :
                                              k < i /\ lg[k].within \cap lg[i].within # {}}}

\* seq_code is the last word of the user in the Sequence.
FateInv ==
    sequence # 0 =>
        IF Accepted
        THEN /\ seq_code = SUCCESS <=> SaidIn(log, sequence) \subseteq {SUCCESS}
             /\ seq_code \in {SUCCESS, NOT_MODIFIED}
                  <=> SaidIn(log, sequence) \subseteq {SUCCESS, NOT_MODIFIED}
        ELSE seq_code = srv_auth

ObeyInv == \A i \in DOMAIN log : log[i].ran > 0 => SaidBefore(log, i) \subseteq {SUCCESS}

\* Due, by number; acc says whether the server is accepted.
DueAt(lg, acc, i) ==
    CASE lg[i].op = "Sequence" -> 0
      [] lg[i].op = "Atomic"   -> IF acc THEN 0 ELSE 1
      [] OTHER ->
            IF lg[i].within # {} /\ (~ acc \/ ~ SaidBefore(lg, i) \subseteq {SUCCESS, NOT_MODIFIED})
            THEN 0
            ELSE IF ~ acc THEN 1 ELSE lg[i].items

\* A number that is no command's is due nothing.
DueTo(lg, acc, i) == IF i \in DOMAIN lg THEN DueAt(lg, acc, i) ELSE 0

\* Does e answer command cmd of message ref?
Answering(e, ref, cmd) == e.type = "Status" /\ e.msgRef = ref /\ e.cmdRef = cmd
AnswersIn(list, ref, cmd) == {i \in DOMAIN list : Answering(list[i], ref, cmd)}

\* The Sequences that have ended, by number: all but the one being processed.
Over(lg, s) == {i \in DOMAIN lg : lg[i].op = "Sequence" /\ i # s}

\* Each Sequence that has ended may have answered any number, of a command
\* that came or of one that is still to come.
AnswerInv ==
    \A c \in Nat \ {0} :
        /\ Cardinality(AnswersIn(elem, reply_ref, c)) >= DueTo(log, Accepted, c)
        /\ Cardinality(AnswersIn(elem, reply_ref, c))
             <= DueTo(log, Accepted, c) + Cardinality(Over(log, sequence))

\* No answer is for a message that has not come.
RefInv == \A k \in DOMAIN elem : elem[k].type = "Status" => elem[k].msgRef <= reply_ref

ReplyInv ==
    /\ RefInv
    /\ phase = "reply" => NestInv /\ LogInv /\ FateInv /\ ObeyInv /\ AnswerInv

LEMMA LogTyped ==
  ASSUME SessionInv
  PROVE  /\ Len(log) \in Nat /\ DOMAIN log = 1 .. Len(log) /\ IsSeq(log)
         /\ \A i \in DOMAIN log : log[i] \in LogEntry
         /\ Len(nest) \in Nat /\ DOMAIN nest = 1 .. Len(nest) /\ IsSeq(nest)
         /\ Len(elem) \in Nat /\ DOMAIN elem = 1 .. Len(elem) /\ IsSeq(elem)
         /\ \A i \in DOMAIN elem : elem[i] \in Element
<1> DEFINE N == [kind : {"Atomic", "Sequence"}, cmd : Nat \ {0}]
<1>1. log \in Seq(LogEntry) /\ nest \in Seq(N) /\ elem \in Seq(Element)
  BY DEF SessionInv, ReplyFieldsOK, ListsOK
<1> HIDE DEF N
<1> QED
  BY <1>1, LenProperties, ElementOfSeq, SeqIsSeq

\* Said and Due by number are the Said and Due of the properties.
LEMMA SaidByNumber ==
  ASSUME SessionInv, LogInv, NEW i \in DOMAIN log
  PROVE  Said(log[i]) = SaidBefore(log, i) /\ Due(log[i]) = DueAt(log, Accepted, i)
<1>1. \A k \in DOMAIN log : log[k].cmd = k
  BY DEF LogInv
<1>2. \A k \in DOMAIN log : SameSequence(log[k], log[i]) <=>
                              k < i /\ log[k].within \cap log[i].within # {}
  BY <1>1 DEF SameSequence
<1>3. Said(log[i]) = SaidBefore(log, i)
  BY <1>2 DEF Said, SaidBefore, Confirmed, Entries
<1> QED
  BY <1>3 DEF Due, DueAt

\* In a reply, a command is in the Sequence being processed or in none.
LEMMA EnclosingOne ==
  ASSUME NestInv
  PROVE  Enclosing = IF sequence = 0 THEN {} ELSE {sequence}
<1>1. Enclosing = {nest[i].cmd : i \in Open}
  BY DEF Enclosing, Open
<1> QED
  BY <1>1 DEF NestInv

LEMMA OverEnded ==
  ASSUME SessionInv, NestInv, LogInv
  PROVE  EndedSequences = Over(log, sequence)
<1>1. \A i \in DOMAIN log : log[i].cmd = i
  BY DEF LogInv
<1>2. {e.cmd : e \in {f \in Entries : f.op = "Sequence"}}
        = {i \in DOMAIN log : log[i].op = "Sequence"}
  BY <1>1 DEF Entries
<1>3. \A i \in DOMAIN log : i # 0
  BY LogTyped
<1>4. Enclosing = IF sequence = 0 THEN {} ELSE {sequence}
  BY EnclosingOne
<1> QED
  BY <1>2, <1>3, <1>4 DEF EndedSequences, Over

LEMMA ReplyInvMeans ==
  ASSUME SessionInv, ReplyInv
  PROVE  SequenceObeysUser /\ ItemsAnswered
<1> SUFFICES ASSUME phase = "reply"
             PROVE  \A e \in Entries :
                      /\ e.ran > 0 => Said(e) \subseteq {SUCCESS}
                      /\ Cardinality(Answers(e.cmd)) >= Due(e)
                      /\ Cardinality(Answers(e.cmd)) <= Due(e) + Cardinality(EndedSequences)
  BY DEF SequenceObeysUser, ItemsAnswered
<1>1. NestInv /\ LogInv /\ ObeyInv /\ AnswerInv
  BY DEF ReplyInv
<1>2. \A i \in DOMAIN log : Said(log[i]) = SaidBefore(log, i) /\ Due(log[i]) = DueAt(log, Accepted, i)
  BY <1>1, SaidByNumber
<1>3. \A i \in DOMAIN log : Answers(log[i].cmd) = AnswersIn(elem, reply_ref, i)
  BY <1>1 DEF LogInv, Answers, AnswersIn, Answering
<1>4. EndedSequences = Over(log, sequence)
  BY <1>1, OverEnded
<1>5. \A i \in DOMAIN log : i \in Nat \ {0}
  BY LogTyped
<1> SUFFICES ASSUME NEW i \in DOMAIN log
             PROVE  /\ log[i].ran > 0 => Said(log[i]) \subseteq {SUCCESS}
                    /\ Cardinality(Answers(log[i].cmd)) >= Due(log[i])
                    /\ Cardinality(Answers(log[i].cmd))
                         <= Due(log[i]) + Cardinality(EndedSequences)
  BY DEF Entries
<1>6. DueTo(log, Accepted, i) = Due(log[i])
  BY <1>2 DEF DueTo
<1> QED
  BY <1>1, <1>2, <1>3, <1>4, <1>5, <1>6 DEF ObeyInv, AnswerInv

\* A logged command changes nothing of what was said before.
LEMMA LogStep ==
  ASSUME SessionInv, NestInv, LogInv, NEW op, NEW items, NEW ran, NEW said,
         Command(op, items, ran, said)
  PROVE  /\ nextCmd \in Nat /\ nextCmd = Len(log) + 1 /\ nextCmd <= MaxCmds
         /\ DOMAIN log' = DOMAIN log \cup {nextCmd} /\ nextCmd \notin DOMAIN log
         /\ Len(log') = nextCmd /\ nextCmd' = nextCmd + 1
         /\ \A i \in DOMAIN log : log'[i] = log[i] /\ i \in Nat /\ i < nextCmd
         /\ log'[nextCmd].cmd = nextCmd /\ log'[nextCmd].op = op
         /\ log'[nextCmd].within = Enclosing /\ log'[nextCmd].items = items
         /\ log'[nextCmd].ran = ran /\ log'[nextCmd].said = said
<1> DEFINE n == Len(log) + 1
           e == [cmd |-> nextCmd, op |-> op, within |-> Enclosing,
                 items |-> items, ran |-> ran, said |-> said]
           T == {log[i] : i \in DOMAIN log} \cup {e}
<1>1. /\ Len(log) \in Nat /\ DOMAIN log = 1 .. Len(log)
      /\ log' = Append(log, e) /\ nextCmd' = nextCmd + 1 /\ Len(log) < MaxCmds
      /\ nextCmd = n
  BY LogTyped DEF Command, LogInv
<1>2. log \in Seq(T) /\ e \in T
  <2>1. log \in [1 .. Len(log) -> T]
    <3>1. log \in [1 .. Len(log) -> {log[i] : i \in DOMAIN log}]
      BY LogTyped, LenProperties DEF IsSeq
    <3> QED
      BY <3>1
  <2> HIDE DEF T
  <2>2. log \in Seq(T)
    BY <1>1, <2>1, IsASeq
  <2> QED
    BY <2>2 DEF T
<1> HIDE DEF T
<1>3. /\ Len(log') = Len(log) + 1
      /\ \A i \in 1 .. Len(log) : log'[i] = log[i]
      /\ log'[Len(log) + 1] = e /\ log' \in Seq(T)
  <2> HIDE DEF e
  <2> QED
    BY <1>1, <1>2, AppendProperties
<1>4. DOMAIN log' = 1 .. Len(log) + 1
  BY <1>3, LenProperties
<1>5. log'[nextCmd] = e
  BY <1>1, <1>3
<1>6. /\ e.cmd = nextCmd /\ e.op = op /\ e.within = Enclosing /\ e.items = items
      /\ e.ran = ran /\ e.said = said
  OBVIOUS
<1> HIDE DEF e
<1> QED
  BY <1>1, <1>3, <1>4, <1>5, <1>6, SessionAssumption

LEMMA SaidStep ==
  ASSUME SessionInv, NestInv, LogInv, NEW op, NEW items, NEW ran, NEW said,
         Command(op, items, ran, said)
  PROVE  /\ \A i \in DOMAIN log : SaidBefore(log', i) = SaidBefore(log, i)
         /\ SaidBefore(log', nextCmd) = IF sequence = 0 THEN {} ELSE SaidIn(log, sequence)
         /\ \A s : SaidIn(log', s) = IF op = "confirm" /\ ran > 0 /\ s \in Enclosing
                                     THEN SaidIn(log, s) \cup {said} ELSE SaidIn(log, s)
<1> DEFINE n == nextCmd
           old == Confirmed(log)
           new == Confirmed(log')
<1>1. /\ n \in Nat /\ DOMAIN log' = DOMAIN log \cup {n} /\ n \notin DOMAIN log
      /\ \A i \in DOMAIN log : log'[i] = log[i] /\ i < n /\ i \in Nat
      /\ log'[n].op = op /\ log'[n].within = Enclosing
      /\ log'[n].ran = ran /\ log'[n].said = said
  BY LogStep
<1> HIDE DEF n
<1>3. new = old \cup (IF op = "confirm" /\ ran > 0 THEN {n} ELSE {})
  BY <1>1 DEF Confirmed
<1>4. old \subseteq DOMAIN log
  BY DEF Confirmed
<1> HIDE DEF old, new
<1>5. ASSUME NEW i \in DOMAIN log
      PROVE  SaidBefore(log', i) = SaidBefore(log, i)
  <2>1. ~ (n < i) /\ log'[i] = log[i]
    BY <1>1
  <2>2. {k \in new : k < i /\ log'[k].within \cap log'[i].within # {}} =
          {k \in old : k < i /\ log[k].within \cap log[i].within # {}}
    BY <1>1, <1>3, <1>4, <2>1
  <2> QED
    BY <1>1, <1>4, <2>2 DEF SaidBefore, old, new
<1>6. SaidBefore(log', n) = IF sequence = 0 THEN {} ELSE SaidIn(log, sequence)
  <2>1. SaidBefore(log', n) = {log'[j].said : j \in {k \in new :
                                          k < n /\ log'[k].within \cap log'[n].within # {}}}
    BY <1>1 DEF SaidBefore, new
  <2>2. {k \in new : k < n /\ log'[k].within \cap log'[n].within # {}} =
          {k \in old : log[k].within \cap Enclosing # {}}
    BY <1>1, <1>3, <1>4
  <2>3. Enclosing = IF sequence = 0 THEN {} ELSE {sequence}
    BY EnclosingOne
  <2>4. {k \in old : log[k].within \cap Enclosing # {}} =
          IF sequence = 0 THEN {} ELSE {k \in old : sequence \in log[k].within}
    BY <2>3
  <2> QED
    BY <1>1, <1>4, <2>1, <2>2, <2>4 DEF SaidIn, old
<1>7. ASSUME NEW s
      PROVE  SaidIn(log', s) = IF op = "confirm" /\ ran > 0 /\ s \in Enclosing
                               THEN SaidIn(log, s) \cup {said} ELSE SaidIn(log, s)
  <2>1. SaidIn(log', s) = {log'[j].said : j \in {k \in new : s \in log'[k].within}}
    BY DEF SaidIn, new
  <2>2. {k \in new : s \in log'[k].within} =
          {k \in old : s \in log[k].within}
            \cup (IF op = "confirm" /\ ran > 0 /\ s \in Enclosing THEN {n} ELSE {})
    BY <1>1, <1>3, <1>4
  <2> DEFINE here == {k \in old : s \in log[k].within}
  <2>0. /\ SaidIn(log, s) = {log[j].said : j \in here}
        /\ \A j \in here : log'[j] = log[j]
    BY <1>1, <1>4 DEF SaidIn, old
  <2> HIDE DEF here
  <2>3. CASE op = "confirm" /\ ran > 0 /\ s \in Enclosing
    <3>1. SaidIn(log', s) = {log'[j].said : j \in here \cup {n}}
      BY <2>1, <2>2, <2>3 DEF here
    <3>2. SaidIn(log', s) = {log[j].said : j \in here} \cup {said}
      BY <1>1, <2>0, <3>1
    <3> QED
      BY <2>0, <2>3, <3>2
  <2>4. CASE ~ (op = "confirm" /\ ran > 0 /\ s \in Enclosing)
    <3>1. SaidIn(log', s) = {log'[j].said : j \in here}
      BY <2>1, <2>2, <2>4 DEF here
    <3> QED
      BY <2>0, <2>4, <3>1
  <2> QED
    BY <2>3, <2>4
<1> QED
  BY <1>5, <1>6, <1>7 DEF n

-----------------------------------------------------------------------------
(* The answers in a list                                                   *)

LEMMA CommonSet ==
  ASSUME NEW p, NEW q, IsSeq(p), IsSeq(q)
  PROVE  \E S : p \in Seq(S) /\ q \in Seq(S)
<1> DEFINE S == {p[i] : i \in DOMAIN p} \cup {q[i] : i \in DOMAIN q}
<1>1. /\ p \in [1 .. Len(p) -> {p[i] : i \in DOMAIN p}] /\ Len(p) \in Nat
      /\ q \in [1 .. Len(q) -> {q[i] : i \in DOMAIN q}] /\ Len(q) \in Nat
  BY LenProperties DEF IsSeq
<1>2. p \in [1 .. Len(p) -> S] /\ q \in [1 .. Len(q) -> S]
  BY <1>1
<1> HIDE DEF S
<1>3. p \in Seq(S)
  BY <1>1, <1>2, IsASeq
<1>4. q \in Seq(S)
  BY <1>1, <1>2, IsASeq
<1> QED
  BY <1>3, <1>4

\* Joining a list of which the first m elements answer cmd and the others do
\* not.
LEMMA JoinAnswers ==
  ASSUME NEW list, NEW q, IsSeq(list), IsSeq(q), NEW ref, NEW cmd, NEW m \in 0 .. Len(q),
         \A j \in DOMAIN q : Answering(q[j], ref, cmd) <=> j <= m
  PROVE  AnswersIn(list \o q, ref, cmd) =
            AnswersIn(list, ref, cmd) \cup (Len(list) + 1 .. Len(list) + m)
<1>1. PICK S : list \in Seq(S) /\ q \in Seq(S)
  BY CommonSet
<1>2. /\ list \o q \in Seq(S) /\ Len(list \o q) = Len(list) + Len(q)
      /\ \A k \in 1 .. Len(list) + Len(q) :
            (list \o q)[k] = IF k <= Len(list) THEN list[k] ELSE q[k - Len(list)]
  BY <1>1, ConcatProperties
<1>3. /\ DOMAIN list = 1 .. Len(list) /\ DOMAIN q = 1 .. Len(q)
      /\ DOMAIN (list \o q) = 1 .. Len(list) + Len(q) /\ Len(list) \in Nat /\ Len(q) \in Nat
  BY <1>1, <1>2, LenProperties
<1>4. ASSUME NEW k \in 1 .. Len(list) + Len(q)
      PROVE  Answering((list \o q)[k], ref, cmd) <=>
               \/ k \in DOMAIN list /\ Answering(list[k], ref, cmd)
               \/ k \in Len(list) + 1 .. Len(list) + m
  <2>1. CASE k <= Len(list)
    BY <1>2, <1>3, <2>1
  <2>2. CASE k > Len(list)
    <3>1. (list \o q)[k] = q[k - Len(list)] /\ k - Len(list) \in DOMAIN q
      BY <1>2, <1>3, <2>2
    <3>2. Answering(q[k - Len(list)], ref, cmd) <=> k - Len(list) <= m
      BY <3>1
    <3> QED
      BY <1>3, <2>2, <3>1, <3>2
  <2> QED
    BY <1>3, <2>1, <2>2
<1>5. \A k \in DOMAIN list : k \in 1 .. Len(list) + Len(q)
  BY <1>3
<1>6. \A k \in Len(list) + 1 .. Len(list) + m : k \in 1 .. Len(list) + Len(q)
  BY <1>3
<1> QED
  BY <1>3, <1>4, <1>5, <1>6 DEF AnswersIn

\* Nothing in q answers cmd.
LEMMA JoinOthers ==
  ASSUME NEW list, NEW q, IsSeq(list), IsSeq(q), NEW ref, NEW cmd,
         \A j \in DOMAIN q : ~ Answering(q[j], ref, cmd)
  PROVE  AnswersIn(list \o q, ref, cmd) = AnswersIn(list, ref, cmd)
<1>1. Len(q) \in Nat /\ DOMAIN q = 1 .. Len(q) /\ Len(list) \in Nat
  BY LenProperties DEF IsSeq
<1>2. 0 \in 0 .. Len(q) /\ \A j \in DOMAIN q : Answering(q[j], ref, cmd) <=> j <= 0
  BY <1>1
<1>3. AnswersIn(list \o q, ref, cmd) =
        AnswersIn(list, ref, cmd) \cup (Len(list) + 1 .. Len(list) + 0)
  BY <1>2, JoinAnswers
<1>4. Len(list) + 1 .. Len(list) + 0 = {}
  BY <1>1
<1> QED
  BY <1>3, <1>4

\* ... so that m answers are added.
LEMMA JoinAdds ==
  ASSUME NEW list, NEW q, IsSeq(list), IsSeq(q), NEW ref, NEW cmd, NEW m \in 0 .. Len(q),
         \A j \in DOMAIN q : Answering(q[j], ref, cmd) <=> j <= m
  PROVE  /\ Cardinality(AnswersIn(list, ref, cmd)) \in Nat
         /\ Cardinality(AnswersIn(list \o q, ref, cmd)) = Cardinality(AnswersIn(list, ref, cmd)) + m
<1>1. Len(q) \in Nat /\ Len(list) \in Nat /\ m \in Nat /\ DOMAIN list = 1 .. Len(list)
  BY LenProperties DEF IsSeq
<1> DEFINE first == Len(list) + 1
           last == Len(list) + m
           old == AnswersIn(list, ref, cmd)
<1>2. AnswersIn(list \o q, ref, cmd) = old \cup (first .. last)
  BY JoinAnswers
<1>3. old \subseteq 1 .. Len(list) /\ old \cap (first .. last) = {}
  BY <1>1 DEF AnswersIn
<1>4. first \in Int /\ last \in Int /\ (IF first > last THEN 0 ELSE last - first + 1) = m
  BY <1>1
<1> HIDE DEF first, last, old
<1>5. IsFiniteSet(first .. last) /\ Cardinality(first .. last) = m
  BY <1>4, FS_Interval
<1>6. IsFiniteSet(old) /\ Cardinality(old) \in Nat
  <2>1. IsFiniteSet(1 .. Len(list))
    BY <1>1, FS_Interval
  <2> QED
    BY <1>3, <2>1, FS_Subset, FS_CardinalityType
<1>7. Cardinality(old \cup (first .. last)) = Cardinality(old) + m - Cardinality({})
  <2> DEFINE new == first .. last
  <2>1. IsFiniteSet(new) /\ Cardinality(new) = m /\ old \cap new = {}
    BY <1>3, <1>5
  <2> HIDE DEF new
  <2>2. Cardinality(old \cup new) = Cardinality(old) + Cardinality(new) - Cardinality(old \cap new)
    BY <1>6, <2>1, FS_Union
  <2> QED
    BY <2>1, <2>2 DEF new
<1>8. Cardinality({}) = 0
  BY FS_EmptySet
<1> QED
  BY <1>1, <1>2, <1>6, <1>7, <1>8 DEF old

-----------------------------------------------------------------------------
(* A command of the reply                                                  *)

\* What the command that comes next is due.
DueNew(op, items) ==
    CASE op = "Sequence" -> 0
      [] op = "Atomic"   -> IF Accepted THEN 0 ELSE 1
      [] OTHER ->
            IF /\ sequence # 0
               /\ ~ Accepted \/ ~ SaidIn(log, sequence) \subseteq {SUCCESS, NOT_MODIFIED}
            THEN 0
            ELSE IF ~ Accepted THEN 1 ELSE items

InReply == phase = "reply" /\ NestInv /\ LogInv /\ FateInv /\ ObeyInv /\ AnswerInv

\* The log stays in order, and what ran obeyed the user.
LEMMA CommandKeepsLog ==
  ASSUME SessionInv, InReply, NEW op, NEW items, NEW ran, NEW said,
         Command(op, items, ran, said),
         sequence' = sequence \/ (sequence' = nextCmd /\ op = "Sequence"),
         ran > 0 => sequence = 0 \/ SaidIn(log, sequence) \subseteq {SUCCESS}
  PROVE  LogInv' /\ ObeyInv'
<1> USE DEF InReply
<1>1. /\ nextCmd \in Nat /\ nextCmd = Len(log) + 1 /\ nextCmd <= MaxCmds
      /\ DOMAIN log' = DOMAIN log \cup {nextCmd} /\ nextCmd \notin DOMAIN log
      /\ Len(log') = nextCmd /\ nextCmd' = nextCmd + 1
      /\ \A i \in DOMAIN log : log'[i] = log[i] /\ i \in Nat /\ i < nextCmd
      /\ log'[nextCmd].cmd = nextCmd /\ log'[nextCmd].op = op
      /\ log'[nextCmd].within = Enclosing /\ log'[nextCmd].items = items
      /\ log'[nextCmd].ran = ran /\ log'[nextCmd].said = said
  BY LogStep
<1>2. /\ \A i \in DOMAIN log : SaidBefore(log', i) = SaidBefore(log, i)
      /\ SaidBefore(log', nextCmd) = IF sequence = 0 THEN {} ELSE SaidIn(log, sequence)
  BY SaidStep
<1>3. Enclosing \subseteq 1 .. (nextCmd - 1)
  <2>1. sequence # 0 => sequence \in 1 .. (nextCmd - 1)
    BY <1>1, LogTyped DEF LogInv
  <2> QED
    BY <2>1, EnclosingOne
<1>4. LogInv'
  <2>1. \A i \in DOMAIN log' : log'[i].cmd = i /\ log'[i].within \subseteq 1 .. (i - 1)
    BY <1>1, <1>3 DEF LogInv
  <2>2. sequence' # 0 => sequence' \in DOMAIN log' /\ log'[sequence'].op = "Sequence"
    BY <1>1 DEF LogInv
  <2> QED
    BY <1>1, <2>1, <2>2 DEF LogInv
<1>5. ObeyInv'
  BY <1>1, <1>2 DEF ObeyInv
<1> QED
  BY <1>4, <1>5

LEMMA Joined ==
  ASSUME SessionInv, NEW q, IsSeq(q), elem' = elem \o q
  PROVE  /\ \A i \in DOMAIN elem : i \in DOMAIN elem' /\ elem'[i] = elem[i]
         /\ \A i \in DOMAIN elem' : i \in DOMAIN elem \/ \E j \in DOMAIN q : elem'[i] = q[j]
<1>1. IsSeq(elem)
  BY LogTyped
<1> QED
  BY <1>1, ConcatKeeps

LEMMA RefJoin ==
  ASSUME SessionInv, RefInv, NEW q, IsSeq(q), elem' = elem \o q,
         reply_ref' \in Nat, reply_ref <= reply_ref',
         \A j \in DOMAIN q : q[j].type = "Status" => q[j].msgRef <= reply_ref'
  PROVE  RefInv'
<1>1. /\ \A i \in DOMAIN elem : i \in DOMAIN elem' /\ elem'[i] = elem[i]
      /\ \A i \in DOMAIN elem' : i \in DOMAIN elem \/ \E j \in DOMAIN q : elem'[i] = q[j]
  BY Joined
<1>2. \A i \in DOMAIN elem : elem[i].type = "Status" => elem[i].msgRef \in Nat
  BY LogTyped DEF Element, RequestElem, StatusElem, ResultsElem
<1>3. reply_ref \in Nat
  BY DEF SessionInv, ReplyFieldsOK
<1> QED
  BY <1>1, <1>2, <1>3 DEF RefInv

\* q holds m answers to command cmd, which come first, and to no other.
AnswerList(q, ref, cmd, m) ==
    /\ IsSeq(q) /\ m \in 0 .. Len(q)
    /\ \A j \in DOMAIN q : Answering(q[j], ref, cmd) <=> j <= m
    /\ \A j \in DOMAIN q : q[j].type = "Status" => q[j].msgRef = ref /\ q[j].cmdRef = cmd

LEMMA OverFinite ==
  ASSUME SessionInv, NEW s
  PROVE  IsFiniteSet(Over(log, s)) /\ Cardinality(Over(log, s)) \in Nat
<1>1. Len(log) \in Nat /\ DOMAIN log = 1 .. Len(log)
  BY LogTyped
<1>2. Over(log, s) \subseteq 1 .. Len(log)
  BY <1>1 DEF Over
<1>3. IsFiniteSet(1 .. Len(log))
  BY <1>1, FS_Interval
<1> QED
  BY <1>2, <1>3, FS_Subset, FS_CardinalityType

LEMMA DueTyped ==
  ASSUME SessionInv, NEW c
  PROVE  DueTo(log, Accepted, c) \in Nat
<1>1. c \in DOMAIN log => log[c].items \in Nat
  BY LogTyped DEF LogEntry
<1> QED
  BY <1>1 DEF DueTo, DueAt

\* Exactly the answers that are due are queued.
LEMMA CommandKeepsAnswers ==
  ASSUME SessionInv, RefInv, InReply, NEW op, NEW items, NEW ran, NEW said,
         Command(op, items, ran, said),
         NEW q, NEW m, AnswerList(q, reply_ref, nextCmd, m), elem' = elem \o q,
         m = DueNew(op, items),
         sequence' = IF op = "Sequence" THEN nextCmd ELSE sequence, op = "Sequence" => sequence = 0
  PROVE  RefInv' /\ AnswerInv'
<1> USE DEF InReply
<1>0. /\ IsSeq(q) /\ m \in 0 .. Len(q)
      /\ \A j \in DOMAIN q : Answering(q[j], reply_ref, nextCmd) <=> j <= m
      /\ \A j \in DOMAIN q : q[j].type = "Status" =>
                               q[j].msgRef = reply_ref /\ q[j].cmdRef = nextCmd
  BY DEF AnswerList
<1>1. /\ nextCmd \in Nat /\ nextCmd = Len(log) + 1 /\ nextCmd <= MaxCmds
      /\ DOMAIN log' = DOMAIN log \cup {nextCmd} /\ nextCmd \notin DOMAIN log
      /\ Len(log') = nextCmd /\ nextCmd' = nextCmd + 1
      /\ \A i \in DOMAIN log : log'[i] = log[i] /\ i \in Nat /\ i < nextCmd
      /\ log'[nextCmd].cmd = nextCmd /\ log'[nextCmd].op = op
      /\ log'[nextCmd].within = Enclosing /\ log'[nextCmd].items = items
  BY LogStep
<1>2. /\ \A i \in DOMAIN log : SaidBefore(log', i) = SaidBefore(log, i)
      /\ SaidBefore(log', nextCmd) = IF sequence = 0 THEN {} ELSE SaidIn(log, sequence)
  BY SaidStep
<1>3. reply_ref' = reply_ref /\ Accepted' = Accepted /\ reply_ref \in Nat /\ nextCmd # 0
  BY DEF Command, authVars, Accepted, SessionInv, ReplyFieldsOK
<1>4. RefInv'
  <2>1. \A j \in DOMAIN q : q[j].type = "Status" => q[j].msgRef <= reply_ref'
    BY <1>0, <1>3
  <2> QED
    BY <1>0, <1>3, <2>1, RefJoin
<1>5. /\ \A c \in Nat \ {0, nextCmd} : DueTo(log', Accepted', c) = DueTo(log, Accepted, c)
      /\ DueTo(log, Accepted, nextCmd) = 0 /\ DueTo(log', Accepted', nextCmd) = m
  <2>1. \A i \in DOMAIN log : DueAt(log', Accepted', i) = DueAt(log, Accepted, i)
    BY <1>1, <1>2, <1>3 DEF DueAt
  <2>2. Enclosing # {} <=> sequence # 0
    BY EnclosingOne
  <2>3. DueAt(log', Accepted', nextCmd) = m
    BY <1>1, <1>2, <1>3, <2>2 DEF DueAt, DueNew
  <2> QED
    BY <1>1, <2>1, <2>3 DEF DueTo
<1>6. Over(log', sequence') = Over(log, sequence)
  <2>1. CASE op = "Sequence"
    <3>1. \A i \in DOMAIN log : i # 0
      BY LogTyped
    <3> QED
      BY <1>1, <2>1, <3>1 DEF Over
  <2>2. CASE op # "Sequence"
    BY <1>1, <2>2 DEF Over
  <2> QED
    BY <2>1, <2>2
<1>7. ASSUME NEW c \in Nat \ {0}
      PROVE  /\ Cardinality(AnswersIn(elem', reply_ref', c)) >= DueTo(log', Accepted', c)
             /\ Cardinality(AnswersIn(elem', reply_ref', c))
                  <= DueTo(log', Accepted', c) + Cardinality(Over(log', sequence'))
  <2>1. /\ Cardinality(AnswersIn(elem, reply_ref, c)) >= DueTo(log, Accepted, c)
        /\ Cardinality(AnswersIn(elem, reply_ref, c))
             <= DueTo(log, Accepted, c) + Cardinality(Over(log, sequence))
    BY DEF AnswerInv
  <2>2. CASE c # nextCmd
    <3>1. \A j \in DOMAIN q : ~ Answering(q[j], reply_ref, c)
      BY <1>0, <2>2 DEF Answering
    <3>2. AnswersIn(elem', reply_ref', c) = AnswersIn(elem, reply_ref, c)
      BY <1>0, <1>3, <3>1, LogTyped, JoinOthers
    <3> QED
      BY <1>5, <1>6, <2>1, <2>2, <3>2
  <2>3. CASE c = nextCmd
    <3>1. /\ Cardinality(AnswersIn(elem, reply_ref, c)) \in Nat
          /\ Cardinality(AnswersIn(elem', reply_ref', c))
               = Cardinality(AnswersIn(elem, reply_ref, c)) + m
      BY <1>0, <1>3, <2>3, LogTyped, JoinAdds
    <3>2. Cardinality(Over(log, sequence)) \in Nat
      BY OverFinite
    <3>3. DueTo(log, Accepted, c) = 0 /\ DueTo(log', Accepted', c) = m
      BY <1>5, <2>3
    <3>4. m \in Nat
      BY <1>0, LenProperties DEF IsSeq
    <3> QED
      BY <1>6, <2>1, <3>1, <3>2, <3>3, <3>4
  <2> QED
    BY <2>2, <2>3
<1> QED
  BY <1>4, <1>7 DEF AnswerInv

\* The reply goes on after a command.
LEMMA CommandKeepsReply ==
  ASSUME SessionInv, RefInv, InReply, NEW op, NEW items, NEW ran, NEW said,
         Command(op, items, ran, said),
         sequence' = IF op = "Sequence" THEN nextCmd ELSE sequence, op = "Sequence" => sequence = 0,
         ran > 0 => sequence = 0 \/ SaidIn(log, sequence) \subseteq {SUCCESS},
         NEW q, NEW m, AnswerList(q, reply_ref, nextCmd, m), elem' = elem \o q,
         m = DueNew(op, items),
         NestInv', FateInv'
  PROVE  ReplyInv'
<1>1. LogInv' /\ ObeyInv'
  BY CommandKeepsLog
<1>2. RefInv' /\ AnswerInv'
  BY CommandKeepsAnswers
<1> QED
  BY <1>1, <1>2 DEF ReplyInv

\* No answer, and one.
LEMMA NoneQueued ==
  ASSUME SessionInv, elem' = elem, NEW ref, NEW cmd
  PROVE  \E q : elem' = elem \o q /\ AnswerList(q, ref, cmd, 0)
<1>1. elem \in Seq(Element)
  BY DEF SessionInv, ListsOK
<1>2. elem \o <<>> = elem
  BY <1>1
<1>3. IsSeq(<<>>)
  BY EmptySeq, SeqIsSeq
<1>4. Len(<<>>) = 0 /\ DOMAIN <<>> = {}
  OBVIOUS
<1>5. AnswerList(<<>>, ref, cmd, 0)
  BY <1>3, <1>4 DEF AnswerList
<1> QED
  BY <1>2, <1>5

LEMMA OneQueued ==
  ASSUME NEW ref, NEW code, NEW cmd
  PROVE  AnswerList(<<create_status(ref, code, cmd)>>, ref, cmd, 1)
<1> DEFINE st == create_status(ref, code, cmd)
           q == <<st>>
<1>1. Answering(st, ref, cmd) /\ st.msgRef = ref /\ st.cmdRef = cmd
  BY DEF create_status, Answering
<1> HIDE DEF st
<1>2. IsSeq(q) /\ DOMAIN q = {1} /\ q[1] = st
  BY OneElement
<1>3. Len(q) = 1
  OBVIOUS
<1>4. 1 \in 0 .. Len(q)
  BY <1>3
<1> HIDE DEF q
<1>5. AnswerList(q, ref, cmd, 1)
  BY <1>1, <1>2, <1>4 DEF AnswerList
<1> QED
  BY <1>5 DEF q, st

\* One for each item, and then perhaps a result.
LEMMA ItemsQueued ==
  ASSUME NEW ref, NEW cmd, NEW n \in Nat, NEW codes, DOMAIN codes = 1 .. n,
         NEW tail, IsSeq(tail), \A j \in DOMAIN tail : tail[j].type # "Status",
         NEW q, q = StatusPerItem(ref, cmd, codes) \o tail
  PROVE  AnswerList(q, ref, cmd, n)
<1> DEFINE st == StatusPerItem(ref, cmd, codes)
<1>0. q = st \o tail
  OBVIOUS
<1>1. DOMAIN st = 1 .. n /\ IsSeq(st)
      /\ \A j \in 1 .. n : Answering(st[j], ref, cmd) /\ st[j].msgRef = ref /\ st[j].cmdRef = cmd
  <2>1. DOMAIN st = 1 .. n /\ \A j \in 1 .. n : st[j] = create_status(ref, codes[j], cmd)
    BY DEF StatusPerItem
  <2>2. IsSeq(st)
    BY StatusesAreSeq
  <2> HIDE DEF st
  <2>3. \A c : LET e == create_status(ref, c, cmd)
               IN  Answering(e, ref, cmd) /\ e.msgRef = ref /\ e.cmdRef = cmd
    BY DEF create_status, Answering
  <2> QED
    BY <2>1, <2>2, <2>3
<1> HIDE DEF st
<1>2. Len(st) = n
  <2>1. Len(st) \in Nat /\ 1 .. Len(st) = 1 .. n
    BY <1>1, LenProperties DEF IsSeq
  <2> QED
    BY <2>1
<1>4. PICK S : st \in Seq(S) /\ tail \in Seq(S)
  BY <1>1, CommonSet
<1>5. /\ q \in Seq(S) /\ Len(q) = n + Len(tail) /\ Len(tail) \in Nat
      /\ \A k \in 1 .. n + Len(tail) : q[k] = IF k <= n THEN st[k] ELSE tail[k - n]
  <2>1. Len(tail) \in Nat
    BY <1>4, LenProperties
  <2>2. /\ st \o tail \in Seq(S) /\ Len(st \o tail) = Len(st) + Len(tail)
        /\ \A k \in 1 .. Len(st) + Len(tail) :
              (st \o tail)[k] = IF k <= Len(st) THEN st[k] ELSE tail[k - Len(st)]
    BY <1>4, ConcatProperties
  <2> QED
    BY <1>0, <1>2, <2>1, <2>2
<1>6. DOMAIN q = 1 .. n + Len(tail) /\ DOMAIN tail = 1 .. Len(tail) /\ IsSeq(q)
  BY <1>4, <1>5, LenProperties, SeqIsSeq
<1>7. \A k \in DOMAIN q : IF k <= n THEN k \in 1 .. n /\ q[k] = st[k] ELSE q[k].type # "Status"
  <2> SUFFICES ASSUME NEW k \in 1 .. n + Len(tail)
               PROVE  IF k <= n THEN k \in 1 .. n /\ q[k] = st[k] ELSE q[k].type # "Status"
    BY <1>6
  <2>1. CASE k <= n
    BY <1>5, <2>1
  <2>2. CASE ~ (k <= n)
    <3>1. k - n \in DOMAIN tail /\ q[k] = tail[k - n]
      BY <1>5, <1>6, <2>2
    <3> QED
      BY <2>2, <3>1
  <2> QED
    BY <2>1, <2>2
<1>8. /\ n \in 0 .. Len(q)
      /\ \A j \in DOMAIN q : Answering(q[j], ref, cmd) <=> j <= n
      /\ \A j \in DOMAIN q : q[j].type = "Status" => q[j].msgRef = ref /\ q[j].cmdRef = cmd
  BY <1>1, <1>5, <1>7 DEF Answering
<1> QED
  BY <1>6, <1>8 DEF AnswerList

\* What seq_code says of the command that comes next.
LEMMA FateRead ==
  ASSUME SessionInv, InReply
  PROVE  /\ SequenceStopped <=>
              /\ sequence # 0
              /\ ~ Accepted \/ ~ SaidIn(log, sequence) \subseteq {SUCCESS, NOT_MODIFIED}
         /\ ~ SequenceStopped /\ ~ SequenceAborted =>
              sequence = 0 \/ SaidIn(log, sequence) \subseteq {SUCCESS}
<1>1. sequence # 0 /\ ~ Accepted => seq_code \notin {SUCCESS, NOT_MODIFIED}
  BY DEF InReply, FateInv, SessionInv, AppFieldsOK, Accepted, SUCCESS, NOT_MODIFIED, NONE,
         AUTHENTICATION_ACCEPTED, INVALID_CREDENTIALS
<1> QED
  BY <1>1 DEF InReply, FateInv, SequenceStopped, SequenceAborted

LEMMA DueRead ==
  ASSUME SessionInv, InReply, NEW op, NEW items, op # "Atomic"
  PROVE  DueNew(op, items) = IF op = "Sequence" \/ SequenceStopped THEN 0
                             ELSE IF ~ Accepted THEN 1 ELSE items
BY FateRead DEF DueNew

\* The Sequence goes on, and the user was not heard in it.
LEMMA SameFate ==
  ASSUME SessionInv, InReply, NEW op, NEW items, NEW ran, NEW said,
         Command(op, items, ran, said), sequence' = sequence, seq_code' = seq_code,
         op = "confirm" => ran = 0
  PROVE  FateInv'
<1>1. SaidIn(log', sequence) = SaidIn(log, sequence)
  BY SaidStep DEF InReply
<1>2. Accepted' = Accepted /\ srv_auth' = srv_auth
  BY DEF Command, authVars, Accepted
<1> QED
  BY <1>1, <1>2 DEF FateInv, InReply

LEMMA ReplyTreeCommand ==
  ASSUME SessionInv, ReplyInv, NEW op \in TreeOp, NEW codes \in Codes, TreeCommand(op, codes)
  PROVE  ReplyInv'
<1> DEFINE read == Cardinality({i \in DOMAIN codes : codes[i] = SUCCESS})
           results == [type |-> "Results", msgRef |-> reply_ref, cmdRef |-> nextCmd,
                       items |-> read]
           none == [i \in DOMAIN codes |-> NOT_EXECUTED]
           tail == IF op = "Get" /\ read > 0 THEN <<results>> ELSE <<>>
           items == StatusPerItem(reply_ref, nextCmd, codes) \o tail
           skipped == StatusPerItem(reply_ref, nextCmd, none)
           one == <<create_status(reply_ref, srv_auth, nextCmd)>>
           n == Len(codes)
           same == UNCHANGED <<sequence, seq_code, nest>>
<1>1. n \in Nat /\ DOMAIN codes = 1 .. n /\ op \notin {"Atomic", "Sequence", "confirm"}
  <2>1. PICK k \in 0 .. MaxItems : codes \in [1 .. k -> TreeCode]
    BY DEF Codes
  <2>2. codes \in Seq(TreeCode)
    BY <2>1, SessionAssumption, IsASeq
  <2> QED
    BY <2>2, LenProperties, SessionAssumption
<1>2. same
  BY DEF TreeCommand, seqVars
<1>3. /\ IsSeq(<<>>) /\ \A j \in DOMAIN <<>> : <<>>[j].type # "Status"
      /\ IsSeq(tail) /\ \A j \in DOMAIN tail : tail[j].type # "Status"
  <2>1. IsSeq(<<>>) /\ DOMAIN <<>> = {}
    <3>1. IsSeq(<<>>)
      BY EmptySeq, SeqIsSeq
    <3> QED
      BY <3>1
  <2>2. results.type # "Status"
    OBVIOUS
  <2> HIDE DEF results
  <2>3. IsSeq(<<results>>) /\ DOMAIN <<results>> = {1} /\ <<results>>[1] = results
    BY OneElement
  <2>4. CASE tail = <<results>>
    BY <2>1, <2>2, <2>3, <2>4
  <2>5. CASE tail = <<>>
    BY <2>1, <2>5
  <2> QED
    BY <2>4, <2>5 DEF tail
<1>4. \/ /\ SequenceStopped /\ Command(op, n, 0, NONE) /\ elem' = elem
      \/ /\ ~ SequenceStopped /\ ~ Accepted /\ Command(op, n, 0, NONE) /\ elem' = elem \o one
      \/ /\ ~ SequenceStopped /\ Accepted /\ Command(op, n, 0, NONE) /\ elem' = elem \o skipped
      \/ /\ ~ SequenceStopped /\ Accepted /\ ~ SequenceAborted
         /\ Command(op, n, n, NONE) /\ elem' = elem \o items
  BY DEF TreeCommand, Answer
<1> HIDE DEF items, skipped, one, tail, results, none
<1>5. RefInv /\ InReply
  BY <1>4 DEF ReplyInv, InReply, Command
<1>6. NestInv'
  BY <1>2, <1>5 DEF InReply, NestInv, Open
<1>7. ASSUME NEW ran, Command(op, n, ran, NONE)
      PROVE  FateInv'
  BY <1>1, <1>2, <1>5, <1>7, SameFate
<1>8. ASSUME NEW ran, Command(op, n, ran, NONE),
             ran > 0 => sequence = 0 \/ SaidIn(log, sequence) \subseteq {SUCCESS},
             NEW q, NEW m, AnswerList(q, reply_ref, nextCmd, m), elem' = elem \o q,
             m = IF SequenceStopped THEN 0 ELSE IF ~ Accepted THEN 1 ELSE n
      PROVE  ReplyInv'
  <2>1. m = DueNew(op, n)
    BY <1>1, <1>5, <1>8, DueRead
  <2>2. NestInv' /\ FateInv' /\ sequence' = sequence
    BY <1>2, <1>6, <1>7, <1>8
  <2>3. sequence' = (IF op = "Sequence" THEN nextCmd ELSE sequence) /\ op # "Sequence"
    BY <1>1, <2>2
  <2> QED
    BY <1>5, <1>8, <2>1, <2>2, <2>3, CommandKeepsReply
<1> HIDE DEF n
<1>9. CASE SequenceStopped /\ Command(op, n, 0, NONE) /\ elem' = elem
  <2>1. PICK q : elem' = elem \o q /\ AnswerList(q, reply_ref, nextCmd, 0)
    BY <1>9, NoneQueued
  <2> QED
    BY <1>8, <1>9, <2>1
<1>10. CASE ~ SequenceStopped /\ ~ Accepted /\ Command(op, n, 0, NONE) /\ elem' = elem \o one
  <2>1. AnswerList(one, reply_ref, nextCmd, 1)
    BY OneQueued DEF one
  <2> QED
    BY <1>8, <1>10, <2>1
<1>11. CASE ~ SequenceStopped /\ Accepted /\ Command(op, n, 0, NONE) /\ elem' = elem \o skipped
  <2>1. DOMAIN none = 1 .. n
    BY <1>1 DEF none
  <2>2. skipped = StatusPerItem(reply_ref, nextCmd, none) \o <<>>
    <3>1. IsSeq(skipped)
      BY <1>1, <2>1, StatusesAreSeq DEF skipped
    <3>2. PICK S : skipped \in Seq(S)
      BY <3>1, CommonSet
    <3> QED
      BY <3>2 DEF skipped
  <2>3. AnswerList(skipped, reply_ref, nextCmd, n)
    BY <1>1, <1>3, <2>1, <2>2, ItemsQueued
  <2> QED
    BY <1>8, <1>11, <2>3
<1>12. CASE /\ ~ SequenceStopped /\ Accepted /\ ~ SequenceAborted
            /\ Command(op, n, n, NONE) /\ elem' = elem \o items
  <2>1. items = StatusPerItem(reply_ref, nextCmd, codes) \o tail
    BY DEF items
  <2>2. AnswerList(items, reply_ref, nextCmd, n)
    BY <1>1, <1>3, <2>1, ItemsQueued
  <2>3. sequence = 0 \/ SaidIn(log, sequence) \subseteq {SUCCESS}
    BY <1>5, <1>12, FateRead
  <2> QED
    BY <1>8, <1>12, <2>2, <2>3
<1> QED
  BY <1>4, <1>9, <1>10, <1>11, <1>12

LEMMA ReplyAlert ==
  ASSUME SessionInv, ReplyInv, NEW ui \in {"none", "inform", "confirm"}, NEW code \in UserCode,
         prv_alert_cmd_cb(ui, code)
  PROVE  ReplyInv'
<1> DEFINE one(c) == <<create_status(reply_ref, c, nextCmd)>>
<1>1. ui \notin {"Atomic", "Sequence"}
  OBVIOUS
<1>2. UNCHANGED <<sequence, nest>>
  BY DEF prv_alert_cmd_cb
<1>3. \/ /\ SequenceStopped /\ Command(ui, 1, 0, NONE) /\ elem' = elem /\ seq_code' = seq_code
      \/ /\ ~ SequenceStopped /\ Command(ui, 1, 0, NONE) /\ elem' = elem \o one(Refusal(ui))
         /\ seq_code' = seq_code
      \/ /\ AsksUser(ui) /\ Command(ui, 1, 1, code) /\ elem' = elem \o one(code)
         /\ seq_code' = IF sequence # 0 /\ ui = "confirm" THEN code ELSE seq_code
  BY DEF prv_alert_cmd_cb, Answer
<1> HIDE DEF one
<1>4. RefInv /\ InReply
  BY <1>3 DEF ReplyInv, InReply, Command
<1>5. NestInv'
  BY <1>2, <1>4 DEF InReply, NestInv, Open
<1>6. \A c : AnswerList(one(c), reply_ref, nextCmd, 1)
  BY OneQueued DEF one
<1>7. DueNew(ui, 1) = IF SequenceStopped THEN 0 ELSE 1
  BY <1>1, <1>4, DueRead
<1>8. CASE SequenceStopped /\ Command(ui, 1, 0, NONE) /\ elem' = elem /\ seq_code' = seq_code
  <2>1. PICK q : elem' = elem \o q /\ AnswerList(q, reply_ref, nextCmd, 0)
    BY <1>8, NoneQueued
  <2>2. FateInv'
    BY <1>2, <1>4, <1>8, SameFate
  <2> QED
    BY <1>2, <1>4, <1>5, <1>7, <1>8, <2>1, <2>2, CommandKeepsReply
<1>9. CASE /\ ~ SequenceStopped /\ Command(ui, 1, 0, NONE) /\ elem' = elem \o one(Refusal(ui))
           /\ seq_code' = seq_code
  <2>2. FateInv'
    BY <1>2, <1>4, <1>9, SameFate
  <2> QED
    BY <1>2, <1>4, <1>5, <1>6, <1>7, <1>9, <2>2, CommandKeepsReply
<1>10. CASE /\ AsksUser(ui) /\ Command(ui, 1, 1, code) /\ elem' = elem \o one(code)
            /\ seq_code' = IF sequence # 0 /\ ui = "confirm" THEN code ELSE seq_code
  <2>1. ~ SequenceStopped /\ ~ SequenceAborted /\ Accepted
    BY <1>10 DEF AsksUser
  <2>2. sequence = 0 \/ SaidIn(log, sequence) \subseteq {SUCCESS}
    BY <1>4, <2>1, FateRead
  <2>3. SaidIn(log', sequence) = IF ui = "confirm" /\ sequence \in Enclosing
                                 THEN SaidIn(log, sequence) \cup {code}
                                 ELSE SaidIn(log, sequence)
    BY <1>4, <1>10, SaidStep DEF InReply
  <2>4. sequence # 0 => sequence \in Enclosing
    BY <1>4, EnclosingOne DEF InReply
  <2>5. Accepted'
    BY <1>10, <2>1 DEF Command, authVars, Accepted
  <2>6. FateInv'
    <3>1. CASE sequence = 0
      BY <1>2, <3>1 DEF FateInv
    <3>2. CASE sequence # 0 /\ ui = "confirm"
      <4>1. /\ SaidIn(log', sequence) = SaidIn(log, sequence) \cup {code} /\ seq_code' = code
            /\ SaidIn(log, sequence) \subseteq {SUCCESS}
        BY <1>10, <2>2, <2>3, <2>4, <3>2
      <4> QED
        BY <1>2, <2>5, <3>2, <4>1 DEF FateInv
    <3>3. CASE sequence # 0 /\ ui # "confirm"
      BY <1>2, <1>4, <1>10, <2>1, <2>3, <2>5, <3>3 DEF FateInv, InReply
    <3> QED
      BY <3>1, <3>2, <3>3
  <2> QED
    BY <1>1, <1>2, <1>4, <1>5, <1>6, <1>7, <1>10, <2>1, <2>2, <2>6, CommandKeepsReply
<1> QED
  BY <1>3, <1>8, <1>9, <1>10

-----------------------------------------------------------------------------
(* Sequence and Atomic                                                     *)

\* One more element at the end of nest.
LEMMA NestGrows ==
  ASSUME SessionInv, NEW kind, NEW cmd, nest' = Append(nest, [kind |-> kind, cmd |-> cmd])
  PROVE  /\ Open' = IF kind = "Sequence" THEN Open \cup {Len(nest) + 1} ELSE Open
         /\ \A i \in Open : nest'[i] = nest[i] /\ i # Len(nest) + 1
         /\ nest'[Len(nest) + 1].cmd = cmd
<1> DEFINE e == [kind |-> kind, cmd |-> cmd]
<1>1. e.kind = kind /\ e.cmd = cmd
  OBVIOUS
<1>2. nest' = Append(nest, e)
  OBVIOUS
<1> HIDE DEF e
<1>3. IsSeq(nest) /\ Len(nest) \in Nat /\ DOMAIN nest = 1 .. Len(nest)
  BY LogTyped
<1>4. nest' = nest \o <<e>>
  BY <1>2, <1>3, AppendJoins
<1>5. IsSeq(<<e>>) /\ DOMAIN <<e>> = {1} /\ <<e>>[1] = e
  BY OneElement
<1>6. PICK S : nest \in Seq(S) /\ <<e>> \in Seq(S)
  BY <1>3, <1>5, CommonSet
<1>7. e \in S
  BY <1>5, <1>6, ElementOfSeq
<1>8. /\ Len(nest') = Len(nest) + 1 /\ nest' \in Seq(S) /\ nest'[Len(nest) + 1] = e
      /\ \A i \in 1 .. Len(nest) : nest'[i] = nest[i]
  BY <1>2, <1>6, <1>7, AppendProperties
<1>9. DOMAIN nest' = 1 .. Len(nest) + 1
  BY <1>8, LenProperties
<1>10. \A i \in DOMAIN nest' : i \in DOMAIN nest \/ i = Len(nest) + 1
  BY <1>3, <1>9
<1>11. \A i \in DOMAIN nest : i \in DOMAIN nest' /\ nest'[i] = nest[i] /\ i # Len(nest) + 1
  BY <1>3, <1>8, <1>9
<1>12. Len(nest) + 1 \in DOMAIN nest' /\ nest'[Len(nest) + 1] = e
  BY <1>3, <1>8, <1>9
<1> QED
  BY <1>1, <1>10, <1>11, <1>12 DEF Open

\* The last element of nest goes.
LEMMA NestShrinks ==
  ASSUME SessionInv, nest # <<>>, Leave
  PROVE  /\ Open' = Open \ {Len(nest)} /\ Len(nest) \in DOMAIN nest
         /\ \A i \in Open' : nest'[i] = nest[i]
<1> DEFINE N == [kind : {"Atomic", "Sequence"}, cmd : Nat \ {0}]
<1>1. nest \in Seq(N)
  BY DEF SessionInv, ReplyFieldsOK
<1> HIDE DEF N
<1>2. Len(nest) \in Nat \ {0} /\ DOMAIN nest = 1 .. Len(nest)
  BY <1>1, LenProperties, EmptySeq
<1>3. /\ Len(nest') = Len(nest) - 1 /\ DOMAIN nest' = 1 .. Len(nest) - 1
      /\ \A i \in 1 .. Len(nest) - 1 : nest'[i] = nest[i]
  <2>1. \A i \in 1 .. Len(nest) - 1 : i \in DOMAIN nest
    BY <1>2
  <2> QED
    BY <1>1, <1>2, <2>1 DEF Leave
<1>4. \A i : i \in DOMAIN nest' <=> i \in DOMAIN nest /\ i # Len(nest)
  BY <1>2, <1>3
<1> QED
  BY <1>2, <1>3, <1>4 DEF Open

LEMMA ReplyStartAtomic ==
  ASSUME SessionInv, ReplyInv, prv_start_atomic_cb
  PROVE  ReplyInv'
<1> DEFINE one == <<create_status(reply_ref, srv_auth, nextCmd)>>
<1>1. /\ Command("Atomic", 1, 0, NONE)
      /\ nest' = Append(nest, [kind |-> "Atomic", cmd |-> nextCmd])
      /\ IF Accepted THEN elem' = elem ELSE elem' = elem \o one
      /\ sequence' = sequence /\ seq_code' = seq_code
  BY DEF prv_start_atomic_cb, seqVars, Answer
<1> HIDE DEF one
<1>2. RefInv /\ InReply
  BY <1>1 DEF ReplyInv, InReply, Command
<1>3. Open' = Open /\ \A i \in Open : nest'[i] = nest[i]
  <2>1. /\ Open' = IF "Atomic" = "Sequence" THEN Open \cup {Len(nest) + 1} ELSE Open
        /\ \A i \in Open : nest'[i] = nest[i]
    BY <1>1, NestGrows
  <2> QED
    BY <2>1
<1>4. NestInv'
  BY <1>1, <1>2, <1>3 DEF InReply, NestInv
<1>5. FateInv'
  BY <1>1, <1>2, SameFate
<1>6. DueNew("Atomic", 1) = IF Accepted THEN 0 ELSE 1
  BY DEF DueNew
<1>7. PICK q, m : elem' = elem \o q /\ AnswerList(q, reply_ref, nextCmd, m)
                     /\ m = DueNew("Atomic", 1)
  <2>1. AnswerList(one, reply_ref, nextCmd, 1)
    BY OneQueued DEF one
  <2>2. CASE Accepted
    <3>1. PICK q : elem' = elem \o q /\ AnswerList(q, reply_ref, nextCmd, 0)
      BY <1>1, <2>2, NoneQueued
    <3> QED
      BY <1>6, <2>2, <3>1
  <2>3. CASE ~ Accepted
    BY <1>1, <1>6, <2>1, <2>3
  <2> QED
    BY <2>2, <2>3
<1>8. ~ 0 > 0
  OBVIOUS
<1> QED
  BY <1>1, <1>2, <1>4, <1>5, <1>7, <1>8, CommandKeepsReply

\* A Sequence begins outside of any other, and nothing was said in it yet.
LEMMA ReplyStartSequence ==
  ASSUME SessionInv, ReplyInv, MaxSequence <= 1, prv_start_sequence_cb
  PROVE  ReplyInv'
<1>1. /\ Command("Sequence", 1, 0, NONE) /\ Cardinality(Enclosing) < MaxSequence
      /\ nest' = Append(nest, [kind |-> "Sequence", cmd |-> nextCmd])
      /\ sequence' = nextCmd /\ seq_code' = (IF Accepted THEN SUCCESS ELSE srv_auth)
      /\ elem' = elem
  BY DEF prv_start_sequence_cb
<1>2. RefInv /\ InReply
  BY <1>1 DEF ReplyInv, InReply, Command
<1>3. sequence = 0 /\ Open = {}
  <2>1. sequence # 0 => Cardinality(Enclosing) = 1
    <3>1. sequence # 0 => Enclosing = {sequence}
      BY <1>2, EnclosingOne DEF InReply
    <3> QED
      BY <3>1, FS_Singleton
  <2>2. sequence = 0
    BY <1>1, <2>1, SessionAssumption
  <2> QED
    BY <1>2, <2>2 DEF InReply, NestInv
<1>4. NestInv'
  <2>1. /\ Open' = {Len(nest) + 1} /\ nest'[Len(nest) + 1].cmd = nextCmd
    BY <1>1, <1>3, NestGrows
  <2>2. nextCmd # 0
    BY DEF SessionInv, ReplyFieldsOK
  <2> QED
    BY <1>1, <2>1, <2>2 DEF NestInv
<1>5. SaidIn(log', nextCmd) = {}
  <2>1. SaidIn(log', nextCmd) = SaidIn(log, nextCmd)
    BY <1>1, <1>2, SaidStep DEF InReply
  <2>2. \A k \in DOMAIN log : nextCmd \notin log[k].within
    <3> SUFFICES ASSUME NEW k \in DOMAIN log
                 PROVE  nextCmd \notin log[k].within
      OBVIOUS
    <3>1. log[k].within \subseteq 1 .. (k - 1) /\ nextCmd = Len(log) + 1
      BY <1>2 DEF InReply, LogInv
    <3>2. k \in 1 .. Len(log) /\ Len(log) \in Nat
      BY LogTyped
    <3> QED
      BY <3>1, <3>2
  <2> QED
    BY <2>1, <2>2 DEF SaidIn, Confirmed
<1>6. FateInv'
  <2>1. Accepted' = Accepted /\ srv_auth' = srv_auth
    BY <1>1 DEF Command, authVars, Accepted
  <2> QED
    BY <1>1, <1>5, <2>1 DEF FateInv
<1>7. PICK q : elem' = elem \o q /\ AnswerList(q, reply_ref, nextCmd, 0)
  BY <1>1, NoneQueued
<1>8. DueNew("Sequence", 1) = 0 /\ ~ 0 > 0
  BY DEF DueNew
<1> QED
  BY <1>1, <1>2, <1>3, <1>4, <1>6, <1>7, <1>8, CommandKeepsReply

LEMMA ReplyEndAtomic ==
  ASSUME SessionInv, ReplyInv, prv_end_atomic_cb
  PROVE  ReplyInv'
<1>1. /\ phase = "reply" /\ phase' = phase /\ nest # <<>> /\ nest[Len(nest)].kind = "Atomic" /\ Leave
      /\ UNCHANGED <<elem, sequence, seq_code, srv_auth, reply_ref, nextCmd, log>>
  BY DEF prv_end_atomic_cb, Innermost, listVars, seqVars, authVars
<1>2. Open' = Open /\ \A i \in Open : nest'[i] = nest[i]
  <2>1. Open' = Open \ {Len(nest)} /\ \A i \in Open' : nest'[i] = nest[i]
    BY <1>1, NestShrinks
  <2>2. Len(nest) \notin Open
    BY <1>1 DEF Open
  <2> QED
    BY <2>1, <2>2
<1>3. NestInv'
  BY <1>1, <1>2 DEF ReplyInv, NestInv
<1>4. Accepted' = Accepted
  BY <1>1 DEF Accepted
<1>5. LogInv' /\ FateInv' /\ ObeyInv'
  BY <1>1, <1>4 DEF ReplyInv, LogInv, FateInv, ObeyInv
<1>6. AnswerInv' /\ RefInv'
  BY <1>1, <1>4 DEF ReplyInv, AnswerInv, RefInv
<1> QED
  BY <1>3, <1>5, <1>6 DEF ReplyInv

\* The status of a Sequence answers one number, whatever it is read as.
LEMMA ReplyEndSequence ==
  ASSUME SessionInv, ReplyInv, NEW cmdRef \in {sequence, 0} \cup StaleRef,
         prv_end_sequence_cb(cmdRef)
  PROVE  ReplyInv'
<1> DEFINE q == <<create_status(reply_ref, seq_code, cmdRef)>>
<1>1. /\ phase = "reply" /\ phase' = phase /\ nest # <<>> /\ nest[Len(nest)].kind = "Sequence" /\ Leave
      /\ UNCHANGED <<srv_auth, reply_ref, nextCmd, log>>
      /\ sequence' = 0 /\ elem' = elem \o q
      /\ cmdRef \in (IF sequence = 0 THEN {0} ELSE {sequence} \cup StaleRef)
  BY DEF prv_end_sequence_cb, Innermost, Answer, authVars
<1>2. InReply /\ RefInv
  BY <1>1 DEF ReplyInv, InReply
<1>3. AnswerList(q, reply_ref, cmdRef, 1) /\ DOMAIN q = {1}
  BY OneQueued
<1> HIDE DEF q
<1>4. NestInv' /\ FateInv'
  <2>1. Open' = Open \ {Len(nest)} /\ Len(nest) \in Open
    BY <1>1, NestShrinks DEF Open
  <2>2. Open' = {}
    BY <1>2, <2>1 DEF InReply, NestInv
  <2> QED
    BY <1>1, <2>2 DEF NestInv, FateInv
<1>5. Accepted' = Accepted /\ reply_ref \in Nat
  BY <1>1, CodesTyped DEF Accepted
<1>6. LogInv' /\ ObeyInv'
  BY <1>1, <1>2 DEF InReply, LogInv, ObeyInv
<1>7. /\ IsSeq(q)
      /\ \A j \in DOMAIN q : q[j].type = "Status" => q[j].msgRef = reply_ref /\ q[j].cmdRef = cmdRef
  BY <1>3 DEF AnswerList
<1>8. RefInv'
  <2>1. \A j \in DOMAIN q : q[j].type = "Status" => q[j].msgRef <= reply_ref'
    BY <1>1, <1>5, <1>7
  <2>2. IsSeq(q) /\ elem' = elem \o q /\ reply_ref' \in Nat /\ reply_ref <= reply_ref'
    BY <1>1, <1>5, <1>7
  <2> QED
    BY <1>2, <2>1, <2>2, RefJoin
<1>9. /\ \A i \in DOMAIN elem : i \in DOMAIN elem' /\ elem'[i] = elem[i]
      /\ \A i \in DOMAIN elem' : i \in DOMAIN elem \/ \E j \in DOMAIN q : elem'[i] = q[j]
  <2>1. elem' = elem \o q /\ IsSeq(q)
    BY <1>1, <1>7
  <2> QED
    BY <2>1, Joined
<1>10. Cardinality(Over(log', sequence')) = Cardinality(Over(log, sequence)) + 1
  <2>1. sequence \in DOMAIN log /\ log[sequence].op = "Sequence" /\ sequence # 0
    <3>1. Len(nest) \in Open
      BY <1>1, NestShrinks DEF Open
    <3> QED
      BY <1>2, <3>1 DEF InReply, NestInv, LogInv
  <2>2. \A i \in DOMAIN log : i # 0
    BY LogTyped
  <2>3. /\ Over(log', sequence') = Over(log, sequence) \cup {sequence}
        /\ sequence \notin Over(log, sequence)
    BY <1>1, <2>1, <2>2 DEF Over
  <2> QED
    BY <2>3, OverFinite, FS_AddElement
<1>11. ASSUME NEW c \in Nat \ {0}
       PROVE  /\ Cardinality(AnswersIn(elem', reply_ref', c)) >= DueTo(log', Accepted', c)
              /\ Cardinality(AnswersIn(elem', reply_ref', c))
                   <= DueTo(log', Accepted', c) + Cardinality(Over(log', sequence'))
  <2>1. /\ Cardinality(AnswersIn(elem, reply_ref, c)) >= DueTo(log, Accepted, c)
        /\ Cardinality(AnswersIn(elem, reply_ref, c))
             <= DueTo(log, Accepted, c) + Cardinality(Over(log, sequence))
    BY <1>2 DEF InReply, AnswerInv
  <2>2. DueTo(log', Accepted', c) = DueTo(log, Accepted, c) /\ DueTo(log, Accepted, c) \in Nat
    BY <1>1, <1>5, DueTyped
  <2>3. /\ Cardinality(AnswersIn(elem, reply_ref, c)) \in Nat
        /\ Cardinality(AnswersIn(elem', reply_ref', c))
             = Cardinality(AnswersIn(elem, reply_ref, c)) + (IF cmdRef = c THEN 1 ELSE 0)
    <3>1. 1 \in 0 .. Len(q) /\ 0 \in 0 .. Len(q)
      BY <1>3, LenProperties DEF AnswerList, IsSeq
    <3>2. \A j \in DOMAIN q : j <= 1 /\ ~ (j <= 0)
      BY <1>3 DEF AnswerList
    <3>3. IsSeq(q) /\ IsSeq(elem) /\ elem' = elem \o q /\ reply_ref' = reply_ref
      BY <1>1, <1>7, LogTyped
    <3>4. CASE cmdRef = c
      <4>1. \A j \in DOMAIN q : Answering(q[j], reply_ref, c) <=> j <= 1
        BY <1>3, <3>4 DEF AnswerList
      <4>2. /\ Cardinality(AnswersIn(elem, reply_ref, c)) \in Nat
            /\ Cardinality(AnswersIn(elem \o q, reply_ref, c))
                 = Cardinality(AnswersIn(elem, reply_ref, c)) + 1
        BY <3>1, <3>3, <4>1, JoinAdds
      <4> QED
        BY <3>3, <3>4, <4>2
    <3>5. CASE cmdRef # c
      <4>1. \A j \in DOMAIN q : Answering(q[j], reply_ref, c) <=> j <= 0
        BY <1>7, <3>2, <3>5 DEF Answering
      <4>2. /\ Cardinality(AnswersIn(elem, reply_ref, c)) \in Nat
            /\ Cardinality(AnswersIn(elem \o q, reply_ref, c))
                 = Cardinality(AnswersIn(elem, reply_ref, c)) + 0
        BY <3>1, <3>3, <4>1, JoinAdds
      <4> QED
        BY <3>3, <3>5, <4>2
    <3> QED
      BY <3>4, <3>5
  <2>4. Cardinality(Over(log, sequence)) \in Nat
    BY OverFinite
  <2> QED
    BY <1>10, <2>1, <2>2, <2>3, <2>4
<1>12. AnswerInv'
  BY <1>11 DEF AnswerInv
<1> QED
  BY <1>4, <1>6, <1>8, <1>12 DEF ReplyInv

-----------------------------------------------------------------------------
(* The other steps                                                         *)

\* Outside a reply, only RefInv matters.
LEMMA ReplyOutside ==
  ASSUME SessionInv, ReplyInv, phase' # "reply", reply_ref' = reply_ref,
         elem' = elem \/ elem' = <<>>
                      \/ \E q \in Seq(RequestElem) : elem' = elem \o q
  PROVE  ReplyInv'
<1>1. CASE elem' = elem
  BY <1>1 DEF ReplyInv, RefInv
<1>2. CASE elem' = <<>>
  BY <1>2 DEF ReplyInv, RefInv
<1>3. ASSUME NEW q \in Seq(RequestElem), elem' = elem \o q
      PROVE  ReplyInv'
  <2>1. IsSeq(q) /\ reply_ref' \in Nat /\ reply_ref <= reply_ref'
    BY SeqIsSeq, CodesTyped
  <2>2. \A j \in DOMAIN q : q[j] \in RequestElem
    BY ElementOfSeq
  <2>3. \A j \in DOMAIN q : q[j].type = "Status" => q[j].msgRef <= reply_ref'
    BY <2>2 DEF RequestElem
  <2>4. RefInv'
    BY <1>3, <2>1, <2>3, RefJoin DEF ReplyInv
  <2> QED
    BY <2>4 DEF ReplyInv
<1> QED
  BY <1>1, <1>2, <1>3

LEMMA ReplyNextPacket ==
  ASSUME SessionInv, ReplyInv, NEW devInfo \in DevInfo, omadmclient_get_next_packet(devInfo)
  PROVE  ReplyInv'
<1> DEFINE new == prvCreatePacket1(devInfo)
<1>1. new \in Seq(RequestElem)
  <2> DEFINE alert == [type |-> "Alert", n |-> starts]
             replace == [type |-> "Replace", n |-> starts]
  <2>1. starts \in 0 .. MaxStarts + MaxGeneric
    BY SessionAssumption DEF SessionInv, AppFieldsOK
  <2>2. alert \in RequestElem /\ replace \in RequestElem
    BY <2>1 DEF RequestElem
  <2>3. new = <<alert, replace>> \/ new = <<>>
    BY DEF prvCreatePacket1
  <2> HIDE DEF alert, replace, new
  <2>4. <<alert, replace>> \in Seq(RequestElem)
    BY <2>2
  <2> QED
    BY <2>3, <2>4, EmptySeq
<1>2. /\ elem' = <<>> \/ elem' = elem \o new
      /\ phase' # "reply" /\ reply_ref' = reply_ref
  BY DEF omadmclient_get_next_packet, ComposeError, rxVars
<1> QED
  BY <1>1, <1>2, ReplyOutside

LEMMA ReplyApplication ==
  ASSUME SessionInv, ReplyInv, Application
  PROVE  ReplyInv'
<1> USE DEF listVars, rxVars
<1>1. CASE omadmclient_set_UI_callback
  BY <1>1, ReplyOutside DEF omadmclient_set_UI_callback, Between
<1>2. ASSUME NEW n \in 1 .. MaxGeneric, omadmclient_add_generic_alert(n)
      PROVE  ReplyInv'
  <2> DEFINE alert == [type |-> "Generic", n |-> n]
  <2>1. n \in 0 .. MaxStarts + MaxGeneric
    BY SessionAssumption
  <2>2. alert \in RequestElem
    BY <2>1 DEF RequestElem
  <2>3. elem' = Append(elem, alert) /\ phase' # "reply" /\ reply_ref' = reply_ref
    BY <1>2 DEF omadmclient_add_generic_alert, Between, add_element
  <2> HIDE DEF alert
  <2>4. <<alert>> \in Seq(RequestElem)
    BY <2>2
  <2>5. elem' = elem \o <<alert>>
    BY <2>3, LogTyped, AppendJoins
  <2> QED
    BY <2>3, <2>4, <2>5, ReplyOutside
<1>3. ASSUME NEW a \in Accounts, omadmclient_session_start(a)
      PROVE  ReplyInv'
  BY <1>3, ReplyOutside DEF omadmclient_session_start, Started
<1>4. CASE omadmclient_session_start_fails
  BY <1>4, ReplyOutside DEF omadmclient_session_start_fails, StartFails
<1>5. CASE omadmclient_session_start_on_alert
  <2>1. elem' = elem /\ reply_ref' = reply_ref /\ phase' # "reply"
    BY <1>5 DEF omadmclient_session_start_on_alert, StartFails, Started
  <2> QED
    BY <2>1, ReplyOutside
<1>6. CASE get_next_packet_usage
  BY <1>6, ReplyOutside DEF get_next_packet_usage
<1>7. CASE omadmclient_session_close
  BY <1>7 DEF omadmclient_session_close, ReplyInv, RefInv
<1> QED
  BY <1>1, <1>2, <1>3, <1>4, <1>5, <1>6, <1>7, ReplyNextPacket DEF Application, NextPacket

\* No answer was queued yet for the message that comes.
LEMMA ReplyStartMessage ==
  ASSUME SessionInv, ReplyInv, NEW cred, prv_start_message_cb(cred)
  PROVE  ReplyInv'
<1> DEFINE st == create_status(reply_ref', srv_auth', 0)
<1>1. /\ sequence' = 0 /\ reply_ref' = reply_ref + 1 /\ elem' = Append(elem, st)
      /\ nest' = <<>> /\ nextCmd' = 1 /\ log' = <<>>
  BY DEF prv_start_message_cb, add_element
<1>2. reply_ref \in Nat /\ reply_ref' \in Nat /\ reply_ref < reply_ref' /\ RefInv
  BY <1>1, CodesTyped DEF ReplyInv
<1>3. AnswerList(<<st>>, reply_ref', 0, 1)
  BY OneQueued
<1> HIDE DEF st
<1>4. elem' = elem \o <<st>>
  BY <1>1, LogTyped, AppendJoins
<1> DEFINE q == <<st>>
<1>5. /\ IsSeq(q) /\ elem' = elem \o q
      /\ \A j \in DOMAIN q : q[j].type = "Status" => q[j].msgRef = reply_ref' /\ q[j].cmdRef = 0
  BY <1>3, <1>4 DEF AnswerList
<1> HIDE DEF q
<1>6. RefInv'
  <2>1. \A j \in DOMAIN q : q[j].type = "Status" => q[j].msgRef <= reply_ref'
    BY <1>2, <1>5
  <2> QED
    BY <1>2, <1>5, <2>1, RefJoin
<1>7. Open' = {} /\ DOMAIN log' = {} /\ Len(log') = 0
  BY <1>1 DEF Open
<1>8. \A k \in DOMAIN elem' :
        elem'[k].type = "Status" /\ elem'[k].msgRef = reply_ref' => elem'[k].cmdRef = 0
  <2>1. /\ \A i \in DOMAIN elem : i \in DOMAIN elem' /\ elem'[i] = elem[i]
        /\ \A i \in DOMAIN elem' : i \in DOMAIN elem \/ \E j \in DOMAIN q : elem'[i] = q[j]
    BY <1>5, Joined
  <2>2. \A i \in DOMAIN elem : elem[i].type = "Status" => elem[i].msgRef \in Nat
    BY LogTyped DEF Element, RequestElem, StatusElem, ResultsElem
  <2>3. \A i \in DOMAIN elem : elem[i].type = "Status" => elem[i].msgRef # reply_ref'
    BY <1>2, <2>2 DEF RefInv
  <2> QED
    BY <1>5, <2>1, <2>3
<1>9. NestInv' /\ LogInv' /\ FateInv' /\ ObeyInv' /\ AnswerInv'
  <2>1. NestInv' /\ FateInv'
    BY <1>1, <1>7 DEF NestInv, FateInv
  <2>2. LogInv' /\ ObeyInv'
    BY <1>1, <1>7, SessionAssumption DEF LogInv, ObeyInv
  <2>3. AnswerInv'
    <3> SUFFICES ASSUME NEW c \in Nat \ {0}
                 PROVE  /\ AnswersIn(elem', reply_ref', c) = {}
                        /\ DueTo(log', Accepted', c) = 0 /\ Over(log', sequence') = {}
      BY FS_EmptySet DEF AnswerInv
    <3> QED
      BY <1>7, <1>8 DEF AnswersIn, Answering, DueTo, Over
  <2> QED
    BY <2>1, <2>2, <2>3
<1> QED
  BY <1>6, <1>9 DEF ReplyInv

\* A status of the server may put a request back in the list, but no answer.
LEMMA ReplyStatus ==
  ASSUME SessionInv, ReplyInv, NEW m, NEW cmd, NEW code, prv_status_cmd_cb(m, cmd, code)
  PROVE  ReplyInv'
<1>1. /\ phase = "reply" /\ phase' = phase
      /\ UNCHANGED <<sequence, seq_code, srv_auth, reply_ref, nest, nextCmd, log>>
  BY DEF prv_status_cmd_cb, seqVars, authVars, rxVars
<1>2. PICK q \in Seq(RequestElem) : elem' = elem \o q
  <2>1. PICK k \in DOMAIN old_elem : elem' = elem \/ elem' = Append(elem, old_elem[k].element)
    BY DEF prv_status_cmd_cb, StatusForCommand, add_element
  <2>2. old_elem[k].element \in RequestElem
    BY ListsOKTypes DEF SessionInv
  <2> DEFINE r == old_elem[k].element
  <2> HIDE DEF r
  <2>3. <<r>> \in Seq(RequestElem) /\ <<>> \in Seq(RequestElem)
    BY <2>2, EmptySeq DEF r
  <2>4. CASE elem' = elem
    <3>1. elem \in Seq(Element)
      BY DEF SessionInv, ListsOK
    <3>2. elem' = elem \o <<>>
      BY <2>4, <3>1
    <3> QED
      BY <2>3, <3>2
  <2>5. CASE elem' = Append(elem, r)
    BY <2>3, <2>5, LogTyped, AppendJoins
  <2> QED
    BY <2>1, <2>4, <2>5 DEF r
<1>3. IsSeq(q) /\ \A j \in DOMAIN q : q[j].type # "Status"
  <2>1. \A j \in DOMAIN q : q[j] \in RequestElem
    BY ElementOfSeq
  <2> QED
    BY <2>1, SeqIsSeq DEF RequestElem
<1>4. InReply /\ RefInv /\ Accepted' = Accepted /\ reply_ref \in Nat
  BY <1>1, CodesTyped DEF ReplyInv, InReply, Accepted
<1>5. NestInv' /\ LogInv' /\ FateInv' /\ ObeyInv'
  BY <1>1, <1>4 DEF InReply, NestInv, Open, LogInv, FateInv, ObeyInv
<1>6. RefInv'
  BY <1>1, <1>2, <1>3, <1>4, RefJoin
<1>7. \A c : AnswersIn(elem', reply_ref', c) = AnswersIn(elem, reply_ref, c)
  <2>1. \A c : \A j \in DOMAIN q : ~ Answering(q[j], reply_ref, c)
    BY <1>3 DEF Answering
  <2> QED
    BY <1>1, <1>2, <1>3, <2>1, LogTyped, JoinOthers
<1>8. DueTo(log', Accepted', 0) = DueTo(log, Accepted, 0) /\ Over(log', sequence') = Over(log, sequence)
  BY <1>1, <1>4 DEF Over, DueTo
<1>9. AnswerInv'
  BY <1>1, <1>4, <1>7 DEF InReply, AnswerInv
<1> QED
  BY <1>5, <1>6, <1>9 DEF ReplyInv

LEMMA ReplyOtherSteps ==
  ASSUME SessionInv, ReplyInv,
         \/ start_message_crash \/ reply_lost \/ process_reply_fails
         \/ end_sequence_crash \/ prv_end_message_cb
         \/ \E code \in HeaderCode : status_header(code)
         \/ UNCHANGED vars
  PROVE  ReplyInv'
<1>1. /\ UNCHANGED <<elem, sequence, seq_code, srv_auth, reply_ref, nest, nextCmd, log>>
      /\ phase' = "reply" => phase = "reply"
  BY DEF start_message_crash, reply_lost, process_reply_fails, end_sequence_crash,
         prv_end_message_cb, status_header, vars, listVars, seqVars, authVars, rxVars
<1>2. Accepted' = Accepted /\ RefInv'
  BY <1>1 DEF Accepted, ReplyInv, RefInv
<1>3. ASSUME phase' = "reply"
      PROVE  NestInv' /\ LogInv' /\ FateInv' /\ ObeyInv' /\ AnswerInv'
  <2>1. NestInv' /\ LogInv' /\ FateInv' /\ ObeyInv'
    BY <1>1, <1>2, <1>3 DEF ReplyInv, NestInv, Open, LogInv, FateInv, ObeyInv
  <2>2. AnswerInv'
    BY <1>1, <1>2, <1>3 DEF ReplyInv, AnswerInv
  <2> QED
    BY <2>1, <2>2
<1> QED
  BY <1>2, <1>3 DEF ReplyInv

LEMMA ReplyInvInit == SessionInit => ReplyInv
BY DEF SessionInit, ElemInit, ReplyInv, RefInv

LEMMA ReplyInvNext ==
  ASSUME MaxSequence <= 1
  PROVE  SessionInv /\ ReplyInv /\ [SessionNext]_vars => ReplyInv'
<1> SUFFICES ASSUME SessionInv, ReplyInv, [SessionNext]_vars PROVE ReplyInv'
  OBVIOUS
<1>1. CASE ServerCommand
  BY <1>1, ReplyTreeCommand, ReplyAlert, ReplyStartAtomic, ReplyStartSequence DEF ServerCommand
<1>2. CASE ServerStatus
  BY <1>2, ReplyStatus, ReplyOtherSteps DEF ServerStatus
<1>3. CASE Finish
  BY <1>3, ReplyEndAtomic, ReplyEndSequence, ReplyOtherSteps DEF Finish
<1>4. CASE Reply
  BY <1>4, ReplyStartMessage DEF Reply
<1> QED
  BY <1>1, <1>2, <1>3, <1>4, ReplyApplication, ReplyOtherSteps DEF SessionNext

-----------------------------------------------------------------------------
(* The theorems                                                            *)

\* Replies without a Sequence in a Sequence: once the user has refused a
\* confirmation of a Sequence, no later command of it reaches the tree or the
\* user, however many commands, items, groups and messages there are.  (With
\* a Sequence in a Sequence it is false: prv_start_sequence_cb forgets the
\* outer one, as run session_nested shows.)
THEOREM SequenceObeys ==
  ASSUME MaxSequence <= 1
  PROVE  SessionSpec => []SequenceObeysUser
<1>1. SessionInv /\ ReplyInv /\ [SessionNext]_vars => ReplyInv'
  BY ReplyInvNext
<1>2. SessionInv /\ ReplyInv => SequenceObeysUser
  BY ReplyInvMeans
<1> QED
  BY <1>1, <1>2, ReplyInvInit, SessionInvAlways, PTL DEF SessionSpec

\* Such replies again, whatever the freed element that prv_end_sequence_cb
\* reads contains: every command has all the statuses it is due, and no more
\* of them too many than Sequences have ended.
THEOREM EveryItemAnswered ==
  ASSUME MaxSequence <= 1
  PROVE  SessionSpec => []ItemsAnswered
<1>1. SessionInv /\ ReplyInv /\ [SessionNext]_vars => ReplyInv'
  BY ReplyInvNext
<1>2. SessionInv /\ ReplyInv => ItemsAnswered
  BY ReplyInvMeans
<1> QED
  BY <1>1, <1>2, ReplyInvInit, SessionInvAlways, PTL DEF SessionSpec
=============================================================================
