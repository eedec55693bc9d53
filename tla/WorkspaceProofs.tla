--------------------------- MODULE WorkspaceProofs ---------------------------
(***************************************************************************)
(* Proofs about Workspace, for every workspace size and every server.      *)
(***************************************************************************)
EXTENDS Workspace, TLAPS

(* Where the encoder, the decoder and the locks may be.                    *)
Quiet ==
  /\ encoder <=> pc = "compose"
  /\ decoder => pc = "process" /\ ~readLocked
  /\ pc \in {"compose", "copy", "process"} => ~writeLocked
  /\ pc = "rest" /\ result = "none" => ~readLocked /\ ~writeLocked
  /\ pc = "rest" /\ result = "end" => ~writeLocked

(* What the buffer holds during a call that found nothing unread.          *)
PartOf(i) == IF i = 1 THEN "header" ELSE "command"

Composed ==
  /\ pc = "start" => next = 1 /\ (found => AllRead)
  /\ pc = "compose" =>
       /\ next <= Len(queue) + 1 /\ read < Len(buf)
       /\ found => /\ read = 0 /\ Len(buf) = next
                   /\ \A i \in 1 .. next : buf[i] = Unit("client", number, PartOf(i))
  /\ pc = "copy" /\ found => read = 0 /\ Whole(buf, number, next - 1)

Followed ==
  /\ pc = "process" /\ found =>
       /\ buf = reply /\ Len(seen) = read
       /\ \A i \in 1 .. read : seen[i] = reply[i]
  /\ SuccessLeavesNothing

WsInv == WorkspaceTypeOK /\ Quiet /\ Composed /\ Followed

USE SizeAssumption, BoundAssumption, RepliesAssumption

(* A unit is a unit.                                                       *)
LEMMA UnitType ==
  ASSUME NEW from \in {"client", "server"}, NEW msg \in Nat, NEW part \in Parts
  PROVE  Unit(from, msg, part) \in Units
BY DEF Unit, Units

(* What a writer leaves in the buffer when there is room for its units.    *)
LEMMA WroteUnits ==
  ASSUME WorkspaceTypeOK, NEW units \in Seq(Units), Fits(units), Wrote(units)
  PROVE  /\ buf' \in Seq(Units) /\ Len(buf') <= Size
         /\ read' \in 0 .. Len(buf')
         /\ Len(buf') = Len(WriteBuffer) + Len(units)
         /\ \A i \in 1 .. Len(WriteBuffer) : buf'[i] = WriteBuffer[i]
         /\ \A i \in 1 .. Len(units) : buf'[Len(WriteBuffer) + i] = units[i]
         /\ AllRead => read' = 0 /\ Len(WriteBuffer) = 0
         /\ ~AllRead => read' = read /\ WriteBuffer = buf
<1>1. WriteBuffer \in Seq(Units) /\ Len(WriteBuffer) \in Nat
  BY DEF WorkspaceTypeOK, WriteBuffer
<1>2. buf' = WriteBuffer \o units /\ read' = ReadAfter
  BY DEF Wrote
<1>3. Len(WriteBuffer) + Len(units) <= Size
  BY DEF Fits
<1> QED
  BY <1>1, <1>2, <1>3 DEF WorkspaceTypeOK, WriteBuffer, ReadAfter, AllRead

(* A writer that writes nothing.                                           *)
LEMMA WroteNothing ==
  ASSUME WorkspaceTypeOK, Wrote(<< >>)
  PROVE  /\ buf' \in Seq(Units) /\ Len(buf') <= Size
         /\ read' \in 0 .. Len(buf')
<1>1. << >> \in Seq(Units) /\ Len(<< >>) = 0
  OBVIOUS
<1>2. Fits(<< >>)
  BY <1>1 DEF WorkspaceTypeOK, Fits, WriteBuffer
<1> QED
  BY <1>1, <1>2, WroteUnits

(* A writer that appends one unit to what is not read.                     *)
LEMMA WroteOne ==
  ASSUME WorkspaceTypeOK, NEW u \in Units, Fits(<<u>>), Wrote(<<u>>), ~AllRead
  PROVE  /\ buf' \in Seq(Units) /\ Len(buf') <= Size /\ read' = read
         /\ read' \in 0 .. Len(buf')
         /\ Len(buf') = Len(buf) + 1
         /\ \A i \in 1 .. Len(buf) : buf'[i] = buf[i]
         /\ buf'[Len(buf) + 1] = u
<1>1. <<u>> \in Seq(Units)
  OBVIOUS
<1>2. WriteBuffer = buf /\ ReadAfter = read
  BY DEF WriteBuffer, ReadAfter
<1>3. buf' = buf \o <<u>> /\ read' = read
  BY <1>2 DEF Wrote
<1>4. Len(buf) + 1 <= Size
  BY <1>2 DEF Fits
<1> QED
  BY <1>1, <1>3, <1>4 DEF WorkspaceTypeOK

(* The initial state.                                                      *)
LEMMA InitInv == Init => WsInv
<1> SUFFICES ASSUME Init PROVE WsInv
  OBVIOUS
<1>1. << >> \in Seq(Units) /\ << >> \in Seq(Elements) /\ Len(<< >>) = 0
  OBVIOUS
<1>2. WorkspaceTypeOK
  <2>1. buf = << >> /\ read = 0 /\ read \in 0 .. Len(buf) /\ Len(buf) <= Size
    BY <1>1 DEF Init
  <2>2. toSend \in Int /\ next \in Nat \ {0} /\ number \in Nat
    BY DEF Init
  <2> QED
    BY <1>1, <2>1, <2>2 DEF Init, WorkspaceTypeOK
<1>3. Quiet /\ Composed /\ Followed
  BY <1>1 DEF Init, Quiet, Composed, Followed, SuccessLeavesNothing, AllRead
<1> QED
  BY <1>2, <1>3 DEF WsInv

(* The calls that only look after the session.                             *)
LEMMA SessionSteps ==
  ASSUME WsInv,
         \/ session_init \/ session_close
         \/ \E element \in {"alert", "unencodable"} : add_generic_alert(element)
  PROVE  WsInv'
<1> USE DEF WsInv, Quiet, Composed, Followed, SuccessLeavesNothing, AllRead, Trailing,
            wsVars, codecs, sending, session, observed
<1>0. << >> \in Seq(Units) /\ << >> \in Seq(Elements) /\ Len(<< >>) = 0
  OBVIOUS
<1>1. CASE session_init
  <2>1. WorkspaceTypeOK'
    <3>1. buf' = << >> /\ read' \in 0 .. Len(buf') /\ Len(buf') <= Size
      BY <1>0, <1>1 DEF session_init, mgrResetWorkspace
    <3> QED
      BY <1>0, <1>1, <3>1 DEF session_init, WorkspaceTypeOK
  <2>2. Quiet' /\ Composed' /\ Followed'
    BY <1>0, <1>1 DEF session_init, mgrResetWorkspace
  <2> QED
    BY <2>1, <2>2
<1>2. CASE session_close
  <2>1. WorkspaceTypeOK'
    BY <1>0, <1>2 DEF session_close, WorkspaceTypeOK
  <2>2. Quiet' /\ Composed' /\ Followed'
    BY <1>0, <1>2 DEF session_close
  <2> QED
    BY <2>1, <2>2
<1>3. ASSUME NEW element \in {"alert", "unencodable"}, add_generic_alert(element)
      PROVE  WsInv'
  BY <1>3 DEF add_generic_alert, WorkspaceTypeOK, Elements
<1> QED
  BY <1>1, <1>2, <1>3

(* The beginning of a packet.                                              *)
LEMMA GetStep ==
  ASSUME WsInv, NEW first \in {<< >>, <<"alert", "alert">>}, get_next_packet(first)
  PROVE  WsInv'
<1>1. first \in Seq(Elements)
  <2>1. "alert" \in Elements
    BY DEF Elements
  <2>2. << >> \in Seq(Elements) /\ <<"alert", "alert">> \in Seq(Elements)
    BY <2>1
  <2> QED
    BY <2>2
<1> QED
  BY <1>1 DEF get_next_packet, WsInv, WorkspaceTypeOK, Quiet, Composed, Followed,
              SuccessLeavesNothing, AllRead, wsVars, codecs

(* The header.                                                             *)
LEMMA StartStep ==
  ASSUME WsInv, smlStartMessageExt
  PROVE  WsInv'
<1> DEFINE header == <<Unit("client", number, "header")>>
<1> USE DEF WsInv, session, sending, observed, codecs
<1>0. /\ header \in Seq(Units) /\ Len(header) = 1
      /\ header[1] = Unit("client", number, PartOf(1))
  BY UnitType DEF WorkspaceTypeOK, Parts, PartOf
<1>1. CASE writeLocked
  BY <1>1 DEF smlStartMessageExt, Return, WorkspaceTypeOK, Quiet, Composed, Followed,
              SuccessLeavesNothing, AllRead
<1>2. CASE ~writeLocked /\ ~Fits(header)
  <2>1. Wrote(<< >>) /\ encoder' = FALSE /\ pc' = "rest" /\ result' = "internal"
    BY <1>2 DEF smlStartMessageExt, Return
  <2> QED
    BY <1>2, <2>1, WroteNothing
    DEF smlStartMessageExt, Wrote, WorkspaceTypeOK, Quiet, Composed, Followed,
        SuccessLeavesNothing
<1>3. CASE ~writeLocked /\ Fits(header)
  <2>1. Wrote(header) /\ encoder' = TRUE /\ pc' = "compose"
    BY <1>3 DEF smlStartMessageExt
  <2>2. pc = "start" /\ next = 1 /\ UNCHANGED <<next, queue, number, found, decoder, result>>
    BY <1>3 DEF smlStartMessageExt, Composed
  <2> HIDE DEF header
  <2>3. /\ buf' \in Seq(Units) /\ Len(buf') <= Size
        /\ read' \in 0 .. Len(buf') /\ read' < Len(buf')
        /\ AllRead => read' = 0 /\ Len(buf') = 1 /\ buf'[1] = header[1]
    BY <1>0, <1>3, <2>1, WroteUnits DEF WorkspaceTypeOK, AllRead
  <2>4. WorkspaceTypeOK'
    BY <2>1, <2>2, <2>3 DEF smlStartMessageExt, Wrote, WorkspaceTypeOK
  <2>5. Quiet' /\ Followed'
    BY <1>3, <2>1, <2>2 DEF Wrote, Quiet, Followed, SuccessLeavesNothing
  <2>6. Composed'
    BY <1>0, <2>1, <2>2, <2>3 DEF WorkspaceTypeOK, Composed
  <2> QED
    BY <2>4, <2>5, <2>6
<1> QED
  BY <1>1, <1>2, <1>3

(* A message given up.                                                     *)
LEMMA FailStep ==
  ASSUME WsInv, pc = "compose", ComposeFails, UNCHANGED <<session, observed>>
  PROVE  WsInv'
<1>1. /\ Wrote(<< >>) /\ encoder' = FALSE /\ pc' = "rest" /\ result' = "internal"
      /\ UNCHANGED <<decoder, sending, session, observed, readLocked, writeLocked>>
  BY DEF ComposeFails, Return, Wrote
<1>2. ~decoder
  BY DEF WsInv, Quiet
<1>3. WorkspaceTypeOK'
  BY <1>1, WroteNothing DEF WsInv, WorkspaceTypeOK, sending, session, observed
<1> QED
  BY <1>1, <1>2, <1>3 DEF WsInv, Quiet, Composed, Followed, SuccessLeavesNothing

(* A command.                                                              *)
LEMMA CommandStep ==
  ASSUME WsInv, mgrCreateNextCommand
  PROVE  WsInv'
<1> DEFINE command == <<Unit("client", number, "command")>>
<1>0. /\ command \in Seq(Units) /\ Len(command) = 1
      /\ command[1] = Unit("client", number, "command")
  BY UnitType DEF WsInv, WorkspaceTypeOK, Parts
<1>1. pc = "compose" /\ next <= Len(queue) /\ UNCHANGED <<session, observed>>
  BY DEF mgrCreateNextCommand
<1>2. CASE queue[next] # "unencodable" /\ Fits(command)
  <2>1. /\ Wrote(command) /\ next' = next + 1
        /\ UNCHANGED <<codecs, queue, pc, result>>
        /\ toSend' = IF queue[next] = "status" THEN toSend + 1 ELSE 1
    BY <1>2 DEF mgrCreateNextCommand
  <2> HIDE DEF command
  <2>2. ~AllRead
    BY <1>1 DEF WsInv, Composed, AllRead, WorkspaceTypeOK
  <2>3. /\ buf' \in Seq(Units) /\ Len(buf') <= Size /\ read' = read
        /\ read' \in 0 .. Len(buf')
        /\ Len(buf') = Len(buf) + 1
        /\ \A i \in 1 .. Len(buf) : buf'[i] = buf[i]
        /\ buf'[Len(buf) + 1] = command[1]
    <3>1. Unit("client", number, "command") \in Units
      BY UnitType DEF WsInv, WorkspaceTypeOK, Parts
    <3>2. /\ Fits(<<Unit("client", number, "command")>>)
          /\ Wrote(<<Unit("client", number, "command")>>)
      BY <1>2, <2>1 DEF command
    <3> QED
      BY <1>0, <2>2, <3>1, <3>2, WroteOne DEF WsInv
  <2>4. WorkspaceTypeOK'
    BY <1>1, <2>1, <2>3 DEF WsInv, WorkspaceTypeOK, Wrote, codecs, session, observed
  <2>5. Quiet' /\ Followed'
    BY <1>1, <2>1 DEF WsInv, Quiet, Followed, SuccessLeavesNothing, Wrote, codecs
  <2>6. Composed'
    <3>1. next' <= Len(queue') + 1 /\ read' < Len(buf')
      BY <1>1, <2>1, <2>3 DEF WsInv, WorkspaceTypeOK, Composed
    <3>2. ASSUME found'
          PROVE  /\ read' = 0 /\ Len(buf') = next'
                 /\ \A i \in 1 .. next' : buf'[i] = Unit("client", number', PartOf(i))
      <4>1. /\ read = 0 /\ Len(buf) = next /\ next \in Nat \ {0} /\ number' = number
            /\ \A i \in 1 .. next : buf[i] = Unit("client", number, PartOf(i))
        BY <1>1, <3>2 DEF WsInv, Composed, WorkspaceTypeOK, session, observed
      <4>2. PartOf(next + 1) = "command"
        BY <4>1 DEF PartOf
      <4> QED
        BY <1>0, <2>1, <2>3, <4>1, <4>2
    <3> QED
      BY <1>1, <2>1, <3>1, <3>2 DEF Composed
  <2> QED
    BY <2>4, <2>5, <2>6 DEF WsInv
<1>3. CASE ~(queue[next] # "unencodable" /\ Fits(command))
  BY <1>1, <1>3, FailStep DEF mgrCreateNextCommand
<1> QED
  BY <1>2, <1>3

(* The end of the message.                                                 *)
LEMMA EndStep ==
  ASSUME WsInv, smlEndMessage
  PROVE  WsInv'
<1> DEFINE end == <<Unit("client", number, "end")>>
<1>0. /\ end \in Seq(Units) /\ Len(end) = 1
      /\ end[1] = Unit("client", number, "end")
  BY UnitType DEF WsInv, WorkspaceTypeOK, Parts
<1>1. pc = "compose" /\ next > Len(queue) /\ UNCHANGED <<session, observed>>
  BY DEF smlEndMessage
<1>2. CASE Fits(end)
  <2>1. /\ Wrote(end) /\ encoder' = FALSE /\ queue' = << >>
        /\ UNCHANGED <<decoder, next, toSend>>
        /\ \/ pc' = "rest" /\ result' = "end"
           \/ pc' = "copy" /\ result' = result
    BY <1>2 DEF smlEndMessage, Return
  <2> HIDE DEF end
  <2>2. ~AllRead
    BY <1>1 DEF WsInv, Composed, AllRead, WorkspaceTypeOK
  <2>3. /\ buf' \in Seq(Units) /\ Len(buf') <= Size /\ read' = read
        /\ read' \in 0 .. Len(buf')
        /\ Len(buf') = Len(buf) + 1
        /\ \A i \in 1 .. Len(buf) : buf'[i] = buf[i]
        /\ buf'[Len(buf) + 1] = end[1]
    <3>1. Unit("client", number, "end") \in Units
      BY UnitType DEF WsInv, WorkspaceTypeOK, Parts
    <3>2. /\ Fits(<<Unit("client", number, "end")>>)
          /\ Wrote(<<Unit("client", number, "end")>>)
      BY <1>2, <2>1 DEF end
    <3> QED
      BY <1>0, <2>2, <3>1, <3>2, WroteOne DEF WsInv
  <2>4. WorkspaceTypeOK'
    <3>1. queue' \in Seq(Elements)
      BY <2>1
    <3>2. result' \in {"none", "end", "internal", "memory"} /\ pc' \in {"rest", "copy"}
      BY <2>1 DEF WsInv, WorkspaceTypeOK
    <3> QED
      BY <1>1, <2>1, <2>3, <3>1, <3>2 DEF WsInv, WorkspaceTypeOK, Wrote, session, observed
  <2>5. Quiet' /\ Followed'
    BY <1>1, <2>1 DEF WsInv, Quiet, Followed, SuccessLeavesNothing, Wrote
  <2>6. Composed'
    <3>1. ASSUME found'
          PROVE  read' = 0 /\ Whole(buf', number', next' - 1)
      <4>1. /\ read = 0 /\ Len(buf) = next /\ next \in Nat \ {0} /\ number' = number
            /\ \A i \in 1 .. next : buf[i] = Unit("client", number, PartOf(i))
        BY <1>1, <3>1 DEF WsInv, Composed, WorkspaceTypeOK, session, observed
      <4>2. Len(buf') = (next' - 1) + 2
        BY <2>1, <2>3, <4>1
      <4>3. ASSUME NEW i \in 1 .. (next' - 1) + 2
            PROVE  buf'[i] = Unit("client", number', IF i = 1 THEN "header"
                                 ELSE IF i = (next' - 1) + 2 THEN "end" ELSE "command")
        <5>1. CASE i = next + 1
          BY <1>0, <2>1, <2>3, <4>1, <5>1
        <5>2. CASE i # next + 1
          <6>1. i \in 1 .. next
            BY <2>1, <4>1, <5>2
          <6> QED
            BY <2>1, <2>3, <4>1, <5>2, <6>1 DEF PartOf
        <5> QED
          BY <5>1, <5>2
      <4> QED
        BY <2>3, <4>1, <4>2, <4>3 DEF Whole
    <3> QED
      BY <2>1, <3>1 DEF Composed
  <2> QED
    BY <2>4, <2>5, <2>6 DEF WsInv
<1>3. CASE ~Fits(end)
  BY <1>1, <1>3, FailStep DEF smlEndMessage
<1> QED
  BY <1>2, <1>3

(* The packet is copied, or not.                                           *)
LEMMA CopySteps ==
  ASSUME WsInv, CopyPacket \/ CopyFails
  PROVE  WsInv'
<1> USE DEF WsInv, codecs, session, sending, observed, Return
<1>1. CASE CopyPacket
  <2>1. packet' \in Seq(Units) /\ read' \in 0 .. Len(buf')
    BY <1>1 DEF CopyPacket, WorkspaceTypeOK
  <2>2. WorkspaceTypeOK'
    BY <1>1, <2>1 DEF CopyPacket, WorkspaceTypeOK
  <2> QED
    BY <1>1, <2>2 DEF CopyPacket, Quiet, Composed, Followed, SuccessLeavesNothing, AllRead
<1>2. CASE CopyFails
  <2>1. /\ pc = "copy" /\ pc' = "rest" /\ result' \in {"internal", "memory"}
        /\ readLocked' = TRUE
        /\ UNCHANGED <<buf, read, writeLocked, codecs, session, sending, observed>>
    BY <1>2 DEF CopyFails
  <2> QED
    BY <2>1 DEF WorkspaceTypeOK, Quiet, Composed, Followed, SuccessLeavesNothing
<1> QED
  BY <1>1, <1>2

(* A reply arrives.                                                        *)
LEMMA ReplyStep ==
  ASSUME WsInv, NEW parts \in Replies, process_reply(parts)
  PROVE  WsInv'
<1>0. /\ Message(parts) \in Seq(Units) /\ Len(Message(parts)) = Len(parts)
  <2>1. parts \in Seq(Parts) /\ number + 1 \in Nat
    BY DEF WsInv, WorkspaceTypeOK
  <2>2. \A i \in DOMAIN parts : Unit("server", number + 1, parts[i]) \in Units
    BY <2>1, UnitType
  <2> QED
    BY <2>1, <2>2 DEF Message
<1>1. /\ pc = "rest" /\ number' = number + 1 /\ found' = AllRead
      /\ reply' = Message(parts) /\ seen' = << >>
      /\ UNCHANGED <<codecs, open, started, sending, packet>>
  BY DEF process_reply
<1>2. << >> \in Seq(Units) /\ Len(<< >>) = 0
  OBVIOUS
<1>3. ~encoder /\ ~decoder
  BY <1>1 DEF WsInv, Quiet
<1>4. CASE writeLocked
  <2>1. UNCHANGED wsVars /\ pc' = "rest" /\ result' = "internal"
    BY <1>4 DEF process_reply, Return
  <2>2. WorkspaceTypeOK'
    BY <1>0, <1>1, <1>2, <2>1 DEF WsInv, WorkspaceTypeOK, wsVars, codecs, sending, AllRead
  <2> QED
    BY <1>1, <1>3, <2>1, <2>2
    DEF WsInv, Quiet, Composed, Followed, SuccessLeavesNothing, wsVars, codecs
<1>5. CASE ~writeLocked /\ Fits(parts)
  <2>1. Wrote(Message(parts)) /\ pc' = "process" /\ result' = result
    BY <1>5 DEF process_reply
  <2>2. Fits(Message(parts))
    BY <1>0, <1>5 DEF Fits
  <2>3. /\ buf' \in Seq(Units) /\ Len(buf') <= Size /\ read' \in 0 .. Len(buf')
    BY <1>0, <2>1, <2>2, WroteUnits DEF WsInv
  <2>4. AllRead => read' = 0 /\ buf' = Message(parts)
    <3> SUFFICES ASSUME AllRead PROVE read' = 0 /\ buf' = << >> \o Message(parts)
      BY <1>0
    <3> QED
      BY <2>1 DEF Wrote, WriteBuffer, ReadAfter
  <2>5. WorkspaceTypeOK'
    BY <1>0, <1>1, <1>2, <2>1, <2>3
    DEF WsInv, WorkspaceTypeOK, Wrote, codecs, sending, AllRead
  <2>6. Followed'
    BY <1>1, <1>2, <2>1, <2>4 DEF Followed, SuccessLeavesNothing
  <2> QED
    BY <1>1, <1>3, <1>5, <2>1, <2>5, <2>6 DEF WsInv, Quiet, Composed, Wrote, codecs
<1>6. CASE ~writeLocked /\ ~Fits(parts)
  <2>1. /\ buf' = WriteBuffer /\ read' = ReadAfter /\ writeLocked' = TRUE
        /\ pc' = "rest" /\ result' = "internal" /\ readLocked' = readLocked
    BY <1>6 DEF process_reply, Return
  <2>2. buf' \in Seq(Units) /\ Len(buf') <= Size /\ read' \in 0 .. Len(buf')
    BY <1>2, <2>1 DEF WsInv, WorkspaceTypeOK, WriteBuffer, ReadAfter
  <2>3. WorkspaceTypeOK'
    BY <1>0, <1>1, <1>2, <2>1, <2>2
    DEF WsInv, WorkspaceTypeOK, codecs, sending, AllRead
  <2> QED
    BY <1>1, <1>3, <2>1, <2>3
    DEF WsInv, Quiet, Composed, Followed, SuccessLeavesNothing, codecs
<1> QED
  BY <1>4, <1>5, <1>6

(* A unit is decoded.                                                      *)
LEMMA DecodedUnit ==
  ASSUME WsInv, pc = "process", Unread, Decoded, UNCHANGED <<found, reply>>
  PROVE  /\ buf' \in Seq(Units) /\ Len(buf') <= Size /\ read' \in 0 .. Len(buf')
         /\ seen' \in Seq(Units) /\ Len(seen') = Len(seen) + 1
         /\ found' => /\ buf' = reply' /\ Len(seen') = read'
                      /\ \A i \in 1 .. read' : seen'[i] = reply'[i]
<1>1. /\ read \in 0 .. Len(buf) /\ read < Len(buf) /\ buf \in Seq(Units)
      /\ read + 1 \in 1 .. Len(buf) /\ NextUnit \in Units
      /\ seen \in Seq(Units) /\ Len(seen) \in Nat /\ Len(buf) <= Size
  BY DEF WsInv, WorkspaceTypeOK, Unread, NextUnit
<1>2. buf' = buf /\ read' = read + 1 /\ seen' = Append(seen, NextUnit)
  BY DEF Decoded
<1>3. /\ seen' \in Seq(Units) /\ Len(seen') = Len(seen) + 1
      /\ \A i \in 1 .. Len(seen) : seen'[i] = seen[i]
      /\ seen'[Len(seen) + 1] = NextUnit
  BY <1>1, <1>2
<1>4. found => /\ buf = reply /\ Len(seen) = read
               /\ \A i \in 1 .. read : seen[i] = reply[i]
  BY DEF WsInv, Followed
<1> QED
  BY <1>1, <1>2, <1>3, <1>4 DEF NextUnit

(* The steps that decode the reply.                                        *)
LEMMA ProcessSteps ==
  ASSUME WsInv,
         \/ StartRefused \/ mgrProcessStartMessage
         \/ \E answers \in {<< >>, <<"status">>, <<"status", "alert">>, <<"unencodable">>} :
              mgrProcessNextCommand(answers)
         \/ ProcessEnd \/ DecodeFails
  PROVE  WsInv'
<1>0. /\ << >> \in Seq(Units) /\ Len(<< >>) = 0 /\ << >> \in Seq(Elements)
      /\ <<"status">> \in Seq(Elements) /\ <<"status", "alert">> \in Seq(Elements)
      /\ <<"unencodable">> \in Seq(Elements)
  <2>1. "status" \in Elements /\ "alert" \in Elements /\ "unencodable" \in Elements
    BY DEF Elements
  <2> QED
    BY <2>1
<1>1. CASE StartRefused
  <2>1. /\ pc = "process" /\ ~decoder /\ readLocked' = FALSE /\ pc' = "rest"
        /\ result' = "internal"
        /\ UNCHANGED <<buf, read, writeLocked, codecs, session, sending, observed>>
    BY <1>1 DEF StartRefused, Return
  <2> QED
    BY <2>1 DEF WsInv, WorkspaceTypeOK, Quiet, Composed, Followed, SuccessLeavesNothing,
                codecs, session, sending, observed
<1>2. CASE mgrProcessStartMessage
  <2>1. /\ pc = "process" /\ pc' = pc /\ ~readLocked /\ Unread /\ Decoded /\ decoder' = TRUE
        /\ queue' = queue \o <<"status">>
        /\ UNCHANGED <<next, toSend, encoder, session, result, found, packet, reply>>
    BY <1>2 DEF mgrProcessStartMessage, Answer
  <2>2. queue' \in Seq(Elements)
    BY <1>0, <2>1 DEF WsInv, WorkspaceTypeOK
  <2>3. WorkspaceTypeOK'
    BY <2>1, <2>2, DecodedUnit DEF WsInv, WorkspaceTypeOK, Decoded, session
  <2> QED
    BY <2>1, <2>3, DecodedUnit
    DEF WsInv, Quiet, Composed, Followed, SuccessLeavesNothing, Decoded
<1>3. ASSUME NEW answers \in {<< >>, <<"status">>, <<"status", "alert">>, <<"unencodable">>},
             mgrProcessNextCommand(answers)
      PROVE  WsInv'
  <2>1. /\ pc = "process" /\ pc' = pc /\ decoder /\ Unread /\ Decoded
        /\ queue' = queue \o answers
        /\ UNCHANGED <<next, toSend, codecs, session, result, found, packet, reply>>
    BY <1>3 DEF mgrProcessNextCommand, Answer
  <2>2. queue' \in Seq(Elements)
    <3>1. answers \in Seq(Elements)
      BY <1>0
    <3> QED
      BY <2>1, <3>1 DEF WsInv, WorkspaceTypeOK
  <2>3. WorkspaceTypeOK'
    BY <2>1, <2>2, DecodedUnit DEF WsInv, WorkspaceTypeOK, Decoded, session, codecs
  <2> QED
    BY <2>1, <2>3, DecodedUnit
    DEF WsInv, Quiet, Composed, Followed, SuccessLeavesNothing, Decoded, codecs
<1>4. CASE ProcessEnd
  <2>1. /\ pc = "process" /\ pc' = "rest" /\ result' = "none" /\ decoder /\ decoder' = FALSE
        /\ Unread /\ Decoded /\ NextUnit.part = "end"
        /\ UNCHANGED <<encoder, session, sending, found, packet, reply>>
    BY <1>4 DEF ProcessEnd, Return
  <2>2. WorkspaceTypeOK'
    BY <2>1, DecodedUnit DEF WsInv, WorkspaceTypeOK, Decoded, session, sending
  <2>3. ~readLocked
    BY <2>1 DEF WsInv, Quiet
  <2>4. ASSUME found', ~Trailing'
        PROVE  AllRead'
    <3>1. buf = reply /\ reply' = reply /\ read' = read + 1 /\ buf' = buf
      BY <2>1, <2>4 DEF WsInv, Followed, Decoded
    <3>2. read + 1 \in 1 .. Len(reply) /\ reply[read + 1].part = "end" /\ Len(reply) \in Nat
      BY <2>1, <3>1 DEF WsInv, WorkspaceTypeOK, Unread, NextUnit
    <3>3. read + 1 \notin 1 .. Len(reply) - 1
      BY <2>4, <3>1, <3>2 DEF Trailing
    <3> QED
      BY <3>1, <3>2, <3>3 DEF AllRead
  <2> QED
    BY <2>1, <2>2, <2>3, <2>4
    DEF WsInv, Quiet, Composed, Followed, SuccessLeavesNothing, Decoded
<1>5. CASE DecodeFails
  <2>1. /\ pc = "process" /\ pc' = "rest" /\ result' = "internal" /\ decoder' = FALSE
        /\ buf' = << >> /\ read' = 0
        /\ UNCHANGED <<readLocked, writeLocked, encoder, session, sending, observed>>
    BY <1>5 DEF DecodeFails, Return, mgrResetWorkspace
  <2>2. read' \in 0 .. Len(buf') /\ Len(buf') <= Size /\ buf' \in Seq(Units)
    BY <1>0, <2>1
  <2>3. WorkspaceTypeOK'
    BY <2>1, <2>2 DEF WsInv, WorkspaceTypeOK, session, sending, observed
  <2> QED
    BY <2>1, <2>3 DEF WsInv, Quiet, Composed, Followed, SuccessLeavesNothing
<1> QED
  BY <1>1, <1>2, <1>3, <1>4, <1>5

(* A step that changes nothing.                                            *)
LEMMA StutterStep ==
  ASSUME WsInv, UNCHANGED vars
  PROVE  WsInv'
BY DEF WsInv, WorkspaceTypeOK, Quiet, Composed, Followed, SuccessLeavesNothing, AllRead,
       Trailing, Whole, vars, wsVars, codecs, session, sending, observed

(* Every step.                                                             *)
LEMMA NextInv == WsInv /\ [Next]_vars => WsInv'
<1> SUFFICES ASSUME WsInv, [Next]_vars PROVE WsInv'
  OBVIOUS
<1> QED
  BY SessionSteps, GetStep, StartStep, CommandStep, EndStep, CopySteps, ReplyStep,
     ProcessSteps, StutterStep DEF Next

LEMMA WsInvariant == Spec => []WsInv
BY InitInv, NextInv, PTL DEF Spec

(* The workspace never holds more than fits, and every read position is    *)
(* within what was written: no call writes or reads outside the buffer.    *)
THEOREM WorkspaceTypeCorrect == Spec => []WorkspaceTypeOK
<1>1. WsInv => WorkspaceTypeOK
  BY DEF WsInv
<1> QED
  BY <1>1, WsInvariant, PTL

(* Between two calls there is no half-made message and no half-read reply, *)
(* and a successful call leaves no lock.                                   *)
THEOREM LeavesNothingBehind == Spec => []NothingLeftBehind
<1>1. WsInv => NothingLeftBehind
  BY DEF WsInv, Quiet, NothingLeftBehind
<1> QED
  BY <1>1, WsInvariant, PTL

(* A good exchange leaves the buffer ready for the next one.               *)
THEOREM ExchangeLeavesNothing == Spec => []SuccessLeavesNothing
<1>1. WsInv => SuccessLeavesNothing
  BY DEF WsInv, Followed
<1> QED
  BY <1>1, WsInvariant, PTL

(* A packet is a whole message.                                            *)
THEOREM PacketsAreWhole == Spec => PacketWhole
<1>1. WsInv /\ [Next]_vars => [packet' # packet /\ found => Whole(packet', number, next - 1)]_vars
  <2> SUFFICES ASSUME WsInv, Next, packet' # packet, found
               PROVE  Whole(packet', number, next - 1)
    BY DEF vars, observed
  <2>1. CopyPacket
    BY DEF Next, session_init, session_close, add_generic_alert, get_next_packet,
           smlStartMessageExt, mgrCreateNextCommand, smlEndMessage, CopyFails,
           process_reply, StartRefused, mgrProcessStartMessage, mgrProcessNextCommand,
           ProcessEnd, DecodeFails, observed
  <2>2. read = 0 /\ Whole(buf, number, next - 1) /\ buf \in Seq(Units)
    BY <2>1 DEF WsInv, Composed, CopyPacket, WorkspaceTypeOK
  <2>3. packet' = SubSeq(buf, 1, Len(buf))
    BY <2>1, <2>2 DEF CopyPacket
  <2>4. packet' = buf
    BY <2>2, <2>3
  <2> QED
    BY <2>2, <2>4
<1> QED
  BY <1>1, WsInvariant, PTL DEF Spec, PacketWhole

(* The callbacks see the reply and nothing else.                           *)
THEOREM CallbacksSeeReply == Spec => RepliesOnly
<1>1. WsInv /\ WsInv' /\ [Next]_vars => [seen' # seen /\ found' => IsPrefix(seen', reply')]_vars
  <2> SUFFICES ASSUME WsInv, WsInv', Next, seen' # seen, found'
               PROVE  IsPrefix(seen', reply')
    BY DEF vars, observed
  <2>1. seen' \in Seq(Units) /\ reply' \in Seq(Units)
    BY DEF WsInv, WorkspaceTypeOK
  <2>2. Len(seen') <= Len(reply') /\ \A i \in 1 .. Len(seen') : seen'[i] = reply'[i]
    <3>1. CASE \E parts \in Replies : process_reply(parts)
      <4>1. seen' = << >>
        BY <3>1 DEF process_reply
      <4> QED
        BY <2>1, <4>1
    <3>2. CASE \/ mgrProcessStartMessage \/ ProcessEnd
               \/ \E answers \in {<< >>, <<"status">>, <<"status", "alert">>,
                                  <<"unencodable">>} : mgrProcessNextCommand(answers)
      <4>1. pc = "process" /\ Unread /\ Decoded /\ UNCHANGED <<found, reply>>
        BY <3>2 DEF mgrProcessStartMessage, ProcessEnd, mgrProcessNextCommand
      <4>2. /\ buf' = reply' /\ Len(seen') = read' /\ read' \in 0 .. Len(buf')
            /\ \A i \in 1 .. read' : seen'[i] = reply'[i]
        BY <4>1, DecodedUnit
      <4> QED
        BY <2>1, <4>2
    <3> QED
      BY <3>1, <3>2
      DEF Next, session_init, session_close, add_generic_alert, get_next_packet,
          smlStartMessageExt, mgrCreateNextCommand, smlEndMessage, CopyPacket, CopyFails,
          StartRefused, DecodeFails, observed
  <2>3. SubSeq(seen', 1, Len(seen')) = SubSeq(reply', 1, Len(seen'))
    BY <2>1, <2>2
  <2> QED
    BY <2>2, <2>3 DEF IsPrefix
<1> QED
  BY <1>1, WsInvariant, PTL DEF Spec, RepliesOnly
==============================================================================
