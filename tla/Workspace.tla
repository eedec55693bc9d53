------------------------------ MODULE Workspace ------------------------------
(***************************************************************************)
(* The workspace buffer of a SyncML toolkit instance and the two calls of  *)
(* the session API that use it.  The same buffer holds the message being   *)
(* composed and the reply being decoded; it is emptied only when a writer  *)
(* finds everything read.  A unit of the buffer is a header, a command,    *)
(* the end of a message, or bytes that are none of these.                  *)
(***************************************************************************)
EXTENDS Integers, Sequences, SequencesExt

CONSTANTS Size,      \* units the workspace holds (PRV_MAX_WORKSPACE_SIZE)
          Replies,   \* what the server may send: sequences of parts
          MaxQueue,  \* bound: elements waiting to be sent between calls
          MaxMsg     \* bound: messages composed and replies received

ASSUME SizeAssumption == Size \in Nat \ {0}
ASSUME BoundAssumption == MaxQueue \in Nat /\ MaxMsg \in Nat

Parts == {"header", "command", "end", "junk"}

ASSUME RepliesAssumption == Replies \subseteq Seq(Parts)

VARIABLES buf,          \* the buffer up to writePointer
          read,         \* readPointer
          readLocked,
          writeLocked,
          encoder,      \* encoderState is set
          decoder,      \* decoderState is set
          open,         \* the session has an instance
          started,      \* state is STATE_IN_SESSION
          queue,        \* elem_first: elements to send
          next,         \* place in queue of the element to encode
          toSend,
          number,       \* message_id, and the number of replies
          pc, result,
          found,        \* nothing was unread when the call began
          packet,       \* the packet last handed to the application
          reply,        \* the reply last handed to the client
          seen          \* units of this call given to the callbacks

wsVars   == <<buf, read, readLocked, writeLocked>>
codecs   == <<encoder, decoder>>
sending  == <<queue, next, toSend>>
session  == <<open, started, number>>
observed == <<found, packet, reply, seen>>
vars     == <<wsVars, codecs, session, sending, pc, result, observed>>

Unit(from, msg, part) == [from |-> from, msg |-> msg, part |-> part]

Units == [from : {"client", "server"}, msg : Nat, part : Parts]

Elements == {"alert", "status", "unencodable"}

AllRead == read = Len(buf)

(* mgrResetWorkspace.                                                      *)
mgrResetWorkspace == buf' = << >> /\ read' = 0

(* Mutant of WriteBuffer: the writer appends to what is already read.      *)
MutantNotEmptied == buf

(* The buffer after smlLockWriteBuffer: emptied when everything is read.   *)
WriteBuffer == IF AllRead THEN << >> ELSE buf

ReadAfter == IF AllRead THEN 0 ELSE read

(* Mutant of Fits: the end of the buffer is one unit further.              *)
MutantOneMore(units) == Len(WriteBuffer) + Len(units) <= Size + 1

(* There is room; else SML_ERR_XLT_BUF_ERR.                                *)
Fits(units) == Len(WriteBuffer) + Len(units) <= Size

(* Lock, write, unlock.                                                    *)
Wrote(units) ==
  /\ buf' = WriteBuffer \o units
  /\ read' = ReadAfter
  /\ UNCHANGED <<readLocked, writeLocked>>

Return(code) ==
  /\ pc' = "rest"
  /\ result' = code

(***************************************************************************)
(* omadmclient_get_next_packet.                                            *)
(***************************************************************************)
(* prvCreatePacket1 adds two elements at the beginning of the session,     *)
(* none when the device information is missing.                            *)
get_next_packet(first) ==
  /\ pc = "rest" /\ open /\ number < MaxMsg
  /\ started => first = << >>
  /\ queue' = queue \o first
  /\ started' = (started \/ first # << >>)
  /\ number' = number + 1
  /\ next' = 1 /\ toSend' = -1
  /\ found' = AllRead
  /\ pc' = "start"
  /\ UNCHANGED <<wsVars, codecs, open, result, packet, reply, seen>>

(* A failed lock releases the lock all the same.                           *)
smlStartMessageExt ==
  /\ pc = "start"
  /\ LET header == <<Unit("client", number, "header")>>
     IN  CASE writeLocked ->
                /\ writeLocked' = FALSE
                /\ Return("internal")
                /\ UNCHANGED <<buf, read, readLocked, codecs>>
           [] ~writeLocked /\ Fits(header) ->
                /\ Wrote(header)
                /\ encoder' = TRUE
                /\ pc' = "compose"
                /\ UNCHANGED <<decoder, result>>
           [] ~writeLocked /\ ~Fits(header) ->
                /\ Wrote(<< >>)
                /\ encoder' = FALSE
                /\ Return("internal")
                /\ UNCHANGED decoder
  /\ UNCHANGED <<session, sending, observed>>

(* The encoder is given up, what was written of the message stays.         *)
ComposeFails ==
  /\ Wrote(<< >>)
  /\ encoder' = FALSE
  /\ Return("internal")
  /\ UNCHANGED <<decoder, sending>>

(* Mutant of mgrCreateNextCommand: the encoder is kept after an error.     *)
MutantEncoderKept ==
  /\ pc = "compose" /\ next <= Len(queue)
  /\ LET command == <<Unit("client", number, "command")>>
     IN  IF queue[next] # "unencodable" /\ Fits(command) THEN
           /\ Wrote(command)
           /\ next' = next + 1
           /\ toSend' = IF queue[next] = "status" THEN toSend + 1 ELSE 1
           /\ UNCHANGED <<codecs, queue, pc, result>>
         ELSE
           /\ Wrote(<< >>)
           /\ Return("internal")
           /\ UNCHANGED <<codecs, sending>>
  /\ UNCHANGED <<session, observed>>

(* Mutant of mgrCreateNextCommand: a command that cannot be encoded is     *)
(* passed over.                                                            *)
MutantCommandSkipped ==
  /\ pc = "compose" /\ next <= Len(queue)
  /\ LET command == <<Unit("client", number, "command")>>
     IN  IF Fits(command) THEN
           /\ Wrote(IF queue[next] # "unencodable" THEN command ELSE << >>)
           /\ next' = next + 1
           /\ toSend' = IF queue[next] = "status" THEN toSend + 1 ELSE 1
           /\ UNCHANGED <<codecs, queue, pc, result>>
         ELSE ComposeFails
  /\ UNCHANGED <<session, observed>>

(* A command.  On a full buffer transmitChunkFunc is called, which does    *)
(* nothing in this client, and the command is tried again.                 *)
mgrCreateNextCommand ==
  /\ pc = "compose" /\ next <= Len(queue)
  /\ LET command == <<Unit("client", number, "command")>>
     IN  IF queue[next] # "unencodable" /\ Fits(command) THEN
           /\ Wrote(command)
           /\ next' = next + 1
           /\ toSend' = IF queue[next] = "status" THEN toSend + 1 ELSE 1
           /\ UNCHANGED <<codecs, queue, pc, result>>
         ELSE ComposeFails
  /\ UNCHANGED <<session, observed>>

(* The end of the message; then refresh_elements.                          *)
smlEndMessage ==
  /\ pc = "compose" /\ next > Len(queue)
  /\ LET end == <<Unit("client", number, "end")>>
     IN  IF Fits(end) THEN
           /\ Wrote(end)
           /\ encoder' = FALSE
           /\ queue' = << >>
           /\ IF toSend <= 0 THEN Return("end")
              ELSE pc' = "copy" /\ UNCHANGED result
           /\ UNCHANGED <<decoder, next, toSend>>
         ELSE ComposeFails
  /\ UNCHANGED <<session, observed>>

(* Mutant of CopyPacket: the packet is not marked as read.                 *)
MutantNotMarkedRead ==
  /\ pc = "copy" /\ ~readLocked
  /\ packet' = SubSeq(buf, read + 1, Len(buf))
  /\ Return("none")
  /\ UNCHANGED <<wsVars, codecs, session, sending, found, reply, seen>>

(* The packet is everything that is unread.                                *)
CopyPacket ==
  /\ pc = "copy" /\ ~readLocked
  /\ packet' = SubSeq(buf, read + 1, Len(buf))
  /\ read' = Len(buf)
  /\ Return("none")
  /\ UNCHANGED <<buf, readLocked, writeLocked, codecs, session, sending, found, reply,
                 seen>>

(* The read lock is refused, or there is no memory for the copy: the call  *)
(* returns with the buffer locked.                                         *)
CopyFails ==
  /\ pc = "copy"
  /\ IF readLocked THEN Return("internal") ELSE Return("memory")
  /\ readLocked' = TRUE
  /\ UNCHANGED <<buf, read, writeLocked, codecs, session, sending, observed>>

(***************************************************************************)
(* omadmclient_process_reply.                                              *)
(***************************************************************************)
Message(parts) == [i \in DOMAIN parts |-> Unit("server", number + 1, parts[i])]

(* A reply that does not fit is not copied, and its length is refused: the *)
(* buffer stays locked.                                                    *)
process_reply(parts) ==
  /\ pc = "rest" /\ open /\ number < MaxMsg /\ Len(queue) < MaxQueue
  /\ number' = number + 1
  /\ found' = AllRead
  /\ reply' = Message(parts)
  /\ seen' = << >>
  /\ CASE writeLocked ->
            Return("internal") /\ UNCHANGED wsVars
       [] ~writeLocked /\ Fits(parts) ->
            /\ Wrote(Message(parts))
            /\ pc' = "process"
            /\ UNCHANGED result
       [] ~writeLocked /\ ~Fits(parts) ->
            /\ buf' = WriteBuffer /\ read' = ReadAfter
            /\ writeLocked' = TRUE
            /\ Return("internal")
            /\ UNCHANGED readLocked
  /\ UNCHANGED <<codecs, open, started, sending, packet>>

Unread == read < Len(buf)

NextUnit == buf[read + 1]

(* The next unit is read and decoded, with the buffer locked.              *)
Decoded ==
  /\ read' = read + 1
  /\ seen' = Append(seen, NextUnit)
  /\ UNCHANGED <<buf, readLocked, writeLocked>>

(* The callbacks add elements to send.                                     *)
Answer(answers) ==
  /\ queue' = queue \o answers
  /\ UNCHANGED <<next, toSend>>

(* A read lock left behind is released, and the reply stays unread.        *)
StartRefused ==
  /\ pc = "process" /\ ~decoder /\ readLocked
  /\ readLocked' = FALSE
  /\ Return("internal")
  /\ UNCHANGED <<buf, read, writeLocked, codecs, session, sending, observed>>

mgrProcessStartMessage ==
  /\ pc = "process" /\ ~decoder /\ ~readLocked
  /\ Unread /\ NextUnit.part = "header"
  /\ Decoded
  /\ decoder' = TRUE
  /\ Answer(<<"status">>)
  /\ UNCHANGED <<encoder, session, pc, result, found, packet, reply>>

(* A command for which there is a callback.                                *)
mgrProcessNextCommand(answers) ==
  /\ pc = "process" /\ decoder
  /\ Unread /\ NextUnit.part = "command"
  /\ Decoded
  /\ Answer(answers)
  /\ UNCHANGED <<codecs, session, pc, result, found, packet, reply>>

ProcessEnd ==
  /\ pc = "process" /\ decoder
  /\ Unread /\ NextUnit.part = "end"
  /\ Decoded
  /\ decoder' = FALSE
  /\ Return("none")
  /\ UNCHANGED <<encoder, session, sending, found, packet, reply>>

(* The decoder or a callback refuses a header, a command or the end of a   *)
(* message, whatever the units are, or the reply ends too early: the       *)
(* decoder is given up and the workspace emptied.                          *)
DecodeFails ==
  /\ pc = "process" /\ (decoder \/ ~readLocked)
  /\ mgrResetWorkspace
  /\ decoder' = FALSE
  /\ Return("internal")
  /\ UNCHANGED <<readLocked, writeLocked, encoder, session, sending, observed>>

(***************************************************************************)
(* The session and its instance.                                           *)
(***************************************************************************)
(* Data without content cannot be encoded in XML.                          *)
add_generic_alert(element) ==
  /\ pc = "rest" /\ open /\ Len(queue) < MaxQueue
  /\ queue' = Append(queue, element)
  /\ UNCHANGED <<wsVars, codecs, session, next, toSend, pc, result, observed>>

session_close ==
  /\ pc = "rest" /\ open
  /\ open' = FALSE /\ started' = FALSE
  /\ queue' = << >>
  /\ UNCHANGED <<wsVars, codecs, number, next, toSend, pc, result, observed>>

session_init ==
  /\ pc = "rest" /\ ~open
  /\ open' = TRUE
  /\ mgrResetWorkspace
  /\ readLocked' = FALSE /\ writeLocked' = FALSE
  /\ encoder' = FALSE /\ decoder' = FALSE
  /\ result' = "none"
  /\ UNCHANGED <<started, number, sending, pc, observed>>

Init ==
  /\ buf = << >> /\ read = 0 /\ readLocked = FALSE /\ writeLocked = FALSE
  /\ encoder = FALSE /\ decoder = FALSE
  /\ open = FALSE /\ started = FALSE /\ number = 0
  /\ queue = << >> /\ next = 1 /\ toSend = -1
  /\ pc = "rest" /\ result = "none"
  /\ found = TRUE /\ packet = << >> /\ reply = << >> /\ seen = << >>

Next ==
  \/ session_init \/ session_close
  \/ \E element \in {"alert", "unencodable"} : add_generic_alert(element)
  \/ \E first \in {<< >>, <<"alert", "alert">>} : get_next_packet(first)
  \/ smlStartMessageExt \/ mgrCreateNextCommand \/ smlEndMessage
  \/ CopyPacket \/ CopyFails
  \/ \E parts \in Replies : process_reply(parts)
  \/ StartRefused \/ mgrProcessStartMessage
  \/ \E answers \in {<< >>, <<"status">>, <<"status", "alert">>, <<"unencodable">>} :
       mgrProcessNextCommand(answers)
  \/ ProcessEnd \/ DecodeFails

Spec == Init /\ [][Next]_vars

(***************************************************************************)
(* Properties.                                                             *)
(***************************************************************************)
(* Types; the read position is within what was written, and that within    *)
(* the workspace.                                                          *)
WorkspaceTypeOK ==
  /\ buf \in Seq(Units) /\ Len(buf) <= Size
  /\ read \in 0 .. Len(buf)
  /\ readLocked \in BOOLEAN /\ writeLocked \in BOOLEAN
  /\ encoder \in BOOLEAN /\ decoder \in BOOLEAN
  /\ open \in BOOLEAN /\ started \in BOOLEAN /\ number \in Nat
  /\ queue \in Seq(Elements) /\ next \in Nat \ {0} /\ toSend \in Int
  /\ pc \in {"rest", "start", "compose", "copy", "process"}
  /\ result \in {"none", "end", "internal", "memory"}
  /\ found \in BOOLEAN
  /\ packet \in Seq(Units) /\ reply \in Seq(Units) /\ seen \in Seq(Units)

(* When a call returns, no encoder and no decoder is left behind, on any   *)
(* error path, and a lock is left only by a call that failed: the next     *)
(* message would otherwise be refused, or continue the one before.         *)
NothingLeftBehind ==
  pc = "rest" /\ open =>
    /\ ~encoder /\ ~decoder
    /\ result = "none" => ~readLocked /\ ~writeLocked
    /\ result = "end" => ~writeLocked

(* units are one whole message with n commands.                            *)
Whole(units, msg, n) ==
  /\ Len(units) = n + 2
  /\ \A i \in 1 .. n + 2 :
       units[i] = Unit("client", msg, IF i = 1 THEN "header"
                                      ELSE IF i = n + 2 THEN "end" ELSE "command")

(* A packet is the whole message composed by the call that hands it over,  *)
(* with all the elements that were waiting, if that call found nothing     *)
(* unread in the buffer: a writer that empties the buffer does so before   *)
(* the first unit and never later.                                         *)
PacketWhole == [][packet' # packet /\ found => Whole(packet', number, next - 1)]_vars

(* The callbacks are given the units of the reply the client was called    *)
(* with, in order, and never those of a message of its own, if the call    *)
(* found nothing unread.                                                   *)
RepliesOnly == [][seen' # seen /\ found' => IsPrefix(seen', reply')]_vars

(* The reply goes on after the end of its message.                         *)
Trailing == \E i \in 1 .. Len(reply) - 1 : reply[i].part = "end"

(* A call that returns without error and found nothing unread leaves       *)
(* nothing unread, so that one good exchange is followed by another; a     *)
(* reply that goes on after its end is the exception.                      *)
SuccessLeavesNothing ==
  pc = "rest" /\ result = "none" /\ found /\ ~Trailing => AllRead
=============================================================================
