-------------------------------- MODULE Wire --------------------------------
(***************************************************************************)
(* The encoder of the SyncML reference toolkit, for WBXML and for XML,     *)
(* joined to its decoder.  A message is either encoded by this client      *)
(* (job) or sent item by item by a server that may send anything of its    *)
(* vocabulary.  The callbacks free the elements the decoder hands them.    *)
(***************************************************************************)
EXTENDS Decoder

CONSTANT Scenarios   \* what is encoded, or what the server may send

VARIABLES scenario,  \* the scenario of this behaviour
          encoder,   \* what the encoder is doing: "writing", "refused" or "done"
          job,       \* elements the encoder still has to write
          encExt,    \* encoder: code pages of the last tags (cur_ext, last_ext)
          left,      \* number of items the server may still send
          leaked     \* children of elements that were not freed

vars == <<decoderVars, scenario, encoder, job, encExt, left, leaked>>

decoderRest == <<enc, page, space, curtok, scan, tags, calls, pc, out, groups, stray>>

TagItem(tag, cont, switch) == Item("tag", getTagByte(tag), Undef, cont, switch)

XmlItem(tag, cont, switch) == Item("tag", 0, tag, cont, switch)

(***************************************************************************)
(* Encoder.                                                                *)
(***************************************************************************)
(* The tags and contents xltEncBlock writes for a node.                    *)
RECURSIVE Written(_)
Written(v) ==
  LET order   == xltEncBlock(v.tag).order
      kids    == FlattenSeq([i \in DOMAIN order |->
                   IF order[i] \in DOMAIN v.kids THEN v.kids[order[i]] ELSE << >>])
      first[n \in 0 .. Len(kids)] ==
        IF n = 0 THEN << >> ELSE first[n - 1] \o Written(kids[n])
      inside  == first[Len(kids)]
      text    == [i \in DOMAIN v.text |-> Text(v.text[i])]
  IN  CASE v.tag \in EncFlags -> <<Event("empty", v.tag, Undef)>>
        [] v.tag = "Sync"     -> <<Start(v.tag)>> \o inside
        [] v.tag = "SyncEnd"  -> <<End("Sync")>>
        [] OTHER              -> <<Start(v.tag)>> \o text \o inside \o <<End(v.tag)>>

(* No required child is missing (SML_ERR_XLT_MISSING_CONT), and in XML no  *)
(* PCDATA is without content (SML_ERR_XLT_INVAL_PCDATA_TYPE).              *)
RECURSIVE Complete(_)
Complete(v) ==
  /\ enc = "xml" /\ xltEncBlock(v.tag) = encMetInf =>
       v.tag \in EncFlags \cup {"SyncEnd"} \/ v.text # << >> \/ DOMAIN v.kids # {}
  /\ v.text = << >> /\ v.tag \notin EncFlags \cup {"SyncEnd"} =>
       xltEncBlock(v.tag).required \subseteq DOMAIN v.kids
  /\ \A t \in DOMAIN v.kids : \A i \in DOMAIN v.kids[t] : Complete(v.kids[t][i])

(* The buffer manager of one call: the items written, the page of the last *)
(* tag (cur), the one before (last), the namespace in force (active) and   *)
(* the tag that opened it (tag).                                           *)
Buffer(active) ==
  [items |-> << >>, cur |-> encExt.cur, last |-> encExt.last, active |-> active,
   tag |-> Undef]

(* A tag on another page than the last one.                                *)
Switched(buf, event) ==
  IF getCodePage(event.tag) = buf.cur THEN buf
  ELSE [buf EXCEPT !.cur = getCodePage(event.tag), !.last = buf.cur, !.tag = event.tag]

wbxmlGenerateTag(buf, event) ==
  IF event.kind = "end" THEN [buf EXCEPT !.items = Append(@, EndItem)]
  ELSE LET page1 == getCodePage(event.tag)
       IN  [Switched(buf, event) EXCEPT
              !.items = Append(@, TagItem(event.tag, event.kind = "start",
                                    IF page1 = buf.cur THEN NoSwitch ELSE page1))]

(* The namespace attribute is written when the namespace changes; it ends  *)
(* with the tag that opened it.                                            *)
xmlGenerateTag(buf, event) ==
  LET page1 == getCodePage(event.tag)
      new   == [Switched(buf, event) EXCEPT !.active = page1]
      attr  == IF page1 # buf.active \/ event.tag = "SyncML" THEN page1 ELSE NoSwitch
  IN  IF event.kind # "end"
      THEN [new EXCEPT !.items = Append(@, XmlItem(event.tag, event.kind = "start", attr))]
      ELSE IF event.tag = new.tag
      THEN [new EXCEPT !.items = Append(@, XmlEnd(event.tag)), !.active = new.last,
                       !.cur = new.last, !.last = page1]
      ELSE [new EXCEPT !.items = Append(@, XmlEnd(event.tag))]

xltGenerateTag(buf, event) ==
  IF event.kind = "text" THEN [buf EXCEPT !.items = Append(@, TextItem(event.text))]
  ELSE IF enc = "wbxml" THEN wbxmlGenerateTag(buf, event)
  ELSE xmlGenerateTag(buf, event)

(* The buffer manager once the events are written.  The singleton set has  *)
(* TLC evaluate the buffer event by event.                                 *)
Generated(active, events) ==
  LET buf[n \in 0 .. Len(events)] ==
        IF n = 0 THEN Buffer(active)
        ELSE CHOOSE b \in {xltGenerateTag(p, events[n]) : p \in {buf[n - 1]}} : TRUE
  IN  buf[Len(events)]

(* Mutant of Write: the code page is forgotten after a command.            *)
MutantPageForgotten(active, events) ==
  /\ stream' = stream \o Generated(active, events).items
  /\ UNCHANGED encExt

(* Mutant of Write: what the buffer holds is written over.                 *)
MutantOverwrites(active, events) ==
  LET buf == Generated(active, events)
  IN  /\ stream' = buf.items
      /\ encExt' = [cur |-> buf.cur, last |-> buf.last]

(* Mutant of Write: the page switch last written is kept, not the page.    *)
MutantSwitchKept(active, events) ==
  LET buf == Generated(active, events)
  IN  /\ stream' = stream \o buf.items
      /\ encExt' = [cur |-> Last(buf.items).switch, last |-> buf.last]

Write(active, events) ==
  LET buf == Generated(active, events)
  IN  /\ stream' = stream \o buf.items
      /\ encExt' = [cur |-> buf.cur, last |-> buf.last]

xltEncInit ==
  /\ encoder = "writing" /\ job # << >> /\ Head(job).tag = "SyncHdr" /\ Complete(Head(job))
  /\ Write(0, <<Start("SyncML")>> \o Written(Head(job)) \o <<Start("SyncBody")>>)
  /\ job' = Tail(job)
  /\ UNCHANGED <<decoderRest, scenario, encoder, left, leaked>>

xltEncAppend ==
  /\ encoder = "writing" /\ job # << >> /\ Head(job).tag # "SyncHdr" /\ Complete(Head(job))
  /\ Write(0, Written(Head(job)))
  /\ job' = Tail(job)
  /\ UNCHANGED <<decoderRest, scenario, encoder, left, leaked>>

MissingContent ==
  /\ encoder = "writing" /\ job # << >> /\ ~Complete(Head(job))
  /\ encoder' = "refused"
  /\ UNCHANGED <<decoderVars, scenario, job, encExt, left, leaked>>

xltEncTerminate ==
  /\ encoder = "writing" /\ job = << >>
  /\ Write(encExt.cur, (IF scenario.final THEN <<Event("empty", "Final", Undef)>> ELSE << >>)
           \o <<End("SyncBody"), End("SyncML")>>)
  /\ encoder' = "done"
  /\ UNCHANGED <<decoderRest, scenario, job, left, leaked>>

(***************************************************************************)
(* The callback is done with the element and frees it.                     *)
(***************************************************************************)
RECURSIVE NotFreed(_)
NotFreed(v) ==
  LET freed == smlFreeProtoElement(v.tag)
      heap  == {t \in DOMAIN v.kids : t \notin EncFlags}
  IN  {<<v.tag, t>> : t \in heap \ freed} \cup
      UNION {NotFreed(v.kids[t][i]) :
               <<t, i>> \in {p \in (heap \cap freed) \X (1 .. 9) : p[2] \in DOMAIN v.kids[p[1]]}}

Release ==
  /\ CallbackReturns
  /\ leaked' = leaked \cup NotFreed(Last(out))
  /\ UNCHANGED <<scenario, encoder, job, encExt, left>>

(* The decoder reads the message once it is written.                       *)
Decode ==
  /\ encoder = "done"
  /\ DecoderStep
  /\ UNCHANGED <<scenario, encoder, job, encExt, left, leaked>>

(* The server: any item of its vocabulary, or the end of its message.      *)
ServerSends(item) ==
  /\ encoder = "done" /\ Reading /\ stream = << >> /\ left > 0
  /\ stream' = <<item>>
  /\ left' = left - 1
  /\ UNCHANGED <<decoderRest, scenario, encoder, job, encExt, leaked>>

Init ==
  /\ scenario \in Scenarios
  /\ enc = scenario.enc
  /\ stream = scenario.prefix
  /\ page = 0 /\ space = [tag |-> Undef, prev |-> 255, prevTag |-> Undef]
  /\ curtok = [kind |-> "undef", tag |-> Undef]
  /\ scan = << >> /\ tags = << >> /\ calls = << >> /\ pc = "start"
  /\ out = << >> /\ groups = << >> /\ stray = FALSE
  /\ job = scenario.message
  /\ encoder = IF scenario.message = << >> THEN "done" ELSE "writing"
  /\ encExt = [cur |-> 0, last |-> 0]
  /\ left = scenario.items
  /\ leaked = {}

Next ==
  \/ xltEncInit \/ xltEncAppend \/ MissingContent \/ xltEncTerminate
  \/ Decode \/ Release
  \/ \E item \in scenario.vocabulary : ServerSends(item)

Spec == Init /\ [][Next]_vars

(***************************************************************************)
(* Properties.                                                             *)
(***************************************************************************)
(* Types of the encoder's state and of the bound on the server.            *)
WireTypeOK ==
  /\ encoder \in {"writing", "refused", "done"}
  /\ encExt \in [cur : {0, 1}, last : {0, 1}]
  /\ left \in 0 .. scenario.items

(* What the decoder of this client reads back: it has no build functions   *)
(* for Results and Map, none takes Correlator in an Alert, PCDATA that     *)
(* begins with an empty tag is refused (see DesyncFatal), and in XML the   *)
(* namespace of an empty tag is never closed.                              *)
Readable(v) ==
  LET events == Written(v)
  IN  /\ v.tag \notin NotCompiled
      /\ v.tag = "Alert" => "Correlator" \notin DOMAIN v.kids
      /\ \A i \in 1 .. Len(events) - 1 :
           ~ (events[i] = Start("Meta") /\ events[i + 1].kind = "empty")
      /\ enc = "xml" =>
           \A i \in 1 .. Len(events) : events[i].tag # "FieldLevel"

Sent == scenario.message \o (IF scenario.final THEN <<Bare("Final")>> ELSE << >>)

(* A message this client encodes is decoded into the elements it was made  *)
(* from: order of the children, code page switches, flags, groups and      *)
(* texts included.                                                         *)
RoundTrip ==
  /\ pc \in {"done", "failed", "crashed"} /\ scenario.message # << >>
  /\ \A i \in DOMAIN scenario.message : Readable(scenario.message[i])
  => pc = "done" /\ out = Sent

(* Every child of an element handed to the callbacks is released with it,  *)
(* but for the four that the free functions forget.                        *)
LeaksKnown ==
  leaked \subseteq {<<"Exec", "Meta">>, <<"Exec", "Correlator">>,
                    <<"Item", "TargetParent">>, <<"Item", "SourceParent">>}
=============================================================================
