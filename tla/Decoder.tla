------------------------------- MODULE Decoder -------------------------------
(***************************************************************************)
(* The decoder of the SyncML reference toolkit, for WBXML and for XML.     *)
(* Its input is the part of the message it has not read; more may arrive   *)
(* behind it.  The decoder keeps a stack of open tags (tags), the WBXML    *)
(* scanner a second one (scan; in XML, scan only records what is open in   *)
(* the text).  calls are the build functions that are active, innermost    *)
(* last.  groups is a history variable: what the callbacks have been told. *)
(***************************************************************************)
EXTENDS SyncMLGrammar, FiniteSets, SequencesExt

VARIABLES enc,       \* "wbxml" or "xml"
          stream,    \* items of the message that are not read yet
          page,      \* scanner: code page or namespace (cptag, ext)
          space,     \* XML scanner: where the namespace ends, and the one before
          curtok,    \* scanner: kind and tag of the last token
          scan,      \* scanner: open tags
          tags,      \* decoder: open tags
          calls,     \* decoder: active build functions
          pc,        \* what the decoder is doing
          out,       \* elements handed to the callbacks
          groups,    \* groups the callbacks were told of and not of their end
          stray      \* the message had a token no guarantee covers

decoderVars ==
  <<enc, stream, page, space, curtok, scan, tags, calls, pc, out, groups, stray>>

(***************************************************************************)
(* Items of the stream.  In WBXML a tag is a byte and a page switch is     *)
(* part of the item it precedes; in XML a tag is a name, switch is its     *)
(* xmlns attribute, and end tags have names as well.  A text item is part  *)
(* of a run of character data, in WBXML an inline string; a cdata item is  *)
(* a CDATA section or an entity, in WBXML opaque data.  White space that   *)
(* the scanner skips is no item.  A bad item is anything it rejects.       *)
(***************************************************************************)
NoSwitch == 9

Item(kind, byte, name, cont, switch) ==
  [kind |-> kind, byte |-> byte, name |-> name, cont |-> cont, switch |-> switch,
   text |-> Undef]

EndItem == Item("end", 0, Undef, FALSE, NoSwitch)

XmlEnd(tag) == Item("end", 0, tag, FALSE, NoSwitch)

TextItem(text) == [Item("text", 0, Undef, FALSE, NoSwitch) EXCEPT !.text = text]

CdataItem(text) == [TextItem(text) EXCEPT !.kind = "cdata"]

BadItem == Item("tag", 0, Undef, FALSE, NoSwitch)

(* An item as part of a text.                                              *)
Contents(item) == IF item.kind = "text" THEN item.text ELSE item.name

(* What a message may hold.                                                *)
Items ==
  [kind : {"tag", "end", "text", "cdata"}, byte : Nat, name : STRING, cont : BOOLEAN,
   switch : {0, 1, NoSwitch}, text : STRING]

(***************************************************************************)
(* Tokens.                                                                 *)
(***************************************************************************)
Event(kind, tag, text) == [kind |-> kind, tag |-> tag, text |-> text]

Start(tag) == Event("start", tag, Undef)
End(tag)   == Event("end", tag, Undef)
Text(text) == Event("text", Undef, text)

(***************************************************************************)
(* Scanner: the token at the head of the stream.  In WBXML an end tag has  *)
(* no name of its own, it closes the scanner's innermost tag.              *)
(***************************************************************************)
Top == Last(calls)

wbxmlSwitchPage(item) == IF item.switch = NoSwitch THEN page ELSE item.switch

wbxmlTagToken(item) ==
  IF item.kind = "end" THEN End(IF scan = << >> THEN Undef ELSE Last(scan))
  ELSE Event(IF item.cont THEN "start" ELSE "empty",
             getTagIDByByteAndExt(item.byte, wbxmlSwitchPage(item)), Undef)

(* A name is looked up in the namespace in force, then in MetInf; after an *)
(* attribute that changes the namespace, in the new one only.              *)
xmlTag(item) ==
  LET ext  == wbxmlSwitchPage(item)
      both == IF ext = page THEN {ext, 1} ELSE {ext}
  IN  Event(IF item.kind = "end" THEN "end"
            ELSE IF item.cont THEN "start" ELSE "empty",
            IF \E p \in both : getTagIDByStringAndExt(item.name, p) # Undef
            THEN item.name ELSE Undef, Undef)

(* Character data have no tag of their own.  The WBXML scanner clears the  *)
(* token; the XML scanner leaves in it the tag of the token before.        *)
TextToken(text) == Event("text", IF enc = "xml" THEN curtok.tag ELSE Undef, text)

nextTok ==
  LET item == Head(stream)
  IN  IF item.kind \in {"text", "cdata"} THEN TextToken(item.text)
      ELSE IF enc = "wbxml" THEN wbxmlTagToken(item)
      ELSE xmlTag(item)

(* What the scanner makes of character data after the last token.  In the  *)
(* content of PCDATA they are raw (xmlSkipPCDATA), elsewhere they are      *)
(* plain characters (xmlCharData).                                         *)
TextKind(item) ==
  IF item.kind = "cdata" THEN "cdata"
  ELSE IF isPcdata(curtok.tag) /\ curtok.kind # "end" THEN "raw" ELSE "chars"

(* The XML scanner reads characters up to the next markup as one token,    *)
(* and raw text up to the end tag of its element, with the markup in       *)
(* between, unless a CDATA section or an entity comes first.               *)
Continues(item) ==
  /\ enc = "xml"
  /\ \/ curtok.kind = "chars" /\ item.kind = "text"
     \/ /\ curtok.kind = "raw" /\ item.kind # "cdata"
        /\ ~ (item.kind = "end" /\ item.name = curtok.tag)

(* The next item begins a token.                                           *)
TokenAhead == stream # << >> /\ ~Continues(Head(stream))

(* The code page after the token.  The XML scanner remembers one namespace *)
(* and its tag, and goes back to it at the end tag of the present one;     *)
(* there is no such end after an empty tag.                                *)
PageAfter(tok) ==
  LET item == Head(stream)
  IN  IF tok.kind = "text" THEN UNCHANGED <<page, space>>
      ELSE IF enc = "wbxml" THEN page' = wbxmlSwitchPage(item) /\ UNCHANGED space
      ELSE IF tok.kind = "end" /\ tok.tag = space.tag
      THEN /\ page' = space.prev
           /\ space' = [tag |-> space.prevTag, prev |-> 0, prevTag |-> Undef]
      ELSE IF tok.kind # "end" /\ wbxmlSwitchPage(item) # page
      THEN /\ page' = item.switch
           /\ space' = [tag |-> tok.tag, prev |-> page, prevTag |-> space.tag]
      ELSE UNCHANGED <<page, space>>

Pushed(stack, tok) ==
  CASE tok.kind = "start" -> Append(stack, tok.tag)
    [] tok.kind = "end"   -> Front(stack)
    [] OTHER              -> stack

(* Mutant of Legal: the end tag is not compared with the last open tag.    *)
MutantAnyEnd(tok) ==
  /\ tok.kind # "text" => tok.tag # Undef
  /\ tok.kind = "end" => tags # << >>

(* The scanner knows the tag, and nextToken finds it open when it ends.    *)
Legal(tok) ==
  /\ tok.kind # "text" => tok.tag # Undef
  /\ tok.kind = "end" => tags # << >> /\ Last(tags) = tok.tag

OutsidePcdata ==
  \/ pc = "next"
  \/ pc = "build" /\ Top.what # "pcdata"

(* Tokens that let end tags go astray: an empty or second MetInf wrapper,  *)
(* and in XML an end tag that is not that of the innermost open tag, and   *)
(* text outside PCDATA, which is taken for the tag before it.              *)
Stray(tok) ==
  \/ tok.kind = "end" /\ scan # << >> /\ tok.tag # Last(scan)
  \/ /\ tok.kind # "end" /\ tok.tag = "MetInf" /\ pc = "build" /\ Top.what = "metinf"
     /\ Top.wrapped \/ tok.kind = "empty"
  \/ tok.kind = "text" /\ tok.tag # Undef /\ OutsidePcdata

nextToken(tok) ==
  /\ stream' = Tail(stream)
  /\ stray' = (stray \/ Stray(tok))
  /\ PageAfter(tok)
  /\ curtok' = [kind |-> IF tok.kind = "text" THEN TextKind(Head(stream)) ELSE tok.kind,
                tag |-> tok.tag]
  /\ scan' = Pushed(scan, tok)
  /\ tags' = Pushed(tags, tok)

(* _pushTok keeps the tag of the token that is handed back.                *)
pushTok(tok) == curtok' = [kind |-> "undef", tag |-> tok.tag]

(* The token is handed back, but not its code page.  The decoder's stack is*)
(* popped even when the token is no start tag and was never pushed.        *)
discardToken(tok) ==
  /\ UNCHANGED <<stream, scan>>
  /\ stray' = (stray \/ Stray(tok))
  /\ PageAfter(tok)
  /\ pushTok(tok)
  /\ tags' = IF tok.kind = "start" THEN tags ELSE Front(tags)

Groups == {"Sync", "Atomic", "Sequence"}

(* The element that tells of the end of a group, or of the message.        *)
EndOf(tag) ==
  CASE tag = "Atomic"   -> "AtomicEnd"
    [] tag = "Sequence" -> "SequenceEnd"
    [] tag = "Sync"     -> "SyncEnd"
    [] OTHER            -> "Final"

(***************************************************************************)
(* Decoder: an activation of a build function.                           *)
(***************************************************************************)
Frame(what, tag) ==
  [what |-> what, tag |-> tag, text |-> << >>, kids |-> << >>, seen |-> {},
   wrapped |-> FALSE, ext |-> FALSE]

(* The frames fs with f in the place of the innermost one.                 *)
WithTop(fs, f) == [fs EXCEPT ![Len(fs)] = f]

(* Child v of the innermost of the frames fs is complete.                  *)
Returned(fs, v) ==
  WithTop(fs, [Last(fs) EXCEPT !.kids = WithKid(@, v), !.seen = @ \cup {v.tag}])

(* The callbacks are told of an element, or of the beginning of a group.   *)
Told(v) ==
  /\ out' = Append(out, v)
  /\ groups' = IF v.tag \in Groups THEN Append(groups, v.tag) ELSE groups

(* Mutant of Deliver: the build function does not return.                  *)
MutantStillBuilding(v) ==
  /\ Told(v)
  /\ pc' = "held"
  /\ UNCHANGED calls

Deliver(v) ==
  /\ Told(v)
  /\ calls' = << >>
  /\ pc' = "held"

(* The build function of the last frame of fs returns its element.         *)
Return(fs) ==
  LET f == Last(fs)
      v == Node(f.tag, f.text, f.kids)
  IN  IF Len(fs) = 1 THEN Deliver(v)
      ELSE /\ calls' = Returned(Front(fs), v)
           /\ UNCHANGED <<pc, out, groups>>

(* What buildPCData does with the token after its start tag or its text.   *)
InPcdata(f, tok) ==
  CASE tok.kind = "text" /\ ~f.ext -> "text"
    [] tok.kind = "end"            -> "close"
    [] tok.kind \in {"start", "empty"} /\ f.text = << >> /\ ~f.ext -> "extension"
    [] OTHER                       -> "error"

(* What the other build functions do with a start or an empty tag, or with *)
(* text, which they take for a start tag: they only look at the tag.       *)
InStruct(f, tok) ==
  LET b == Build(f.tag)
  IN  IF f.what = "metinf" /\ tok.tag = "MetInf" THEN "wrapper"
      ELSE IF tok.tag \in b.stops
      THEN IF b.required \subseteq f.seen THEN "stop" ELSE "error"
      ELSE IF tok.tag \notin Children(b) THEN "error"
      ELSE IF tok.tag \in b.pcdata \cup b.structs /\ tok.tag \in DOMAIN f.kids THEN "error"
      ELSE IF tok.kind # "empty" THEN "open"
      ELSE IF tok.tag \in b.structs \cup {"Item"} /\ Build(tok.tag).empty = "drop"
      THEN "drop" ELSE "keep"

AtEnd(f, tok) ==
  IF f.tag = "Sync" THEN IF tok.tag = "Sync" THEN "hand back" ELSE "error"
  ELSE IF f.tag \notin Groups /\ Build(f.tag).required \subseteq f.seen THEN "close"
  ELSE "error"

Reaction(f, tok) ==
  IF ~Legal(tok) THEN "error"
  ELSE CASE f.what = "flag"   -> IF tok.kind = "end" THEN "close" ELSE "error"
         [] f.what = "pcdata" -> InPcdata(f, tok)
         [] OTHER             -> IF tok.kind = "end" THEN AtEnd(f, tok)
                                 ELSE InStruct(f, tok)

Reading == pc \in {"start", "header", "next", "build", "trailer"}

Building(reaction) ==
  /\ pc = "build" /\ TokenAhead
  /\ Reaction(Top, nextTok) = reaction

(* How a child with content is built.  A child begun by text has no tag on *)
(* either stack and ends at the next end tag all the same.                 *)
BuiltBy(b, tag) ==
  IF tag \in b.flags THEN "flag" ELSE IF ReadAsPcdata(b, tag) THEN "pcdata" ELSE "struct"

OpenChild ==
  /\ Building("open")
  /\ calls' = Append(calls, Frame(BuiltBy(Build(Top.tag), nextTok.tag), nextTok.tag))
  /\ nextToken(nextTok)
  /\ UNCHANGED <<enc, pc, out, groups>>

(* The child is an empty tag: it becomes an empty element, or nothing.     *)
EmptyChild ==
  /\ Building("keep") \/ Building("drop")
  /\ calls' = IF Reaction(Top, nextTok) = "keep" THEN Returned(calls, Bare(nextTok.tag))
              ELSE WithTop(calls, [Top EXCEPT !.seen = @ \cup {nextTok.tag}])
  /\ nextToken(nextTok)
  /\ UNCHANGED <<enc, pc, out, groups>>

concatPCData ==
  /\ Building("text")
  /\ calls' = WithTop(calls, [Top EXCEPT !.text = Append(@, nextTok.text)])
  /\ nextToken(nextTok)
  /\ UNCHANGED <<enc, pc, out, groups>>

(* More of the text the scanner is reading.  It belongs to the text of the *)
(* innermost PCDATA unless that text is what the PCDATA was begun by.      *)
TextGoesOn ==
  /\ Reading /\ stream # << >> /\ Continues(Head(stream))
  /\ stream' = Tail(stream)
  /\ calls' = IF pc = "build" /\ Top.what = "pcdata" /\ Top.text # << >>
              THEN WithTop(calls, [Top EXCEPT !.text = Append(@, Contents(Head(stream)))])
              ELSE calls
  /\ UNCHANGED <<enc, page, space, curtok, scan, tags, pc, out, groups, stray>>

(* A tag inside PCDATA: it is handed back and read again as MetInf.        *)
BuildExtension ==
  /\ Building("extension")
  /\ calls' = Append(calls, Frame("metinf", "MetInf"))
  /\ discardToken(nextTok)
  /\ UNCHANGED <<enc, pc, out, groups>>

(* Mutant of MetInfWrapper: foundWrapper is not set.                       *)
MutantWrapperForgotten ==
  /\ Building("wrapper")
  /\ nextToken(nextTok)
  /\ UNCHANGED <<enc, calls, pc, out, groups>>

MetInfWrapper ==
  /\ Building("wrapper")
  /\ calls' = WithTop(calls, [Top EXCEPT !.wrapped = TRUE])
  /\ nextToken(nextTok)
  /\ UNCHANGED <<enc, pc, out, groups>>

(* The frames once the PCDATA holds the MetInf document read.              *)
DocRead ==
  LET outer == Front(calls)
  IN  WithTop(outer, [Last(outer) EXCEPT !.kids = Top.kids, !.ext = TRUE])

(* An end tag ends a build function.  The end of a MetInf document without *)
(* wrapper is the end of the PCDATA around it; after a wrapper, the next   *)
(* token has to be that end.                                               *)
CloseElement ==
  /\ Building("close")
  /\ nextToken(nextTok)
  /\ IF Top.what # "metinf" THEN Return(calls)
     ELSE IF Top.wrapped THEN calls' = DocRead /\ UNCHANGED <<pc, out, groups>>
     ELSE Return(DocRead)
  /\ UNCHANGED enc

(* Mutant of CloseSync: the end tag is not handed back.                    *)
MutantSyncEndLost ==
  /\ Building("hand back")
  /\ Return(calls)
  /\ nextToken(nextTok)
  /\ UNCHANGED enc

(* A Sync without commands hands its end tag back, for SyncEnd.            *)
CloseSync ==
  /\ Building("hand back")
  /\ Return(calls)
  /\ pushTok(nextTok)
  /\ UNCHANGED <<enc, stream, page, space, scan, tags, stray>>

StopAtCommand ==
  /\ Building("stop")
  /\ discardToken(nextTok)
  /\ Return(calls)
  /\ UNCHANGED enc

(* xltDecInit: the SyncML tag, then the header, whose tag is not looked at.*)
xltDecInit ==
  /\ pc \in {"start", "header"} /\ TokenAhead /\ Legal(nextTok)
  /\ nextToken(nextTok)
  /\ \/ /\ pc = "start" /\ nextTok.kind = "start" /\ nextTok.tag = "SyncML"
        /\ pc' = "header"
        /\ UNCHANGED <<calls, out, groups>>
     \/ /\ pc = "header" /\ nextTok.kind = "empty"
        /\ Deliver(Bare("SyncHdr"))
     \/ /\ pc = "header" /\ nextTok.kind # "empty"
        /\ calls' = <<Frame("struct", "SyncHdr")>>
        /\ pc' = "build"
        /\ UNCHANGED <<out, groups>>
  /\ UNCHANGED enc

OutsideBody == tags # << >> /\ Last(tags) = "SyncML"

(* What xltDecNext does with the first token of a call.  It takes anything *)
(* that is no start or empty tag for the end tag of its tag, text included.*)
AtNext(tok) ==
  IF tags = << >> \/ ~Legal(tok) THEN "error"
  ELSE IF OutsideBody
  THEN IF tok.kind = "start" /\ tok.tag = "SyncBody" THEN "body" ELSE "error"
  ELSE IF tok.kind \in {"start", "empty"} /\ tok.tag # "Final"
  THEN CASE tok.tag \notin cPE_Dec  -> "error"
         [] tok.tag \in NotCompiled -> "crash"
         [] OTHER -> IF tok.kind = "start" THEN "build" ELSE Build(tok.tag).empty
  ELSE CASE tok.tag \in Groups \cup {"Final"} -> "mark"
         [] tok.tag = "SyncBody"              -> "end of body"
         [] OTHER                             -> "error"

Next_(reaction) == pc = "next" /\ TokenAhead /\ AtNext(nextTok) = reaction

EnterBody ==
  /\ Next_("body")
  /\ nextToken(nextTok)
  /\ UNCHANGED <<enc, calls, pc, out, groups>>

xltDecNext ==
  /\ Next_("build")
  /\ calls' = <<Frame("struct", nextTok.tag)>>
  /\ pc' = "build"
  /\ nextToken(nextTok)
  /\ UNCHANGED <<enc, out, groups>>

(* The end of a group, or Final.                                           *)
DeliverMark ==
  /\ Next_("mark")
  /\ out' = Append(out, Bare(EndOf(nextTok.tag)))
  /\ groups' = IF nextTok.tag \in Groups THEN Front(groups) ELSE groups
  /\ nextToken(nextTok)
  /\ UNCHANGED <<enc, calls, pc>>

EndOfBody ==
  /\ Next_("end of body")
  /\ nextToken(nextTok)
  /\ pc' = "trailer"
  /\ UNCHANGED <<enc, calls, out, groups>>

EndOfMessage ==
  /\ pc = "trailer" /\ TokenAhead /\ Legal(nextTok)
  /\ nextTok.kind = "end" /\ nextTok.tag = "SyncML"
  /\ nextToken(nextTok)
  /\ pc' = "done"
  /\ UNCHANGED <<enc, calls, out, groups>>

(* A null build function is called, or the null element of an empty Sync   *)
(* is looked at.                                                           *)
Crash ==
  /\ Next_("crash")
  /\ pc' = "crashed"
  /\ UNCHANGED <<enc, stream, page, space, curtok, scan, tags, calls, out, groups,
                 stray>>

DecodeError ==
  /\ \/ Building("error")
     \/ Next_("error")
     \/ /\ pc \in {"start", "header", "trailer"} /\ TokenAhead
        /\ \/ ~Legal(nextTok)
           \/ pc = "start" /\ ~(nextTok.kind = "start" /\ nextTok.tag = "SyncML")
           \/ pc = "trailer" /\ ~(nextTok.kind = "end" /\ nextTok.tag = "SyncML")
  /\ pc' = "failed"
  /\ UNCHANGED <<enc, stream, page, space, curtok, scan, tags, calls, out, groups,
                 stray>>

(* The callback is done with the element.                                  *)
CallbackReturns ==
  /\ pc = "held"
  /\ pc' = "next"
  /\ UNCHANGED <<enc, stream, page, space, curtok, scan, tags, calls, out, groups, stray>>

(* SML_ERR_XLT_END_OF_BUFFER.                                              *)
EndOfBuffer ==
  /\ Reading /\ stream = << >>
  /\ pc' = "failed"
  /\ UNCHANGED <<enc, stream, page, space, curtok, scan, tags, calls, out, groups, stray>>

(* The rest of the message, whatever it is.                                *)
Input ==
  /\ Reading
  /\ stream' \in Seq(Items) /\ IsPrefix(stream, stream')
  /\ UNCHANGED <<enc, page, space, curtok, scan, tags, calls, pc, out, groups, stray>>

DecoderStep ==
  \/ xltDecInit \/ EnterBody \/ xltDecNext \/ DeliverMark \/ EndOfBody \/ EndOfMessage
  \/ OpenChild \/ EmptyChild \/ concatPCData \/ TextGoesOn \/ BuildExtension
  \/ MetInfWrapper \/ CloseElement \/ CloseSync \/ StopAtCommand
  \/ Crash \/ DecodeError \/ EndOfBuffer

DecoderInit ==
  /\ enc \in {"wbxml", "xml"}
  /\ stream \in Seq(Items)
  /\ page = 0 /\ space = [tag |-> Undef, prev |-> 255, prevTag |-> Undef]
  /\ curtok = [kind |-> "undef", tag |-> Undef]
  /\ scan = << >> /\ tags = << >> /\ calls = << >> /\ pc = "start"
  /\ out = << >> /\ groups = << >> /\ stray = FALSE

DecoderNext == DecoderStep \/ CallbackReturns \/ Input

(* The decoder on any message at all, of which any part may still be under *)
(* way when it begins to read: what the proofs are about.  As a property   *)
(* it says that the encoder and the server only ever add to the end of     *)
(* what xltDecInit and xltDecNext have not read, and touch nothing else of *)
(* the decoder's.                                                          *)
DecoderSpec == DecoderInit /\ [][DecoderNext]_decoderVars

(***************************************************************************)
(* Properties.                                                             *)
(***************************************************************************)
Pcs == {"start", "header", "build", "held", "next", "trailer", "done", "failed",
        "crashed"}

Names == {SyncMLPage[i] : i \in DOMAIN SyncMLPage} \cup
         {MetInfPage[i] : i \in DOMAIN MetInfPage}

TokKinds == {"undef", "start", "end", "empty", "cdata", "raw", "chars"}

(* Types of the last token and of the stacks; a build function is active   *)
(* exactly while an element is being built.                                *)
DecoderTypeOK ==
  /\ pc \in Pcs /\ page \in {0, 1} /\ stray \in BOOLEAN
  /\ curtok \in [kind : TokKinds, tag : Names]
  /\ scan \in Seq(Names) /\ tags \in Seq(Names) /\ groups \in Seq(Groups)
  /\ pc = "build" => calls # << >>
  /\ pc \in Pcs \ {"build", "failed"} => calls = << >>

(* The tag whose end tag ends the innermost build function.                *)
OwnEnd ==
  IF Top.what # "metinf" THEN Top.tag
  ELSE IF Top.wrapped THEN "MetInf" ELSE calls[Len(calls) - 1].tag

EndsElement ==
  /\ Building("close")
  /\ ~ (Len(calls) = 1 /\ Top.tag = "SyncHdr")

(* A build function ends at the end tag of the element it builds and never *)
(* takes that of an element around it, however PCDATA, MetInf documents    *)
(* and their optional wrapper are nested (buildPCData and                  *)
(* buildMetInfMetInfCmd share one end tag when there is no wrapper).  The  *)
(* header, whose tag is not looked at, and messages with stray tokens are  *)
(* left out: in XML, text behind a child begins a second one, which takes  *)
(* the end tag of its parent.                                              *)
EndsMatch == EndsElement /\ ~stray /\ ~Stray(nextTok) => nextTok.tag = OwnEnd

(* The number of open tags other than Final among the first n, those of    *)
(* the message and of its body left aside.                                 *)
Depth(open, n) == Cardinality({p \in 3 .. n : open[p] # "Final"})

(* The first n open tags are those of the message, of its body and, but    *)
(* for Final, of the groups told, in this order.                           *)
Nests(open, n, told) ==
  /\ n >= 2 /\ open[1] = "SyncML" /\ open[2] = "SyncBody"
  /\ Len(told) = Depth(open, n)
  /\ \A p \in 3 .. n : open[p] # "Final" => told[Depth(open, p)] = open[p]

(* Between two commands the callbacks and the scanner agree on the groups  *)
(* that are open: every group the decoder hands over in two pieces, start  *)
(* and end, with the command at which it stopped handed back in between.   *)
(* Messages with stray tokens are left out: in XML, text behind the end of *)
(* a group has the callbacks told of that end once more.                   *)
GroupsNest ==
  pc = "next" /\ Len(scan) > 1 /\ ~stray => Nests(scan, Len(scan), groups)

(* The two stacks of open tags drift apart when an empty tag is handed     *)
(* back (discardToken pops a tag that was never pushed).  From then on no  *)
(* element reaches the callbacks: the message is refused at the next end,  *)
(* unless a stray token swallows an end tag.                               *)
DesyncFatal == [][tags # scan /\ ~stray' => out' = out]_decoderVars
==============================================================================
