---------------------------- MODULE DecoderProofs ----------------------------
(***************************************************************************)
(* Proofs about the decoder: build functions end at their own end tags,    *)
(* the groups told to the callbacks nest as in the message, and once the   *)
(* two stacks of open tags differ nothing is delivered.                    *)
(***************************************************************************)
EXTENDS Decoder, FiniteSetTheorems, SequenceTheorems, TLAPS

(***************************************************************************)
(* The inductive invariant.  Tags are of few kinds: the roots of what is   *)
(* delivered, elements with parts (PartTags) and without (TextTags), and   *)
(* those of a MetInf document.                                             *)
(***************************************************************************)
Roots == {"SyncHdr"} \cup (cPE_Dec \ NotCompiled)

PartTags == {"Field", "Record", "Filter", "TargetParent", "SourceParent", "Target",
             "Source", "Chal", "Cred", "Item"}

TextTags == {"VerDTD", "VerProto", "SessionID", "MsgID", "RespURI", "Meta", "NoResp",
             "CmdID", "NumberOfChanges", "Correlator", "Archive", "SftDel", "Data",
             "Lang", "MsgRef", "CmdRef", "Cmd", "TargetRef", "SourceRef",
             "FilterType", "LocURI", "LocName", "MoreData"}

MetInfParts == {"MetInf", "Anchor", "Mem"}

MetInfTexts == {"Last", "Next", "FreeMem", "FreeID", "SharedMem", "Format", "Type",
                "Mark", "Size", "Version", "NextNonce", "MaxMsgSize", "MaxObjSize",
                "EMI", "FieldLevel"}

MetInfTags == MetInfParts \cup MetInfTexts

(* The frames fs of the active build functions.                            *)
FrameOK(f) ==
  /\ DOMAIN f = {"what", "tag", "text", "kids", "seen", "wrapped", "ext"}
  /\ f.what \in {"struct", "pcdata", "flag", "metinf"}
  /\ f.wrapped \in BOOLEAN /\ f.ext \in BOOLEAN /\ f.text \in Seq(STRING)
  /\ f.what \in {"pcdata", "flag"} => f.tag \in TextTags \cup MetInfTexts
  /\ f.what = "metinf" => f.tag = "MetInf"
  /\ f.what = "struct" => f.tag \in Roots \cup PartTags \cup MetInfParts

FramesOK(fs) ==
  /\ \E S : fs \in Seq(S)
  /\ Len(fs) >= 1
  /\ \A j \in 1 .. Len(fs) : FrameOK(fs[j])
  /\ fs[1].what = "struct" /\ fs[1].tag \in Roots
  /\ \A j \in 2 .. Len(fs) :
       /\ fs[j].tag \notin Roots
       /\ fs[j].what = "metinf" => fs[j - 1].what = "pcdata"
       /\ fs[j].what # "metinf" => fs[j - 1].what \in {"struct", "metinf"}

(* The tag whose end ends frame j.                                         *)
Own(fs, j) ==
  IF fs[j].what # "metinf" THEN fs[j].tag
  ELSE IF fs[j].wrapped THEN "MetInf" ELSE fs[j - 1].tag

Unwrapped(f) == f.what = "metinf" /\ ~f.wrapped

(* Frame j ends at the h[j]-th open tag.  The tag of the header is not     *)
(* looked at: it may even be a text or an end tag.                         *)
Placed(h, fs, open) ==
  /\ h \in [1 .. Len(fs) -> Nat]
  /\ h[Len(fs)] = Len(open)
  /\ \A j \in 1 .. Len(fs) : \A i \in 1 .. j : h[i] <= h[j]
  /\ \A j \in 2 .. Len(fs) : h[j] = IF Unwrapped(fs[j]) THEN h[j - 1] ELSE h[j - 1] + 1
  /\ \A j \in 1 .. Len(fs) :
       j > 1 \/ fs[1].tag # "SyncHdr" => h[j] >= 1 /\ open[h[j]] = Own(fs, j)
  /\ fs[1].tag = "SyncHdr" => h[1] <= 2 /\ (h[1] >= 1 => open[1] = "SyncML")

(* The frames after the k-th are those of a MetInf document in its PCDATA. *)
Split(k, h, fs, open) ==
  /\ k \in 1 .. Len(fs)
  /\ \A j \in 1 .. k : fs[j].tag \notin MetInfTags /\ fs[j].what # "metinf"
  /\ \A j \in k + 1 .. Len(fs) : fs[j].tag \in MetInfTags
  /\ k < Len(fs) => fs[k].what = "pcdata"
  /\ \A i \in h[k] + 1 .. Len(open) : open[i] \in MetInfTags

(* A place in the decoder's stack tg below which it cannot be popped: for  *)
(* want of a tag outside the MetInf page that both stacks end with.        *)
Barrier(k, h, fs, open, tg) ==
  /\ fs[k].what = "pcdata"
  /\ k < Len(fs) \/ fs[k].ext
  /\ \E q \in 0 .. h[k] :
       /\ q <= Len(tg)
       /\ \A i \in q + 1 .. Len(tg) : tg[i] \in MetInfTags
       /\ q >= 1 => tg[q] \notin MetInfTags /\ (q < h[k] => tg[q] # open[h[k]])

(* In the header, SyncML stays at the bottom of both stacks.               *)
Bottom(h, fs, open, tg) ==
  /\ fs[1].tag = "SyncHdr" /\ h[1] = 2
  /\ Len(tg) >= 1 /\ tg[1] = "SyncML" /\ open[1] = "SyncML"
  /\ \A i \in 2 .. Len(open) : open[i] # "SyncML"

Drift(k, h, fs, open, tg) ==
  tg # open =>
    /\ Len(tg) < Len(open)
    /\ Barrier(k, h, fs, open, tg) \/ Bottom(h, fs, open, tg)

(* PCDATA that has just begun: its tag is the last one pushed.             *)
Fresh(fs, tg) ==
  LET f == fs[Len(fs)]
  IN  f.what = "pcdata" /\ f.text = << >> /\ ~f.ext =>
        Len(tg) >= 1 /\ tg[Len(tg)] = f.tag

(* What the callbacks know while an element is built.                      *)
Root(h, fs, open, told) ==
  IF fs[1].tag = "SyncHdr" THEN told = << >>
  ELSE Nests(open, h[1] - 1, told)

BuildOK(k, h, fs, open, tg, told) ==
  /\ Placed(h, fs, open)
  /\ Split(k, h, fs, open)
  /\ Drift(k, h, fs, open, tg)
  /\ Fresh(fs, tg)
  /\ Root(h, fs, open, told)

(* Between two elements.                                                   *)
Between(open, told) ==
  \/ told = << >> /\ (open = << >> \/ open = <<"SyncML">>)
  \/ Nests(open, Len(open), told)

(* The decoder has handed back an empty command: the next call fails.      *)
Doomed ==
  /\ TokenAhead
  /\ nextTok.kind = "empty" /\ nextTok.tag \in cPE_Dec

Idle ==
  /\ pc = "start" => scan = << >> /\ tags = << >> /\ groups = << >>
  /\ pc = "header" => scan = <<"SyncML">> /\ tags = <<"SyncML">> /\ groups = << >>
  /\ pc \in {"held", "next"} => (tags = scan \/ Doomed) /\ Between(scan, groups)
  /\ pc = "trailer" => tags = scan

Active == pc = "build" => \E k, h : BuildOK(k, h, calls, scan, tags, groups)

TypeInv ==
  /\ DecoderTypeOK
  /\ enc \in {"wbxml", "xml"} /\ stream \in Seq(Items)
  /\ space.tag = Undef \/ space.prev \in {0, 1}
  /\ pc = "build" => FramesOK(calls)

DecoderInv == TypeInv /\ (~stray => Idle /\ Active)

(***************************************************************************)
(* Stacks.                                                                 *)
(***************************************************************************)
Grown(s, t, x) ==
  /\ Len(t) = Len(s) + 1
  /\ t[Len(s) + 1] = x
  /\ \A i \in 1 .. Len(s) : t[i] = s[i]

Shrunk(s, t) ==
  /\ Len(t) = Len(s) - 1
  /\ \A i \in 1 .. Len(s) - 1 : t[i] = s[i]

(* What Append does to a sequence.                                         *)
LEMMA AppendGrown ==
  ASSUME NEW S, NEW s \in Seq(S), NEW x
  PROVE  Grown(s, Append(s, x), x) /\ Append(s, x) \in Seq(S \cup {x})
<1>1. s \in Seq(S \cup {x})
  BY SeqMonotonic, S \subseteq S \cup {x}
<1>2. Append(s, x) \in Seq(S \cup {x}) /\ Len(Append(s, x)) = Len(s) + 1
      /\ (\A i \in 1 .. Len(s) : Append(s, x)[i] = s[i])
      /\ Append(s, x)[Len(s) + 1] = x
  BY <1>1, AppendProperties
<1> QED BY <1>2 DEF Grown

(* Append keeps a type that holds the new element.                         *)
LEMMA AppendType ==
  ASSUME NEW S, NEW s \in Seq(S), NEW x \in S
  PROVE  Append(s, x) \in Seq(S)
  OBVIOUS

(* A positive length is that of one element or of several.                 *)
LEMMA OneOrMore ==
  ASSUME NEW n \in Nat, n >= 1
  PROVE  n = 1 \/ n > 1
  OBVIOUS

(* Front keeps the type, and of a sequence that is not empty all but the   *)
(* last element.                                                           *)
LEMMA FrontShrunk ==
  ASSUME NEW S, NEW s \in Seq(S)
  PROVE  Front(s) \in Seq(S) /\ (Len(s) >= 1 => Shrunk(s, Front(s)))
<1>1. Len(s) \in Nat
  OBVIOUS
<1>2. CASE Len(s) = 0
  <2>1. SubSeq(s, 1, Len(s) - 1) = << >>
    BY <1>2, SubSeqEmpty
  <2> QED BY <2>1, <1>2, EmptySeq DEF Front
<1>3. CASE Len(s) >= 1
  <2>1. SubSeq(s, 1, Len(s) - 1) \in Seq(S)
    BY <1>3, <1>1, SubSeqProperties
  <2>2. Len(SubSeq(s, 1, Len(s) - 1)) = Len(s) - 1
    <3>1. CASE Len(s) = 1
      BY <3>1, SubSeqEmpty, EmptySeq
    <3>2. CASE Len(s) > 1
      BY <3>2, <1>1, SubSeqProperties
    <3> QED BY <3>1, <3>2, <1>1, <1>3, OneOrMore
  <2>3. \A i \in 1 .. Len(s) - 1 : SubSeq(s, 1, Len(s) - 1)[i] = s[i]
    BY <1>3, <1>1, SubSeqProperties
  <2> QED BY <2>1, <2>2, <2>3 DEF Front, Shrunk
<1> QED BY <1>1, <1>2, <1>3

(* A sequence is empty exactly when its length is zero.                    *)
LEMMA EmptyLen ==
  ASSUME NEW S, NEW s \in Seq(S)
  PROVE  Len(s) \in Nat /\ (s = << >> <=> Len(s) = 0)
  BY EmptySeq, LenProperties

(***************************************************************************)
(* The grammar.                                                            *)
(***************************************************************************)
(* The kinds of tags have nothing in common.                               *)
LEMMA KindsDisjoint ==
  /\ \A t \in TextTags : t \notin Roots \cup PartTags \cup MetInfTags
  /\ \A t \in PartTags : t \notin Roots \cup MetInfTags
  /\ \A t \in Roots : t \notin MetInfTags
  /\ \A t \in MetInfParts : t \notin MetInfTexts
  /\ "SyncML" \notin Roots \cup PartTags \cup TextTags \cup MetInfTags
  /\ Undef \notin Roots \cup PartTags \cup TextTags \cup MetInfTags
  BY DEF Undef, TextTags, PartTags, Roots, MetInfTags, MetInfParts, MetInfTexts, cPE_Dec,
         NotCompiled, GenericCmds

(* The build function of each tag.                                         *)
LEMMA BuildOf ==
  /\ \A t \in {"SyncHdr"} : Build(t) = buildSyncHdr
  /\ \A t \in {"Sync"} : Build(t) = buildSync
  /\ \A t \in {"Atomic", "Sequence"} : Build(t) = buildAtomOrSeq
  /\ \A t \in {"Exec"} : Build(t) = buildExec
  /\ \A t \in {"Add", "Copy", "Delete", "Replace", "Move"} : Build(t) = buildGenericCmd
  /\ \A t \in {"Alert"} : Build(t) = buildAlert
  /\ \A t \in {"Get", "Put"} : Build(t) = buildPutOrGet
  /\ \A t \in {"Status"} : Build(t) = buildStatus
  /\ \A t \in {"Field", "Record"} : Build(t) = buildRecordFieldFilter
  /\ \A t \in {"Filter"} : Build(t) = buildFilter
  /\ \A t \in {"TargetParent", "SourceParent"} : Build(t) = buildTargetOrSourceParent
  /\ \A t \in {"Target", "Source"} : Build(t) = buildTargetOrSource
  /\ \A t \in {"Chal"} : Build(t) = buildChal
  /\ \A t \in {"Cred"} : Build(t) = buildCred
  /\ \A t \in {"Item"} : Build(t) = buildItem
  /\ \A t \in {"Anchor"} : Build(t) = buildMetInfAnchorCmd
  /\ \A t \in {"Mem"} : Build(t) = buildMetInfMemCmd
  /\ \A t \in {"MetInf"} : Build(t) = buildMetInfMetInfCmd
  BY DEF Build, GenericCmds
(* The children of an element of the SyncML page, by kind, and those of an *)
(* element of a MetInf document.                                           *)
SyncMLKids(b) ==
  /\ b.pcdata \subseteq TextTags /\ b.flags \subseteq TextTags
  /\ b.structs \subseteq PartTags
  /\ b.lists \subseteq {"Item", "TargetRef", "SourceRef"}

MetInfKids(b) ==
  /\ b.pcdata \subseteq MetInfTexts /\ b.flags \subseteq MetInfTexts
  /\ b.structs \subseteq MetInfParts
  /\ b.lists \subseteq MetInfTexts

LEMMA SyncMLBuilders ==
  /\ SyncMLKids(buildSyncHdr)
  /\ SyncMLKids(buildSync)
  /\ SyncMLKids(buildAtomOrSeq)
  /\ SyncMLKids(buildExec)
  /\ SyncMLKids(buildGenericCmd)
  /\ SyncMLKids(buildAlert)
  /\ SyncMLKids(buildPutOrGet)
  /\ SyncMLKids(buildStatus)
  /\ SyncMLKids(buildRecordFieldFilter)
  /\ SyncMLKids(buildFilter)
  /\ SyncMLKids(buildTargetOrSourceParent)
  /\ SyncMLKids(buildTargetOrSource)
  /\ SyncMLKids(buildChal)
  /\ SyncMLKids(buildCred)
  /\ SyncMLKids(buildItem)
<1>1. SyncMLKids(buildSyncHdr)
  BY DEF SyncMLKids, buildSyncHdr, Builder, TextTags, PartTags
<1>2. SyncMLKids(buildSync)
  BY DEF SyncMLKids, buildSync, Builder, TextTags, PartTags
<1>3. SyncMLKids(buildAtomOrSeq)
  BY DEF SyncMLKids, buildAtomOrSeq, Builder, TextTags, PartTags
<1>4. SyncMLKids(buildExec)
  BY DEF SyncMLKids, buildExec, Builder, TextTags, PartTags
<1>5. SyncMLKids(buildGenericCmd)
  BY DEF SyncMLKids, buildGenericCmd, Builder, TextTags, PartTags
<1>6. SyncMLKids(buildAlert)
  BY DEF SyncMLKids, buildAlert, Builder, TextTags, PartTags
<1>7. SyncMLKids(buildPutOrGet)
  BY DEF SyncMLKids, buildPutOrGet, Builder, TextTags, PartTags
<1>8. SyncMLKids(buildStatus)
  BY DEF SyncMLKids, buildStatus, Builder, TextTags, PartTags
<1>9. SyncMLKids(buildRecordFieldFilter)
  BY DEF SyncMLKids, buildRecordFieldFilter, Builder, TextTags, PartTags
<1>10. SyncMLKids(buildFilter)
  BY DEF SyncMLKids, buildFilter, Builder, TextTags, PartTags
<1>11. SyncMLKids(buildTargetOrSourceParent)
  BY DEF SyncMLKids, buildTargetOrSourceParent, Builder, TextTags, PartTags
<1>12. SyncMLKids(buildTargetOrSource)
  BY DEF SyncMLKids, buildTargetOrSource, Builder, TextTags, PartTags
<1>13. SyncMLKids(buildChal)
  BY DEF SyncMLKids, buildChal, Builder, TextTags, PartTags
<1>14. SyncMLKids(buildCred)
  BY DEF SyncMLKids, buildCred, Builder, TextTags, PartTags
<1>15. SyncMLKids(buildItem)
  BY DEF SyncMLKids, buildItem, Builder, TextTags, PartTags
<1> QED BY <1>1, <1>2, <1>3, <1>4, <1>5, <1>6, <1>7, <1>8, <1>9, <1>10, <1>11, <1>12, <1>13, <1>14, <1>15

LEMMA MetInfBuilders ==
  /\ MetInfKids(buildMetInfAnchorCmd)
  /\ MetInfKids(buildMetInfMemCmd)
  /\ MetInfKids(buildMetInfMetInfCmd)
<1>1. MetInfKids(buildMetInfAnchorCmd)
  BY DEF MetInfKids, buildMetInfAnchorCmd, Builder, MetInfTexts, MetInfParts
<1>2. MetInfKids(buildMetInfMemCmd)
  BY DEF MetInfKids, buildMetInfMemCmd, Builder, MetInfTexts, MetInfParts
<1>3. MetInfKids(buildMetInfMetInfCmd)
  BY DEF MetInfKids, buildMetInfMetInfCmd, Builder, MetInfTexts, MetInfParts
<1> QED BY <1>1, <1>2, <1>3

(* Only groups stop at commands.                                           *)
LEMMA StopsOf ==
  /\ buildSyncHdr.stops = {}
  /\ buildExec.stops = {}
  /\ buildGenericCmd.stops = {}
  /\ buildAlert.stops = {}
  /\ buildPutOrGet.stops = {}
  /\ buildStatus.stops = {}
  /\ buildRecordFieldFilter.stops = {}
  /\ buildFilter.stops = {}
  /\ buildTargetOrSourceParent.stops = {}
  /\ buildTargetOrSource.stops = {}
  /\ buildChal.stops = {}
  /\ buildCred.stops = {}
  /\ buildItem.stops = {}
  /\ buildMetInfAnchorCmd.stops = {}
  /\ buildMetInfMemCmd.stops = {}
  /\ buildMetInfMetInfCmd.stops = {}
  BY DEF Builder, buildSyncHdr, buildExec, buildGenericCmd, buildAlert, buildPutOrGet, buildStatus, buildRecordFieldFilter, buildFilter, buildTargetOrSourceParent, buildTargetOrSource, buildChal, buildCred, buildItem, buildMetInfAnchorCmd, buildMetInfMemCmd, buildMetInfMetInfCmd

(* What becomes of the empty tag of a command.                             *)
LEMMA EmptyOf ==
  /\ buildSync.empty = "crash" /\ buildAtomOrSeq.empty = "error"
  /\ buildExec.empty = "error" /\ buildGenericCmd.empty = "error"
  /\ buildAlert.empty = "error" /\ buildPutOrGet.empty = "error"
  /\ buildStatus.empty = "error"
  BY DEF Builder, buildSync, buildAtomOrSeq, buildExec, buildGenericCmd, buildAlert,
         buildPutOrGet, buildStatus

(* No command may be an empty tag: the next call fails, or crashes.        *)
LEMMA EmptyCommand ==
  ASSUME NEW t \in cPE_Dec
  PROVE  t \in NotCompiled \/ Build(t).empty \in {"error", "crash"}
<1> USE BuildOf, EmptyOf
<1>1. CASE t \in NotCompiled
  BY <1>1
<1>2. CASE t = "Sync"
  BY <1>2
<1>3. CASE t \in {"Atomic", "Sequence"}
  BY <1>3
<1>4. CASE t = "Exec"
  BY <1>4
<1>5. CASE t \in {"Add", "Copy", "Delete", "Replace", "Move"}
  BY <1>5
<1>6. CASE t = "Alert"
  BY <1>6
<1>7. CASE t \in {"Get", "Put"}
  BY <1>7
<1>8. CASE t = "Status"
  BY <1>8
<1> QED BY <1>1, <1>2, <1>3, <1>4, <1>5, <1>6, <1>7, <1>8 DEF cPE_Dec, GenericCmds

(* The children of an element stay on its page.                            *)
LEMMA KidsOfSyncML ==
  ASSUME NEW t \in Roots \cup PartTags
  PROVE  SyncMLKids(Build(t))
<1> USE BuildOf, SyncMLBuilders
<1>1. CASE t = "SyncHdr"
  BY <1>1
<1>2. CASE t = "Sync"
  BY <1>2
<1>3. CASE t \in {"Atomic", "Sequence"}
  BY <1>3
<1>4. CASE t = "Exec"
  BY <1>4
<1>5. CASE t \in {"Add", "Copy", "Delete", "Replace", "Move"}
  BY <1>5
<1>6. CASE t = "Alert"
  BY <1>6
<1>7. CASE t \in {"Get", "Put"}
  BY <1>7
<1>8. CASE t = "Status"
  BY <1>8
<1>9. CASE t \in {"Field", "Record"}
  BY <1>9
<1>10. CASE t = "Filter"
  BY <1>10
<1>11. CASE t \in {"TargetParent", "SourceParent"}
  BY <1>11
<1>12. CASE t \in {"Target", "Source"}
  BY <1>12
<1>13. CASE t = "Chal"
  BY <1>13
<1>14. CASE t = "Cred"
  BY <1>14
<1>15. CASE t = "Item"
  BY <1>15
<1> QED BY <1>1, <1>2, <1>3, <1>4, <1>5, <1>6, <1>7, <1>8, <1>9, <1>10, <1>11,
          <1>12, <1>13, <1>14, <1>15
       DEF Roots, PartTags, cPE_Dec, NotCompiled, GenericCmds

LEMMA KidsOfMetInf ==
  ASSUME NEW t \in MetInfParts
  PROVE  MetInfKids(Build(t))
  BY BuildOf, MetInfBuilders DEF MetInfParts

(* The tags at which a build function stops.                               *)
LEMMA Stops ==
  ASSUME NEW t \in Roots \cup PartTags \cup MetInfParts
  PROVE  /\ t \notin Groups => Build(t).stops = {}
         /\ Build(t).stops \subseteq cPE_Dec
<1> USE BuildOf, StopsOf
<1>a. buildSync.stops \subseteq cPE_Dec /\ buildAtomOrSeq.stops \subseteq cPE_Dec
  BY DEF buildSync, buildAtomOrSeq, Builder, cPE_Dec, GenericCmds, NotCompiled
<1>1. CASE t = "SyncHdr"
  BY <1>1
<1>2. CASE t = "Sync"
  BY <1>2, <1>a DEF Groups
<1>3. CASE t \in {"Atomic", "Sequence"}
  BY <1>3, <1>a DEF Groups
<1>4. CASE t = "Exec"
  BY <1>4
<1>5. CASE t \in {"Add", "Copy", "Delete", "Replace", "Move"}
  BY <1>5
<1>6. CASE t = "Alert"
  BY <1>6
<1>7. CASE t \in {"Get", "Put"}
  BY <1>7
<1>8. CASE t = "Status"
  BY <1>8
<1>9. CASE t \in {"Field", "Record"}
  BY <1>9
<1>10. CASE t = "Filter"
  BY <1>10
<1>11. CASE t \in {"TargetParent", "SourceParent"}
  BY <1>11
<1>12. CASE t \in {"Target", "Source"}
  BY <1>12
<1>13. CASE t = "Chal"
  BY <1>13
<1>14. CASE t = "Cred"
  BY <1>14
<1>15. CASE t = "Item"
  BY <1>15
<1>16. CASE t \in {"Anchor", "Mem", "MetInf"}
  BY <1>16
<1> QED BY <1>1, <1>2, <1>3, <1>4, <1>5, <1>6, <1>7, <1>8, <1>9, <1>10, <1>11,
          <1>12, <1>13, <1>14, <1>15, <1>16
       DEF Roots, PartTags, MetInfParts, cPE_Dec, NotCompiled, GenericCmds

(***************************************************************************)
(* Tokens.                                                                 *)
(***************************************************************************)
LEMMA EventFields ==
  ASSUME NEW kind, NEW tag, NEW text
  PROVE  /\ Event(kind, tag, text).kind = kind
         /\ Event(kind, tag, text).tag = tag
         /\ Event(kind, tag, text).text = text
  BY DEF Event

(* Every tag of a table is a name, and so is the tag that stands for none. *)
LEMMA Pages ==
  ASSUME NEW p
  PROVE  /\ Len(getTagTable(p)) \in Nat
         /\ \A i \in 1 .. Len(getTagTable(p)) : getTagTable(p)[i] \in Names
         /\ \A i \in DOMAIN getTagTable(p) : getTagTable(p)[i] \in Names
         /\ Undef \in Names
<1>1. Len(SyncMLPage) = 56 /\ DOMAIN SyncMLPage = 1 .. 56 /\ SyncMLPage[44] = Undef
  BY DEF SyncMLPage
<1>2. Len(MetInfPage) = 18 /\ DOMAIN MetInfPage = 1 .. 18
  BY DEF MetInfPage
<1>3. \A i \in 1 .. 56 : SyncMLPage[i] \in Names
  BY <1>1 DEF Names
<1>4. \A i \in 1 .. 18 : MetInfPage[i] \in Names
  BY <1>2 DEF Names
<1>5. Undef \in Names
  BY <1>1, <1>3
<1>6. CASE p = 0
  <2>1. getTagTable(p) = SyncMLPage
    BY <1>6 DEF getTagTable
  <2> QED BY <2>1, <1>1, <1>3, <1>5
<1>7. CASE p # 0
  <2>1. getTagTable(p) = MetInfPage
    BY <1>7 DEF getTagTable
  <2> QED BY <2>1, <1>2, <1>4, <1>5
<1> QED BY <1>6, <1>7

LEMMA TagByByte ==
  ASSUME NEW byte \in Nat, NEW p
  PROVE  getTagIDByByteAndExt(byte, p) \in Names
  BY Pages DEF getTagIDByByteAndExt

LEMMA TagByString ==
  ASSUME NEW name, NEW p, getTagIDByStringAndExt(name, p) # Undef
  PROVE  name \in Names
  BY Pages DEF getTagIDByStringAndExt

(* The token read is of a known kind, and its tag has a name.              *)
LEMMA TokenType ==
  ASSUME stream \in Seq(Items), stream # << >>, scan \in Seq(Names),
         curtok.tag \in Names
  PROVE  /\ nextTok.kind \in {"start", "end", "empty", "text"}
         /\ nextTok.tag \in Names
         /\ nextTok.kind = "text" => nextTok.text \in STRING
<1> DEFINE item == Head(stream)
<1>1. item \in Items
  OBVIOUS
<1> HIDE DEF item
<1>2. /\ item.kind \in {"tag", "end", "text", "cdata"} /\ item.byte \in Nat
      /\ item.text \in STRING /\ item.name \in STRING
  BY <1>1 DEF Items
<1>3. CASE item.kind \in {"text", "cdata"}
  <2>1. nextTok = Event("text", IF enc = "xml" THEN curtok.tag ELSE Undef, item.text)
    BY <1>3 DEF nextTok, item, TextToken
  <2>2. (IF enc = "xml" THEN curtok.tag ELSE Undef) \in Names
    BY Pages
  <2> QED BY <2>1, <2>2, <1>2, EventFields
<1>4. CASE item.kind \notin {"text", "cdata"} /\ enc = "wbxml"
  <2>1. nextTok = wbxmlTagToken(item)
    BY <1>4 DEF nextTok, item
  <2>2. CASE item.kind = "end"
    <3>1. nextTok = End(IF scan = << >> THEN Undef ELSE Last(scan))
      BY <2>1, <2>2 DEF wbxmlTagToken
    <3>2. (IF scan = << >> THEN Undef ELSE Last(scan)) \in Names
      BY Pages, EmptyLen DEF Last
    <3> QED BY <3>1, <3>2, EventFields DEF End
  <2>3. CASE item.kind # "end"
    <3>1. nextTok = Event(IF item.cont THEN "start" ELSE "empty",
                      getTagIDByByteAndExt(item.byte, wbxmlSwitchPage(item)), Undef)
      BY <2>1, <2>3 DEF wbxmlTagToken
    <3> QED BY <3>1, TagByByte, <1>2, EventFields
  <2> QED BY <2>2, <2>3
<1>5. CASE item.kind \notin {"text", "cdata"} /\ enc # "wbxml"
  <2>1. nextTok = xmlTag(item)
    BY <1>5 DEF nextTok, item
  <2> DEFINE ext  == wbxmlSwitchPage(item)
             both == IF ext = page THEN {ext, 1} ELSE {ext}
             kind == IF item.kind = "end" THEN "end"
                     ELSE IF item.cont THEN "start" ELSE "empty"
             tag  == IF \E p \in both : getTagIDByStringAndExt(item.name, p) # Undef
                     THEN item.name ELSE Undef
  <2>2. nextTok = Event(kind, tag, Undef)
    BY <2>1 DEF xmlTag
  <2>3. kind \in {"start", "end", "empty"}
    OBVIOUS
  <2>4. tag \in Names
    BY Pages, TagByString
  <2> HIDE DEF kind, tag
  <2> QED BY <2>2, <2>3, <2>4, EventFields
<1> QED BY <1>3, <1>4, <1>5

(* The next token does not change while the decoder hands an element over. *)
LEMMA SameToken ==
  ASSUME Head(stream') = Head(stream), enc' = enc, page' = page, scan' = scan,
         curtok' = curtok
  PROVE  nextTok' = nextTok /\ Continues(Head(stream))' = Continues(Head(stream))
<1>1. TextToken(Head(stream).text)' = TextToken(Head(stream).text)
  BY DEF TextToken
<1>2. wbxmlSwitchPage(Head(stream))' = wbxmlSwitchPage(Head(stream))
  BY DEF wbxmlSwitchPage
<1>3. wbxmlTagToken(Head(stream))' = wbxmlTagToken(Head(stream))
  BY <1>2 DEF wbxmlTagToken
<1>4. xmlTag(Head(stream))' = xmlTag(Head(stream))
  BY <1>2 DEF xmlTag
<1>5. Continues(Head(stream))' = Continues(Head(stream))
  BY DEF Continues
<1> QED BY <1>1, <1>3, <1>4, <1>5 DEF nextTok

(* After a token that was handed back the next item begins a token.        *)
LEMMA PushedAhead ==
  ASSUME NEW tok, pushTok(tok), stream' # << >>
  PROVE  TokenAhead'
<1>1. curtok'.kind = "undef"
  BY DEF pushTok
<1> QED BY <1>1 DEF TokenAhead, Continues

(* An empty tag that is handed back is read again as the same token.       *)
LEMMA DiscardedToken ==
  ASSUME stream \in Seq(Items), stream # << >>, nextTok.kind = "empty",
         nextTok.tag # Undef, PageAfter(nextTok), UNCHANGED <<stream, enc>>
  PROVE  nextTok' = nextTok
<1> DEFINE item == Head(stream)
<1>1. item \in Items /\ item' = item
  OBVIOUS
<1> HIDE DEF item
<1>2. item.kind \notin {"text", "cdata"}
  BY EventFields DEF nextTok, item, TextToken
<1>3. CASE enc = "wbxml"
  <2>1. nextTok = wbxmlTagToken(item) /\ nextTok' = wbxmlTagToken(item)'
    BY <1>1, <1>2, <1>3 DEF nextTok, item
  <2>2. item.kind # "end"
    BY <2>1, EventFields DEF wbxmlTagToken, End
  <2>3. page' = wbxmlSwitchPage(item)
    BY <1>3 DEF PageAfter, item
  <2>4. wbxmlSwitchPage(item)' = wbxmlSwitchPage(item)
    BY <2>3, <1>1 DEF wbxmlSwitchPage
  <2> QED BY <2>1, <2>2, <2>4, <1>1 DEF wbxmlTagToken
<1>4. CASE enc # "wbxml"
  <2>1. nextTok = xmlTag(item) /\ nextTok' = xmlTag(item)'
    BY <1>1, <1>2, <1>4 DEF nextTok, item
  <2> DEFINE ext  == wbxmlSwitchPage(item)
             both == IF ext = page THEN {ext, 1} ELSE {ext}
             kind == IF item.kind = "end" THEN "end"
                     ELSE IF item.cont THEN "start" ELSE "empty"
             found == \E p \in both : getTagIDByStringAndExt(item.name, p) # Undef
             tag  == IF found THEN item.name ELSE Undef
  <2>2. nextTok = Event(kind, tag, Undef) /\ nextTok' = Event(kind', tag', Undef)
    BY <2>1 DEF xmlTag
  <2>3. kind' = kind
    BY <1>1
  <2>4. found
    BY <2>2, EventFields
  <2>5. ext' = ext /\ page' = ext
    <3>1. CASE ext = page
      <4>1. page' = page
        BY <3>1, <1>4 DEF PageAfter, item
      <4> QED BY <4>1, <3>1, <1>1 DEF wbxmlSwitchPage
    <3>2. CASE ext # page
      <4>1. page' = item.switch
        BY <3>2, <1>4 DEF PageAfter, item
      <4>2. ext = item.switch
        BY <3>2 DEF wbxmlSwitchPage
      <4> QED BY <4>1, <4>2, <1>1 DEF wbxmlSwitchPage
    <3> QED BY <3>1, <3>2
  <2>6. both \subseteq both'
    BY <2>5
  <2>7. found'
    BY <2>4, <2>6, <1>1
  <2>8. tag' = tag
    BY <2>4, <2>7, <1>1
  <2> QED BY <2>2, <2>3, <2>8
<1> QED BY <1>3, <1>4

(***************************************************************************)
(* What the reactions of a build function say of the token.                *)
(***************************************************************************)
Kinds == {"start", "end", "empty", "text"}

LEMMA Reactions ==
  ASSUME NEW f, FrameOK(f), NEW tok, tok.kind \in Kinds
  PROVE  /\ Reaction(f, tok) # "error" => Legal(tok)
         /\ Reaction(f, tok) = "open" =>
              /\ tok.kind \in {"start", "text"} /\ f.what \in {"struct", "metinf"}
              /\ tok.tag \in Children(Build(f.tag))
         /\ Reaction(f, tok) \in {"keep", "drop"} =>
              tok.kind = "empty" /\ f.what \in {"struct", "metinf"}
         /\ Reaction(f, tok) = "text" => tok.kind = "text" /\ f.what = "pcdata"
         /\ Reaction(f, tok) = "extension" =>
              /\ tok.kind \in {"start", "empty"} /\ f.what = "pcdata"
              /\ f.text = << >> /\ ~f.ext
         /\ Reaction(f, tok) = "wrapper" =>
              /\ tok.kind \in {"start", "empty", "text"} /\ f.what = "metinf"
              /\ tok.tag = "MetInf"
         /\ Reaction(f, tok) = "close" => tok.kind = "end"
         /\ Reaction(f, tok) = "hand back" =>
              /\ tok.kind = "end" /\ f.what \in {"struct", "metinf"}
              /\ f.tag = "Sync"
         /\ Reaction(f, tok) = "stop" =>
              /\ tok.kind \in {"start", "empty", "text"} /\ f.what \in {"struct", "metinf"}
              /\ tok.tag \in Build(f.tag).stops
<1>0. f.what \in {"struct", "pcdata", "flag", "metinf"}
  BY DEF FrameOK
<1>1. CASE ~Legal(tok)
  BY <1>1 DEF Reaction
<1>2. CASE Legal(tok) /\ f.what = "flag"
  BY <1>2 DEF Reaction
<1>3. CASE Legal(tok) /\ f.what = "pcdata"
  <2>1. Reaction(f, tok) = InPcdata(f, tok)
    BY <1>3 DEF Reaction
  <2> QED BY <2>1, <1>3 DEF InPcdata, Kinds
<1>4. CASE Legal(tok) /\ f.what \in {"struct", "metinf"} /\ tok.kind = "end"
  <2>1. Reaction(f, tok) = AtEnd(f, tok)
    BY <1>4 DEF Reaction
  <2> QED BY <2>1, <1>4 DEF AtEnd
<1>5. CASE Legal(tok) /\ f.what \in {"struct", "metinf"} /\ tok.kind # "end"
  <2>1. Reaction(f, tok) = InStruct(f, tok)
    BY <1>5 DEF Reaction
  <2> QED BY <2>1, <1>5 DEF InStruct, Kinds
<1> QED BY <1>0, <1>1, <1>2, <1>3, <1>4, <1>5

(***************************************************************************)
(* What a step does to the scanner and to the two stacks.                  *)
(***************************************************************************)
LEMMA PageType ==
  ASSUME TypeInv, stream # << >>, Legal(nextTok), PageAfter(nextTok)
  PROVE  page' \in {0, 1} /\ (space.tag = Undef \/ space.prev \in {0, 1})'
<1> DEFINE item == Head(stream)
<1>1. item \in Items
  BY DEF TypeInv
<1>2. item.switch \in {0, 1, NoSwitch}
  BY <1>1 DEF Items
<1>3. page \in {0, 1}
  BY DEF TypeInv, DecoderTypeOK
<1>4. wbxmlSwitchPage(item) \in {0, 1}
  BY <1>2, <1>3 DEF wbxmlSwitchPage
<1>5. space.tag = Undef \/ space.prev \in {0, 1}
  BY DEF TypeInv
<1>6. CASE UNCHANGED <<page, space>>
  BY <1>6, <1>3, <1>5
<1>7. CASE page' = wbxmlSwitchPage(item) /\ UNCHANGED space
  BY <1>7, <1>4, <1>5
<1>8. CASE /\ nextTok.kind = "end" /\ nextTok.tag = space.tag
           /\ page' = space.prev
           /\ space' = [tag |-> space.prevTag, prev |-> 0, prevTag |-> Undef]
  <2>1. nextTok.tag # Undef
    BY <1>8 DEF Legal
  <2> QED BY <2>1, <1>8, <1>5
<1>9. CASE /\ wbxmlSwitchPage(item) # page
           /\ page' = item.switch
           /\ space' = [tag |-> nextTok.tag, prev |-> page, prevTag |-> space.tag]
  <2>1. item.switch # NoSwitch
    BY <1>9 DEF wbxmlSwitchPage
  <2> QED BY <2>1, <1>9, <1>2, <1>3
<1> QED BY <1>6, <1>7, <1>8, <1>9 DEF PageAfter

LEMMA PushedType ==
  ASSUME NEW s \in Seq(Names), NEW tok, tok.kind \in Kinds,
         tok.kind = "start" => tok.tag \in Names
  PROVE  /\ Pushed(s, tok) \in Seq(Names)
         /\ tok.kind = "start" => Grown(s, Pushed(s, tok), tok.tag)
         /\ tok.kind = "end" => Pushed(s, tok) = Front(s)
         /\ tok.kind \in {"empty", "text"} => Pushed(s, tok) = s
<1>1. CASE tok.kind = "start"
  BY <1>1, AppendGrown, AppendType DEF Pushed
<1>2. CASE tok.kind = "end"
  BY <1>2, FrontShrunk DEF Pushed
<1>3. CASE tok.kind \in {"empty", "text"}
  BY <1>3 DEF Pushed
<1> QED BY <1>1, <1>2, <1>3 DEF Kinds

(* A token is read.                                                        *)
LEMMA Read ==
  ASSUME TypeInv, stream # << >>, Legal(nextTok), nextToken(nextTok)
  PROVE  /\ stream' \in Seq(Items)
         /\ page' \in {0, 1} /\ (space.tag = Undef \/ space.prev \in {0, 1})'
         /\ scan' \in Seq(Names) /\ tags' \in Seq(Names) /\ stray' \in BOOLEAN
         /\ stray' = (stray \/ Stray(nextTok))
         /\ curtok' \in [kind : TokKinds, tag : Names]
         /\ nextTok.kind = "start" =>
              Grown(scan, scan', nextTok.tag) /\ Grown(tags, tags', nextTok.tag)
         /\ nextTok.kind = "end" => scan' = Front(scan) /\ tags' = Front(tags)
         /\ nextTok.kind \in {"empty", "text"} => scan' = scan /\ tags' = tags
<1>1. /\ stream \in Seq(Items) /\ scan \in Seq(Names) /\ tags \in Seq(Names)
      /\ stray \in BOOLEAN /\ curtok.tag \in Names
  BY DEF TypeInv, DecoderTypeOK
<1>2. nextTok.kind \in Kinds /\ nextTok.tag \in Names
  BY <1>1, TokenType DEF Kinds
<1>3. /\ stream' = Tail(stream) /\ stray' = (stray \/ Stray(nextTok))
      /\ PageAfter(nextTok) /\ scan' = Pushed(scan, nextTok)
      /\ tags' = Pushed(tags, nextTok)
  BY DEF nextToken
<1>4. stream' \in Seq(Items)
  BY <1>1, <1>3
<1>5. page' \in {0, 1} /\ (space.tag = Undef \/ space.prev \in {0, 1})'
  BY <1>3, PageType
<1>6. stray' \in BOOLEAN
  BY <1>1, <1>3
<1>7. curtok' \in [kind : TokKinds, tag : Names]
  <2> DEFINE kind == IF nextTok.kind = "text" THEN TextKind(Head(stream)) ELSE nextTok.kind
  <2>1. TextKind(Head(stream)) \in TokKinds
    BY DEF TextKind, TokKinds
  <2>2. kind \in TokKinds
    BY <1>2, <2>1 DEF Kinds, TokKinds
  <2>3. curtok' = [kind |-> kind, tag |-> nextTok.tag]
    BY DEF nextToken
  <2> HIDE DEF kind
  <2> QED BY <1>2, <2>2, <2>3
<1> QED BY <1>1, <1>2, <1>3, <1>4, <1>5, <1>6, <1>7, PushedType

(* Text that is read outside PCDATA with the tag of another token is stray.*)
LEMMA NoText ==
  ASSUME nextToken(nextTok), ~stray', OutsidePcdata, nextTok.tag # Undef
  PROVE  nextTok.kind # "text"
  BY DEF nextToken, Stray

(* The token that is handed back leaves its tag.                           *)
LEMMA PushedToken ==
  ASSUME TypeInv, stream # << >>, pushTok(nextTok)
  PROVE  curtok' \in [kind : TokKinds, tag : Names]
<1>1. stream \in Seq(Items) /\ scan \in Seq(Names) /\ curtok.tag \in Names
  BY DEF TypeInv, DecoderTypeOK
<1>2. nextTok.tag \in Names
  BY <1>1, TokenType
<1> QED BY <1>2 DEF pushTok, TokKinds

(* A token is handed back.                                                 *)
LEMMA HandedBack ==
  ASSUME TypeInv, stream # << >>, Legal(nextTok), discardToken(nextTok)
  PROVE  /\ stream' = stream /\ scan' = scan
         /\ page' \in {0, 1} /\ (space.tag = Undef \/ space.prev \in {0, 1})'
         /\ tags' \in Seq(Names)
         /\ PageAfter(nextTok) /\ TokenAhead'
         /\ stray' \in BOOLEAN /\ stray' = (stray \/ Stray(nextTok))
         /\ curtok' \in [kind : TokKinds, tag : Names]
         /\ tags' = IF nextTok.kind = "start" THEN tags ELSE Front(tags)
<1>1. tags \in Seq(Names) /\ stray \in BOOLEAN
  BY DEF TypeInv, DecoderTypeOK
<1>2. Front(tags) \in Seq(Names)
  BY <1>1, FrontShrunk
<1>3. stray' \in BOOLEAN /\ stray' = (stray \/ Stray(nextTok))
  BY <1>1 DEF discardToken
<1>4. pushTok(nextTok) /\ stream' = stream
  BY DEF discardToken
<1>5. TokenAhead' /\ curtok' \in [kind : TokKinds, tag : Names]
  BY <1>4, PushedAhead, PushedToken
<1> QED BY <1>1, <1>2, <1>3, <1>5, PageType DEF discardToken

(***************************************************************************)
(* What a step does to the frames.                                         *)
(***************************************************************************)
(* Two frames that differ in what they have collected only.                *)
Same(f, g) ==
  /\ g.what = f.what /\ g.tag = f.tag /\ g.wrapped = f.wrapped /\ g.ext = f.ext
  /\ g.text = f.text

LEMMA FrameFields ==
  ASSUME NEW what, NEW tag
  PROVE  /\ DOMAIN Frame(what, tag) =
              {"what", "tag", "text", "kids", "seen", "wrapped", "ext"}
         /\ Frame(what, tag).what = what /\ Frame(what, tag).tag = tag
         /\ Frame(what, tag).wrapped = FALSE /\ Frame(what, tag).ext = FALSE
         /\ Frame(what, tag).text = << >>
  BY DEF Frame

LEMMA FrameIsOK ==
  ASSUME NEW what \in {"struct", "pcdata", "flag", "metinf"}, NEW tag,
         what \in {"pcdata", "flag"} => tag \in TextTags \cup MetInfTexts,
         what = "metinf" => tag = "MetInf",
         what = "struct" => tag \in Roots \cup PartTags \cup MetInfParts
  PROVE  FrameOK(Frame(what, tag))
<1> DEFINE f == Frame(what, tag)
<1>1. /\ DOMAIN f = {"what", "tag", "text", "kids", "seen", "wrapped", "ext"}
      /\ f.what = what /\ f.tag = tag /\ f.wrapped = FALSE /\ f.ext = FALSE
  BY DEF Frame
<1>2. f.text \in Seq(STRING)
  BY DEF Frame
<1> HIDE DEF f
<1>3. FrameOK(f)
  BY <1>1, <1>2 DEF FrameOK
<1> QED BY <1>3 DEF f

LEMMA TopReplaced ==
  ASSUME NEW S, NEW fs \in Seq(S), Len(fs) >= 1, NEW g
  PROVE  /\ WithTop(fs, g) \in Seq(S \cup {g}) /\ Len(WithTop(fs, g)) = Len(fs)
         /\ WithTop(fs, g)[Len(fs)] = g
         /\ \A i \in 1 .. Len(fs) - 1 : WithTop(fs, g)[i] = fs[i]
<1>1. fs \in Seq(S \cup {g})
  BY SeqMonotonic, S \subseteq S \cup {g}
<1>2. Len(fs) \in 1 .. Len(fs) /\ g \in S \cup {g}
  BY LenProperties
<1> QED BY <1>1, <1>2, ExceptSeq DEF WithTop

(* There are frames.                                                       *)
LEMMA FramesExist ==
  ASSUME NEW fs, FramesOK(fs)
  PROVE  fs # << >>
<1>1. PICK S : fs \in Seq(S)
  BY DEF FramesOK
<1> QED BY <1>1, EmptyLen DEF FramesOK

(* A build function calls another.                                         *)
LEMMA FramesPush ==
  ASSUME NEW fs, FramesOK(fs), NEW what, NEW tag, FrameOK(Frame(what, tag)),
         tag \notin Roots,
         what = "metinf" => fs[Len(fs)].what = "pcdata",
         what # "metinf" => fs[Len(fs)].what \in {"struct", "metinf"}
  PROVE  /\ FramesOK(Append(fs, Frame(what, tag)))
         /\ Grown(fs, Append(fs, Frame(what, tag)), Frame(what, tag))
<1> DEFINE f == Frame(what, tag)
           gs == Append(fs, f)
<1>1. f.what = what /\ f.tag = tag
  BY FrameFields
<1> HIDE DEF f
<1>2. PICK S : fs \in Seq(S)
  BY DEF FramesOK
<1>3. Len(fs) \in Nat /\ Len(fs) >= 1
  BY <1>2, LenProperties DEF FramesOK
<1>4. Grown(fs, gs, f) /\ gs \in Seq(S \cup {f})
  BY <1>2, AppendGrown
<1> HIDE DEF gs
<1>5. /\ Len(gs) = Len(fs) + 1 /\ gs[Len(fs) + 1] = f
      /\ \A i \in 1 .. Len(fs) : gs[i] = fs[i]
  BY <1>4 DEF Grown
<1>6. \A j \in 1 .. Len(gs) : FrameOK(gs[j])
  BY <1>3, <1>5 DEF FramesOK, f
<1>7. gs[1].what = "struct" /\ gs[1].tag \in Roots
  BY <1>3, <1>5 DEF FramesOK
<1>8. ASSUME NEW j \in 2 .. Len(gs)
      PROVE  /\ gs[j].tag \notin Roots
             /\ gs[j].what = "metinf" => gs[j - 1].what = "pcdata"
             /\ gs[j].what # "metinf" => gs[j - 1].what \in {"struct", "metinf"}
  <2>1. CASE j <= Len(fs)
    <3>1. gs[j] = fs[j] /\ gs[j - 1] = fs[j - 1] /\ j \in 2 .. Len(fs)
      BY <2>1, <1>3, <1>5
    <3> QED BY <3>1 DEF FramesOK
  <2>2. CASE j = Len(fs) + 1
    <3>1. gs[j] = f /\ gs[j - 1] = fs[Len(fs)]
      BY <2>2, <1>3, <1>5
    <3> QED BY <3>1, <1>1
  <2> QED BY <2>1, <2>2, <1>3, <1>5
<1>9. FramesOK(gs)
  BY <1>3, <1>4, <1>5, <1>6, <1>7, <1>8 DEF FramesOK
<1> QED BY <1>4, <1>9 DEF gs, f

(* The innermost frame changes.                                            *)
LEMMA FramesTop ==
  ASSUME NEW fs, FramesOK(fs), NEW g, FrameOK(g),
         g.what = fs[Len(fs)].what, g.tag = fs[Len(fs)].tag
  PROVE  /\ FramesOK(WithTop(fs, g)) /\ Len(WithTop(fs, g)) = Len(fs)
         /\ WithTop(fs, g)[Len(fs)] = g
         /\ \A i \in 1 .. Len(fs) - 1 : WithTop(fs, g)[i] = fs[i]
<1> DEFINE gs == WithTop(fs, g)
<1>2. PICK S : fs \in Seq(S)
  BY DEF FramesOK
<1>3. Len(fs) \in Nat /\ Len(fs) >= 1
  BY <1>2, LenProperties DEF FramesOK
<1>a. /\ WithTop(fs, g) \in Seq(S \cup {g}) /\ Len(WithTop(fs, g)) = Len(fs)
      /\ WithTop(fs, g)[Len(fs)] = g
      /\ \A i \in 1 .. Len(fs) - 1 : WithTop(fs, g)[i] = fs[i]
  <2> HIDE DEF gs
  <2>1. WithTop(fs, g) \in Seq(S \cup {g}) /\ Len(WithTop(fs, g)) = Len(fs)
    BY <1>2, <1>3, TopReplaced
  <2>2. WithTop(fs, g)[Len(fs)] = g
    BY <1>2, <1>3, LenProperties DEF WithTop
  <2>3. ASSUME NEW i \in 1 .. Len(fs) - 1
        PROVE  WithTop(fs, g)[i] = fs[i]
    BY <1>2, <1>3, LenProperties DEF WithTop
  <2> QED BY <2>1, <2>2, <2>3
<1>4. /\ gs \in Seq(S \cup {g}) /\ Len(gs) = Len(fs) /\ gs[Len(fs)] = g
      /\ \A i \in 1 .. Len(fs) - 1 : gs[i] = fs[i]
  BY <1>a
<1> HIDE DEF gs
<1>5. \A j \in 1 .. Len(fs) : gs[j].what = fs[j].what /\ gs[j].tag = fs[j].tag
  BY <1>3, <1>4
<1>6. \A j \in 1 .. Len(fs) : FrameOK(gs[j])
  BY <1>3, <1>4 DEF FramesOK
<1>7. ASSUME NEW j \in 2 .. Len(gs)
      PROVE  /\ gs[j].tag \notin Roots
             /\ gs[j].what = "metinf" => gs[j - 1].what = "pcdata"
             /\ gs[j].what # "metinf" => gs[j - 1].what \in {"struct", "metinf"}
  <2>1. j \in 2 .. Len(fs) /\ j \in 1 .. Len(fs) /\ j - 1 \in 1 .. Len(fs)
    BY <1>3, <1>4
  <2>2. /\ fs[j].tag \notin Roots
        /\ fs[j].what = "metinf" => fs[j - 1].what = "pcdata"
        /\ fs[j].what # "metinf" => fs[j - 1].what \in {"struct", "metinf"}
    BY <2>1 DEF FramesOK
  <2> QED BY <2>1, <2>2, <1>5
<1>8. gs[1].what = "struct" /\ gs[1].tag \in Roots
  BY <1>3, <1>5 DEF FramesOK
<1> QED BY <1>3, <1>4, <1>6, <1>7, <1>8 DEF FramesOK, gs

(* A build function returns.                                               *)
LEMMA FramesFront ==
  ASSUME NEW fs, FramesOK(fs), Len(fs) >= 2
  PROVE  FramesOK(Front(fs)) /\ Shrunk(fs, Front(fs))
<1> DEFINE gs == Front(fs)
<1>2. PICK S : fs \in Seq(S)
  BY DEF FramesOK
<1>3. Len(fs) \in Nat /\ Len(fs) >= 1
  BY <1>2, LenProperties DEF FramesOK
<1>4. gs \in Seq(S) /\ Shrunk(fs, gs)
  BY <1>2, <1>3, FrontShrunk
<1> HIDE DEF gs
<1>5. Len(gs) = Len(fs) - 1 /\ \A i \in 1 .. Len(fs) - 1 : gs[i] = fs[i]
  BY <1>4 DEF Shrunk
<1>6. \A j \in 1 .. Len(gs) : FrameOK(gs[j])
  BY <1>3, <1>5 DEF FramesOK
<1>7. ASSUME NEW j \in 2 .. Len(gs)
      PROVE  /\ gs[j].tag \notin Roots
             /\ gs[j].what = "metinf" => gs[j - 1].what = "pcdata"
             /\ gs[j].what # "metinf" => gs[j - 1].what \in {"struct", "metinf"}
  <2>1. j \in 2 .. Len(fs) /\ gs[j] = fs[j] /\ gs[j - 1] = fs[j - 1]
    BY <1>3, <1>5
  <2> QED BY <2>1 DEF FramesOK
<1>8. gs[1].what = "struct" /\ gs[1].tag \in Roots
  BY <1>3, <1>5 DEF FramesOK
<1> QED BY <1>3, <1>4, <1>5, <1>6, <1>7, <1>8 DEF FramesOK, gs

(* The token of a build step, and the frames it finds.                     *)
LEMMA BuildContext ==
  ASSUME TypeInv, pc = "build", stream # << >>
  PROVE  /\ FramesOK(calls) /\ Top = calls[Len(calls)] /\ FrameOK(Top)
         /\ Len(calls) \in Nat /\ Len(calls) >= 1
         /\ nextTok.kind \in Kinds /\ nextTok.tag \in Names
         /\ nextTok.kind = "text" => nextTok.text \in STRING
         /\ \A r : Building(r) => Reaction(Top, nextTok) = r
<1>1. /\ FramesOK(calls) /\ stream \in Seq(Items) /\ scan \in Seq(Names)
      /\ curtok.tag \in Names
  BY DEF TypeInv, DecoderTypeOK
<1>2. PICK S : calls \in Seq(S)
  BY <1>1 DEF FramesOK
<1>3. Len(calls) \in Nat /\ Len(calls) >= 1
  BY <1>1, <1>2, LenProperties DEF FramesOK
<1>4. Top = calls[Len(calls)] /\ FrameOK(calls[Len(calls)])
  BY <1>1, <1>3 DEF FramesOK, Top, Last
<1> QED BY <1>1, <1>3, <1>4, TokenType DEF Kinds, Building

(* What a child is built by, and that it stays on the page of its parent.  *)
LEMMA ChildKind ==
  ASSUME NEW t \in Roots \cup PartTags \cup MetInfParts, NEW c,
         c \in Children(Build(t))
  PROVE  /\ BuiltBy(Build(t), c) \in {"flag", "pcdata", "struct"}
         /\ BuiltBy(Build(t), c) \in {"flag", "pcdata"} => c \in TextTags \cup MetInfTexts
         /\ BuiltBy(Build(t), c) = "struct" => c \in PartTags \cup MetInfParts
         /\ t \in MetInfTags <=> c \in MetInfTags
<1> DEFINE b == Build(t)
<1>1. CASE t \in Roots \cup PartTags
  <2>1. SyncMLKids(b) /\ t \notin MetInfTags
    BY <1>1, KidsOfSyncML, KindsDisjoint
  <2>2. {"TargetRef", "SourceRef"} \subseteq TextTags /\ "Item" \in PartTags
    BY DEF TextTags, PartTags
  <2> HIDE DEF b
  <2>3. c \in Children(b)
    BY DEF b
  <2>4. CASE c \in b.flags
    BY <2>1, <2>4, KindsDisjoint DEF BuiltBy, SyncMLKids, b
  <2>5. CASE c \notin b.flags /\ ReadAsPcdata(b, c)
    <3>1. c \in TextTags
      BY <2>1, <2>2, <2>5 DEF ReadAsPcdata, SyncMLKids
    <3> QED BY <2>1, <2>5, <3>1, KindsDisjoint DEF BuiltBy, b
  <2>6. CASE c \notin b.flags /\ ~ReadAsPcdata(b, c)
    <3>1. c \in PartTags
      BY <2>1, <2>2, <2>3, <2>6 DEF ReadAsPcdata, SyncMLKids, Children
    <3> QED BY <2>1, <2>6, <3>1, KindsDisjoint DEF BuiltBy, b
  <2> QED BY <2>4, <2>5, <2>6
<1>2. CASE t \in MetInfParts
  <2>1. MetInfKids(b) /\ t \in MetInfTags
    BY <1>2, KidsOfMetInf DEF MetInfTags
  <2> HIDE DEF b
  <2>3. c \in Children(b)
    BY DEF b
  <2>4. CASE c \in b.flags
    BY <2>1, <2>4, KindsDisjoint DEF BuiltBy, MetInfKids, MetInfTags, b
  <2>5. CASE c \notin b.flags /\ ReadAsPcdata(b, c)
    <3>1. c \in MetInfTexts
      BY <2>1, <2>5 DEF ReadAsPcdata, MetInfKids
    <3> QED BY <2>1, <2>5, <3>1, KindsDisjoint DEF BuiltBy, MetInfTags, b
  <2>6. CASE c \notin b.flags /\ ~ReadAsPcdata(b, c)
    <3>0. "Item" \notin MetInfTexts
      BY DEF MetInfTexts
    <3>1. c \in MetInfParts
      BY <2>1, <2>3, <2>6, <3>0 DEF ReadAsPcdata, MetInfKids, Children
    <3> QED BY <2>1, <2>6, <3>1, KindsDisjoint DEF BuiltBy, MetInfTags, b
  <2> QED BY <2>4, <2>5, <2>6
<1> QED BY <1>1, <1>2

(* gs are the first m of the frames fs, but for what they have collected.  *)
Alike(fs, gs, m) == Len(gs) = m /\ \A i \in 1 .. m : Same(fs[i], gs[i])

(* A frame collects a child or learns that it has seen one.                *)
LEMMA Collects ==
  ASSUME NEW f, FrameOK(f), NEW kids, NEW seen
  PROVE  /\ FrameOK([f EXCEPT !.kids = kids, !.seen = seen])
         /\ Same(f, [f EXCEPT !.kids = kids, !.seen = seen])
         /\ FrameOK([f EXCEPT !.seen = seen])
         /\ Same(f, [f EXCEPT !.seen = seen])
<1> DEFINE g == [f EXCEPT !.kids = kids, !.seen = seen]
           e == [f EXCEPT !.seen = seen]
<1>1. DOMAIN g = DOMAIN f /\ DOMAIN e = DOMAIN f
  OBVIOUS
<1>2. Same(f, g) /\ Same(f, e)
  BY DEF Same, FrameOK
<1> HIDE DEF g, e
<1>3. FrameOK(g) /\ FrameOK(e)
  BY <1>1, <1>2 DEF FrameOK, Same
<1> QED BY <1>2, <1>3 DEF g, e

(* A build function returns to its caller, or to xltDecNext.               *)
LEMMA ReturnShape ==
  ASSUME NEW fs, FramesOK(fs), Return(fs)
  PROVE  /\ Len(fs) = 1 =>
              /\ \E v : v.tag = fs[1].tag /\ Told(v)
              /\ calls' = << >> /\ pc' = "held"
         /\ Len(fs) # 1 =>
              /\ Len(fs) >= 2 /\ FramesOK(calls') /\ Alike(fs, calls', Len(fs) - 1)
              /\ UNCHANGED <<pc, out, groups>>
<1> DEFINE f == Last(fs)
           v == Node(f.tag, f.text, f.kids)
<1>1. PICK S : fs \in Seq(S)
  BY DEF FramesOK
<1>2. Len(fs) \in Nat /\ Len(fs) >= 1
  BY <1>1, LenProperties DEF FramesOK
<1>3. CASE Len(fs) = 1
  <2>1. Deliver(v)
    BY <1>3 DEF Return
  <2>2. v.tag = fs[1].tag
    BY <1>3 DEF Node, Last
  <2> QED BY <1>3, <2>1, <2>2 DEF Deliver
<1>4. CASE Len(fs) # 1
  <2> DEFINE gs == Front(fs)
             g  == [Last(gs) EXCEPT !.kids = WithKid(@, v), !.seen = @ \cup {v.tag}]
  <2>1. calls' = WithTop(gs, g) /\ UNCHANGED <<pc, out, groups>>
    BY <1>4 DEF Return, Returned
  <2>a. Len(fs) >= 2
    <3>1. \A n \in Nat : n >= 1 /\ n # 1 => n >= 2
      OBVIOUS
    <3> QED BY <1>2, <1>4, <3>1
  <2>2. FramesOK(gs) /\ Shrunk(fs, gs)
    BY <2>a, FramesFront
  <2>3. Len(gs) = Len(fs) - 1 /\ \A i \in 1 .. Len(fs) - 1 : gs[i] = fs[i]
    BY <2>2 DEF Shrunk
  <2>4. FrameOK(gs[Len(gs)]) /\ Last(gs) = gs[Len(gs)]
    BY <2>2, <2>3, <1>2, <1>4 DEF FramesOK, Last
  <2>5. FrameOK(g) /\ Same(gs[Len(gs)], g)
    BY <2>4, Collects
  <2> HIDE DEF gs, g, v
  <2>6. g.what = gs[Len(gs)].what /\ g.tag = gs[Len(gs)].tag
    BY <2>5 DEF Same
  <2>7. /\ FramesOK(WithTop(gs, g)) /\ Len(WithTop(gs, g)) = Len(gs)
        /\ WithTop(gs, g)[Len(gs)] = g
        /\ \A i \in 1 .. Len(gs) - 1 : WithTop(gs, g)[i] = gs[i]
    BY <2>2, <2>5, <2>6, FramesTop
  <2>8. Alike(fs, calls', Len(fs) - 1)
    <3>1. Len(calls') = Len(fs) - 1
      BY <2>1, <2>3, <2>7
    <3>2. ASSUME NEW i \in 1 .. Len(fs) - 1
          PROVE  Same(fs[i], calls'[i])
      <4>1. CASE i = Len(fs) - 1
        BY <4>1, <2>1, <2>3, <2>5, <2>7
      <4>2. CASE i # Len(fs) - 1
        <5>1. calls'[i] = fs[i]
          BY <4>2, <2>1, <2>3, <2>7, <1>2
        <5> QED BY <5>1 DEF Same
      <4> QED BY <4>1, <4>2
    <3> QED BY <3>1, <3>2 DEF Alike
  <2>9. FramesOK(calls')
    BY <2>1, <2>7
  <2> QED BY <1>4, <2>a, <2>1, <2>8, <2>9
<1> QED BY <1>3, <1>4

(* OpenChild: a child on the page of its parent.                           *)
LEMMA OpenShape ==
  ASSUME TypeInv, OpenChild
  PROVE  /\ Legal(nextTok) /\ nextTok.kind \in {"start", "text"} /\ nextToken(nextTok)
         /\ ~stray' => nextTok.kind = "start"
         /\ FramesOK(calls') /\ UNCHANGED <<enc, pc, out, groups>>
         /\ Top.what \in {"struct", "metinf"}
         /\ Top.tag \in MetInfTags <=> nextTok.tag \in MetInfTags
         /\ nextTok.tag \notin Roots \cup {"SyncML"}
         /\ \E what \in {"flag", "pcdata", "struct"} :
              Grown(calls, calls', Frame(what, nextTok.tag))
<1> DEFINE what == BuiltBy(Build(Top.tag), nextTok.tag)
           tag  == nextTok.tag
<1>1. /\ pc = "build" /\ stream # << >> /\ Building("open")
      /\ calls' = Append(calls, Frame(what, tag))
      /\ nextToken(nextTok) /\ UNCHANGED <<enc, pc, out, groups>>
  BY DEF OpenChild, Building, TokenAhead
<1>2. /\ FramesOK(calls) /\ Top = calls[Len(calls)] /\ FrameOK(Top)
      /\ nextTok.kind \in Kinds /\ Reaction(Top, nextTok) = "open"
  BY <1>1, BuildContext
<1>3. /\ Legal(nextTok) /\ nextTok.kind \in {"start", "text"}
      /\ Top.what \in {"struct", "metinf"} /\ tag \in Children(Build(Top.tag))
  BY <1>2, Reactions
<1>4. Top.tag \in Roots \cup PartTags \cup MetInfParts
  BY <1>2, <1>3 DEF FrameOK, MetInfParts
<1>5. /\ what \in {"flag", "pcdata", "struct"}
      /\ what \in {"flag", "pcdata"} => tag \in TextTags \cup MetInfTexts
      /\ what = "struct" => tag \in PartTags \cup MetInfParts
      /\ Top.tag \in MetInfTags <=> tag \in MetInfTags
  BY <1>3, <1>4, ChildKind
<1> HIDE DEF what
<1>6. tag \notin Roots \cup {"SyncML"} /\ tag # Undef
  BY <1>5, KindsDisjoint DEF MetInfTags
<1>7. FrameOK(Frame(what, tag))
  BY <1>5, FrameIsOK
<1>8. FramesOK(calls') /\ Grown(calls, calls', Frame(what, tag))
  BY <1>1, <1>2, <1>3, <1>5, <1>6, <1>7, FramesPush
<1>9. ~stray' => nextTok.kind = "start"
  <2>1. OutsidePcdata
    BY <1>1, <1>3 DEF OutsidePcdata
  <2> QED BY <2>1, <1>1, <1>3, <1>6, NoText
<1> QED BY <1>1, <1>3, <1>5, <1>6, <1>8, <1>9

(* PCDATA takes more text.                                                 *)
LEMMA TextAdded ==
  ASSUME FramesOK(calls), Top = calls[Len(calls)], FrameOK(Top), NEW text \in STRING
  PROVE  \E g : /\ FrameOK(g) /\ g.what = Top.what /\ g.tag = Top.tag
                /\ g.wrapped = Top.wrapped /\ g.ext = Top.ext /\ g.text # << >>
                /\ g = [Top EXCEPT !.text = Append(@, text)]
<1> DEFINE t == Append(Top.text, text)
           g == [Top EXCEPT !.text = t]
<1>1. Top.text \in Seq(STRING)
  BY DEF FrameOK
<1>2. t \in Seq(STRING) /\ t # << >>
  <2>1. t \in Seq(STRING) /\ Len(t) = Len(Top.text) + 1
    BY <1>1, AppendProperties
  <2> QED BY <2>1, <1>1, EmptyLen
<1> HIDE DEF t
<1>3. /\ DOMAIN g = DOMAIN Top /\ g.what = Top.what /\ g.tag = Top.tag
      /\ g.wrapped = Top.wrapped /\ g.ext = Top.ext /\ g.text = t
  BY DEF FrameOK
<1>4. g = [Top EXCEPT !.text = Append(@, text)]
  BY DEF t
<1> HIDE DEF g
<1>5. FrameOK(g)
  BY <1>2, <1>3 DEF FrameOK
<1> QED BY <1>2, <1>3, <1>4, <1>5

(* The innermost of the frames has become g.                               *)
Collected(fs, gs) ==
  /\ FramesOK(gs) /\ Len(gs) = Len(fs)
  /\ \A i \in 1 .. Len(fs) - 1 : gs[i] = fs[i]
  /\ gs[Len(fs)].what = fs[Len(fs)].what /\ gs[Len(fs)].tag = fs[Len(fs)].tag
  /\ gs[Len(fs)].wrapped = fs[Len(fs)].wrapped /\ gs[Len(fs)].ext = fs[Len(fs)].ext
  /\ fs[Len(fs)].what = "pcdata" => gs[Len(fs)].text # << >>

(* TextGoesOn: nothing but the PCDATA changes.                             *)
LEMMA GoesOnShape ==
  ASSUME TypeInv, TextGoesOn, calls' # calls
  PROVE  pc = "build" /\ FramesOK(calls) /\ Collected(calls, calls')
<1> DEFINE text == Contents(Head(stream))
<1>1. /\ pc = "build" /\ stream # << >>
      /\ calls' = WithTop(calls, [Top EXCEPT !.text = Append(@, text)])
  BY DEF TextGoesOn
<1>2. FramesOK(calls) /\ Top = calls[Len(calls)] /\ FrameOK(Top)
  BY <1>1, BuildContext
<1>3. text \in STRING
  <2>1. stream \in Seq(Items)
    BY DEF TypeInv
  <2>2. Head(stream) \in Items
    BY <1>1, <2>1
  <2> QED BY <2>2 DEF Contents, Items
<1> HIDE DEF text
<1>4. PICK g : /\ FrameOK(g) /\ g.what = Top.what /\ g.tag = Top.tag
               /\ g.wrapped = Top.wrapped /\ g.ext = Top.ext /\ g.text # << >>
               /\ g = [Top EXCEPT !.text = Append(@, text)]
  BY <1>2, <1>3, TextAdded
<1>5. calls' = WithTop(calls, g)
  BY <1>1, <1>4
<1>6. FrameOK(g) /\ g.what = calls[Len(calls)].what /\ g.tag = calls[Len(calls)].tag
  BY <1>2, <1>4
<1>7. /\ FramesOK(calls') /\ Len(calls') = Len(calls) /\ calls'[Len(calls)] = g
      /\ \A i \in 1 .. Len(calls) - 1 : calls'[i] = calls[i]
  BY <1>2, <1>5, <1>6, FramesTop
<1> QED BY <1>1, <1>2, <1>4, <1>7 DEF Collected

(* EmptyChild and concatPCData: the innermost frame collects something.    *)
LEMMA UpdateShape ==
  ASSUME TypeInv, EmptyChild \/ concatPCData
  PROVE  /\ Legal(nextTok) /\ nextTok.kind \in {"empty", "text"} /\ nextToken(nextTok)
         /\ UNCHANGED <<enc, pc, out, groups>> /\ Collected(calls, calls')
<1>1. PICK g : /\ pc = "build" /\ stream # << >> /\ nextToken(nextTok)
               /\ UNCHANGED <<enc, pc, out, groups>>
               /\ calls' = WithTop(calls, g) /\ FrameOK(g)
               /\ g.what = Top.what /\ g.tag = Top.tag /\ g.wrapped = Top.wrapped
               /\ g.ext = Top.ext /\ (Top.what = "pcdata" => g.text # << >>)
               /\ Legal(nextTok) /\ nextTok.kind \in {"empty", "text"}
  <2>0. pc = "build" /\ stream # << >>
    BY DEF EmptyChild, concatPCData, Building, TokenAhead
  <2>a. /\ FramesOK(calls) /\ Top = calls[Len(calls)] /\ FrameOK(Top)
        /\ nextTok.kind \in Kinds
        /\ nextTok.kind = "text" => nextTok.text \in STRING
    BY <2>0, BuildContext
  <2>1. CASE EmptyChild
    <3>1. Reaction(Top, nextTok) \in {"keep", "drop"}
      BY <2>1 DEF EmptyChild, Building
    <3>2. Legal(nextTok) /\ nextTok.kind = "empty" /\ Top.what \in {"struct", "metinf"}
      BY <3>1, <2>a, Reactions
    <3>3. nextToken(nextTok) /\ UNCHANGED <<enc, pc, out, groups>>
      BY <2>1 DEF EmptyChild
    <3>4. PICK g : calls' = WithTop(calls, g) /\ FrameOK(g) /\ Same(Top, g)
      <4> DEFINE v == Bare(nextTok.tag)
                 g1 == [Top EXCEPT !.kids = WithKid(@, v), !.seen = @ \cup {v.tag}]
                 g2 == [Top EXCEPT !.seen = @ \cup {nextTok.tag}]
      <4>1. FrameOK(g1) /\ Same(Top, g1) /\ FrameOK(g2) /\ Same(Top, g2)
        BY <2>a, Collects
      <4>2. calls' = WithTop(calls, g1) \/ calls' = WithTop(calls, g2)
        BY <2>1 DEF EmptyChild, Returned, Top
      <4> HIDE DEF g1, g2
      <4> QED BY <4>1, <4>2
    <3> QED BY <2>0, <3>2, <3>3, <3>4 DEF Same
  <2>2. CASE concatPCData
    <3>1. Reaction(Top, nextTok) = "text"
      BY <2>2 DEF concatPCData, Building
    <3>2. Legal(nextTok) /\ nextTok.kind = "text" /\ Top.what = "pcdata"
      BY <3>1, <2>a, Reactions
    <3>3. nextToken(nextTok) /\ UNCHANGED <<enc, pc, out, groups>>
      BY <2>2 DEF concatPCData
    <3>4. PICK g : /\ FrameOK(g) /\ g.what = Top.what /\ g.tag = Top.tag
                   /\ g.wrapped = Top.wrapped /\ g.ext = Top.ext /\ g.text # << >>
                   /\ g = [Top EXCEPT !.text = Append(@, nextTok.text)]
      BY <2>a, <3>2, TextAdded
    <3>5. calls' = WithTop(calls, g)
      BY <2>2, <3>4 DEF concatPCData
    <3> QED BY <2>0, <3>2, <3>3, <3>4, <3>5
  <2> QED BY <2>1, <2>2
<1>2. FramesOK(calls) /\ Top = calls[Len(calls)]
  BY <1>1, BuildContext
<1>3. /\ FramesOK(calls') /\ Len(calls') = Len(calls) /\ calls'[Len(calls)] = g
      /\ \A i \in 1 .. Len(calls) - 1 : calls'[i] = calls[i]
  BY <1>1, <1>2, FramesTop
<1> QED BY <1>1, <1>2, <1>3 DEF Collected

(* BuildExtension: a MetInf document in PCDATA that has just begun.        *)
LEMMA ExtensionShape ==
  ASSUME TypeInv, BuildExtension
  PROVE  /\ Legal(nextTok) /\ nextTok.kind \in {"start", "empty"}
         /\ discardToken(nextTok)
         /\ FramesOK(calls') /\ UNCHANGED <<enc, pc, out, groups>>
         /\ Top.what = "pcdata" /\ Top.text = << >> /\ ~Top.ext
         /\ Grown(calls, calls', Frame("metinf", "MetInf"))
<1>1. /\ pc = "build" /\ stream # << >> /\ Building("extension")
      /\ calls' = Append(calls, Frame("metinf", "MetInf"))
      /\ discardToken(nextTok) /\ UNCHANGED <<enc, pc, out, groups>>
  BY DEF BuildExtension, Building, TokenAhead
<1>2. /\ FramesOK(calls) /\ Top = calls[Len(calls)] /\ FrameOK(Top)
      /\ nextTok.kind \in Kinds /\ Reaction(Top, nextTok) = "extension"
  BY <1>1, BuildContext
<1>3. /\ Legal(nextTok) /\ nextTok.kind \in {"start", "empty"} /\ Top.what = "pcdata"
      /\ Top.text = << >> /\ ~Top.ext
  BY <1>2, Reactions
<1>4. "MetInf" \notin Roots
  BY KindsDisjoint DEF MetInfTags, MetInfParts
<1>5. FrameOK(Frame("metinf", "MetInf"))
  BY FrameIsOK
<1>6. FramesOK(calls') /\ Grown(calls, calls', Frame("metinf", "MetInf"))
  BY <1>1, <1>2, <1>3, <1>4, <1>5, FramesPush
<1> QED BY <1>1, <1>3, <1>6

(* MetInfWrapper: a start tag once, or a stray one.                        *)
LEMMA WrapperShape ==
  ASSUME TypeInv, MetInfWrapper
  PROVE  /\ Legal(nextTok) /\ nextTok.kind \in {"start", "empty", "text"}
         /\ nextTok.tag = "MetInf" /\ nextToken(nextTok)
         /\ ~Stray(nextTok) => nextTok.kind = "start" /\ ~Top.wrapped
         /\ FramesOK(calls') /\ UNCHANGED <<enc, pc, out, groups>>
         /\ Len(calls') = Len(calls)
         /\ \A i \in 1 .. Len(calls) - 1 : calls'[i] = calls[i]
         /\ Top.what = "metinf" /\ calls'[Len(calls)].what = "metinf"
         /\ calls'[Len(calls)].tag = Top.tag /\ calls'[Len(calls)].wrapped
<1> DEFINE g == [Top EXCEPT !.wrapped = TRUE]
<1>1. /\ pc = "build" /\ stream # << >> /\ Building("wrapper")
      /\ calls' = WithTop(calls, g)
      /\ nextToken(nextTok) /\ UNCHANGED <<enc, pc, out, groups>>
  BY DEF MetInfWrapper, Building, TokenAhead
<1>2. /\ FramesOK(calls) /\ Top = calls[Len(calls)] /\ FrameOK(Top)
      /\ nextTok.kind \in Kinds /\ Reaction(Top, nextTok) = "wrapper"
  BY <1>1, BuildContext
<1>3. /\ Legal(nextTok) /\ nextTok.kind \in {"start", "empty", "text"} /\ Top.what = "metinf"
      /\ nextTok.tag = "MetInf"
  BY <1>2, Reactions
<1>4. /\ DOMAIN g = DOMAIN Top /\ g.what = Top.what /\ g.tag = Top.tag
      /\ g.wrapped = TRUE /\ g.ext = Top.ext /\ g.text = Top.text
  BY <1>2 DEF FrameOK
<1> HIDE DEF g
<1>5. FrameOK(g)
  BY <1>2, <1>4 DEF FrameOK
<1>6. /\ FramesOK(calls') /\ Len(calls') = Len(calls) /\ calls'[Len(calls)] = g
      /\ \A i \in 1 .. Len(calls) - 1 : calls'[i] = calls[i]
  BY <1>1, <1>2, <1>4, <1>5, FramesTop
<1>7. ~Stray(nextTok) => nextTok.kind = "start" /\ ~Top.wrapped
  BY <1>1, <1>3 DEF Stray, OutsidePcdata, Undef
<1> QED BY <1>1, <1>3, <1>4, <1>6, <1>7

(* The PCDATA around a MetInf document takes it.                           *)
LEMMA DocReadShape ==
  ASSUME NEW n, n = Len(calls), FramesOK(calls), Top = calls[n], Top.what = "metinf"
  PROVE  /\ n \in Nat /\ n >= 3 /\ FramesOK(DocRead) /\ Len(DocRead) = n - 1
         /\ \A i \in 1 .. n - 2 : DocRead[i] = calls[i]
         /\ DocRead[n - 1].what = calls[n - 1].what
         /\ DocRead[n - 1].tag = calls[n - 1].tag
         /\ DocRead[n - 1].wrapped = calls[n - 1].wrapped
         /\ DocRead[n - 1].ext
<1>1. PICK S : calls \in Seq(S)
  BY DEF FramesOK
<1>2. n \in Nat /\ n >= 1
  BY <1>1, LenProperties DEF FramesOK
<1>3. n # 1
  BY DEF FramesOK
<1>4. n >= 2 /\ calls[n - 1].what = "pcdata"
  BY <1>2, <1>3 DEF FramesOK
<1>5. n # 2
  BY <1>4 DEF FramesOK
<1>6. n >= 3
  BY <1>4, <1>5, <1>2
<1> DEFINE outer == Front(calls)
           g == [Last(outer) EXCEPT !.kids = Top.kids, !.ext = TRUE]
<1>7. FramesOK(outer) /\ Shrunk(calls, outer)
  BY <1>4, FramesFront
<1>8. Len(outer) = n - 1 /\ \A i \in 1 .. n - 1 : outer[i] = calls[i]
  BY <1>7 DEF Shrunk
<1>9. Last(outer) = calls[n - 1] /\ FrameOK(calls[n - 1])
  BY <1>2, <1>4, <1>8 DEF Last, FramesOK
<1>10. DocRead = WithTop(outer, g)
  BY DEF DocRead
<1> HIDE DEF outer
<1>11. /\ DOMAIN g = DOMAIN calls[n - 1] /\ g.what = calls[n - 1].what
       /\ g.tag = calls[n - 1].tag /\ g.wrapped = calls[n - 1].wrapped
       /\ g.ext = TRUE /\ g.text = calls[n - 1].text
  BY <1>9 DEF FrameOK
<1> HIDE DEF g
<1>12. FrameOK(g)
  BY <1>9, <1>11 DEF FrameOK
<1>13. outer[Len(outer)] = calls[n - 1]
  BY <1>8, <1>4, <1>2
<1>14. /\ FramesOK(WithTop(outer, g)) /\ Len(WithTop(outer, g)) = Len(outer)
       /\ WithTop(outer, g)[Len(outer)] = g
       /\ \A i \in 1 .. Len(outer) - 1 : WithTop(outer, g)[i] = outer[i]
  BY <1>7, <1>11, <1>12, <1>13, FramesTop
<1>15. /\ Len(DocRead) = n - 1 /\ DocRead[n - 1] = g
       /\ \A i \in 1 .. n - 2 : DocRead[i] = calls[i]
  BY <1>2, <1>6, <1>8, <1>10, <1>14
<1>16. FramesOK(DocRead)
  BY <1>10, <1>14
<1> QED BY <1>2, <1>6, <1>11, <1>15, <1>16

(* CloseElement: the element is delivered, or a child is complete, or the  *)
(* wrapper of a MetInf document ends, or its PCDATA with it.               *)
Delivered(tag) ==
  /\ \E v : v.tag = tag /\ Told(v)
  /\ calls' = << >> /\ pc' = "held"

Closed(fs, gs) == Top.what # "metinf" /\ Len(fs) >= 2 /\ Alike(fs, gs, Len(fs) - 1)

Unwraps(fs, gs) ==
  /\ Top.what = "metinf" /\ Top.wrapped /\ Len(fs) >= 3 /\ Len(gs) = Len(fs) - 1
  /\ \A i \in 1 .. Len(fs) - 2 : gs[i] = fs[i]
  /\ gs[Len(gs)].what = fs[Len(gs)].what /\ gs[Len(gs)].tag = fs[Len(gs)].tag
  /\ gs[Len(gs)].wrapped = fs[Len(gs)].wrapped /\ gs[Len(gs)].ext

ClosedDoc(fs, gs) ==
  /\ Top.what = "metinf" /\ ~Top.wrapped /\ Len(fs) >= 3 /\ Alike(fs, gs, Len(fs) - 2)

LEMMA CloseShape ==
  ASSUME TypeInv, CloseElement
  PROVE  /\ Legal(nextTok) /\ nextTok.kind = "end" /\ nextToken(nextTok)
         /\ enc' = enc
         /\ \/ Len(calls) = 1 /\ Top.what # "metinf" /\ Delivered(calls[1].tag)
            \/ /\ FramesOK(calls') /\ UNCHANGED <<pc, out, groups>>
               /\ Closed(calls, calls') \/ Unwraps(calls, calls') \/ ClosedDoc(calls, calls')
<1>1. /\ pc = "build" /\ stream # << >> /\ Building("close")
      /\ nextToken(nextTok) /\ enc' = enc
  BY DEF CloseElement, Building, TokenAhead
<1>2. /\ FramesOK(calls) /\ Top = calls[Len(calls)] /\ FrameOK(Top)
      /\ nextTok.kind \in Kinds /\ Reaction(Top, nextTok) = "close"
      /\ Len(calls) \in Nat /\ Len(calls) >= 1
  BY <1>1, BuildContext
<1>3. Legal(nextTok) /\ nextTok.kind = "end"
  BY <1>2, Reactions
<1>4. CASE Top.what # "metinf"
  <2>1. Return(calls)
    BY <1>4 DEF CloseElement
  <2>2. CASE Len(calls) = 1
    BY <2>1, <2>2, <1>1, <1>2, <1>3, <1>4, ReturnShape DEF Delivered
  <2>3. CASE Len(calls) # 1
    <3>1. /\ Len(calls) >= 2 /\ FramesOK(calls') /\ Alike(calls, calls', Len(calls) - 1)
          /\ UNCHANGED <<pc, out, groups>>
      BY <2>1, <2>3, <1>2, ReturnShape
    <3> QED BY <3>1, <1>1, <1>3, <1>4 DEF Closed
  <2> QED BY <2>2, <2>3
<1>5. CASE Top.what = "metinf"
  <2> DEFINE n == Len(calls)
  <2>1. /\ n \in Nat /\ n >= 3 /\ FramesOK(DocRead) /\ Len(DocRead) = n - 1
        /\ \A i \in 1 .. n - 2 : DocRead[i] = calls[i]
        /\ DocRead[n - 1].what = calls[n - 1].what
        /\ DocRead[n - 1].tag = calls[n - 1].tag
        /\ DocRead[n - 1].wrapped = calls[n - 1].wrapped
        /\ DocRead[n - 1].ext
    BY <1>2, <1>5, DocReadShape
  <2>2. CASE Top.wrapped
    <3>1. calls' = DocRead /\ UNCHANGED <<pc, out, groups>>
      BY <1>5, <2>2 DEF CloseElement
    <3>2. Unwraps(calls, calls')
      BY <3>1, <2>1, <2>2, <1>5 DEF Unwraps
    <3>3. FramesOK(calls')
      BY <3>1, <2>1
    <3> QED BY <3>1, <3>2, <3>3, <1>1, <1>3
  <2>3. CASE ~Top.wrapped
    <3>1. Return(DocRead)
      BY <1>5, <2>3 DEF CloseElement
    <3>2. Len(DocRead) # 1
      BY <2>1
    <3>3. /\ FramesOK(calls') /\ Alike(DocRead, calls', Len(DocRead) - 1)
          /\ UNCHANGED <<pc, out, groups>>
      BY <2>1, <3>1, <3>2, ReturnShape
    <3>4. Len(calls') = n - 2
      BY <3>3, <2>1 DEF Alike
    <3>5. \A i \in 1 .. n - 2 : Same(calls[i], calls'[i])
      BY <3>3, <2>1 DEF Alike
    <3>6. ClosedDoc(calls, calls')
      BY <3>4, <3>5, <2>1, <2>3, <1>5 DEF ClosedDoc, Alike
    <3> QED BY <3>3, <3>6, <1>1, <1>3
  <2> QED BY <2>2, <2>3
<1> QED BY <1>4, <1>5

(* CloseSync and StopAtCommand: a group, which is never inside another     *)
(* element, is told to the callbacks.                                      *)
LEMMA GroupShape ==
  ASSUME TypeInv, CloseSync \/ StopAtCommand
  PROVE  /\ Len(calls) = 1 /\ calls[1].tag \in Groups /\ Delivered(calls[1].tag)
         /\ UNCHANGED <<enc, stream, scan>> /\ tags' \in Seq(Names)
         /\ page' \in {0, 1} /\ (space.tag = Undef \/ space.prev \in {0, 1})'
         /\ stray' \in BOOLEAN /\ curtok' \in [kind : TokKinds, tag : Names]
         /\ ~stray' =>
              \/ tags' = tags
              \/ /\ tags' = Front(tags) /\ Legal(nextTok) /\ PageAfter(nextTok)
                 /\ TokenAhead' /\ nextTok.kind = "empty" /\ nextTok.tag \in cPE_Dec
<1>1. pc = "build" /\ stream # << >> /\ Return(calls)
  BY DEF CloseSync, StopAtCommand, Building, TokenAhead
<1>2. /\ FramesOK(calls) /\ Top = calls[Len(calls)] /\ FrameOK(Top)
      /\ nextTok.kind \in Kinds /\ Len(calls) \in Nat /\ Len(calls) >= 1
  BY <1>1, BuildContext
<1>3. ASSUME Top.tag \in Groups
      PROVE  Len(calls) = 1 /\ calls[1].tag \in Groups /\ Delivered(calls[1].tag)
  <2>1. Top.tag \in Roots
    BY <1>3 DEF Groups, Roots, cPE_Dec, NotCompiled
  <2>2. Len(calls) = 1
    <3>1. \A n \in Nat : n >= 1 /\ n # 1 => n \in 2 .. n
      OBVIOUS
    <3>2. Len(calls) # 1 => Len(calls) \in 2 .. Len(calls)
      BY <1>2, <3>1
    <3> QED BY <2>1, <1>2, <3>2 DEF FramesOK
  <2> QED BY <1>1, <1>2, <1>3, <2>2, ReturnShape DEF Delivered
<1>4. CASE CloseSync
  <2>1. Reaction(Top, nextTok) = "hand back"
    BY <1>4 DEF CloseSync, Building
  <2>2. Top.tag \in Groups
    <3>1. FrameOK(Top) /\ nextTok.kind \in Kinds
      BY <1>2
    <3>2. /\ nextTok.kind = "end" /\ Top.what \in {"struct", "metinf"}
          /\ Top.tag = "Sync"
      BY <2>1, <3>1, Reactions
    <3> QED BY <3>2 DEF Groups
  <2>3. UNCHANGED <<enc, stream, page, space, scan, tags, stray>>
    BY <1>4 DEF CloseSync
  <2>4. /\ page \in {0, 1} /\ tags \in Seq(Names) /\ stray \in BOOLEAN
        /\ space.tag = Undef \/ space.prev \in {0, 1}
    BY DEF TypeInv, DecoderTypeOK
  <2>5. curtok' \in [kind : TokKinds, tag : Names]
    BY <1>1, <1>4, PushedToken DEF CloseSync
  <2> QED BY <1>3, <2>2, <2>3, <2>4, <2>5
<1>5. CASE StopAtCommand
  <2>1. Reaction(Top, nextTok) = "stop"
    BY <1>5 DEF StopAtCommand, Building
  <2>2. /\ Legal(nextTok) /\ nextTok.tag \in Build(Top.tag).stops
        /\ Top.what \in {"struct", "metinf"}
    BY <2>1, <1>2, Reactions
  <2>3. Top.tag \in Roots \cup PartTags \cup MetInfParts
    BY <1>2, <2>2 DEF FrameOK, MetInfParts
  <2>4. Top.tag \in Groups /\ nextTok.tag \in cPE_Dec
    BY <2>2, <2>3, Stops
  <2>5. discardToken(nextTok) /\ enc' = enc
    BY <1>5 DEF StopAtCommand
  <2>6. /\ stream' = stream /\ scan' = scan
        /\ page' \in {0, 1} /\ (space.tag = Undef \/ space.prev \in {0, 1})'
        /\ tags' \in Seq(Names)
        /\ PageAfter(nextTok) /\ TokenAhead'
        /\ stray' \in BOOLEAN /\ stray' = (stray \/ Stray(nextTok))
        /\ curtok' \in [kind : TokKinds, tag : Names]
        /\ tags' = IF nextTok.kind = "start" THEN tags ELSE Front(tags)
    BY <1>1, <2>2, <2>5, HandedBack
  <2>7. ~stray' => nextTok.kind \in {"start", "empty"}
    <3>1. nextTok.kind \in {"start", "empty", "text"}
      BY <2>1, <1>2, Reactions
    <3>2. nextTok.tag # Undef
      BY <2>4 DEF cPE_Dec, GenericCmds, NotCompiled, Undef
    <3>3. OutsidePcdata
      BY <1>1, <2>2 DEF OutsidePcdata
    <3> QED BY <3>1, <3>2, <3>3, <2>6 DEF Stray
  <2> QED BY <1>1, <1>3, <2>2, <2>4, <2>5, <2>6, <2>7
<1> QED BY <1>4, <1>5

(***************************************************************************)
(* What xltDecNext does with the first token of a call.                    *)
(***************************************************************************)
LEMMA NextReactions ==
  ASSUME NEW tok, tok.kind \in Kinds
  PROVE  /\ AtNext(tok) # "error" => tags # << >> /\ Legal(tok)
         /\ AtNext(tok) = "body" =>
              /\ OutsideBody /\ tok.kind = "start" /\ tok.tag = "SyncBody"
         /\ AtNext(tok) = "build" =>
              /\ ~OutsideBody /\ tok.kind = "start"
              /\ tok.tag \in cPE_Dec \ NotCompiled
         /\ AtNext(tok) = "mark" =>
              /\ ~OutsideBody /\ tok.tag \in Groups \cup {"Final"}
              /\ tok.kind \in {"start", "empty"} => tok.tag = "Final"
         /\ AtNext(tok) = "end of body" =>
              tok.kind \in {"end", "text"} /\ tok.tag = "SyncBody"
         /\ tok.kind = "empty" /\ tok.tag \in cPE_Dec => AtNext(tok) \in {"error", "crash"}
<1>0. "Final" \notin cPE_Dec /\ "Final" \notin Groups /\ "SyncBody" \notin Groups
  BY DEF cPE_Dec, GenericCmds, NotCompiled, Groups
<1>1. CASE tags = << >> \/ ~Legal(tok)
  BY <1>1 DEF AtNext
<1>2. CASE ~(tags = << >> \/ ~Legal(tok)) /\ OutsideBody
  BY <1>2 DEF AtNext
<1>3. CASE /\ ~(tags = << >> \/ ~Legal(tok)) /\ ~OutsideBody
           /\ tok.kind \in {"start", "empty"} /\ tok.tag # "Final"
  <2>1. CASE tok.tag \notin cPE_Dec
    BY <1>3, <2>1 DEF AtNext, NotCompiled, cPE_Dec
  <2>2. CASE tok.tag \in NotCompiled
    BY <1>3, <2>2 DEF AtNext, cPE_Dec
  <2>3. CASE tok.tag \in cPE_Dec \ NotCompiled /\ tok.kind = "start"
    BY <1>3, <2>3 DEF AtNext
  <2>4. CASE tok.tag \in cPE_Dec \ NotCompiled /\ tok.kind = "empty"
    <3>1. AtNext(tok) = Build(tok.tag).empty
      BY <1>3, <2>4 DEF AtNext
    <3>2. Build(tok.tag).empty \in {"error", "crash"}
      BY <2>4, EmptyCommand
    <3> QED BY <1>3, <2>4, <3>1, <3>2
  <2> QED BY <1>3, <2>1, <2>2, <2>3, <2>4
<1>4. CASE /\ ~(tags = << >> \/ ~Legal(tok)) /\ ~OutsideBody
           /\ ~(tok.kind \in {"start", "empty"} /\ tok.tag # "Final")
  <2>1. CASE tok.tag \in Groups \cup {"Final"}
    <3>1. AtNext(tok) = "mark"
      BY <1>0, <1>4, <2>1 DEF AtNext
    <3> QED BY <1>0, <1>4, <2>1, <3>1 DEF Kinds
  <2>2. CASE tok.tag = "SyncBody"
    <3>1. AtNext(tok) = "end of body"
      BY <1>0, <1>4, <2>2 DEF AtNext
    <3> QED BY <1>0, <1>4, <2>2, <3>1 DEF Kinds
  <2>3. CASE tok.tag \notin Groups \cup {"Final", "SyncBody"}
    <3>1. AtNext(tok) = "error"
      BY <1>4, <2>3 DEF AtNext
    <3> QED BY <1>0, <1>4, <2>3, <3>1 DEF Kinds
  <2> QED BY <2>1, <2>2, <2>3
<1> QED BY <1>1, <1>2, <1>3, <1>4

(* A token is read, and the decoder goes on without a build function.      *)
LEMMA NextContext ==
  ASSUME TypeInv, stream # << >>
  PROVE  /\ nextTok.kind \in Kinds /\ nextTok.tag \in Names
         /\ scan \in Seq(Names) /\ tags \in Seq(Names) /\ groups \in Seq(Groups)
         /\ enc \in {"wbxml", "xml"} /\ stray \in BOOLEAN /\ stream \in Seq(Items)
         /\ pc \in Pcs \ {"build", "failed"} => calls = << >>
  BY TokenType DEF TypeInv, DecoderTypeOK, Kinds

(* What the callbacks are told.                                            *)
LEMMA ToldType ==
  ASSUME NEW v, Told(v), groups \in Seq(Groups)
  PROVE  groups' \in Seq(Groups)
  BY AppendType DEF Told

(* The types once a token is read and no element is being built.           *)
LEMMA ReadIdle ==
  ASSUME TypeInv, stream # << >>, Legal(nextTok), nextToken(nextTok),
         enc' = enc, groups' \in Seq(Groups), calls' = << >>, pc' \in Pcs \ {"build"}
  PROVE  TypeInv'
<1>1. /\ stream' \in Seq(Items)
      /\ page' \in {0, 1} /\ (space.tag = Undef \/ space.prev \in {0, 1})'
      /\ scan' \in Seq(Names) /\ tags' \in Seq(Names) /\ stray' \in BOOLEAN
      /\ curtok' \in [kind : TokKinds, tag : Names]
  BY Read
<1>2. enc' \in {"wbxml", "xml"}
  BY DEF TypeInv
<1> QED BY <1>1, <1>2 DEF TypeInv, DecoderTypeOK

(* The types once a token is read in a build function that goes on.        *)
LEMMA ReadBuilding ==
  ASSUME TypeInv, stream # << >>, Legal(nextTok), nextToken(nextTok),
         enc' = enc, groups' = groups, FramesOK(calls'), pc' = "build"
  PROVE  TypeInv'
<1>1. /\ stream' \in Seq(Items)
      /\ page' \in {0, 1} /\ (space.tag = Undef \/ space.prev \in {0, 1})'
      /\ scan' \in Seq(Names) /\ tags' \in Seq(Names) /\ stray' \in BOOLEAN
      /\ curtok' \in [kind : TokKinds, tag : Names]
  BY Read
<1>2. enc' \in {"wbxml", "xml"} /\ groups' \in Seq(Groups)
  BY DEF TypeInv, DecoderTypeOK
<1>3. calls' # << >>
  BY FramesExist
<1>4. pc' \in Pcs
  BY DEF Pcs
<1> QED BY <1>1, <1>2, <1>3, <1>4 DEF TypeInv, DecoderTypeOK

(***************************************************************************)
(* Types.                                                                  *)
(***************************************************************************)
(* The first frame: the header, or a command.                              *)
LEMMA RootFrame ==
  ASSUME NEW tag \in Roots
  PROVE  /\ FramesOK(<<Frame("struct", tag)>>)
         /\ Len(<<Frame("struct", tag)>>) = 1
         /\ <<Frame("struct", tag)>>[1] = Frame("struct", tag)
<1> DEFINE f == Frame("struct", tag)
<1>0. f.what = "struct" /\ f.tag = tag
  BY DEF Frame
<1>1. FrameOK(f) /\ f.what = "struct" /\ f.tag = tag
  BY <1>0, FrameIsOK
<1> HIDE DEF f
<1>2. <<f>> \in Seq({f}) /\ Len(<<f>>) = 1 /\ <<f>>[1] = f
  OBVIOUS
<1>3. FramesOK(<<f>>)
  <2> DEFINE fs == <<f>>
  <2>1. fs \in Seq({f}) /\ Len(fs) = 1 /\ fs[1] = f
    BY <1>2
  <2> HIDE DEF fs
  <2>2. FramesOK(fs)
    BY <2>1, <1>1 DEF FramesOK
  <2> QED BY <2>2 DEF fs
<1> QED BY <1>2, <1>3 DEF f

LEMMA BuildTypes ==
  ASSUME TypeInv,
         \/ OpenChild \/ EmptyChild \/ concatPCData \/ BuildExtension
         \/ MetInfWrapper \/ CloseElement \/ CloseSync \/ StopAtCommand
  PROVE  TypeInv'
<1>0. pc = "build" /\ stream # << >>
  BY DEF OpenChild, EmptyChild, concatPCData, BuildExtension, MetInfWrapper,
         CloseElement, CloseSync, StopAtCommand, Building, TokenAhead
<1>1. CASE OpenChild
  BY <1>0, <1>1, OpenShape, ReadBuilding
<1>2. CASE EmptyChild \/ concatPCData
  BY <1>0, <1>2, UpdateShape, ReadBuilding DEF Collected
<1>3. CASE BuildExtension
  <2>1. /\ Legal(nextTok) /\ discardToken(nextTok)
        /\ FramesOK(calls') /\ UNCHANGED <<enc, pc, out, groups>>
    BY <1>3, ExtensionShape
  <2>2. /\ stream' = stream /\ scan' = scan
        /\ page' \in {0, 1} /\ (space.tag = Undef \/ space.prev \in {0, 1})'
        /\ tags' \in Seq(Names) /\ stray' \in BOOLEAN
        /\ curtok' \in [kind : TokKinds, tag : Names]
    BY <1>0, <2>1, HandedBack
  <2>3. calls' # << >>
    BY <2>1, FramesExist
  <2> QED BY <1>0, <2>1, <2>2, <2>3 DEF TypeInv, DecoderTypeOK
<1>4. CASE MetInfWrapper
  BY <1>0, <1>4, WrapperShape, ReadBuilding
<1>5. CASE CloseElement
  <2>1. Legal(nextTok) /\ nextToken(nextTok) /\ enc' = enc
    BY <1>5, CloseShape
  <2>2. CASE Delivered(calls[1].tag)
    <3>1. PICK v : Told(v)
      BY <2>2 DEF Delivered
    <3>2. groups \in Seq(Groups)
      BY DEF TypeInv, DecoderTypeOK
    <3>3. groups' \in Seq(Groups)
      BY <3>1, <3>2, ToldType
    <3>4. calls' = << >> /\ pc' \in Pcs \ {"build"}
      BY <2>2 DEF Delivered, Pcs
    <3> QED BY <1>0, <2>1, <3>3, <3>4, ReadIdle
  <2>3. CASE FramesOK(calls') /\ UNCHANGED <<pc, out, groups>>
    BY <1>0, <2>1, <2>3, ReadBuilding
  <2> QED BY <1>5, <2>2, <2>3, CloseShape
<1>6. CASE CloseSync \/ StopAtCommand
  <2>1. /\ Delivered(calls[1].tag)
        /\ UNCHANGED <<enc, stream, scan>> /\ tags' \in Seq(Names)
        /\ page' \in {0, 1} /\ (space.tag = Undef \/ space.prev \in {0, 1})'
        /\ stray' \in BOOLEAN /\ curtok' \in [kind : TokKinds, tag : Names]
    BY <1>6, GroupShape
  <2>2. PICK v : Told(v)
    BY <2>1 DEF Delivered
  <2>3. groups \in Seq(Groups)
    BY DEF TypeInv, DecoderTypeOK
  <2>4. groups' \in Seq(Groups)
    BY <2>2, <2>3, ToldType
  <2>5. calls' = << >> /\ pc' = "held"
    BY <2>1 DEF Delivered
  <2> QED BY <2>1, <2>4, <2>5 DEF TypeInv, DecoderTypeOK, Pcs
<1> QED BY <1>1, <1>2, <1>3, <1>4, <1>5, <1>6

LEMMA NextTypes ==
  ASSUME TypeInv,
         xltDecInit \/ EnterBody \/ xltDecNext \/ DeliverMark \/ EndOfBody \/ EndOfMessage
  PROVE  TypeInv'
<1>0. stream # << >> /\ nextToken(nextTok) /\ enc' = enc
  BY DEF xltDecInit, EnterBody, xltDecNext, DeliverMark, EndOfBody, EndOfMessage, Next_,
         TokenAhead
<1>1. /\ nextTok.kind \in Kinds /\ groups \in Seq(Groups)
      /\ pc \in Pcs \ {"build", "failed"} => calls = << >>
  BY <1>0, NextContext
<1>2. CASE xltDecInit
  <2>1. Legal(nextTok) /\ pc \in {"start", "header"}
    BY <1>2 DEF xltDecInit
  <2>2. calls = << >>
    BY <1>1, <2>1 DEF Pcs
  <2>3. CASE pc' = "header" /\ UNCHANGED <<calls, out, groups>>
    <3>1. calls' = << >> /\ groups' \in Seq(Groups) /\ pc' \in Pcs \ {"build"}
      BY <2>2, <2>3, <1>1 DEF Pcs
    <3> QED BY <1>0, <2>1, <3>1, ReadIdle
  <2>4. CASE Deliver(Bare("SyncHdr"))
    <3>1. calls' = << >> /\ groups' \in Seq(Groups) /\ pc' \in Pcs \ {"build"}
      BY <2>4, <1>1, ToldType DEF Pcs, Deliver
    <3> QED BY <1>0, <2>1, <3>1, ReadIdle
  <2>5. CASE /\ calls' = <<Frame("struct", "SyncHdr")>>
             /\ pc' = "build" /\ UNCHANGED <<out, groups>>
    <3>1. FramesOK(calls')
      BY <2>5, RootFrame DEF Roots
    <3> QED BY <1>0, <2>1, <2>5, <3>1, ReadBuilding
  <2> QED BY <1>2, <2>3, <2>4, <2>5 DEF xltDecInit
<1>3. CASE xltDecNext
  <2>1. /\ AtNext(nextTok) = "build" /\ calls' = <<Frame("struct", nextTok.tag)>>
        /\ pc' = "build" /\ groups' = groups
    BY <1>3 DEF xltDecNext, Next_
  <2>2. Legal(nextTok) /\ nextTok.tag \in Roots
    BY <1>1, <2>1, NextReactions DEF Roots
  <2>3. FramesOK(calls')
    BY <2>1, <2>2, RootFrame
  <2> QED BY <1>0, <2>1, <2>2, <2>3, ReadBuilding
<1>4. CASE EnterBody \/ DeliverMark \/ EndOfBody
  <2>1. /\ pc = "next" /\ AtNext(nextTok) \in {"body", "mark", "end of body"}
        /\ pc' \in {"next", "trailer"} /\ calls' = calls
        /\ groups' \in {groups, Front(groups)}
    BY <1>4 DEF EnterBody, DeliverMark, EndOfBody, Next_
  <2>2. Legal(nextTok)
    BY <1>1, <2>1, NextReactions
  <2>3. calls' = << >> /\ pc' \in Pcs \ {"build"}
    BY <1>1, <2>1 DEF Pcs
  <2>4. groups' \in Seq(Groups)
    BY <1>1, <2>1, FrontShrunk
  <2> QED BY <1>0, <2>2, <2>3, <2>4, ReadIdle
<1>5. CASE EndOfMessage
  <2>1. Legal(nextTok) /\ pc = "trailer" /\ pc' = "done" /\ UNCHANGED <<calls, groups>>
    BY <1>5 DEF EndOfMessage
  <2>2. calls' = << >> /\ groups' \in Seq(Groups) /\ pc' \in Pcs \ {"build"}
    BY <1>1, <2>1 DEF Pcs
  <2> QED BY <1>0, <2>1, <2>2, ReadIdle
<1> QED BY <1>2, <1>3, <1>4, <1>5

LEMMA TypeStep ==
  ASSUME TypeInv, [DecoderNext]_decoderVars
  PROVE  TypeInv'
<1>1. CASE UNCHANGED decoderVars
  BY <1>1 DEF decoderVars, TypeInv, DecoderTypeOK
<1>2. CASE xltDecInit \/ EnterBody \/ xltDecNext \/ DeliverMark \/ EndOfBody \/ EndOfMessage
  BY <1>2, NextTypes
<1>3. CASE \/ OpenChild \/ EmptyChild \/ concatPCData \/ BuildExtension
           \/ MetInfWrapper \/ CloseElement \/ CloseSync \/ StopAtCommand
  BY <1>3, BuildTypes
<1>4. CASE Crash
  <2>1. /\ pc = "next" /\ pc' = "crashed"
        /\ UNCHANGED <<enc, stream, page, space, curtok, scan, tags, calls, groups, stray>>
    BY <1>4 DEF Crash, Next_
  <2> QED BY <2>1 DEF TypeInv, DecoderTypeOK, Pcs
<1>5. CASE DecodeError \/ EndOfBuffer
  <2>1. /\ pc' = "failed"
        /\ UNCHANGED <<enc, stream, page, space, curtok, scan, tags, calls, groups, stray>>
    BY <1>5 DEF DecodeError, EndOfBuffer
  <2> QED BY <2>1 DEF TypeInv, DecoderTypeOK, Pcs
<1>6. CASE CallbackReturns
  <2>1. /\ pc = "held" /\ pc' = "next"
        /\ UNCHANGED <<enc, stream, page, space, curtok, scan, tags, calls, groups, stray>>
    BY <1>6 DEF CallbackReturns
  <2> QED BY <2>1 DEF TypeInv, DecoderTypeOK, Pcs
<1>7. CASE Input
  <2>1. /\ stream' \in Seq(Items)
        /\ UNCHANGED <<enc, page, space, curtok, scan, tags, calls, pc, groups, stray>>
    BY <1>7 DEF Input
  <2> QED BY <2>1 DEF TypeInv, DecoderTypeOK
<1>8. CASE TextGoesOn
  <2>1. /\ stream # << >> /\ stream' = Tail(stream)
        /\ UNCHANGED <<enc, page, space, curtok, scan, tags, pc, groups, stray>>
    BY <1>8 DEF TextGoesOn
  <2>2. stream' \in Seq(Items)
    BY <2>1 DEF TypeInv
  <2>3. CASE calls' = calls
    BY <2>1, <2>2, <2>3 DEF TypeInv, DecoderTypeOK
  <2>4. CASE calls' # calls
    <3>1. pc = "build" /\ FramesOK(calls')
      BY <1>8, <2>4, GoesOnShape DEF Collected
    <3>2. calls' # << >>
      BY <3>1, FramesExist
    <3> QED BY <2>1, <2>2, <3>1, <3>2 DEF TypeInv, DecoderTypeOK
  <2> QED BY <2>3, <2>4
<1> QED BY <1>1, <1>2, <1>3, <1>4, <1>5, <1>6, <1>7, <1>8 DEF DecoderNext, DecoderStep

LEMMA TypeStart == DecoderInit => TypeInv
<1> SUFFICES ASSUME DecoderInit PROVE TypeInv
  OBVIOUS
<1>1. space.tag = Undef
  BY DEF DecoderInit
<1>2. << >> \in Seq(Names) /\ << >> \in Seq(Groups)
  BY EmptySeq
<1>3. curtok \in [kind : TokKinds, tag : Names]
  BY Pages DEF DecoderInit, TokKinds
<1> QED BY <1>1, <1>2, <1>3 DEF DecoderInit, TypeInv, DecoderTypeOK, Pcs

(* The stacks hold tags only, and build functions are active exactly while *)
(* an element is built.                                                    *)
THEOREM DecoderTypes == DecoderSpec => []DecoderTypeOK
<1>1. TypeInv => DecoderTypeOK
  BY DEF TypeInv
<1>2. TypeInv /\ [DecoderNext]_decoderVars => TypeInv'
  BY TypeStep
<1> QED BY <1>1, <1>2, TypeStart, PTL DEF DecoderSpec

(***************************************************************************)
(* How a build step keeps the places of the frames.  fs and gs are the     *)
(* frames before and after, open and ope2 the tags open in the scanner,    *)
(* tg and tg2 those of the decoder.                                        *)
(***************************************************************************)
(* Sequences of equal length with equal elements are equal.                *)
LEMMA SameSeq ==
  ASSUME NEW S, NEW s \in Seq(S), NEW t \in Seq(S), Len(s) = Len(t),
         \A i \in 1 .. Len(s) : s[i] = t[i]
  PROVE  s = t
  BY SeqEqual

(* What was equal stays equal when the same tag is pushed or both are      *)
(* popped.                                                                 *)
LEMMA StaysEqual ==
  ASSUME NEW S, NEW s \in Seq(S), NEW t \in Seq(S), NEW x, NEW s2 \in Seq(S),
         NEW t2 \in Seq(S), s = t,
         (Grown(s, s2, x) /\ Grown(t, t2, x)) \/ (Shrunk(s, s2) /\ Shrunk(t, t2))
  PROVE  s2 = t2
<1>1. Len(s2) = Len(t2) /\ Len(s) \in Nat
  BY LenProperties DEF Grown, Shrunk
<1>2. \A i \in 1 .. Len(s2) : s2[i] = t2[i]
  <2>1. CASE Grown(s, s2, x) /\ Grown(t, t2, x)
    BY <1>1, <2>1 DEF Grown
  <2>2. CASE Shrunk(s, s2) /\ Shrunk(t, t2)
    BY <1>1, <2>2 DEF Shrunk
  <2> QED BY <2>1, <2>2
<1> QED BY <1>1, <1>2, SameSeq

(* Depth and Nests look at the first n open tags only.                     *)
LEMMA NestsPrefix ==
  ASSUME NEW open, NEW ope2, NEW n \in Int, NEW told,
         \A i \in 1 .. n : ope2[i] = open[i]
  PROVE  /\ \A p \in 0 .. n : Depth(ope2, p) = Depth(open, p)
         /\ Nests(open, n, told) => Nests(ope2, n, told)
<1>1. \A p \in 0 .. n : Depth(ope2, p) = Depth(open, p)
  <2> TAKE p \in 0 .. n
  <2>1. {i \in 3 .. p : ope2[i] # "Final"} = {i \in 3 .. p : open[i] # "Final"}
    OBVIOUS
  <2> QED BY <2>1 DEF Depth
<1>2. ASSUME Nests(open, n, told)
      PROVE  Nests(ope2, n, told)
  <2>1. n >= 2 /\ ope2[1] = "SyncML" /\ ope2[2] = "SyncBody"
    BY <1>2 DEF Nests
  <2>2. Len(told) = Depth(ope2, n)
    BY <1>1, <1>2, <2>1 DEF Nests
  <2>3. ASSUME NEW p \in 3 .. n, ope2[p] # "Final"
        PROVE  told[Depth(ope2, p)] = ope2[p]
    BY <1>1, <1>2, <2>3 DEF Nests
  <2> QED BY <2>1, <2>2, <2>3 DEF Nests
<1> QED BY <1>1, <1>2

(* The places of the frames.                                               *)
LEMMA Places ==
  ASSUME NEW fs, FramesOK(fs), NEW open \in Seq(Names), NEW h, Placed(h, fs, open)
  PROVE  /\ Len(fs) \in Nat /\ Len(fs) >= 1 /\ Len(open) \in Nat
         /\ \A j \in 1 .. Len(fs) : h[j] \in Nat /\ h[j] <= Len(open)
         /\ \A j \in 1 .. Len(fs) : h[1] <= h[j]
<1>1. Len(fs) \in Nat /\ Len(fs) >= 1 /\ Len(open) \in Nat
  BY LenProperties DEF FramesOK
<1>2. \A j \in 1 .. Len(fs) : h[j] \in Nat
  BY DEF Placed
<1>3. \A j \in 1 .. Len(fs) : j \in 1 .. Len(fs) /\ 1 \in 1 .. j
      /\ Len(fs) \in 1 .. Len(fs)
  BY <1>1
<1>4. \A j \in 1 .. Len(fs) : h[j] <= h[Len(fs)] /\ h[1] <= h[j]
  BY <1>3 DEF Placed
<1>5. h[Len(fs)] = Len(open)
  BY DEF Placed
<1> QED BY <1>1, <1>2, <1>4, <1>5

(* The callbacks know the same while the first place and the tags below    *)
(* it are kept.                                                            *)
LEMMA RootKept ==
  ASSUME NEW fs, NEW gs, NEW open, NEW ope2, NEW h, NEW h2, NEW told,
         h[1] \in Nat, h2[1] = h[1], gs[1].tag = fs[1].tag,
         \A i \in 1 .. h[1] - 1 : ope2[i] = open[i],
         Root(h, fs, open, told)
  PROVE  Root(h2, gs, ope2, told)
<1>1. CASE fs[1].tag = "SyncHdr"
  BY <1>1 DEF Root
<1>2. CASE fs[1].tag # "SyncHdr"
  <2>1. Nests(open, h[1] - 1, told)
    BY <1>2 DEF Root
  <2>2. Nests(ope2, h[1] - 1, told)
    BY <2>1, NestsPrefix
  <2> QED BY <2>2, <1>2 DEF Root
<1> QED BY <1>1, <1>2

(* The places above the p-th of a stack of m tags that has grown.          *)
LEMMA OneMore ==
  ASSUME NEW m \in Nat, NEW p \in Nat
  PROVE  \A i \in p + 1 .. m + 1 : i = m + 1 \/ (i \in p + 1 .. m /\ i \in 1 .. m)
  OBVIOUS

(* A child is opened: one more frame, one more tag on both stacks.         *)
LEMMA OpenKeeps ==
  ASSUME NEW fs, FramesOK(fs), NEW gs, FramesOK(gs),
         NEW open \in Seq(Names), NEW ope2 \in Seq(Names),
         NEW tg \in Seq(Names), NEW tg2 \in Seq(Names),
         NEW tag, NEW what \in {"flag", "pcdata", "struct"},
         Grown(fs, gs, Frame(what, tag)), Grown(open, ope2, tag), Grown(tg, tg2, tag),
         fs[Len(fs)].what \in {"struct", "metinf"},
         fs[Len(fs)].tag \in MetInfTags <=> tag \in MetInfTags,
         tag # "SyncML",
         NEW k, NEW h, NEW told, BuildOK(k, h, fs, open, tg, told)
  PROVE  \E k2, h2 : BuildOK(k2, h2, gs, ope2, tg2, told)
<1> DEFINE n  == Len(fs)
           L  == Len(open)
           h2 == [j \in 1 .. n + 1 |-> IF j <= n THEN h[j] ELSE L + 1]
           k2 == IF tag \in MetInfTags THEN k ELSE n + 1
<1>0. n = Len(fs) /\ L = Len(open)
  OBVIOUS
<1>1. /\ n \in Nat /\ n >= 1 /\ L \in Nat /\ Len(tg) \in Nat
      /\ \A j \in 1 .. n : h[j] \in Nat /\ h[j] <= L /\ h[1] <= h[j]
  BY <1>0, Places, LenProperties DEF BuildOK
<1>2. /\ h[n] = L
      /\ \A j \in 1 .. n : \A i \in 1 .. j : h[i] <= h[j]
      /\ \A j \in 2 .. n : h[j] = IF Unwrapped(fs[j]) THEN h[j - 1] ELSE h[j - 1] + 1
      /\ \A j \in 1 .. n :
           j > 1 \/ fs[1].tag # "SyncHdr" => h[j] >= 1 /\ open[h[j]] = Own(fs, j)
      /\ fs[1].tag = "SyncHdr" => h[1] <= 2 /\ (h[1] >= 1 => open[1] = "SyncML")
  BY <1>0 DEF BuildOK, Placed
<1>3. /\ Len(gs) = n + 1 /\ gs[n + 1].what = what /\ gs[n + 1].tag = tag
      /\ gs[n + 1].text = << >> /\ ~gs[n + 1].ext
      /\ \A i \in 1 .. n : gs[i] = fs[i]
      /\ Len(ope2) = L + 1 /\ ope2[L + 1] = tag /\ (\A i \in 1 .. L : ope2[i] = open[i])
      /\ Len(tg2) = Len(tg) + 1 /\ tg2[Len(tg) + 1] = tag
      /\ \A i \in 1 .. Len(tg) : tg2[i] = tg[i]
  <2>1. /\ Frame(what, tag).what = what /\ Frame(what, tag).tag = tag
        /\ Frame(what, tag).text = << >> /\ Frame(what, tag).ext = FALSE
    BY DEF Frame
  <2>2. /\ Len(gs) = n + 1 /\ gs[n + 1] = Frame(what, tag)
        /\ \A i \in 1 .. n : gs[i] = fs[i]
    BY DEF Grown
  <2>3. Len(ope2) = L + 1 /\ ope2[L + 1] = tag /\ \A i \in 1 .. L : ope2[i] = open[i]
    BY DEF Grown
  <2>4. /\ Len(tg2) = Len(tg) + 1 /\ tg2[Len(tg) + 1] = tag
        /\ \A i \in 1 .. Len(tg) : tg2[i] = tg[i]
    BY DEF Grown
  <2> QED BY <2>1, <2>2, <2>3, <2>4
<1>4. /\ \A j \in 1 .. n : h2[j] = h[j]
      /\ h2[n + 1] = L + 1
      /\ h2 \in [1 .. n + 1 -> Nat]
  BY <1>1
<1>41. k2 = IF tag \in MetInfTags THEN k ELSE n + 1
  OBVIOUS
<1> HIDE DEF n, L, h2, k2
<1>5. Placed(h2, gs, ope2)
  <2>1. \A j \in 1 .. n + 1 : \A i \in 1 .. j : h2[i] <= h2[j]
    <3> TAKE j \in 1 .. n + 1
    <3> TAKE i \in 1 .. j
    <3>1. CASE j <= n
      <4>1. j \in 1 .. n /\ i \in 1 .. n
        BY <3>1, <1>1
      <4> QED BY <4>1, <1>2, <1>4
    <3>2. CASE j = n + 1 /\ i <= n
      <4>1. i \in 1 .. n
        BY <3>2, <1>1
      <4>2. h2[i] = h[i] /\ h[i] \in Nat /\ h[i] <= L /\ h2[j] = L + 1
        BY <4>1, <3>2, <1>1, <1>4
      <4> QED BY <4>2, <1>1
    <3>3. CASE j = n + 1 /\ i = n + 1
      BY <3>3, <1>1, <1>4
    <3> QED BY <3>1, <3>2, <3>3, <1>1
  <2>2. \A j \in 2 .. n + 1 :
          h2[j] = IF Unwrapped(gs[j]) THEN h2[j - 1] ELSE h2[j - 1] + 1
    <3> TAKE j \in 2 .. n + 1
    <3>1. CASE j <= n
      <4>1. j \in 1 .. n /\ j - 1 \in 1 .. n /\ j \in 2 .. n
        BY <3>1, <1>1
      <4>2. h2[j] = h[j] /\ h2[j - 1] = h[j - 1] /\ gs[j] = fs[j]
        BY <4>1, <1>3, <1>4
      <4> QED BY <4>1, <4>2, <1>2
    <3>2. CASE j = n + 1
      <4>1. ~Unwrapped(gs[j]) /\ j - 1 = n /\ n \in 1 .. n
        BY <3>2, <1>1, <1>3 DEF Unwrapped
      <4> QED BY <3>2, <4>1, <1>2, <1>4
    <3> QED BY <3>1, <3>2, <1>1
  <2>3. ASSUME NEW j \in 1 .. n + 1, j > 1 \/ gs[1].tag # "SyncHdr"
        PROVE  h2[j] >= 1 /\ ope2[h2[j]] = Own(gs, j)
    <3>1. CASE j <= n
      <4>1. Own(gs, j) = Own(fs, j)
        <5>1. CASE fs[j].what # "metinf" \/ fs[j].wrapped
          BY <3>1, <5>1, <1>1, <1>3 DEF Own
        <5>2. CASE fs[j].what = "metinf"
          <6>1. j # 1
            BY <5>2 DEF FramesOK
          <6>2. j \in 1 .. n /\ j - 1 \in 1 .. n
            BY <3>1, <6>1, <1>1
          <6>3. gs[j] = fs[j] /\ gs[j - 1] = fs[j - 1]
            BY <6>2, <1>3
          <6> QED BY <6>3 DEF Own
        <5> QED BY <5>1, <5>2
      <4>2. 1 \in 1 .. n /\ j \in 1 .. n
        BY <3>1, <1>1
      <4>3. h[j] >= 1 /\ open[h[j]] = Own(fs, j)
        BY <4>2, <2>3, <1>2, <1>3
      <4> QED BY <4>1, <4>2, <4>3, <1>1, <1>3, <1>4
    <3>2. CASE j = n + 1
      BY <3>2, <1>1, <1>3, <1>4 DEF Own
    <3> QED BY <3>1, <3>2, <1>1
  <2>4. ASSUME gs[1].tag = "SyncHdr"
        PROVE  h2[1] <= 2 /\ (h2[1] >= 1 => ope2[1] = "SyncML")
    <3>1. 1 \in 1 .. n
      BY <1>1
    <3> QED BY <3>1, <2>4, <1>1, <1>2, <1>3, <1>4
  <2> QED BY <1>3, <1>4, <2>1, <2>2, <2>3, <2>4 DEF Placed
<1>6. /\ k \in 1 .. n
      /\ \A j \in 1 .. k : fs[j].tag \notin MetInfTags /\ fs[j].what # "metinf"
      /\ \A j \in k + 1 .. n : fs[j].tag \in MetInfTags
      /\ k < n => fs[k].what = "pcdata"
      /\ \A i \in h[k] + 1 .. L : open[i] \in MetInfTags
  BY <1>0 DEF BuildOK, Split
<1>7. IF tag \in MetInfTags THEN k < n ELSE k = n
  BY <1>0, <1>1, <1>6
<1>8. Split(k2, h2, gs, ope2)
  <2>1. CASE tag \in MetInfTags
    <3>1. k2 = k /\ h2[k] = h[k] /\ k \in 1 .. n + 1 /\ k < n + 1
      BY <1>41, <2>1, <1>1, <1>4, <1>6
    <3>2. \A j \in 1 .. k : gs[j].tag \notin MetInfTags /\ gs[j].what # "metinf"
      <4>1. \A j \in 1 .. k : j \in 1 .. n
        BY <1>1, <1>6
      <4> QED BY <4>1, <1>3, <1>6
    <3>3. \A j \in k + 1 .. n + 1 : gs[j].tag \in MetInfTags
      BY <2>1, <1>1, <1>3, <1>6
    <3>4. gs[k].what = "pcdata"
      BY <2>1, <1>3, <1>6, <1>7
    <3>5. \A i \in h[k] + 1 .. L + 1 : ope2[i] \in MetInfTags
      <4>0. h[k] \in Nat
        BY <1>1, <1>6
      <4>1. \A i \in h[k] + 1 .. L + 1 : i = L + 1 \/ (i \in h[k] + 1 .. L /\ i \in 1 .. L)
        BY <4>0, <1>1, OneMore
      <4> QED BY <2>1, <4>1, <1>3, <1>6
    <3> QED BY <3>1, <3>2, <3>3, <3>4, <3>5, <1>3 DEF Split
  <2>2. CASE tag \notin MetInfTags
    <3>1. k2 = n + 1 /\ k = n
      BY <1>41, <2>2, <1>7
    <3>2. \A j \in 1 .. n + 1 : gs[j].tag \notin MetInfTags /\ gs[j].what # "metinf"
      <4>1. \A j \in 1 .. n + 1 : j \in 1 .. n \/ j = n + 1
        BY <1>1
      <4>2. gs[n + 1].tag \notin MetInfTags /\ gs[n + 1].what # "metinf"
        BY <2>2, <1>3
      <4>3. \A j \in 1 .. n : gs[j].tag \notin MetInfTags /\ gs[j].what # "metinf"
        BY <3>1, <1>3, <1>6
      <4> QED BY <4>1, <4>2, <4>3
    <3>3. /\ n + 1 \in 1 .. n + 1 /\ ~(n + 1 < n + 1)
          /\ \A j \in (n + 1) + 1 .. n + 1 : FALSE
          /\ \A i \in (L + 1) + 1 .. L + 1 : FALSE
      BY <1>1
    <3> QED BY <3>1, <3>2, <3>3, <1>3, <1>4 DEF Split
  <2> QED BY <2>1, <2>2
<1>9. Drift(k2, h2, gs, ope2, tg2)
  <2> SUFFICES ASSUME tg2 # ope2
               PROVE  /\ Len(tg2) < Len(ope2)
                      /\ Barrier(k2, h2, gs, ope2, tg2) \/ Bottom(h2, gs, ope2, tg2)
    BY DEF Drift
  <2>1. tg # open
    BY StaysEqual
  <2>2. /\ Len(tg) < L
        /\ Barrier(k, h, fs, open, tg) \/ Bottom(h, fs, open, tg)
    BY <2>1, <1>0 DEF BuildOK, Drift
  <2>3. Len(tg2) < Len(ope2)
    BY <2>2, <1>1, <1>3
  <2>4. CASE Barrier(k, h, fs, open, tg)
    <3>1. PICK q \in 0 .. h[k] :
            /\ q <= Len(tg)
            /\ \A i \in q + 1 .. Len(tg) : tg[i] \in MetInfTags
            /\ q >= 1 => tg[q] \notin MetInfTags /\ (q < h[k] => tg[q] # open[h[k]])
      BY <2>4 DEF Barrier
    <3>2. fs[k].what = "pcdata"
      BY <2>4 DEF Barrier
    <3>3. tag \in MetInfTags /\ k < n
      BY <3>2, <1>0, <1>6, <1>7
    <3>4. k2 = k /\ h2[k] = h[k] /\ gs[k].what = "pcdata" /\ k < n + 1 /\ h[k] \in 0 .. L
      BY <1>41, <3>2, <3>3, <1>1, <1>3, <1>4, <1>6
    <3>5. q <= Len(tg2) /\ \A i \in q + 1 .. Len(tg2) : tg2[i] \in MetInfTags
      <4>1. q <= Len(tg2)
        BY <3>1, <3>4, <1>1, <1>3
      <4>2. \A i \in q + 1 .. Len(tg2) : i = Len(tg) + 1 \/ i \in q + 1 .. Len(tg)
        BY <3>1, <3>4, <1>1, <1>3
      <4>3. \A i \in q + 1 .. Len(tg) : i \in 1 .. Len(tg)
        BY <3>1, <3>4, <1>1
      <4> QED BY <3>1, <3>3, <4>1, <4>2, <4>3, <1>3
    <3>6. q >= 1 => tg2[q] \notin MetInfTags /\ (q < h[k] => tg2[q] # ope2[h[k]])
      <4> SUFFICES ASSUME q >= 1
                   PROVE  tg2[q] \notin MetInfTags /\ (q < h[k] => tg2[q] # ope2[h[k]])
        OBVIOUS
      <4>1. q \in 1 .. Len(tg)
        BY <3>1, <1>1
      <4>2. h[k] \in 1 .. L
        BY <3>1, <3>4, <1>1
      <4>3. tg2[q] = tg[q] /\ ope2[h[k]] = open[h[k]]
        BY <4>1, <4>2, <1>3
      <4> QED BY <4>3, <3>1
    <3>7. Barrier(k2, h2, gs, ope2, tg2)
      BY <3>1, <3>4, <3>5, <3>6, <1>3 DEF Barrier
    <3> QED BY <2>3, <3>7
  <2>5. CASE Bottom(h, fs, open, tg)
    <3>1. /\ gs[1].tag = "SyncHdr" /\ h2[1] = 2 /\ Len(tg2) >= 1
          /\ tg2[1] = "SyncML" /\ ope2[1] = "SyncML"
      BY <2>5, <1>0, <1>1, <1>2, <1>3, <1>4 DEF Bottom
    <3>2. \A i \in 2 .. L + 1 : ope2[i] # "SyncML"
      <4>1. \A i \in 2 .. L : open[i] # "SyncML"
        BY <2>5, <1>0 DEF Bottom
      <4>2. \A i \in 1 + 1 .. L + 1 : i = L + 1 \/ (i \in 1 + 1 .. L /\ i \in 1 .. L)
        BY <1>1, OneMore
      <4> QED BY <4>1, <4>2, <1>3
    <3>3. Bottom(h2, gs, ope2, tg2)
      BY <3>1, <3>2, <1>3 DEF Bottom
    <3> QED BY <2>3, <3>3
  <2> QED BY <2>2, <2>4, <2>5
<1>10. Fresh(gs, tg2)
  BY <1>1, <1>3 DEF Fresh
<1>11. Root(h2, gs, ope2, told)
  <2>1. 1 \in 1 .. n /\ h[1] \in Nat /\ h[1] <= L
    BY <1>1
  <2>2. \A i \in 1 .. h[1] - 1 : ope2[i] = open[i]
    BY <2>1, <1>1, <1>3
  <2>3. h2[1] = h[1] /\ gs[1].tag = fs[1].tag
    BY <2>1, <1>3, <1>4
  <2>4. Root(h, fs, open, told)
    BY DEF BuildOK
  <2> QED BY <2>1, <2>2, <2>3, <2>4, RootKept
<1>12. BuildOK(k2, h2, gs, ope2, tg2, told)
  BY <1>5, <1>8, <1>9, <1>10, <1>11 DEF BuildOK
<1> QED BY <1>12

(* gs are the first m of the frames fs, as far as their ends go.           *)
Kin(fs, gs, m) ==
  /\ m \in 1 .. Len(fs) /\ Len(gs) = m
  /\ \A i \in 1 .. m :
       gs[i].what = fs[i].what /\ gs[i].tag = fs[i].tag /\ gs[i].wrapped = fs[i].wrapped

(* The places of the frames that are left, when some have returned.        *)
LEMMA PlacedCut ==
  ASSUME NEW fs, FramesOK(fs), NEW gs, NEW m, Kin(fs, gs, m),
         NEW open \in Seq(Names), NEW ope2 \in Seq(Names), NEW h, Placed(h, fs, open),
         Len(ope2) = h[m], \A i \in 1 .. h[m] : ope2[i] = open[i],
         NEW h2, h2 = [j \in 1 .. m |-> h[j]]
  PROVE  Placed(h2, gs, ope2)
<1> DEFINE n == Len(fs)
<1>1. /\ n \in Nat /\ n >= 1 /\ m \in 1 .. n /\ Len(gs) = m
      /\ \A j \in 1 .. n : h[j] \in Nat
  BY Places DEF Kin
<1>2. /\ \A j \in 1 .. n : \A i \in 1 .. j : h[i] <= h[j]
      /\ \A j \in 2 .. n : h[j] = IF Unwrapped(fs[j]) THEN h[j - 1] ELSE h[j - 1] + 1
      /\ \A j \in 1 .. n :
           j > 1 \/ fs[1].tag # "SyncHdr" => h[j] >= 1 /\ open[h[j]] = Own(fs, j)
      /\ fs[1].tag = "SyncHdr" => h[1] <= 2 /\ (h[1] >= 1 => open[1] = "SyncML")
  BY DEF Placed
<1>3. \A i \in 1 .. m :
        gs[i].what = fs[i].what /\ gs[i].tag = fs[i].tag /\ gs[i].wrapped = fs[i].wrapped
  BY DEF Kin
<1>4. fs[1].what = "struct"
  BY DEF FramesOK
<1> HIDE DEF n
<1>5. /\ \A j \in 1 .. m : h2[j] = h[j] /\ j \in 1 .. n
      /\ \A j \in 1 .. m : \A i \in 1 .. j : i \in 1 .. m
      /\ 1 \in 1 .. m /\ m \in 1 .. m
      /\ \A j \in 2 .. m : j \in 1 .. m /\ j - 1 \in 1 .. m /\ j \in 2 .. n
  BY <1>1
<1>6. h2 \in [1 .. m -> Nat] /\ h2[m] = Len(ope2)
  BY <1>1, <1>5
<1>7. \A j \in 1 .. m : \A i \in 1 .. j : h2[i] <= h2[j]
  BY <1>2, <1>5
<1>8. \A j \in 2 .. m : h2[j] = IF Unwrapped(gs[j]) THEN h2[j - 1] ELSE h2[j - 1] + 1
  <2> TAKE j \in 2 .. m
  <2>1. Unwrapped(gs[j]) <=> Unwrapped(fs[j])
    BY <1>3, <1>5 DEF Unwrapped
  <2> QED BY <2>1, <1>2, <1>5
<1>9. ASSUME NEW j \in 1 .. m, j > 1 \/ gs[1].tag # "SyncHdr"
      PROVE  h2[j] >= 1 /\ ope2[h2[j]] = Own(gs, j)
  <2>1. Own(gs, j) = Own(fs, j)
    <3>1. CASE j = 1
      BY <3>1, <1>3, <1>4, <1>5 DEF Own
    <3>2. CASE j # 1
      <4>1. j \in 1 .. m /\ j - 1 \in 1 .. m
        BY <3>2, <1>1
      <4> QED BY <4>1, <1>3 DEF Own
    <3> QED BY <3>1, <3>2
  <2>2. h[j] >= 1 /\ open[h[j]] = Own(fs, j)
    BY <1>9, <1>2, <1>3, <1>5
  <2>3. h[j] <= h[m]
    BY <1>2, <1>5
  <2>4. h[j] \in 1 .. h[m]
    BY <2>2, <2>3, <1>1, <1>5
  <2> QED BY <2>1, <2>2, <2>4, <1>5
<1>10. ASSUME gs[1].tag = "SyncHdr"
       PROVE  h2[1] <= 2 /\ (h2[1] >= 1 => ope2[1] = "SyncML")
  <2>1. fs[1].tag = "SyncHdr" /\ h2[1] = h[1]
    BY <1>10, <1>3, <1>5
  <2>2. h[1] \in Nat /\ h[m] \in Nat /\ h[1] <= h[m]
    BY <1>1, <1>2, <1>5
  <2>3. h[1] >= 1 => 1 \in 1 .. h[m]
    BY <2>2
  <2> QED BY <2>1, <2>3, <1>2
<1> QED BY <1>1, <1>6, <1>7, <1>8, <1>9, <1>10 DEF Placed

LEMMA SplitCut ==
  ASSUME NEW fs, FramesOK(fs), NEW gs, NEW m, Kin(fs, gs, m),
         NEW open \in Seq(Names), NEW ope2 \in Seq(Names), NEW h, Placed(h, fs, open),
         Len(ope2) = h[m], \A i \in 1 .. h[m] : ope2[i] = open[i],
         NEW h2, \A j \in 1 .. m : h2[j] = h[j],
         NEW k, Split(k, h, fs, open),
         NEW k2, (k <= m /\ k2 = k) \/ (~(k <= m) /\ k2 = m)
  PROVE  Split(k2, h2, gs, ope2)
<1> DEFINE n == Len(fs)
<1>1. /\ n \in Nat /\ n >= 1 /\ m \in 1 .. n /\ Len(gs) = m /\ Len(open) \in Nat
      /\ \A j \in 1 .. n : h[j] \in Nat /\ h[j] <= Len(open)
  BY Places DEF Kin
<1>2. /\ k \in 1 .. n
      /\ \A j \in 1 .. k : fs[j].tag \notin MetInfTags /\ fs[j].what # "metinf"
      /\ \A j \in k + 1 .. n : fs[j].tag \in MetInfTags
      /\ k < n => fs[k].what = "pcdata"
      /\ \A i \in h[k] + 1 .. Len(open) : open[i] \in MetInfTags
  BY DEF Split
<1>3. \A i \in 1 .. m : gs[i].what = fs[i].what /\ gs[i].tag = fs[i].tag
  BY DEF Kin
<1> HIDE DEF n
<1>4. k2 \in 1 .. m /\ k2 <= k /\ h2[k2] = h[k2]
  BY <1>1, <1>2
<1>5. \A j \in 1 .. k2 : gs[j].tag \notin MetInfTags /\ gs[j].what # "metinf"
  <2>1. \A j \in 1 .. k2 : j \in 1 .. m /\ j \in 1 .. k
    BY <1>1, <1>2, <1>4
  <2> QED BY <2>1, <1>2, <1>3
<1>6. CASE k <= m
  <2>1. k2 = k
    BY <1>6
  <2>2. \A j \in k + 1 .. m : gs[j].tag \in MetInfTags
    <3>1. \A j \in k + 1 .. m : j \in 1 .. m /\ j \in k + 1 .. n
      BY <1>1, <1>2
    <3> QED BY <3>1, <1>2, <1>3
  <2>3. k < m => gs[k].what = "pcdata"
    BY <2>1, <1>1, <1>2, <1>3, <1>4
  <2>4. \A i \in h[k] + 1 .. h[m] : ope2[i] \in MetInfTags
    <3>1. \A i \in h[k] + 1 .. h[m] : i \in 1 .. h[m] /\ i \in h[k] + 1 .. Len(open)
      BY <1>1, <1>2
    <3> QED BY <3>1, <1>2
  <2> QED BY <2>1, <2>2, <2>3, <2>4, <1>1, <1>4, <1>5 DEF Split
<1>7. CASE ~(k <= m)
  <2>1. k2 = m
    BY <1>7
  <2>2. /\ \A j \in m + 1 .. m : FALSE
        /\ \A i \in h[m] + 1 .. h[m] : FALSE
        /\ ~(m < m)
    BY <1>1
  <2> QED BY <2>1, <2>2, <1>1, <1>4, <1>5 DEF Split
<1> QED BY <1>6, <1>7

(* The innermost frame collects something.                                 *)
LEMMA UpdateKeeps ==
  ASSUME NEW fs, FramesOK(fs), NEW gs, FramesOK(gs), NEW open \in Seq(Names), NEW tg,
         Kin(fs, gs, Len(fs)), \A i \in 1 .. Len(fs) : gs[i].ext = fs[i].ext,
         fs[Len(fs)].what = "pcdata" => gs[Len(fs)].text # << >>,
         NEW k, NEW h, NEW told, BuildOK(k, h, fs, open, tg, told)
  PROVE  \E k2, h2 : BuildOK(k2, h2, gs, open, tg, told)
<1> DEFINE n == Len(fs)
           h2 == [j \in 1 .. n |-> h[j]]
<1>1. Placed(h, fs, open) /\ h \in [1 .. n -> Nat] /\ h[n] = Len(open)
  BY DEF BuildOK, Placed
<1>2. n \in Nat /\ n >= 1 /\ Len(gs) = n /\ Len(open) \in Nat
  BY <1>1, Places DEF Kin
<1>3. h2 = h
  BY <1>1
<1>4. Split(k, h, fs, open) /\ k \in 1 .. n
  BY DEF BuildOK, Split
<1>5. k <= n
  BY <1>2, <1>4
<1>6. Placed(h, gs, open)
  BY <1>1, <1>3, PlacedCut
<1>7. Split(k, h, gs, open)
  BY <1>1, <1>3, <1>4, <1>5, SplitCut
<1>8. \A i \in 1 .. n : gs[i].what = fs[i].what /\ gs[i].tag = fs[i].tag
  BY DEF Kin
<1>9. 1 \in 1 .. n /\ n \in 1 .. n
  BY <1>2
<1>10. Drift(k, h, gs, open, tg)
  <2>1. Barrier(k, h, fs, open, tg) => Barrier(k, h, gs, open, tg)
    BY <1>2, <1>4, <1>8 DEF Barrier
  <2>2. Bottom(h, fs, open, tg) => Bottom(h, gs, open, tg)
    BY <1>8, <1>9 DEF Bottom
  <2>3. Drift(k, h, fs, open, tg)
    BY DEF BuildOK
  <2> QED BY <2>1, <2>2, <2>3 DEF Drift
<1>11. Fresh(gs, tg)
  BY <1>2, <1>8, <1>9 DEF Fresh
<1>12. Root(h, gs, open, told)
  BY <1>8, <1>9 DEF BuildOK, Root
<1>13. BuildOK(k, h, gs, open, tg, told)
  BY <1>6, <1>7, <1>10, <1>11, <1>12 DEF BuildOK
<1> QED BY <1>13

(* What Barrier says when both stacks end with the same tag: that tag is   *)
(* of the MetInf page, and above the barrier.                              *)
LEMMA BarrierTop ==
  ASSUME NEW fs, FramesOK(fs), NEW open \in Seq(Names), NEW tg \in Seq(Names),
         NEW k, NEW h, Placed(h, fs, open), Split(k, h, fs, open),
         Barrier(k, h, fs, open, tg), Len(tg) >= 1, Len(tg) < Len(open),
         tg[Len(tg)] = open[Len(open)]
  PROVE  /\ h[k] \in Nat /\ h[k] < Len(open)
         /\ fs[k].what = "pcdata"
         /\ \E q \in 0 .. h[k] :
              /\ q <= Len(tg) - 1
              /\ \A i \in q + 1 .. Len(tg) : tg[i] \in MetInfTags
              /\ q >= 1 => tg[q] \notin MetInfTags /\ (q < h[k] => tg[q] # open[h[k]])
<1> DEFINE n == Len(fs)
           L == Len(open)
           T == Len(tg)
<1>1. /\ n \in Nat /\ n >= 1 /\ L \in Nat /\ T \in Nat /\ T >= 1 /\ T < L /\ tg[T] = open[L]
      /\ k \in 1 .. n /\ h[k] \in Nat /\ h[k] <= L
      /\ \A i \in h[k] + 1 .. L : open[i] \in MetInfTags
  BY Places, LenProperties DEF Split
<1>2. PICK q \in 0 .. h[k] :
        /\ q <= T
        /\ \A i \in q + 1 .. T : tg[i] \in MetInfTags
        /\ q >= 1 => tg[q] \notin MetInfTags /\ (q < h[k] => tg[q] # open[h[k]])
  BY DEF Barrier
<1>3. fs[k].what = "pcdata"
  BY DEF Barrier
<1>4. k # 1
  BY <1>3 DEF FramesOK
<1>5. h[k] >= 1 /\ open[h[k]] = Own(fs, k)
  BY <1>1, <1>4 DEF Placed
<1>6. open[h[k]] \notin MetInfTags
  BY <1>1, <1>3, <1>5 DEF Own, Split
<1> HIDE DEF n, L, T
<1>7. q # T
  <2> SUFFICES ASSUME q = T PROVE FALSE
    OBVIOUS
  <2>1. tg[T] \notin MetInfTags
    BY <1>1, <1>2
  <2>2. L \notin h[k] + 1 .. L
    BY <2>1, <1>1
  <2>3. h[k] = L
    BY <2>2, <1>1
  <2>4. q < h[k] /\ q >= 1
    BY <2>3, <1>1
  <2> QED BY <2>3, <2>4, <1>1, <1>2
<1>8. q <= T - 1
  BY <1>1, <1>2, <1>7
<1>9. tg[T] \in MetInfTags
  BY <1>1, <1>2, <1>8
<1>10. h[k] < L
  BY <1>1, <1>6, <1>9
<1>11. \A i \in q + 1 .. T : tg[i] \in MetInfTags
  BY <1>2
<1> QED BY <1>1, <1>2, <1>3, <1>8, <1>10, <1>11 DEF L, T

(* An end tag is read: one or two frames return and both stacks are popped.*)
LEMMA PopKeeps ==
  ASSUME NEW fs, FramesOK(fs), NEW gs, FramesOK(gs),
         NEW open \in Seq(Names), NEW ope2 \in Seq(Names),
         NEW tg \in Seq(Names), NEW tg2 \in Seq(Names),
         NEW m, Kin(fs, gs, m), m < Len(fs), fs[m].what = "pcdata" => gs[m].ext,
         Shrunk(open, ope2), Shrunk(tg, tg2), Len(tg) >= 1, Len(open) >= 1,
         tg[Len(tg)] = open[Len(open)],
         NEW k, NEW h, NEW told, BuildOK(k, h, fs, open, tg, told),
         h[m] = Len(open) - 1
  PROVE  \E k2, h2 : BuildOK(k2, h2, gs, ope2, tg2, told)
<1> DEFINE n  == Len(fs)
           L  == Len(open)
           T  == Len(tg)
           h2 == [j \in 1 .. m |-> h[j]]
           k2 == IF k <= m THEN k ELSE m
<1>1. Placed(h, fs, open) /\ Split(k, h, fs, open)
  BY DEF BuildOK
<1>2. /\ n \in Nat /\ n >= 1 /\ L \in Nat /\ T \in Nat /\ T >= 1 /\ L >= 1 /\ m \in 1 .. n
      /\ m < n /\ Len(gs) = m /\ h[m] = L - 1 /\ k \in 1 .. n
      /\ \A j \in 1 .. n : h[j] \in Nat /\ h[j] <= L /\ h[1] <= h[j]
  BY <1>1, Places, LenProperties DEF Kin, Split
<1>3. /\ Len(ope2) = L - 1 /\ Len(tg2) = T - 1 /\ tg[T] = open[L]
      /\ \A i \in 1 .. L - 1 : ope2[i] = open[i]
      /\ \A i \in 1 .. T - 1 : tg2[i] = tg[i]
  BY DEF Shrunk
<1>4. \A i \in 1 .. m : gs[i].what = fs[i].what /\ gs[i].tag = fs[i].tag
  BY DEF Kin
<1>5. Len(ope2) = h[m] /\ \A i \in 1 .. h[m] : ope2[i] = open[i]
  BY <1>2, <1>3
<1>6. h2 = [j \in 1 .. m |-> h[j]] /\ k2 = IF k <= m THEN k ELSE m
  OBVIOUS
<1> HIDE DEF h2, k2
<1>7. Placed(h2, gs, ope2)
  <2>1. h2 = [j \in 1 .. m |-> h[j]]
    BY <1>6
  <2>2. Len(ope2) = h[m] /\ \A i \in 1 .. h[m] : ope2[i] = open[i]
    BY <1>5
  <2>3. Placed(h, fs, open)
    BY <1>1
  <2> HIDE DEF n, L, T
  <2> QED BY <2>1, <2>2, <2>3, PlacedCut, SMTT(30)
<1>8. Split(k2, h2, gs, ope2)
  <2>1. /\ Placed(h, fs, open) /\ Split(k, h, fs, open) /\ Len(ope2) = h[m]
        /\ \A i \in 1 .. h[m] : ope2[i] = open[i]
    BY <1>1, <1>5
  <2>2. (k <= m /\ k2 = k) \/ (~(k <= m) /\ k2 = m)
    BY <1>6
  <2>3. \A j \in 1 .. m : h2[j] = h[j]
    BY <1>6
  <2>4. CASE k <= m
    <3>1. k2 = k
      BY <2>4, <1>6
    <3>2. Split(k, h2, gs, ope2)
      BY <2>1, <2>3, <2>4, SplitCut
    <3> QED BY <3>1, <3>2
  <2>5. CASE ~(k <= m)
    <3>1. k2 = m
      BY <2>5, <1>6
    <3>2. Split(m, h2, gs, ope2)
      BY <2>1, <2>3, <2>5, SplitCut
    <3> QED BY <3>1, <3>2
  <2> QED BY <2>4, <2>5
<1>9. \A j \in 1 .. m : h2[j] = h[j]
  BY <1>6
<1>10. 1 \in 1 .. m /\ m \in 1 .. m /\ 1 \in 1 .. n
  BY <1>2
<1>11. Drift(k2, h2, gs, ope2, tg2)
  <2> SUFFICES ASSUME tg2 # ope2
               PROVE  /\ Len(tg2) < Len(ope2)
                      /\ Barrier(k2, h2, gs, ope2, tg2) \/ Bottom(h2, gs, ope2, tg2)
    BY DEF Drift
  <2>1. tg # open
    BY StaysEqual
  <2>2. /\ T < L
        /\ Barrier(k, h, fs, open, tg) \/ Bottom(h, fs, open, tg)
    BY <2>1 DEF BuildOK, Drift
  <2>3. Len(tg2) < Len(ope2)
    BY <2>2, <1>2, <1>3
  <2>4. CASE Barrier(k, h, fs, open, tg)
    <3>0. Len(tg) >= 1 /\ Len(tg) < Len(open) /\ tg[Len(tg)] = open[Len(open)]
      BY <2>2
    <3>1. h[k] \in Nat /\ h[k] < L /\ fs[k].what = "pcdata"
      BY <3>0, <2>4, <1>1, BarrierTop
    <3>2. PICK q \in 0 .. h[k] :
            /\ q <= T - 1
            /\ \A i \in q + 1 .. T : tg[i] \in MetInfTags
            /\ q >= 1 => tg[q] \notin MetInfTags /\ (q < h[k] => tg[q] # open[h[k]])
      BY <3>0, <2>4, <1>1, BarrierTop
    <3>3. k <= m
      <4> SUFFICES ASSUME m + 1 <= k PROVE FALSE
        BY <1>2
      <4>1. m + 1 \in 1 .. k /\ m + 1 \in 2 .. n /\ (m + 1) - 1 = m /\ k \in 1 .. n
        BY <1>2
      <4>2. fs[m + 1].what # "metinf"
        BY <4>1, <1>1 DEF Split
      <4>3. h[m + 1] = h[m] + 1
        BY <4>1, <4>2, <1>1 DEF Placed, Unwrapped
      <4>4. h[m + 1] <= h[k]
        BY <4>1, <1>1 DEF Placed
      <4> QED BY <4>3, <4>4, <3>1, <1>2
    <3>4. k2 = k /\ k \in 1 .. m /\ h2[k] = h[k]
      BY <3>3, <1>2, <1>6, <1>9
    <3>5. gs[k].what = "pcdata" /\ (k < m \/ gs[k].ext)
      BY <3>1, <3>4, <1>2, <1>4
    <3>6. q <= Len(tg2) /\ \A i \in q + 1 .. Len(tg2) : tg2[i] \in MetInfTags
      <4>1. q <= Len(tg2) /\ Len(tg2) = T - 1
        BY <3>2, <1>3
      <4>2. \A i \in q + 1 .. T - 1 : i \in q + 1 .. T /\ i \in 1 .. T - 1
        BY <3>1, <1>2
      <4> QED BY <4>1, <4>2, <3>2, <1>3
    <3>7. q >= 1 => tg2[q] \notin MetInfTags /\ (q < h[k] => tg2[q] # ope2[h[k]])
      <4> SUFFICES ASSUME q >= 1
                   PROVE  tg2[q] \notin MetInfTags /\ (q < h[k] => tg2[q] # ope2[h[k]])
        OBVIOUS
      <4>0. q \in Nat /\ q <= T - 1 /\ q <= h[k]
        BY <3>1, <3>2
      <4>1. q \in 1 .. T - 1 /\ h[k] \in 1 .. L - 1
        <5>1. T \in Nat /\ L \in Nat
          BY <1>2
        <5> QED BY <4>0, <5>1, <3>1
      <4>2. tg2[q] = tg[q] /\ ope2[h[k]] = open[h[k]]
        BY <4>1, <1>3
      <4> QED BY <4>2, <3>2
    <3>8. Barrier(k2, h2, gs, ope2, tg2)
      BY <3>2, <3>4, <3>5, <3>6, <3>7, <1>2 DEF Barrier
    <3> QED BY <2>3, <3>8
  <2>5. CASE Bottom(h, fs, open, tg)
    <3>1. /\ fs[1].tag = "SyncHdr" /\ h[1] = 2 /\ tg[1] = "SyncML" /\ open[1] = "SyncML"
          /\ \A i \in 2 .. L : open[i] # "SyncML"
      BY <2>5 DEF Bottom
    <3>2. L \in 2 .. L
      BY <2>2, <1>2
    <3>3. T # 1
      BY <3>1, <3>2, <1>3
    <3>4. /\ Len(tg2) >= 1 /\ tg2[1] = "SyncML" /\ ope2[1] = "SyncML"
          /\ \A i \in 2 .. Len(ope2) : ope2[i] # "SyncML"
      <4>0. T \in Nat /\ T >= 1 /\ L \in Nat /\ T < L
        BY <2>2, <1>2
      <4> HIDE DEF T, L
      <4>1. 1 \in 1 .. T - 1 /\ 1 \in 1 .. L - 1 /\ T - 1 >= 1
        BY <4>0, <3>3
      <4>2. \A i \in 2 .. L - 1 : i \in 2 .. L /\ i \in 1 .. L - 1
        BY <1>2
      <4> QED BY <4>1, <4>2, <3>1, <1>3
    <3>5. gs[1].tag = "SyncHdr" /\ h2[1] = 2
      BY <3>1, <1>4, <1>9, <1>10
    <3>6. Bottom(h2, gs, ope2, tg2)
      BY <3>4, <3>5 DEF Bottom
    <3> QED BY <2>3, <3>6
  <2> QED BY <2>2, <2>4, <2>5
<1>12. Fresh(gs, tg2)
  BY <1>2, <1>4, <1>10 DEF Fresh
<1>13. Root(h2, gs, ope2, told)
  <2>1. h[1] \in Nat /\ h[1] <= L - 1 /\ h2[1] = h[1] /\ gs[1].tag = fs[1].tag
    BY <1>2, <1>4, <1>9, <1>10
  <2>2. \A i \in 1 .. h[1] - 1 : ope2[i] = open[i]
    BY <2>1, <1>2, <1>3
  <2>3. Root(h, fs, open, told)
    BY DEF BuildOK
  <2> QED BY <2>1, <2>2, <2>3, RootKept
<1>14. BuildOK(k2, h2, gs, ope2, tg2, told)
  BY <1>7, <1>8, <1>11, <1>12, <1>13 DEF BuildOK
<1> QED BY <1>14

(* The same, for the three ways a build function ends inside an element.   *)
LEMMA CloseKeeps ==
  ASSUME NEW fs, fs = calls, FramesOK(fs), NEW gs, FramesOK(gs), Top = fs[Len(fs)],
         Closed(fs, gs) \/ Unwraps(fs, gs) \/ ClosedDoc(fs, gs),
         NEW open \in Seq(Names), NEW ope2 \in Seq(Names),
         NEW tg \in Seq(Names), NEW tg2 \in Seq(Names),
         Shrunk(open, ope2), Shrunk(tg, tg2), Len(tg) >= 1, Len(open) >= 1,
         tg[Len(tg)] = open[Len(open)],
         NEW k, NEW h, NEW told, BuildOK(k, h, fs, open, tg, told)
  PROVE  \E k2, h2 : BuildOK(k2, h2, gs, ope2, tg2, told)
<1> DEFINE n == Len(fs)
           L == Len(open)
<1>1. /\ n \in Nat /\ n >= 1 /\ L \in Nat /\ h[n] = L
      /\ \A j \in 1 .. n : h[j] \in Nat
      /\ \A j \in 2 .. n : h[j] = IF Unwrapped(fs[j]) THEN h[j - 1] ELSE h[j - 1] + 1
  <2>1. Placed(h, fs, open)
    BY DEF BuildOK
  <2> QED BY <2>1, Places DEF Placed
<1>2. \A j \in 2 .. n :
        /\ fs[j].what = "metinf" => fs[j - 1].what = "pcdata"
        /\ fs[j].what # "metinf" => fs[j - 1].what \in {"struct", "metinf"}
  BY DEF FramesOK
<1> HIDE DEF n, L
<1>3. CASE Closed(fs, gs)
  <2>1. n >= 2 /\ Alike(fs, gs, n - 1) /\ fs[n].what # "metinf"
    BY <1>3 DEF Closed, n
  <2>2. n \in 2 .. n /\ n - 1 \in 1 .. n /\ n - 1 < n
    BY <2>1, <1>1
  <2>3. Kin(fs, gs, n - 1)
    BY <2>1, <2>2 DEF Alike, Same, Kin, n
  <2>4. fs[n - 1].what # "pcdata"
    BY <2>1, <2>2, <1>2
  <2>5. h[n - 1] = L - 1
    <3>1. ~Unwrapped(fs[n])
      BY <2>1 DEF Unwrapped
    <3>2. h[n] = h[n - 1] + 1
      BY <3>1, <2>2, <1>1
    <3>3. h[n - 1] \in Nat /\ h[n] = L /\ L \in Nat
      BY <2>2, <1>1
    <3> QED BY <3>2, <3>3
  <2> QED BY <2>2, <2>3, <2>4, <2>5, PopKeeps DEF n, L
<1>4. CASE Unwraps(fs, gs)
  <2>1. /\ n >= 3 /\ fs[n].what = "metinf" /\ fs[n].wrapped /\ Len(gs) = n - 1
        /\ \A i \in 1 .. n - 2 : gs[i] = fs[i]
        /\ gs[n - 1].what = fs[n - 1].what /\ gs[n - 1].tag = fs[n - 1].tag
        /\ gs[n - 1].wrapped = fs[n - 1].wrapped /\ gs[n - 1].ext
    BY <1>4 DEF Unwraps, n
  <2>2. n \in 2 .. n /\ n - 1 \in 1 .. n /\ n - 1 < n
    BY <2>1, <1>1
  <2>3. Kin(fs, gs, n - 1)
    <3>1. \A i \in 1 .. n - 1 : i \in 1 .. n - 2 \/ i = n - 1
      BY <1>1
    <3> QED BY <2>1, <2>2, <3>1 DEF Kin, n
  <2>4. h[n - 1] = L - 1
    <3>1. ~Unwrapped(fs[n])
      BY <2>1 DEF Unwrapped
    <3>2. h[n] = h[n - 1] + 1
      BY <3>1, <2>2, <1>1
    <3>3. h[n - 1] \in Nat /\ h[n] = L /\ L \in Nat
      BY <2>2, <1>1
    <3> QED BY <3>2, <3>3
  <2> QED BY <2>1, <2>2, <2>3, <2>4, PopKeeps DEF n, L
<1>5. CASE ClosedDoc(fs, gs)
  <2>1. n >= 3 /\ fs[n].what = "metinf" /\ ~fs[n].wrapped /\ Alike(fs, gs, n - 2)
    BY <1>5 DEF ClosedDoc, n
  <2>2. /\ n \in 2 .. n /\ n - 1 \in 2 .. n /\ n - 2 \in 1 .. n /\ n - 2 < n
        /\ (n - 1) - 1 = n - 2
    BY <2>1, <1>1
  <2>3. Kin(fs, gs, n - 2)
    BY <2>1, <2>2 DEF Alike, Same, Kin, n
  <2>4. fs[n - 1].what = "pcdata" /\ fs[n - 2].what # "pcdata"
    BY <2>1, <2>2, <1>2
  <2>5. h[n - 1] = L
    BY <2>1, <2>2, <1>1 DEF Unwrapped
  <2>6. h[n - 1] = h[n - 2] + 1
    BY <2>2, <2>4, <1>1 DEF Unwrapped
  <2>7. h[n - 2] = L - 1
    <3>1. h[n - 2] \in Nat
      BY <2>2, <1>1
    <3> QED BY <2>5, <2>6, <3>1
  <2> DEFINE m == n - 2
  <2>8. Kin(fs, gs, m) /\ m < Len(fs) /\ fs[m].what # "pcdata" /\ h[m] = Len(open) - 1
    BY <2>2, <2>3, <2>4, <2>7 DEF n, L
  <2> HIDE DEF m
  <2> QED BY <2>8, PopKeeps
<1> QED BY <1>3, <1>4, <1>5

(* The places when PCDATA calls the build function of a MetInf document.   *)
LEMMA ExtensionPlaces ==
  ASSUME NEW fs, FramesOK(fs), NEW gs, Grown(fs, gs, Frame("metinf", "MetInf")),
         NEW open \in Seq(Names), fs[Len(fs)].what = "pcdata",
         NEW k, NEW h, Placed(h, fs, open), Split(k, h, fs, open),
         NEW h2, h2 = [j \in 1 .. Len(fs) + 1 |-> IF j <= Len(fs) THEN h[j] ELSE Len(open)]
  PROVE  Placed(h2, gs, open) /\ Split(k, h2, gs, open)
<1> DEFINE n == Len(fs)
           L == Len(open)
<1>1. /\ n \in Nat /\ n >= 1 /\ L \in Nat
      /\ \A j \in 1 .. n : h[j] \in Nat /\ h[j] <= L
  BY Places
<1>2. /\ h[n] = L
      /\ \A j \in 1 .. n : \A i \in 1 .. j : h[i] <= h[j]
      /\ \A j \in 2 .. n : h[j] = IF Unwrapped(fs[j]) THEN h[j - 1] ELSE h[j - 1] + 1
      /\ \A j \in 1 .. n :
           j > 1 \/ fs[1].tag # "SyncHdr" => h[j] >= 1 /\ open[h[j]] = Own(fs, j)
      /\ fs[1].tag = "SyncHdr" => h[1] <= 2 /\ (h[1] >= 1 => open[1] = "SyncML")
  BY DEF Placed
<1>3. /\ Len(gs) = n + 1 /\ gs[n + 1] = Frame("metinf", "MetInf")
      /\ \A i \in 1 .. n : gs[i] = fs[i]
  BY DEF Grown
<1>4. gs[n + 1].what = "metinf" /\ gs[n + 1].tag = "MetInf" /\ gs[n + 1].wrapped = FALSE
  <2>1. /\ Frame("metinf", "MetInf").what = "metinf"
        /\ Frame("metinf", "MetInf").tag = "MetInf"
        /\ Frame("metinf", "MetInf").wrapped = FALSE
    BY DEF Frame
  <2> QED BY <2>1, <1>3
<1>5. fs[1].what = "struct" /\ fs[n].what = "pcdata"
  BY DEF FramesOK
<1>6. n >= 2
  <2>1. n # 1
    BY <1>5
  <2>2. \A x \in Nat : x >= 1 /\ x # 1 => x >= 2
    OBVIOUS
  <2> QED BY <1>1, <2>1, <2>2
<1>7. /\ k \in 1 .. n
      /\ \A j \in 1 .. k : fs[j].tag \notin MetInfTags /\ fs[j].what # "metinf"
      /\ \A j \in k + 1 .. n : fs[j].tag \in MetInfTags
      /\ k < n => fs[k].what = "pcdata"
      /\ \A i \in h[k] + 1 .. L : open[i] \in MetInfTags
  BY DEF Split
<1>8. /\ h2 = [j \in 1 .. n + 1 |-> IF j <= n THEN h[j] ELSE L]
      /\ Len(open) = L
  OBVIOUS
<1> HIDE DEF n, L
<1>9. h2 \in [1 .. n + 1 -> Nat] /\ h2[n + 1] = L /\ \A j \in 1 .. n : h2[j] = h[j]
  BY <1>1, <1>8
<1>10. /\ \A j \in 1 .. n + 1 : j \in 1 .. n \/ j = n + 1
       /\ \A j \in 1 .. n : \A i \in 1 .. j : i \in 1 .. n
       /\ \A j \in 2 .. n : j \in 1 .. n /\ j - 1 \in 1 .. n
       /\ \A j \in 2 .. n + 1 : j \in 2 .. n \/ j = n + 1
       /\ 1 \in 1 .. n /\ n \in 1 .. n /\ (n + 1) - 1 = n /\ n > 1
  BY <1>1, <1>6
<1>11. Placed(h2, gs, open)
  <2>1. \A j \in 1 .. n + 1 : \A i \in 1 .. j : h2[i] <= h2[j]
    <3> TAKE j \in 1 .. n + 1
    <3> TAKE i \in 1 .. j
    <3>1. CASE j \in 1 .. n
      BY <3>1, <1>2, <1>9, <1>10
    <3>2. CASE j = n + 1
      <4>1. i \in 1 .. n \/ i = n + 1
        BY <3>2, <1>10
      <4>2. \A i2 \in 1 .. n : h2[i2] <= L
        BY <1>1, <1>9
      <4>3. L <= L
        BY <1>1
      <4> QED BY <3>2, <4>1, <4>2, <4>3, <1>9
    <3> QED BY <3>1, <3>2, <1>10
  <2>2. \A j \in 2 .. n + 1 :
          h2[j] = IF Unwrapped(gs[j]) THEN h2[j - 1] ELSE h2[j - 1] + 1
    <3> TAKE j \in 2 .. n + 1
    <3>1. CASE j \in 2 .. n
      BY <3>1, <1>2, <1>3, <1>9, <1>10
    <3>2. CASE j = n + 1
      <4>1. Unwrapped(gs[j])
        BY <3>2, <1>4 DEF Unwrapped
      <4> QED BY <3>2, <4>1, <1>2, <1>9, <1>10
    <3> QED BY <3>1, <3>2, <1>10
  <2>3. ASSUME NEW j \in 1 .. n + 1, j > 1 \/ gs[1].tag # "SyncHdr"
        PROVE  h2[j] >= 1 /\ open[h2[j]] = Own(gs, j)
    <3>1. CASE j \in 1 .. n
      <4>1. Own(gs, j) = Own(fs, j)
        <5>1. CASE j = 1
          BY <5>1, <1>3, <1>5, <1>10 DEF Own
        <5>2. CASE j # 1
          <6>1. j \in 2 .. n
            BY <3>1, <5>2, <1>1
          <6> QED BY <6>1, <1>3, <1>10 DEF Own
        <5> QED BY <5>1, <5>2
      <4> QED BY <2>3, <3>1, <4>1, <1>2, <1>3, <1>9, <1>10
    <3>2. CASE j = n + 1
      <4>1. Own(gs, j) = fs[n].tag
        BY <3>2, <1>3, <1>4, <1>10 DEF Own
      <4>2. Own(fs, n) = fs[n].tag
        BY <1>5 DEF Own
      <4>3. h[n] >= 1 /\ open[h[n]] = Own(fs, n)
        BY <1>2, <1>10
      <4> QED BY <3>2, <4>1, <4>2, <4>3, <1>2, <1>9
    <3> QED BY <3>1, <3>2, <1>10
  <2>4. gs[1].tag = "SyncHdr" => h2[1] <= 2 /\ (h2[1] >= 1 => open[1] = "SyncML")
    BY <1>2, <1>3, <1>9, <1>10
  <2> QED BY <1>3, <1>8, <1>9, <2>1, <2>2, <2>3, <2>4 DEF Placed
<1>12. Split(k, h2, gs, open)
  <2>1. k \in 1 .. n + 1 /\ h2[k] = h[k]
    BY <1>1, <1>7, <1>9
  <2>2. \A j \in 1 .. k : gs[j].tag \notin MetInfTags /\ gs[j].what # "metinf"
    <3>1. \A j \in 1 .. k : j \in 1 .. n
      BY <1>1, <1>7
    <3> QED BY <3>1, <1>3, <1>7
  <2>3. \A j \in k + 1 .. n + 1 : gs[j].tag \in MetInfTags
    <3>0. k \in Nat
      BY <1>7
    <3>1. \A j \in k + 1 .. n + 1 : (j \in 1 .. n /\ j \in k + 1 .. n) \/ j = n + 1
      BY <3>0, <1>1
    <3>2. "MetInf" \in MetInfTags
      BY DEF MetInfTags, MetInfParts
    <3> QED BY <3>1, <3>2, <1>3, <1>4, <1>7
  <2>4. gs[k].what = "pcdata"
    <3>1. k < n \/ k = n
      BY <1>1, <1>7
    <3> QED BY <3>1, <1>3, <1>5, <1>7
  <2> QED BY <2>1, <2>2, <2>3, <2>4, <1>3, <1>7, <1>8 DEF Split
<1> QED BY <1>11, <1>12

(* The stacks drift apart: the decoder forgets the tag of the PCDATA that  *)
(* a MetInf document begins in, because that document begins with an empty *)
(* tag.  It can then not get rid of the tags below.                        *)
LEMMA DriftBegins ==
  ASSUME NEW fs, FramesOK(fs), NEW open \in Seq(Names), NEW tg2 \in Seq(Names),
         Shrunk(open, tg2), fs[Len(fs)].what = "pcdata",
         NEW k, NEW h, Placed(h, fs, open), Split(k, h, fs, open)
  PROVE  /\ Len(tg2) < Len(open)
         /\ \/ \E q \in 0 .. h[k] :
                 /\ q <= Len(tg2)
                 /\ \A i \in q + 1 .. Len(tg2) : tg2[i] \in MetInfTags
                 /\ q >= 1 => tg2[q] \notin MetInfTags /\ (q < h[k] => tg2[q] # open[h[k]])
            \/ Bottom(h, fs, open, tg2)
<1> DEFINE n == Len(fs)
           L == Len(open)
<1>1. /\ n \in Nat /\ n >= 1 /\ L \in Nat
      /\ \A j \in 1 .. n : h[j] \in Nat /\ h[j] <= L
  BY Places
<1>2. /\ h[n] = L
      /\ \A j \in 1 .. n : \A i \in 1 .. j : h[i] <= h[j]
      /\ \A j \in 2 .. n : h[j] = IF Unwrapped(fs[j]) THEN h[j - 1] ELSE h[j - 1] + 1
      /\ \A j \in 1 .. n :
           j > 1 \/ fs[1].tag # "SyncHdr" => h[j] >= 1 /\ open[h[j]] = Own(fs, j)
      /\ fs[1].tag = "SyncHdr" => h[1] <= 2 /\ (h[1] >= 1 => open[1] = "SyncML")
  BY DEF Placed
<1>3. Len(tg2) = L - 1 /\ \A i \in 1 .. L - 1 : tg2[i] = open[i]
  BY DEF Shrunk
<1>4. /\ k \in 1 .. n
      /\ \A j \in 1 .. k : fs[j].tag \notin MetInfTags /\ fs[j].what # "metinf"
      /\ \A j \in k + 1 .. n : fs[j].tag \in MetInfTags
      /\ k < n => fs[k].what = "pcdata"
      /\ \A i \in h[k] + 1 .. L : open[i] \in MetInfTags
  BY DEF Split
<1>5. /\ fs[1].what = "struct" /\ fs[n].what = "pcdata"
      /\ \A j \in 1 .. n : FrameOK(fs[j])
      /\ \A j \in 2 .. n : fs[j].what # "metinf" => fs[j - 1].what \in {"struct", "metinf"}
  BY DEF FramesOK
<1>6. n >= 2
  <2>1. n # 1
    BY <1>5
  <2>2. \A x \in Nat : x >= 1 /\ x # 1 => x >= 2
    OBVIOUS
  <2> QED BY <1>1, <2>1, <2>2
<1> HIDE DEF n
<1>7. n \in 2 .. n /\ n \in 1 .. n /\ n - 1 \in 1 .. n /\ 1 \in 1 .. n /\ n > 1
  BY <1>1, <1>6
<1>8. h[n - 1] = L - 1 /\ L >= 1 /\ open[L] = fs[n].tag
  <2>1. L = h[n - 1] + 1
    BY <1>2, <1>5, <1>7 DEF Unwrapped
  <2>2. h[n] >= 1 /\ open[h[n]] = Own(fs, n)
    BY <1>2, <1>7
  <2>3. h[n - 1] \in Nat
    BY <1>1, <1>7
  <2> QED BY <2>1, <2>2, <2>3, <1>1, <1>2, <1>5 DEF Own
<1> HIDE DEF L
<1>9. Len(tg2) < L
  BY <1>1, <1>3
<1>10. CASE k < n
  <2>1. h[k] \in Nat /\ h[k] <= L - 1 /\ k # 1
    <3>1. k \in 1 .. n - 1 /\ n - 1 \in 1 .. n
      BY <1>10, <1>1, <1>4, <1>7
    <3>2. h[k] <= h[n - 1]
      BY <3>1, <1>2
    <3> QED BY <3>2, <1>1, <1>4, <1>5, <1>8, <1>10
  <2>2. h[k] >= 1 /\ open[h[k]] = fs[k].tag
    <3>1. k > 1
      BY <2>1, <1>4
    <3> QED BY <3>1, <1>2, <1>4, <1>10 DEF Own
  <2>3. tg2[h[k]] = open[h[k]] /\ fs[k].tag \notin MetInfTags
    BY <2>1, <2>2, <1>3, <1>4
  <2>4. \A i \in h[k] + 1 .. Len(tg2) : tg2[i] \in MetInfTags
    <3>1. \A i \in h[k] + 1 .. L - 1 : i \in 1 .. L - 1 /\ i \in h[k] + 1 .. L
      BY <2>1, <1>1
    <3> QED BY <3>1, <1>3, <1>4
  <2>5. h[k] \in 0 .. h[k] /\ ~(h[k] < h[k]) /\ h[k] <= Len(tg2)
    BY <2>1, <1>3
  <2> QED BY <2>2, <2>3, <2>4, <2>5, <1>9 DEF L
<1>11. CASE k = n
  <2>1. h[k] = L /\ L - 1 \in 0 .. L
    BY <1>11, <1>1, <1>2, <1>8
  <2>2. fs[n].tag \in TextTags
    <3>1. fs[n].tag \in TextTags \cup MetInfTexts
      BY <1>5, <1>7 DEF FrameOK
    <3> QED BY <3>1, <1>4, <1>7, <1>11 DEF MetInfTags
  <2>3. \A i \in (L - 1) + 1 .. Len(tg2) : FALSE
    BY <1>1, <1>3
  <2>4. L - 1 <= Len(tg2)
    BY <1>1, <1>3
  <2>5. ASSUME L - 1 >= 1, open[L - 1] \notin MetInfTags \cup TextTags
        PROVE  tg2[L - 1] \notin MetInfTags /\ tg2[L - 1] # open[L]
    BY <2>2, <2>5, <1>1, <1>3, <1>8
  <2>6. CASE L - 1 < 1 \/ open[L - 1] \notin MetInfTags \cup TextTags
    <3>1. L - 1 >= 1 => tg2[L - 1] \notin MetInfTags /\ (L - 1 < h[k] => tg2[L - 1] # open[h[k]])
      BY <2>1, <2>5, <2>6, <1>1
    <3> QED BY <2>1, <2>3, <2>4, <3>1, <1>9 DEF L
  <2>7. CASE n # 2 \/ fs[1].tag # "SyncHdr"
    <3>1. n - 1 > 1 \/ fs[1].tag # "SyncHdr"
      BY <2>7, <1>1, <1>6
    <3>2. open[L - 1] = Own(fs, n - 1)
      BY <3>1, <1>2, <1>7, <1>8
    <3>3. n - 1 \in 1 .. k
      BY <1>1, <1>6, <1>11
    <3>4. fs[n - 1].what = "struct" /\ fs[n - 1].tag \notin MetInfTags
      BY <3>3, <1>4, <1>5, <1>7
    <3>5. fs[n - 1].tag \in Roots \cup PartTags
      BY <3>4, <1>5, <1>7 DEF FrameOK, MetInfTags
    <3>6. open[L - 1] = fs[n - 1].tag
      BY <3>2, <3>4 DEF Own
    <3>7. open[L - 1] \notin MetInfTags \cup TextTags
      BY <3>4, <3>5, <3>6, KindsDisjoint
    <3> QED BY <2>6, <3>7
  <2>8. CASE n = 2 /\ fs[1].tag = "SyncHdr"
    <3>1. h[1] = L - 1 /\ h[1] <= 2 /\ (h[1] >= 1 => open[1] = "SyncML")
      BY <2>8, <1>2, <1>8
    <3>2. "SyncML" \notin MetInfTags \cup TextTags
      BY KindsDisjoint
    <3>3. CASE L = 1
      BY <2>6, <3>3
    <3>4. CASE L = 2
      <4>1. open[L - 1] = "SyncML"
        BY <3>1, <3>4
      <4> QED BY <2>6, <3>2, <4>1
    <3>5. CASE L = 3
      <4>1. CASE open[2] = "SyncML"
        <5>1. open[L - 1] = "SyncML"
          BY <3>5, <4>1
        <5> QED BY <2>6, <3>2, <5>1
      <4>2. CASE open[2] # "SyncML"
        <5>1. open[3] # "SyncML"
          BY <2>2, <3>5, <1>8, KindsDisjoint
        <5>2. \A i \in 2 .. 3 : open[i] # "SyncML"
          <6>1. \A i \in 2 .. 3 : i = 2 \/ i = 3
            OBVIOUS
          <6> QED BY <4>2, <5>1, <6>1
        <5>3. Len(tg2) >= 1 /\ tg2[1] = "SyncML" /\ open[1] = "SyncML" /\ h[1] = 2
          BY <3>1, <3>5, <1>3
        <5>4. Bottom(h, fs, open, tg2)
          BY <2>8, <3>5, <5>2, <5>3 DEF Bottom, L
        <5> QED BY <5>4, <1>9 DEF L
      <4> QED BY <4>1, <4>2
    <3>6. L \in {1, 2, 3}
      BY <3>1, <1>1, <1>8
    <3> QED BY <3>3, <3>4, <3>5, <3>6
  <2> QED BY <2>7, <2>8
<1> QED BY <1>1, <1>4, <1>10, <1>11

(* A MetInf document begins in PCDATA.                                     *)
LEMMA ExtensionKeeps ==
  ASSUME NEW fs, FramesOK(fs), NEW gs, FramesOK(gs),
         Grown(fs, gs, Frame("metinf", "MetInf")),
         NEW open \in Seq(Names), NEW tg \in Seq(Names), NEW tg2 \in Seq(Names),
         tg2 = tg \/ Shrunk(tg, tg2),
         fs[Len(fs)].what = "pcdata", fs[Len(fs)].text = << >>, ~fs[Len(fs)].ext,
         NEW k, NEW h, NEW told, BuildOK(k, h, fs, open, tg, told)
  PROVE  \E k2, h2 : BuildOK(k2, h2, gs, open, tg2, told)
<1> DEFINE n == Len(fs)
           L == Len(open)
           T == Len(tg)
           h2 == [j \in 1 .. n + 1 |-> IF j <= n THEN h[j] ELSE L]
<1>1. Placed(h, fs, open) /\ Split(k, h, fs, open)
  BY DEF BuildOK
<1>2. /\ n \in Nat /\ n >= 1 /\ L \in Nat /\ T \in Nat /\ k \in 1 .. n
      /\ \A j \in 1 .. n : h[j] \in Nat /\ h[j] <= L
  BY <1>1, Places, LenProperties DEF Split
<1>3. T >= 1 /\ tg[T] = fs[n].tag
  BY DEF BuildOK, Fresh
<1>4. /\ Len(gs) = n + 1 /\ gs[n + 1] = Frame("metinf", "MetInf")
      /\ \A i \in 1 .. n : gs[i] = fs[i]
  BY DEF Grown
<1>5. h2 = [j \in 1 .. Len(fs) + 1 |-> IF j <= Len(fs) THEN h[j] ELSE Len(open)]
  OBVIOUS
<1>6. \A j \in 1 .. n : h2[j] = h[j]
  BY <1>2
<1> HIDE DEF h2
<1>7. Placed(h2, gs, open) /\ Split(k, h2, gs, open)
  BY <1>1, <1>5, ExtensionPlaces
<1>8. 1 \in 1 .. n /\ n \in 1 .. n /\ k < n + 1 /\ h2[k] = h[k] /\ h2[1] = h[1]
  BY <1>2, <1>6
<1>9. gs[k].what = "pcdata"
  <2>1. k < n \/ k = n
    BY <1>2
  <2>2. k < n => fs[k].what = "pcdata"
    BY <1>1 DEF Split
  <2> QED BY <2>1, <2>2, <1>2, <1>4
<1>10. Drift(k, h2, gs, open, tg2)
  <2> SUFFICES ASSUME tg2 # open
               PROVE  /\ Len(tg2) < L
                      /\ Barrier(k, h2, gs, open, tg2) \/ Bottom(h2, gs, open, tg2)
    BY DEF Drift
  <2>1. ASSUME \E q \in 0 .. h[k] :
                 /\ q <= Len(tg2)
                 /\ \A i \in q + 1 .. Len(tg2) : tg2[i] \in MetInfTags
                 /\ q >= 1 => tg2[q] \notin MetInfTags /\ (q < h[k] => tg2[q] # open[h[k]])
        PROVE  Barrier(k, h2, gs, open, tg2)
    BY <2>1, <1>4, <1>8, <1>9 DEF Barrier
  <2>2. ASSUME Bottom(h, fs, open, tg2)
        PROVE  Bottom(h2, gs, open, tg2)
    BY <2>2, <1>4, <1>8 DEF Bottom
  <2>3. CASE tg = open /\ Shrunk(tg, tg2)
    BY <2>1, <2>2, <2>3, <1>1, DriftBegins
  <2>4. CASE tg # open
    <3>1. T < L /\ (Barrier(k, h, fs, open, tg) \/ Bottom(h, fs, open, tg))
      BY <2>4 DEF BuildOK, Drift
    <3>2. CASE tg2 = tg
      <4>1. Barrier(k, h, fs, open, tg) => Barrier(k, h2, gs, open, tg2)
        BY <2>1, <3>2 DEF Barrier
      <4> QED BY <2>2, <3>1, <3>2, <4>1
    <3>3. CASE Shrunk(tg, tg2)
      <4>1. Len(tg2) = T - 1 /\ \A i \in 1 .. T - 1 : tg2[i] = tg[i]
        BY <3>3 DEF Shrunk
      <4>2. Len(tg2) < L
        BY <3>1, <4>1, <1>2
      <4>3. CASE Barrier(k, h, fs, open, tg)
        <5>1. PICK q \in 0 .. h[k] :
                /\ q <= T
                /\ \A i \in q + 1 .. T : tg[i] \in MetInfTags
                /\ q >= 1 => tg[q] \notin MetInfTags /\ (q < h[k] => tg[q] # open[h[k]])
          BY <4>3 DEF Barrier
        <5>2. k < n
          BY <4>3, <1>2 DEF Barrier
        <5>3. fs[n].tag \in MetInfTags
          BY <5>2, <1>1, <1>2 DEF Split
        <5>4. q <= T - 1
          <6>1. q # T
            BY <5>1, <5>3, <1>2, <1>3
          <6>2. q \in Nat
            BY <5>1, <1>2
          <6> QED BY <5>1, <6>1, <6>2, <1>2
        <5>5. q \in Nat /\ q <= Len(tg2)
          BY <5>1, <5>4, <4>1, <1>2
        <5>6. \A i \in q + 1 .. Len(tg2) : tg2[i] \in MetInfTags
          <6>1. \A i \in q + 1 .. T - 1 : i \in q + 1 .. T /\ i \in 1 .. T - 1
            BY <5>5, <1>2
          <6> QED BY <4>1, <5>1, <6>1
        <5>7. q >= 1 => tg2[q] = tg[q]
          BY <4>1, <5>4, <5>5, <1>2
        <5>8. Barrier(k, h2, gs, open, tg2)
          BY <2>1, <5>1, <5>5, <5>6, <5>7
        <5> QED BY <4>2, <5>8
      <4>4. CASE Bottom(h, fs, open, tg)
        <5>1. fs[n].tag # "SyncML"
          <6>1. fs[n].tag \in TextTags \cup MetInfTexts
            BY <1>8 DEF FramesOK, FrameOK
          <6> QED BY <6>1, KindsDisjoint DEF MetInfTags
        <5>2. T # 1
          BY <4>4, <5>1, <1>3 DEF Bottom
        <5>3. Len(tg2) >= 1 /\ tg2[1] = tg[1]
          BY <5>2, <4>1, <1>2, <1>3
        <5>4. Bottom(h, fs, open, tg2)
          BY <4>4, <5>3 DEF Bottom
        <5> QED BY <2>2, <4>2, <5>4
      <4> QED BY <3>1, <4>3, <4>4
    <3> QED BY <3>2, <3>3
  <2> QED BY <2>3, <2>4
<1>11. Fresh(gs, tg2)
  <2>1. gs[Len(gs)].what = "metinf"
    <3>1. Frame("metinf", "MetInf").what = "metinf"
      BY DEF Frame
    <3> QED BY <3>1, <1>4
  <2> QED BY <2>1 DEF Fresh
<1>12. Root(h2, gs, open, told)
  BY <1>4, <1>8 DEF BuildOK, Root
<1>13. BuildOK(k, h2, gs, open, tg2, told)
  BY <1>7, <1>10, <1>11, <1>12 DEF BuildOK
<1> QED BY <1>13

(* A MetInf document turns out to have a wrapper.                          *)
LEMMA WrapperKeeps ==
  ASSUME NEW fs, FramesOK(fs), NEW gs, FramesOK(gs), Len(gs) = Len(fs),
         \A i \in 1 .. Len(fs) - 1 : gs[i] = fs[i],
         fs[Len(fs)].what = "metinf", ~fs[Len(fs)].wrapped,
         gs[Len(fs)].what = "metinf", gs[Len(fs)].tag = fs[Len(fs)].tag,
         gs[Len(fs)].wrapped,
         NEW open \in Seq(Names), NEW ope2 \in Seq(Names),
         NEW tg \in Seq(Names), NEW tg2 \in Seq(Names),
         Grown(open, ope2, "MetInf"), Grown(tg, tg2, "MetInf"),
         NEW k, NEW h, NEW told, BuildOK(k, h, fs, open, tg, told)
  PROVE  \E k2, h2 : BuildOK(k2, h2, gs, ope2, tg2, told)
<1> DEFINE n  == Len(fs)
           L  == Len(open)
           T  == Len(tg)
           h2 == [j \in 1 .. n |-> IF j < n THEN h[j] ELSE L + 1]
<1>1. Placed(h, fs, open) /\ Split(k, h, fs, open)
  BY DEF BuildOK
<1>2. /\ n \in Nat /\ n >= 1 /\ L \in Nat /\ T \in Nat /\ k \in 1 .. n
      /\ \A j \in 1 .. n : h[j] \in Nat /\ h[j] <= L
  BY <1>1, Places, LenProperties DEF Split
<1>3. /\ h[n] = L
      /\ \A j \in 1 .. n : \A i \in 1 .. j : h[i] <= h[j]
      /\ \A j \in 2 .. n : h[j] = IF Unwrapped(fs[j]) THEN h[j - 1] ELSE h[j - 1] + 1
      /\ \A j \in 1 .. n :
           j > 1 \/ fs[1].tag # "SyncHdr" => h[j] >= 1 /\ open[h[j]] = Own(fs, j)
      /\ fs[1].tag = "SyncHdr" => h[1] <= 2 /\ (h[1] >= 1 => open[1] = "SyncML")
  BY <1>1 DEF Placed
<1>4. Len(ope2) = L + 1 /\ ope2[L + 1] = "MetInf" /\ \A i \in 1 .. L : ope2[i] = open[i]
  BY DEF Grown
<1>5. Len(tg2) = T + 1 /\ tg2[T + 1] = "MetInf" /\ \A i \in 1 .. T : tg2[i] = tg[i]
  BY DEF Grown
<1>6. /\ Len(gs) = n /\ \A i \in 1 .. n - 1 : gs[i] = fs[i]
  OBVIOUS
<1>7. /\ fs[n].what = "metinf" /\ ~fs[n].wrapped /\ gs[n].what = "metinf"
      /\ gs[n].tag = fs[n].tag /\ gs[n].wrapped
  OBVIOUS
<1>8. fs[1].what = "struct"
  BY DEF FramesOK
<1>9. n >= 2
  <2>1. n # 1
    BY <1>7, <1>8
  <2>2. \A x \in Nat : x >= 1 /\ x # 1 => x >= 2
    OBVIOUS
  <2> QED BY <1>2, <2>1, <2>2
<1>10. "MetInf" \in MetInfTags /\ "MetInf" # "SyncML"
  BY DEF MetInfTags, MetInfParts
<1>11. /\ \A j \in 1 .. k : fs[j].tag \notin MetInfTags /\ fs[j].what # "metinf"
       /\ \A j \in k + 1 .. n : fs[j].tag \in MetInfTags
       /\ k < n => fs[k].what = "pcdata"
       /\ \A i \in h[k] + 1 .. L : open[i] \in MetInfTags
  BY <1>1 DEF Split
<1>12. h2 \in [1 .. n -> Nat] /\ h2[n] = L + 1 /\ \A j \in 1 .. n - 1 : h2[j] = h[j]
  BY <1>2
<1> HIDE DEF n, L, T, h2
<1>13. /\ \A j \in 1 .. n : j \in 1 .. n - 1 \/ j = n
       /\ \A j \in 1 .. n - 1 : j \in 1 .. n
       /\ \A j \in 1 .. n - 1 : \A i \in 1 .. j : i \in 1 .. n - 1
       /\ \A j \in 2 .. n : j = n \/ (j \in 1 .. n - 1)
       /\ \A j \in 2 .. n : j - 1 \in 1 .. n - 1
       /\ 1 \in 1 .. n - 1 /\ n - 1 \in 1 .. n - 1 /\ n \in 2 .. n /\ n \in 1 .. n
  BY <1>2, <1>9
<1>14. k < n
  BY <1>2, <1>7, <1>11
<1>15. k \in 1 .. n - 1 /\ h2[k] = h[k]
  BY <1>2, <1>12, <1>14
<1>16. Placed(h2, gs, ope2)
  <2>1. \A j \in 1 .. n : \A i \in 1 .. j : h2[i] <= h2[j]
    <3> TAKE j \in 1 .. n
    <3> TAKE i \in 1 .. j
    <3>1. CASE j \in 1 .. n - 1
      BY <3>1, <1>3, <1>12, <1>13
    <3>2. CASE j = n
      <4>1. i \in 1 .. n - 1 \/ i = n
        BY <3>2, <1>13
      <4>2. \A i2 \in 1 .. n - 1 : h2[i2] <= L + 1
        <5> TAKE i2 \in 1 .. n - 1
        <5>1. h2[i2] = h[i2] /\ h[i2] \in Nat /\ h[i2] <= L
          BY <1>2, <1>12, <1>13
        <5> QED BY <5>1, <1>2
      <4>3. L + 1 <= L + 1
        BY <1>2
      <4> QED BY <3>2, <4>1, <4>2, <4>3, <1>12
    <3> QED BY <3>1, <3>2, <1>13
  <2>2. \A j \in 2 .. n : h2[j] = IF Unwrapped(gs[j]) THEN h2[j - 1] ELSE h2[j - 1] + 1
    <3> TAKE j \in 2 .. n
    <3>1. CASE j \in 1 .. n - 1
      <4>1. h2[j] = h[j] /\ h2[j - 1] = h[j - 1] /\ gs[j] = fs[j]
        BY <3>1, <1>6, <1>12, <1>13
      <4> QED BY <4>1, <1>3
    <3>2. CASE j = n
      <4>1. ~Unwrapped(gs[n]) /\ Unwrapped(fs[n])
        BY <1>7 DEF Unwrapped
      <4>2. h[n - 1] = L /\ h2[n - 1] = h[n - 1]
        BY <4>1, <1>3, <1>12, <1>13
      <4> QED BY <3>2, <4>1, <4>2, <1>12
    <3> QED BY <3>1, <3>2, <1>13
  <2>3. ASSUME NEW j \in 1 .. n, j > 1 \/ gs[1].tag # "SyncHdr"
        PROVE  h2[j] >= 1 /\ ope2[h2[j]] = Own(gs, j)
    <3>1. CASE j \in 1 .. n - 1
      <4>1. Own(gs, j) = Own(fs, j)
        <5>1. CASE j = 1
          BY <5>1, <1>6, <1>8, <1>13 DEF Own
        <5>2. CASE j # 1
          <6>1. j \in 2 .. n
            BY <5>2, <1>2
          <6> QED BY <3>1, <6>1, <1>6, <1>13 DEF Own
        <5> QED BY <5>1, <5>2
      <4>2. h[j] >= 1 /\ open[h[j]] = Own(fs, j)
        BY <2>3, <1>3, <1>6, <1>13
      <4>3. h[j] \in 1 .. L
        BY <4>2, <1>2
      <4> QED BY <3>1, <4>1, <4>2, <4>3, <1>4, <1>12
    <3>2. CASE j = n
      <4>1. Own(gs, n) = "MetInf"
        BY <1>7 DEF Own
      <4> QED BY <3>2, <4>1, <1>2, <1>4, <1>12
    <3> QED BY <3>1, <3>2, <1>13
  <2>4. gs[1].tag = "SyncHdr" => h2[1] <= 2 /\ (h2[1] >= 1 => ope2[1] = "SyncML")
    <3>1. h[1] \in Nat /\ h[1] <= L /\ h2[1] = h[1] /\ gs[1] = fs[1]
      BY <1>2, <1>6, <1>12, <1>13
    <3>2. h[1] >= 1 => 1 \in 1 .. L
      BY <3>1, <1>2
    <3> QED BY <3>1, <3>2, <1>3, <1>4
  <2> QED BY <1>4, <1>6, <1>12, <2>1, <2>2, <2>3, <2>4 DEF Placed
<1>17. Split(k, h2, gs, ope2)
  <2>1. \A j \in 1 .. k : gs[j].tag \notin MetInfTags /\ gs[j].what # "metinf"
    <3>1. \A j \in 1 .. k : j \in 1 .. n - 1
      BY <1>15, <1>13
    <3> QED BY <3>1, <1>6, <1>11
  <2>2. \A j \in k + 1 .. n : gs[j].tag \in MetInfTags
    <3>1. \A j \in k + 1 .. n : j \in 1 .. n - 1 \/ j = n
      BY <1>2
    <3>2. \A j \in k + 1 .. n : gs[j].tag = fs[j].tag
      BY <3>1, <1>6, <1>7
    <3> QED BY <3>2, <1>11
  <2>3. gs[k].what = "pcdata"
    BY <1>6, <1>11, <1>14, <1>15
  <2>4. \A i \in h[k] + 1 .. L + 1 : ope2[i] \in MetInfTags
    <3>1. h[k] \in Nat
      BY <1>2
    <3>2. \A i \in h[k] + 1 .. L + 1 : i = L + 1 \/ (i \in 1 .. L /\ i \in h[k] + 1 .. L)
      BY <3>1, <1>2
    <3> QED BY <3>2, <1>4, <1>10, <1>11
  <2> QED BY <2>1, <2>2, <2>3, <2>4, <1>2, <1>4, <1>6, <1>15 DEF Split
<1>18. Drift(k, h2, gs, ope2, tg2)
  <2> SUFFICES ASSUME tg2 # ope2
               PROVE  /\ Len(tg2) < Len(ope2)
                      /\ Barrier(k, h2, gs, ope2, tg2) \/ Bottom(h2, gs, ope2, tg2)
    BY DEF Drift
  <2>1. tg # open
    BY StaysEqual
  <2>2. /\ T < L
        /\ Barrier(k, h, fs, open, tg) \/ Bottom(h, fs, open, tg)
    BY <2>1 DEF BuildOK, Drift, T, L
  <2>3. Len(tg2) < Len(ope2)
    BY <2>2, <1>2, <1>4, <1>5
  <2>4. CASE Barrier(k, h, fs, open, tg)
    <3>1. PICK q \in 0 .. h[k] :
            /\ q <= T
            /\ \A i \in q + 1 .. T : tg[i] \in MetInfTags
            /\ q >= 1 => tg[q] \notin MetInfTags /\ (q < h[k] => tg[q] # open[h[k]])
      BY <2>4 DEF Barrier, T
    <3>2. gs[k].what = "pcdata"
      BY <1>6, <1>11, <1>14, <1>15
    <3>3. q \in Nat /\ h[k] \in Nat /\ h[k] <= L
      BY <3>1, <1>2
    <3>4. q <= Len(tg2)
      BY <3>1, <3>3, <1>2, <1>5
    <3>5. \A i \in q + 1 .. Len(tg2) : tg2[i] \in MetInfTags
      <4>1. \A i \in q + 1 .. T + 1 : i = T + 1 \/ (i \in 1 .. T /\ i \in q + 1 .. T)
        BY <3>3, <1>2
      <4> QED BY <3>1, <4>1, <1>5, <1>10
    <3>6. q >= 1 => tg2[q] = tg[q]
      BY <3>1, <3>3, <1>2, <1>5
    <3>7. q < h[k] => ope2[h[k]] = open[h[k]]
      BY <3>3, <1>2, <1>4
    <3>8. Barrier(k, h2, gs, ope2, tg2)
      BY <3>1, <3>2, <3>4, <3>5, <3>6, <3>7, <1>6, <1>14, <1>15 DEF Barrier
    <3> QED BY <2>3, <3>8
  <2>5. CASE Bottom(h, fs, open, tg)
    <3>1. /\ fs[1].tag = "SyncHdr" /\ h[1] = 2 /\ tg[1] = "SyncML" /\ open[1] = "SyncML"
          /\ T >= 1 /\ \A i \in 2 .. L : open[i] # "SyncML"
      BY <2>5 DEF Bottom, L, T
    <3>2. gs[1].tag = "SyncHdr" /\ h2[1] = 2
      BY <3>1, <1>6, <1>12, <1>13
    <3>3. Len(tg2) >= 1 /\ tg2[1] = "SyncML" /\ ope2[1] = "SyncML"
      <4>1. 1 \in 1 .. T /\ 1 \in 1 .. L
        BY <2>2, <3>1, <1>2
      <4>2. Len(tg2) >= 1
        BY <1>2, <1>5
      <4> QED BY <3>1, <4>1, <4>2, <1>4, <1>5
    <3>4. \A i \in 2 .. Len(ope2) : ope2[i] # "SyncML"
      <4>1. \A i \in 2 .. L + 1 : i = L + 1 \/ (i \in 1 .. L /\ i \in 2 .. L)
        BY <1>2
      <4> QED BY <3>1, <4>1, <1>4, <1>10
    <3>5. Bottom(h2, gs, ope2, tg2)
      BY <3>2, <3>3, <3>4 DEF Bottom
    <3> QED BY <2>3, <3>5
  <2> QED BY <2>2, <2>4, <2>5
<1>19. Fresh(gs, tg2)
  BY <1>6, <1>7 DEF Fresh
<1>20. Root(h2, gs, ope2, told)
  <2>1. h[1] \in Nat /\ h[1] <= L /\ h2[1] = h[1] /\ gs[1].tag = fs[1].tag
    BY <1>2, <1>6, <1>12, <1>13
  <2>2. \A i \in 1 .. h[1] - 1 : ope2[i] = open[i]
    <3>1. \A i \in 1 .. h[1] - 1 : i \in 1 .. L
      BY <2>1, <1>2
    <3> QED BY <3>1, <1>4
  <2>3. Root(h, fs, open, told)
    BY DEF BuildOK
  <2> QED BY <2>1, <2>2, <2>3, RootKept
<1>21. BuildOK(k, h2, gs, ope2, tg2, told)
  BY <1>16, <1>17, <1>18, <1>19, <1>20 DEF BuildOK
<1> QED BY <1>21

(***************************************************************************)
(* Groups.                                                                 *)
(***************************************************************************)
(* How deep the groups are, tag by tag.                                    *)
LEMMA Depths ==
  ASSUME NEW open, NEW n \in Nat
  PROVE  /\ Depth(open, n) \in Nat
         /\ n <= 2 => Depth(open, n) = 0
         /\ n >= 3 =>
              Depth(open, n) = Depth(open, n - 1) + (IF open[n] = "Final" THEN 0 ELSE 1)
         /\ \A p \in 3 .. n : open[p] # "Final" => Depth(open, p) \in 1 .. Depth(open, n)
<1> DEFINE D(m) == {p \in 3 .. m : open[p] # "Final"}
<1>1. ASSUME NEW m \in Int
      PROVE  IsFiniteSet(D(m)) /\ Cardinality(D(m)) \in Nat
  <2>1. IsFiniteSet(3 .. m)
    BY FS_Interval
  <2>2. D(m) \in SUBSET (3 .. m)
    OBVIOUS
  <2>3. IsFiniteSet(D(m))
    BY <2>1, <2>2, FS_Subset
  <2> QED BY <2>3, FS_CardinalityType
<1>2. \A m \in Int : Depth(open, m) = Cardinality(D(m))
  BY DEF Depth
<1>3. Depth(open, n) \in Nat
  <2>1. n \in Int
    OBVIOUS
  <2>2. Cardinality(D(n)) \in Nat
    BY <1>1, <2>1
  <2> QED BY <1>2, <2>1, <2>2
<1>4. n <= 2 => Depth(open, n) = 0
  <2> SUFFICES ASSUME n <= 2 PROVE Depth(open, n) = 0
    OBVIOUS
  <2>1. D(n) = {}
    OBVIOUS
  <2> QED BY <2>1, <1>2, FS_EmptySet
<1>5. ASSUME n >= 3
      PROVE  Depth(open, n) = Depth(open, n - 1) + (IF open[n] = "Final" THEN 0 ELSE 1)
  <2>1. IsFiniteSet(D(n - 1)) /\ Cardinality(D(n - 1)) \in Nat
    BY <1>1
  <2>2. Depth(open, n - 1) = Cardinality(D(n - 1)) /\ Depth(open, n) = Cardinality(D(n))
    BY <1>2
  <2>3. n \notin D(n - 1)
    OBVIOUS
  <2>4. CASE open[n] = "Final"
    <3>1. D(n) = D(n - 1)
      BY <2>4, <1>5
    <3> QED BY <2>1, <2>2, <2>4, <3>1
  <2>5. CASE open[n] # "Final"
    <3>1. D(n) = D(n - 1) \cup {n}
      BY <2>5, <1>5
    <3> HIDE DEF D
    <3>2. Cardinality(D(n - 1) \cup {n}) = Cardinality(D(n - 1)) + 1
      BY <2>1, <2>3, FS_AddElement
    <3> QED BY <2>2, <2>5, <3>1, <3>2
  <2> QED BY <2>4, <2>5
<1>6. ASSUME NEW p \in 3 .. n, open[p] # "Final"
      PROVE  Depth(open, p) \in 1 .. Depth(open, n)
  <2>1. /\ IsFiniteSet(D(n)) /\ Cardinality(D(n)) \in Nat
        /\ IsFiniteSet(D(p)) /\ Cardinality(D(p)) \in Nat
    BY <1>1
  <2>2. D(p) \in SUBSET D(n) /\ p \in D(p)
    BY <1>6
  <2>3. Depth(open, p) = Cardinality(D(p)) /\ Depth(open, n) = Cardinality(D(n))
    BY <1>2
  <2> HIDE DEF D
  <2>4. Cardinality(D(p)) <= Cardinality(D(n))
    BY <2>1, <2>2, FS_Subset
  <2>5. Cardinality(D(p)) # 0
    BY <2>1, <2>2, FS_EmptySet
  <2> QED BY <2>1, <2>3, <2>4, <2>5
<1> QED BY <1>3, <1>4, <1>5, <1>6

(* The callbacks are told of a group that has begun.                       *)
LEMMA GroupTold ==
  ASSUME NEW open, NEW n \in Nat, n >= 3, NEW told \in Seq(Groups), NEW g \in Groups,
         open[n] = g, Nests(open, n - 1, told)
  PROVE  Nests(open, n, Append(told, g))
<1> DEFINE now == Append(told, g)
<1>1. /\ n - 1 >= 2 /\ open[1] = "SyncML" /\ open[2] = "SyncBody"
      /\ Len(told) = Depth(open, n - 1)
      /\ \A p \in 3 .. n - 1 : open[p] # "Final" => told[Depth(open, p)] = open[p]
  BY DEF Nests
<1>2. g # "Final"
  BY DEF Groups
<1>3. Depth(open, n) = Depth(open, n - 1) + 1
  BY <1>2, Depths
<1>4. /\ Len(now) = Len(told) + 1 /\ now[Len(told) + 1] = g
      /\ \A i \in 1 .. Len(told) : now[i] = told[i]
  BY AppendGrown DEF Grown
<1> HIDE DEF now
<1>5. ASSUME NEW p \in 3 .. n, open[p] # "Final"
      PROVE  now[Depth(open, p)] = open[p]
  <2>1. CASE p = n
    BY <2>1, <1>1, <1>3, <1>4
  <2>2. CASE p # n
    <3>1. p \in 3 .. n - 1 /\ n - 1 \in Nat
      BY <2>2
    <3>2. Depth(open, p) \in 1 .. Depth(open, n - 1)
      BY <3>1, <1>5, Depths
    <3> QED BY <3>1, <3>2, <1>1, <1>4, <1>5
  <2> QED BY <2>1, <2>2
<1>6. Nests(open, n, now)
  BY <1>1, <1>3, <1>4, <1>5 DEF Nests
<1> QED BY <1>6 DEF now

(* The innermost tag ends: Final, or a group, which is then the last told. *)
LEMMA GroupEnded ==
  ASSUME NEW open, NEW n \in Nat, NEW told \in Seq(Groups), Nests(open, n, told), n >= 3
  PROVE  /\ open[n] = "Final" => Nests(open, n - 1, told)
         /\ open[n] # "Final" => /\ open[n] \in Groups
                                 /\ Nests(open, n - 1, Front(told))
<1>1. /\ open[1] = "SyncML" /\ open[2] = "SyncBody"
      /\ Len(told) = Depth(open, n)
      /\ \A p \in 3 .. n : open[p] # "Final" => told[Depth(open, p)] = open[p]
  BY DEF Nests
<1>2. n - 1 \in Nat /\ n - 1 >= 2 /\ \A p \in 3 .. n - 1 : p \in 3 .. n
  OBVIOUS
<1>3. Depth(open, n - 1) \in Nat /\ Depth(open, n) \in Nat
  BY <1>2, Depths
<1>4. CASE open[n] = "Final"
  <2>1. Depth(open, n) = Depth(open, n - 1)
    BY <1>3, <1>4, Depths
  <2> QED BY <2>1, <1>1, <1>2, <1>4 DEF Nests
<1>5. CASE open[n] # "Final"
  <2>1. Depth(open, n) = Depth(open, n - 1) + 1
    BY <1>3, <1>5, Depths
  <2>2. Len(told) >= 1
    BY <2>1, <1>1, <1>3
  <2>3. told[Depth(open, n)] = open[n] /\ Depth(open, n) \in 1 .. Len(told)
    BY <2>1, <1>1, <1>3, <1>5
  <2>4. open[n] \in Groups
    BY <2>3
  <2>5. Len(Front(told)) = Len(told) - 1 /\ \A i \in 1 .. Len(told) - 1 : Front(told)[i] = told[i]
    BY <2>2, FrontShrunk DEF Shrunk
  <2>6. Len(Front(told)) = Depth(open, n - 1)
    BY <2>1, <2>5, <1>1, <1>3
  <2>7. ASSUME NEW p \in 3 .. n - 1, open[p] # "Final"
        PROVE  Front(told)[Depth(open, p)] = open[p]
    <3>1. Depth(open, p) \in 1 .. Depth(open, n - 1)
      BY <2>7, <1>2, Depths
    <3>2. Depth(open, p) \in 1 .. Len(told) - 1
      BY <3>1, <2>5, <2>6
    <3> QED BY <2>5, <2>7, <3>2, <1>1, <1>2
  <2> QED BY <2>4, <2>6, <2>7, <1>1, <1>2, <1>5 DEF Nests
<1> QED BY <1>4, <1>5

(* Final is no group.                                                      *)
LEMMA FinalBegun ==
  ASSUME NEW open, NEW n \in Nat, n >= 3, NEW told, open[n] = "Final",
         Nests(open, n - 1, told)
  PROVE  Nests(open, n, told)
<1>1. /\ n - 1 >= 2 /\ open[1] = "SyncML" /\ open[2] = "SyncBody"
      /\ Len(told) = Depth(open, n - 1)
      /\ \A p \in 3 .. n - 1 : open[p] # "Final" => told[Depth(open, p)] = open[p]
  BY DEF Nests
<1>2. n - 1 \in Nat /\ \A p \in 3 .. n : p = n \/ p \in 3 .. n - 1
  OBVIOUS
<1>3. Depth(open, n - 1) \in Nat
  BY <1>2, Depths
<1>4. Depth(open, n) = Depth(open, n - 1)
  BY <1>3, Depths
<1> QED BY <1>1, <1>2, <1>4 DEF Nests

(* Between two commands the tag SyncML is the innermost only before the    *)
(* body, and a group that ends is one that was told.                       *)
LEMMA InBody ==
  ASSUME NEW open \in Seq(Names), NEW told \in Seq(Groups), Between(open, told),
         Len(open) >= 1
  PROVE  /\ open[Len(open)] = "SyncML" => told = << >> /\ open = <<"SyncML">>
         /\ open[Len(open)] # "SyncML" => Nests(open, Len(open), told)
         /\ open[Len(open)] \in Groups \cup {"Final"} =>
              Nests(open, Len(open), told) /\ Len(open) >= 3
<1>1. Len(open) \in Nat
  BY LenProperties
<1>2. CASE told = << >> /\ open = << >>
  BY <1>2, EmptyLen
<1>3. CASE told = << >> /\ open = <<"SyncML">>
  BY <1>3 DEF Groups
<1>4. CASE Nests(open, Len(open), told)
  <2>1. Len(open) >= 2 /\ open[2] = "SyncBody"
    BY <1>4 DEF Nests
  <2>2. CASE Len(open) = 2
    BY <2>1, <2>2, <1>4 DEF Groups
  <2>3. CASE Len(open) >= 3
    <3>1. open[Len(open)] \in Groups \cup {"Final"}
      BY <2>3, <1>1, <1>4, GroupEnded
    <3> QED BY <2>3, <3>1, <1>4 DEF Groups
  <2>4. \A x \in Nat : x >= 2 => x = 2 \/ x >= 3
    OBVIOUS
  <2>5. Len(open) = 2 \/ Len(open) >= 3
    BY <1>1, <2>1, <2>4
  <2> QED BY <2>2, <2>3, <2>5
<1> QED BY <1>2, <1>3, <1>4 DEF Between

(***************************************************************************)
(* The steps of the decoder keep the invariant.                            *)
(***************************************************************************)
(* An end tag that is not stray is that of the innermost tag of both       *)
(* stacks, and pops them.                                                  *)
LEMMA EndRead ==
  ASSUME TypeInv, stream # << >>, Legal(nextTok), nextToken(nextTok),
         nextTok.kind = "end", ~Stray(nextTok), Len(scan) >= 1
  PROVE  /\ Len(tags) \in Nat /\ Len(tags) >= 1 /\ Len(scan) \in Nat
         /\ tags[Len(tags)] = nextTok.tag /\ scan[Len(scan)] = nextTok.tag
         /\ Shrunk(scan, scan') /\ Shrunk(tags, tags')
<1>1. scan \in Seq(Names) /\ tags \in Seq(Names)
  BY DEF TypeInv, DecoderTypeOK
<1>2. tags # << >> /\ Last(tags) = nextTok.tag
  BY DEF Legal
<1>3. Len(tags) \in Nat /\ Len(scan) \in Nat /\ Len(tags) # 0 /\ scan # << >>
  BY <1>1, <1>2, EmptyLen
<1>4. Len(tags) >= 1
  BY <1>3
<1>5. Last(scan) = nextTok.tag
  BY <1>3 DEF Stray
<1>6. scan' = Front(scan) /\ tags' = Front(tags)
  BY Read
<1>7. Shrunk(scan, scan') /\ Shrunk(tags, tags')
  BY <1>1, <1>4, <1>6, FrontShrunk
<1> QED BY <1>2, <1>3, <1>4, <1>5, <1>7 DEF Last

(* A build function reads an end tag only when the scanner has a tag open. *)
LEMMA OpenTags ==
  ASSUME TypeInv, Legal(nextTok), nextTok.kind = "end",
         NEW k, NEW h, NEW told, BuildOK(k, h, calls, scan, tags, told)
  PROVE  Len(scan) >= 1
<1>1. scan \in Seq(Names) /\ tags \in Seq(Names) /\ tags # << >>
  BY DEF TypeInv, DecoderTypeOK, Legal
<1>2. Len(tags) \in Nat /\ Len(scan) \in Nat /\ Len(tags) # 0
  BY <1>1, EmptyLen
<1>3. tags # scan => Len(tags) < Len(scan)
  BY DEF BuildOK, Drift
<1> QED BY <1>2, <1>3

(* The outermost build function: the scanner and the decoder agree at its  *)
(* end.                                                                    *)
LEMMA RootAgrees ==
  ASSUME FramesOK(calls), Len(calls) = 1, scan \in Seq(Names), tags \in Seq(Names),
         NEW k, NEW h, NEW told, BuildOK(k, h, calls, scan, tags, told),
         \/ calls[1].tag # "SyncHdr"
         \/ Len(tags) >= 1 /\ Len(scan) >= 1 /\ tags[Len(tags)] = scan[Len(scan)]
  PROVE  tags = scan /\ h[1] = Len(scan)
<1>1. h[1] = Len(scan) /\ Len(scan) \in Nat /\ Len(tags) \in Nat
  BY LenProperties DEF BuildOK, Placed
<1>2. k = 1
  BY DEF BuildOK, Split
<1>3. ~Barrier(k, h, calls, scan, tags)
  BY <1>2 DEF Barrier, FramesOK
<1>4. ASSUME tags # scan PROVE FALSE
  <2>1. Len(tags) < Len(scan) /\ Bottom(h, calls, scan, tags)
    BY <1>3, <1>4 DEF BuildOK, Drift
  <2>2. /\ calls[1].tag = "SyncHdr" /\ h[1] = 2 /\ Len(tags) >= 1 /\ tags[1] = "SyncML"
        /\ \A i \in 2 .. Len(scan) : scan[i] # "SyncML"
    BY <2>1 DEF Bottom
  <2>3. Len(scan) = 2 /\ Len(tags) = 1
    BY <2>1, <2>2, <1>1
  <2>4. scan[2] # "SyncML"
    BY <2>2, <2>3
  <2> QED BY <2>2, <2>3, <2>4
<1> QED BY <1>1, <1>4

(* The sequence with one element.                                          *)
LEMMA OneTag ==
  ASSUME NEW s \in Seq(Names), Len(s) = 1, s[1] = "SyncML"
  PROVE  s = <<"SyncML">>
<1>1. <<"SyncML">> \in Seq({"SyncML"}) /\ Len(<<"SyncML">>) = 1 /\ <<"SyncML">>[1] = "SyncML"
  OBVIOUS
<1>2. s \in Seq(Names \cup {"SyncML"}) /\ <<"SyncML">> \in Seq(Names \cup {"SyncML"})
  BY <1>1, SeqMonotonic
<1>3. \A i \in 1 .. Len(s) : s[i] = <<"SyncML">>[i]
  <2>1. \A i \in 1 .. Len(s) : i = 1
    OBVIOUS
  <2> QED BY <2>1, <1>1
<1> QED BY <1>1, <1>2, <1>3, SameSeq

(* The groups once an element that is no group is delivered at its end.    *)
LEMMA RootPopped ==
  ASSUME FramesOK(calls), Len(calls) = 1, NEW open \in Seq(Names),
         NEW ope2 \in Seq(Names), Shrunk(open, ope2), Len(open) >= 1,
         NEW h, NEW told, Placed(h, calls, open), Root(h, calls, open, told)
  PROVE  Between(ope2, told)
<1>1. /\ h[1] = Len(open) /\ Len(open) \in Nat
      /\ Len(ope2) = Len(open) - 1 /\ \A i \in 1 .. Len(open) - 1 : ope2[i] = open[i]
  BY LenProperties DEF Placed, Shrunk
<1>2. CASE calls[1].tag = "SyncHdr"
  <2>1. told = << >> /\ Len(open) <= 2 /\ open[1] = "SyncML"
    BY <1>1, <1>2 DEF Root, Placed
  <2>2. CASE Len(open) = 1
    <3>1. ope2 = << >>
      BY <1>1, <2>2, EmptyLen
    <3> QED BY <2>1, <3>1 DEF Between
  <2>3. CASE Len(open) = 2
    <3>1. Len(ope2) = 1 /\ ope2[1] = "SyncML"
      BY <1>1, <2>1, <2>3
    <3>3. ope2 = <<"SyncML">>
      BY <3>1, OneTag
    <3> QED BY <2>1, <3>3 DEF Between
  <2> QED BY <1>1, <2>1, <2>2, <2>3
<1>3. CASE calls[1].tag # "SyncHdr"
  <2>1. Nests(open, Len(open) - 1, told)
    BY <1>1, <1>3 DEF Root
  <2>2. Len(open) - 1 \in Int
    BY <1>1
  <2>3. Nests(ope2, Len(open) - 1, told)
    BY <1>1, <2>1, <2>2, NestsPrefix
  <2> QED BY <1>1, <2>3 DEF Between
<1> QED BY <1>2, <1>3

(* An element that ends at its end tag is no group.                        *)
LEMMA ClosedNoGroup ==
  ASSUME NEW f, NEW tok, Reaction(f, tok) = "close", tok.kind = "end",
         f.what = "struct"
  PROVE  f.tag \notin Groups
<1>1. Legal(tok)
  BY DEF Reaction
<1>2. AtEnd(f, tok) = "close"
  BY <1>1 DEF Reaction
<1> QED BY <1>2 DEF AtEnd, Groups

(* The same of the frames as they are collected.                           *)
LEMMA CollectedKeeps ==
  ASSUME NEW fs, FramesOK(fs), NEW gs, Collected(fs, gs), NEW open \in Seq(Names), NEW tg,
         NEW k, NEW h, NEW told, BuildOK(k, h, fs, open, tg, told)
  PROVE  \E k2, h2 : BuildOK(k2, h2, gs, open, tg, told)
<1>1. PICK S : fs \in Seq(S)
  BY DEF FramesOK
<1>2. Len(fs) \in Nat /\ Len(fs) >= 1
  BY <1>1, LenProperties DEF FramesOK
<1>3. /\ \A i \in 1 .. Len(fs) : i \in 1 .. Len(fs) - 1 \/ i = Len(fs)
      /\ Len(fs) \in 1 .. Len(fs)
  BY <1>2
<1>4. Kin(fs, gs, Len(fs)) /\ \A i \in 1 .. Len(fs) : gs[i].ext = fs[i].ext
  BY <1>3 DEF Kin, Collected
<1>5. FramesOK(gs) /\ (fs[Len(fs)].what = "pcdata" => gs[Len(fs)].text # << >>)
  BY DEF Collected
<1> QED BY <1>4, <1>5, UpdateKeeps

(* A step of the build functions, none of which returns to xltDecNext.     *)
LEMMA BuildGoesOn ==
  ASSUME TypeInv, TypeInv', pc = "build", stream # << >>, ~stray',
         NEW k, NEW h, BuildOK(k, h, calls, scan, tags, groups),
         \/ OpenChild \/ EmptyChild \/ concatPCData \/ BuildExtension \/ MetInfWrapper
         \/ CloseElement /\ pc' = "build"
  PROVE  /\ pc' = "build" /\ out' = out
         /\ \E k2, h2 : BuildOK(k2, h2, calls', scan', tags', groups')
<1>1. /\ FramesOK(calls) /\ Top = calls[Len(calls)] /\ FrameOK(Top)
      /\ Len(calls) \in Nat /\ Len(calls) >= 1
  BY BuildContext
<1>2. /\ scan \in Seq(Names) /\ tags \in Seq(Names)
      /\ scan' \in Seq(Names) /\ tags' \in Seq(Names)
  BY DEF TypeInv, DecoderTypeOK
<1>3. CASE OpenChild
  <2>1. /\ Legal(nextTok) /\ nextTok.kind = "start" /\ nextToken(nextTok)
        /\ FramesOK(calls') /\ UNCHANGED <<enc, pc, out, groups>>
        /\ Top.what \in {"struct", "metinf"}
        /\ Top.tag \in MetInfTags <=> nextTok.tag \in MetInfTags
        /\ nextTok.tag # "SyncML"
    BY <1>3, OpenShape
  <2>2. PICK what \in {"flag", "pcdata", "struct"} :
          Grown(calls, calls', Frame(what, nextTok.tag))
    BY <1>3, OpenShape
  <2>3. Grown(scan, scan', nextTok.tag) /\ Grown(tags, tags', nextTok.tag)
    BY <2>1, Read
  <2>4. \E k2, h2 : BuildOK(k2, h2, calls', scan', tags', groups)
    BY <1>1, <1>2, <2>1, <2>2, <2>3, OpenKeeps
  <2> QED BY <2>1, <2>4
<1>4. CASE EmptyChild \/ concatPCData
  <2>1. /\ Legal(nextTok) /\ nextTok.kind \in {"empty", "text"} /\ nextToken(nextTok)
        /\ UNCHANGED <<enc, pc, out, groups>> /\ Collected(calls, calls')
    BY <1>4, UpdateShape
  <2>2. scan' = scan /\ tags' = tags
    BY <2>1, Read
  <2>3. \E k2, h2 : BuildOK(k2, h2, calls', scan, tags, groups)
    BY <1>1, <1>2, <2>1, CollectedKeeps
  <2> QED BY <2>1, <2>2, <2>3
<1>5. CASE BuildExtension
  <2>1. /\ Legal(nextTok) /\ nextTok.kind \in {"start", "empty"}
        /\ discardToken(nextTok)
        /\ FramesOK(calls') /\ UNCHANGED <<enc, pc, out, groups>>
        /\ Top.what = "pcdata" /\ Top.text = << >> /\ ~Top.ext
        /\ Grown(calls, calls', Frame("metinf", "MetInf"))
    BY <1>5, ExtensionShape
  <2>2. scan' = scan /\ tags' = IF nextTok.kind = "start" THEN tags ELSE Front(tags)
    BY <2>1, HandedBack
  <2>3. Len(tags) >= 1
    BY <1>1, <2>1 DEF BuildOK, Fresh
  <2>4. tags' = tags \/ Shrunk(tags, tags')
    BY <1>2, <2>2, <2>3, FrontShrunk
  <2>5. \E k2, h2 : BuildOK(k2, h2, calls', scan, tags', groups)
    BY <1>1, <1>2, <2>1, <2>4, ExtensionKeeps
  <2> QED BY <2>1, <2>2, <2>5
<1>6. CASE MetInfWrapper
  <2>1. /\ Legal(nextTok) /\ nextTok.tag = "MetInf" /\ nextToken(nextTok)
        /\ FramesOK(calls') /\ UNCHANGED <<enc, pc, out, groups>>
        /\ Len(calls') = Len(calls)
        /\ \A i \in 1 .. Len(calls) - 1 : calls'[i] = calls[i]
        /\ Top.what = "metinf" /\ calls'[Len(calls)].what = "metinf"
        /\ calls'[Len(calls)].tag = Top.tag /\ calls'[Len(calls)].wrapped
    BY <1>6, WrapperShape
  <2>2. ~Stray(nextTok)
    BY <2>1, Read
  <2>3. nextTok.kind = "start" /\ ~Top.wrapped
    BY <1>6, <2>2, WrapperShape
  <2>4. Grown(scan, scan', "MetInf") /\ Grown(tags, tags', "MetInf")
    BY <2>1, <2>3, Read
  <2>5. \E k2, h2 : BuildOK(k2, h2, calls', scan', tags', groups)
    BY <1>1, <1>2, <2>1, <2>3, <2>4, WrapperKeeps
  <2> QED BY <2>1, <2>5
<1>7. CASE CloseElement /\ pc' = "build"
  <2>1. Legal(nextTok) /\ nextTok.kind = "end" /\ nextToken(nextTok)
    BY <1>7, CloseShape
  <2>2. ~Delivered(calls[1].tag)
    BY <1>7 DEF Delivered
  <2>3. /\ FramesOK(calls') /\ UNCHANGED <<pc, out, groups>>
        /\ Closed(calls, calls') \/ Unwraps(calls, calls') \/ ClosedDoc(calls, calls')
    BY <1>7, <2>2, CloseShape
  <2>4. ~Stray(nextTok)
    BY <2>1, Read
  <2>5. Len(scan) >= 1
    BY <2>1, OpenTags
  <2>6. /\ Len(tags) >= 1 /\ tags[Len(tags)] = scan[Len(scan)]
        /\ Shrunk(scan, scan') /\ Shrunk(tags, tags')
    BY <2>1, <2>4, <2>5, EndRead
  <2>7. \E k2, h2 : BuildOK(k2, h2, calls', scan', tags', groups)
    BY <1>1, <1>2, <2>3, <2>5, <2>6, CloseKeeps
  <2> QED BY <1>7, <2>3, <2>7
<1> QED BY <1>3, <1>4, <1>5, <1>6, <1>7

(* The outermost build function returns at its end tag.                    *)
LEMMA ElementDelivered ==
  ASSUME TypeInv, TypeInv', pc = "build", stream # << >>, ~stray',
         NEW k, NEW h, BuildOK(k, h, calls, scan, tags, groups),
         CloseElement, pc' # "build"
  PROVE  pc' = "held" /\ tags = scan /\ tags' = scan' /\ Between(scan', groups')
<1>1. /\ FramesOK(calls) /\ Top = calls[Len(calls)] /\ nextTok.kind \in Kinds
  BY BuildContext
<1>2. /\ scan \in Seq(Names) /\ tags \in Seq(Names)
      /\ scan' \in Seq(Names) /\ tags' \in Seq(Names)
  BY DEF TypeInv, DecoderTypeOK
<1>3. /\ Legal(nextTok) /\ nextTok.kind = "end" /\ nextToken(nextTok)
  BY CloseShape
<1>4. Len(calls) = 1 /\ Delivered(calls[1].tag)
  BY CloseShape
<1>5. ~Stray(nextTok)
  BY <1>3, Read
<1>6. Len(scan) >= 1
  BY <1>3, OpenTags
<1>7. /\ Len(tags) >= 1 /\ tags[Len(tags)] = scan[Len(scan)]
      /\ Shrunk(scan, scan') /\ Shrunk(tags, tags')
  BY <1>3, <1>5, <1>6, EndRead
<1>8. tags = scan
  BY <1>1, <1>2, <1>4, <1>6, <1>7, RootAgrees
<1>9. tags' = scan'
  BY <1>2, <1>7, <1>8, StaysEqual
<1>10. Between(scan', groups)
  <2>1. Placed(h, calls, scan) /\ Root(h, calls, scan, groups)
    BY DEF BuildOK
  <2> QED BY <1>1, <1>2, <1>4, <1>6, <1>7, <2>1, RootPopped
<1>11. groups' = groups
  <2>1. Reaction(Top, nextTok) = "close"
    BY DEF CloseElement, Building
  <2>2. calls[1].what = "struct" /\ Top = calls[1]
    BY <1>1, <1>4 DEF FramesOK
  <2>3. calls[1].tag \notin Groups
    BY <1>3, <2>1, <2>2, ClosedNoGroup
  <2>4. PICK v : v.tag = calls[1].tag /\ Told(v)
    BY <1>4 DEF Delivered
  <2> QED BY <2>3, <2>4 DEF Told
<1>12. pc' = "held"
  BY <1>4 DEF Delivered
<1> QED BY <1>8, <1>9, <1>10, <1>11, <1>12

(* The build function of a group returns.                                  *)
LEMMA GroupDelivered ==
  ASSUME TypeInv, TypeInv', pc = "build", stream # << >>, ~stray',
         NEW k, NEW h, BuildOK(k, h, calls, scan, tags, groups),
         CloseSync \/ StopAtCommand
  PROVE  /\ pc' = "held" /\ tags = scan
         /\ tags' = scan' \/ Doomed'
         /\ Between(scan', groups')
<1>1. FramesOK(calls)
  BY BuildContext
<1>2. scan \in Seq(Names) /\ tags \in Seq(Names) /\ groups \in Seq(Groups)
  BY DEF TypeInv, DecoderTypeOK
<1>3. /\ Len(calls) = 1 /\ calls[1].tag \in Groups /\ Delivered(calls[1].tag)
      /\ UNCHANGED <<enc, stream, scan>>
      /\ \/ tags' = tags
         \/ /\ tags' = Front(tags) /\ Legal(nextTok) /\ PageAfter(nextTok)
            /\ TokenAhead' /\ nextTok.kind = "empty" /\ nextTok.tag \in cPE_Dec
  BY GroupShape
<1>4. calls[1].tag # "SyncHdr"
  BY <1>3 DEF Groups
<1>5. tags = scan /\ h[1] = Len(scan)
  BY <1>1, <1>2, <1>3, <1>4, RootAgrees
<1>6. pc' = "held"
  BY <1>3 DEF Delivered
<1>7. tags' = scan' \/ Doomed'
  <2>1. CASE tags' = tags
    BY <2>1, <1>3, <1>5
  <2>2. CASE /\ Legal(nextTok) /\ PageAfter(nextTok) /\ TokenAhead'
             /\ nextTok.kind = "empty" /\ nextTok.tag \in cPE_Dec
    <3>1. stream \in Seq(Items)
      BY DEF TypeInv
    <3>2. nextTok.tag # Undef
      BY <2>2 DEF Legal
    <3>3. nextTok' = nextTok
      BY <2>2, <3>1, <3>2, <1>3, DiscardedToken
    <3> QED BY <2>2, <3>3, <1>3 DEF Doomed
  <2> QED BY <1>3, <2>1, <2>2
<1>8. Between(scan', groups')
  <2>1. Nests(scan, Len(scan) - 1, groups)
    BY <1>4, <1>5 DEF BuildOK, Root
  <2>2. Len(scan) \in Nat
    BY <1>2, LenProperties
  <2>3. Len(scan) >= 3
    BY <2>1, <2>2 DEF Nests
  <2>4. scan[Len(scan)] = calls[1].tag
    <3>1. scan[h[1]] = Own(calls, 1)
      BY <1>3, <1>4 DEF BuildOK, Placed
    <3>2. calls[1].what = "struct"
      BY <1>1 DEF FramesOK
    <3> QED BY <3>1, <3>2, <1>5 DEF Own
  <2>5. Nests(scan, Len(scan), Append(groups, calls[1].tag))
    BY <1>2, <1>3, <2>1, <2>2, <2>3, <2>4, GroupTold
  <2>6. PICK v : v.tag = calls[1].tag /\ Told(v)
    BY <1>3 DEF Delivered
  <2>7. groups' = Append(groups, calls[1].tag)
    BY <2>6, <1>3 DEF Told
  <2> QED BY <2>5, <2>7, <1>3 DEF Between
<1> QED BY <1>5, <1>6, <1>7, <1>8

(* The first frame is placed at the tag that began it; only the tag of a   *)
(* command is looked at.                                                   *)
LEMMA RootPlaced ==
  ASSUME NEW tag \in Roots, NEW open \in Seq(Names), NEW told,
         tag = "SyncHdr" =>
           /\ told = << >> /\ Len(open) <= 2 /\ (Len(open) >= 1 => open[1] = "SyncML"),
         tag # "SyncHdr" =>
           /\ Len(open) >= 1 /\ open[Len(open)] = tag
           /\ Nests(open, Len(open) - 1, told)
  PROVE  \E k, h : BuildOK(k, h, <<Frame("struct", tag)>>, open, open, told)
<1> DEFINE fs == <<Frame("struct", tag)>>
           L  == Len(open)
           h  == [j \in 1 .. 1 |-> L]
<1>1. FramesOK(fs) /\ Len(fs) = 1 /\ fs[1] = Frame("struct", tag)
  BY RootFrame
<1>2. fs[1].what = "struct" /\ fs[1].tag = tag
  <2>1. Frame("struct", tag).what = "struct" /\ Frame("struct", tag).tag = tag
    BY DEF Frame
  <2> QED BY <1>1, <2>1
<1>3. L \in Nat
  BY LenProperties
<1>4. h \in [1 .. 1 -> Nat] /\ h[1] = L
  BY <1>3
<1> HIDE DEF fs, h
<1>5. \A j \in 1 .. 1 : j = 1
  OBVIOUS
<1>6. Placed(h, fs, open)
  <2>1. \A j \in 1 .. 1 : \A i \in 1 .. j : h[i] <= h[j]
    <3>1. \A j \in 1 .. 1 : \A i \in 1 .. j : i = 1 /\ j = 1
      OBVIOUS
    <3>2. h[1] <= h[1]
      BY <1>3, <1>4
    <3> QED BY <3>1, <3>2
  <2>2. \A j \in 2 .. 1 : FALSE
    OBVIOUS
  <2>3. fs[1].tag # "SyncHdr" => h[1] >= 1 /\ open[h[1]] = Own(fs, 1)
    BY <1>2, <1>4 DEF Own
  <2>4. \A j \in 1 .. 1 :
          j > 1 \/ fs[1].tag # "SyncHdr" => h[j] >= 1 /\ open[h[j]] = Own(fs, j)
    <3> TAKE j \in 1 .. 1
    <3>1. j = 1 /\ ~(j > 1)
      OBVIOUS
    <3> QED BY <3>1, <2>3
  <2>5. fs[1].tag = "SyncHdr" => h[1] <= 2 /\ (h[1] >= 1 => open[1] = "SyncML")
    BY <1>2, <1>4
  <2> QED BY <1>1, <1>4, <2>1, <2>2, <2>4, <2>5 DEF Placed
<1>7. Split(1, h, fs, open)
  <2>1. fs[1].tag \notin MetInfTags /\ fs[1].what # "metinf"
    BY <1>2, KindsDisjoint
  <2>2. \A j \in 1 + 1 .. 1 : FALSE
    OBVIOUS
  <2>3. \A i \in L + 1 .. L : FALSE
    BY <1>3
  <2>4. 1 \in 1 .. 1 /\ ~(1 < 1)
    OBVIOUS
  <2> QED BY <1>1, <1>4, <1>5, <2>1, <2>2, <2>3, <2>4 DEF Split
<1>8. Drift(1, h, fs, open, open)
  BY DEF Drift
<1>9. Fresh(fs, open)
  BY <1>1, <1>2 DEF Fresh
<1>10. Root(h, fs, open, told)
  BY <1>2, <1>4 DEF Root
<1>11. BuildOK(1, h, fs, open, open, told)
  BY <1>6, <1>7, <1>8, <1>9, <1>10 DEF BuildOK
<1> QED BY <1>11 DEF fs

(* xltDecInit keeps the invariant.                                         *)
LEMMA InitKeeps ==
  ASSUME TypeInv, TypeInv', ~stray, Idle, ~stray', xltDecInit
  PROVE  tags = scan /\ Idle' /\ Active'
<1>1. /\ pc \in {"start", "header"} /\ stream # << >> /\ Legal(nextTok)
      /\ nextToken(nextTok)
  BY DEF xltDecInit, TokenAhead
<1>2. tags = scan /\ groups = << >>
  BY <1>1 DEF Idle
<1>3. /\ nextTok.kind \in Kinds /\ scan \in Seq(Names) /\ tags \in Seq(Names)
  BY <1>1, NextContext
<1>4. scan' \in Seq(Names) /\ tags' \in Seq(Names)
  BY <1>1, Read
<1>5. CASE /\ pc = "start" /\ nextTok.kind = "start" /\ nextTok.tag = "SyncML"
           /\ pc' = "header" /\ UNCHANGED <<calls, out, groups>>
  <2>1. scan = << >> /\ tags = << >>
    BY <1>5 DEF Idle
  <2>2. Grown(scan, scan', "SyncML") /\ Grown(tags, tags', "SyncML")
    BY <1>1, <1>5, Read
  <2>3. Len(scan') = 1 /\ scan'[1] = "SyncML" /\ Len(tags') = 1 /\ tags'[1] = "SyncML"
    <3>1. Len(scan) = 0 /\ Len(tags) = 0
      BY <2>1, <1>3, EmptyLen
    <3> QED BY <2>2, <3>1 DEF Grown
  <2>4. scan' = <<"SyncML">> /\ tags' = <<"SyncML">>
    BY <2>3, <1>4, OneTag
  <2> QED BY <1>2, <1>5, <2>4 DEF Idle, Active
<1>6. CASE pc = "header" /\ nextTok.kind = "empty" /\ Deliver(Bare("SyncHdr"))
  <2>1. scan' = <<"SyncML">> /\ tags' = <<"SyncML">>
    BY <1>1, <1>6, Read DEF Idle
  <2>2. pc' = "held" /\ Told(Bare("SyncHdr"))
    BY <1>6 DEF Deliver
  <2>3. groups' = << >>
    <3>1. Bare("SyncHdr").tag = "SyncHdr"
      BY DEF Bare, Node
    <3> QED BY <1>2, <2>2, <3>1 DEF Told, Groups
  <2>4. Between(scan', groups')
    BY <2>1, <2>3 DEF Between
  <2> QED BY <1>2, <2>1, <2>2, <2>4 DEF Idle, Active
<1>7. CASE /\ pc = "header" /\ nextTok.kind # "empty"
           /\ calls' = <<Frame("struct", "SyncHdr")>>
           /\ pc' = "build" /\ UNCHANGED <<out, groups>>
  <2>1. scan = <<"SyncML">> /\ Len(scan) = 1 /\ scan[1] = "SyncML"
    BY <1>7 DEF Idle
  <2>2. /\ tags' = scan' /\ Len(scan') \in Nat /\ Len(scan') <= 2
        /\ (Len(scan') >= 1 => scan'[1] = "SyncML")
    <3>1. CASE nextTok.kind = "start"
      <4>1. Grown(scan, scan', nextTok.tag) /\ Grown(tags, tags', nextTok.tag)
        BY <1>1, <3>1, Read
      <4>2. tags' = scan'
        BY <4>1, <1>2, <1>3, <1>4, StaysEqual
      <4> QED BY <2>1, <4>1, <4>2 DEF Grown
    <3>2. CASE nextTok.kind = "end"
      <4>1. scan' = Front(scan) /\ tags' = Front(tags)
        BY <1>1, <3>2, Read
      <4>2. Shrunk(scan, scan')
        <5>1. Len(scan) >= 1
          BY <2>1
        <5> QED BY <4>1, <5>1, <1>3, FrontShrunk
      <4> QED BY <4>1, <4>2, <2>1, <1>2 DEF Shrunk
    <3>3. CASE nextTok.kind = "text"
      <4>1. scan' = scan /\ tags' = tags
        BY <1>1, <3>3, Read
      <4>2. Len(scan') = 1 /\ scan'[1] = "SyncML"
        BY <2>1, <4>1
      <4> QED BY <1>2, <4>1, <4>2
    <3> QED BY <1>3, <1>7, <3>1, <3>2, <3>3 DEF Kinds
  <2>3. "SyncHdr" \in Roots
    BY DEF Roots
  <2>4. \E k, h : BuildOK(k, h, calls', scan', scan', groups')
    BY <1>2, <1>4, <1>7, <2>2, <2>3, RootPlaced
  <2> QED BY <1>2, <1>7, <2>2, <2>4 DEF Idle, Active
<1> QED BY <1>5, <1>6, <1>7 DEF xltDecInit

(* At the first token of a call the two stacks agree, or the call fails.   *)
LEMMA NextAgrees ==
  ASSUME TypeInv, Idle, pc = "next", stream # << >>, AtNext(nextTok) \notin {"error", "crash"}
  PROVE  /\ tags = scan /\ Between(scan, groups) /\ Len(scan) \in Nat /\ Len(scan) >= 1
         /\ Legal(nextTok) /\ (OutsideBody <=> scan[Len(scan)] = "SyncML")
<1>1. /\ nextTok.kind \in Kinds /\ scan \in Seq(Names) /\ tags \in Seq(Names)
  BY NextContext
<1>2. ~Doomed
  BY <1>1, NextReactions DEF Doomed
<1>3. tags = scan /\ Between(scan, groups)
  BY <1>2 DEF Idle
<1>4. tags # << >> /\ Legal(nextTok)
  BY <1>1, NextReactions
<1>5. Len(scan) \in Nat /\ Len(scan) # 0
  BY <1>1, <1>3, <1>4, EmptyLen
<1>6. OutsideBody <=> scan[Len(scan)] = "SyncML"
  BY <1>3, <1>4 DEF OutsideBody, Last
<1> QED BY <1>3, <1>4, <1>5, <1>6

(* The body begins.                                                        *)
LEMMA BodyKeeps ==
  ASSUME TypeInv, TypeInv', Idle, EnterBody
  PROVE  Idle' /\ Active'
<1>1. /\ pc = "next" /\ stream # << >> /\ AtNext(nextTok) = "body"
      /\ nextToken(nextTok) /\ UNCHANGED <<enc, calls, pc, out, groups>>
  BY DEF EnterBody, Next_, TokenAhead
<1>2. /\ nextTok.kind \in Kinds /\ scan \in Seq(Names) /\ tags \in Seq(Names)
      /\ groups \in Seq(Groups)
  BY <1>1, NextContext
<1>3. OutsideBody /\ nextTok.kind = "start" /\ nextTok.tag = "SyncBody" /\ Legal(nextTok)
  BY <1>1, <1>2, NextReactions
<1>4. /\ tags = scan /\ Between(scan, groups) /\ Len(scan) >= 1
      /\ scan[Len(scan)] = "SyncML"
  BY <1>1, <1>3, NextAgrees
<1>5. groups = << >> /\ scan = <<"SyncML">>
  BY <1>2, <1>4, InBody
<1>6. scan' \in Seq(Names) /\ tags' \in Seq(Names)
      /\ Grown(scan, scan', "SyncBody") /\ Grown(tags, tags', "SyncBody")
  BY <1>1, <1>3, Read
<1>7. tags' = scan'
  BY <1>2, <1>4, <1>6, StaysEqual
<1>8. Len(scan') = 2 /\ scan'[1] = "SyncML" /\ scan'[2] = "SyncBody"
  <2>1. Len(scan) = 1 /\ scan[1] = "SyncML"
    BY <1>5
  <2> QED BY <1>6, <2>1 DEF Grown
<1>9. Nests(scan', 2, groups')
  <2>1. Depth(scan', 2) = 0
    BY Depths
  <2>2. Len(groups') = 0
    BY <1>1, <1>5
  <2>3. \A p \in 3 .. 2 : FALSE
    OBVIOUS
  <2> QED BY <1>8, <2>1, <2>2, <2>3 DEF Nests
<1>10. Between(scan', groups')
  BY <1>8, <1>9 DEF Between
<1> QED BY <1>1, <1>7, <1>10 DEF Idle, Active

(* A command begins.                                                       *)
LEMMA CommandKeeps ==
  ASSUME TypeInv, TypeInv', Idle, xltDecNext
  PROVE  Idle' /\ Active'
<1>1. /\ pc = "next" /\ stream # << >> /\ AtNext(nextTok) = "build"
      /\ calls' = <<Frame("struct", nextTok.tag)>> /\ pc' = "build"
      /\ nextToken(nextTok) /\ groups' = groups
  BY DEF xltDecNext, Next_, TokenAhead
<1>2. /\ nextTok.kind \in Kinds /\ scan \in Seq(Names) /\ tags \in Seq(Names)
      /\ groups \in Seq(Groups)
  BY <1>1, NextContext
<1>3. /\ ~OutsideBody /\ nextTok.kind = "start" /\ Legal(nextTok)
      /\ nextTok.tag \in cPE_Dec \ NotCompiled
  BY <1>1, <1>2, NextReactions
<1>4. nextTok.tag \in Roots /\ nextTok.tag # "SyncHdr"
  BY <1>3 DEF Roots, cPE_Dec, NotCompiled, GenericCmds
<1>5. /\ tags = scan /\ Between(scan, groups) /\ Len(scan) \in Nat /\ Len(scan) >= 1
      /\ scan[Len(scan)] # "SyncML"
  BY <1>1, <1>3, NextAgrees
<1>6. Nests(scan, Len(scan), groups)
  BY <1>2, <1>5, InBody
<1>7. /\ scan' \in Seq(Names) /\ tags' \in Seq(Names)
      /\ Grown(scan, scan', nextTok.tag) /\ Grown(tags, tags', nextTok.tag)
  BY <1>1, <1>3, Read
<1>8. tags' = scan'
  BY <1>2, <1>5, <1>7, StaysEqual
<1>9. /\ Len(scan') = Len(scan) + 1 /\ scan'[Len(scan')] = nextTok.tag
      /\ \A i \in 1 .. Len(scan) : scan'[i] = scan[i]
  BY <1>7 DEF Grown
<1>10. Nests(scan', Len(scan') - 1, groups)
  <2>1. Len(scan') - 1 = Len(scan) /\ Len(scan) \in Int
    BY <1>5, <1>9
  <2>2. Nests(scan', Len(scan), groups)
    BY <1>6, <1>9, <2>1, NestsPrefix
  <2> QED BY <2>1, <2>2
<1>11. Len(scan') >= 1
  BY <1>5, <1>9
<1>12. \E k, h : BuildOK(k, h, calls', scan', scan', groups)
  BY <1>1, <1>4, <1>7, <1>9, <1>10, <1>11, RootPlaced
<1> QED BY <1>1, <1>8, <1>12 DEF Idle, Active

(* A group ends, or the message is said to be the last one.                *)
LEMMA MarkKeeps ==
  ASSUME TypeInv, TypeInv', Idle, ~stray', DeliverMark
  PROVE  tags = scan /\ Idle' /\ Active'
<1>1. /\ pc = "next" /\ stream # << >> /\ AtNext(nextTok) = "mark"
      /\ groups' = IF nextTok.tag \in Groups THEN Front(groups) ELSE groups
      /\ nextToken(nextTok) /\ UNCHANGED <<enc, calls, pc>>
  BY DEF DeliverMark, Next_, TokenAhead
<1>2. /\ nextTok.kind \in Kinds /\ scan \in Seq(Names) /\ tags \in Seq(Names)
      /\ groups \in Seq(Groups)
  BY <1>1, NextContext
<1>3. /\ ~OutsideBody /\ nextTok.kind \in {"start", "end", "empty"} /\ Legal(nextTok)
      /\ nextTok.kind = "end" => nextTok.tag \in Groups \cup {"Final"}
      /\ nextTok.kind # "end" => nextTok.tag = "Final"
  <2>1. /\ ~OutsideBody /\ nextTok.tag \in Groups \cup {"Final"} /\ Legal(nextTok)
        /\ nextTok.kind \in {"start", "empty"} => nextTok.tag = "Final"
    BY <1>1, <1>2, NextReactions
  <2>2. OutsidePcdata /\ nextTok.tag # Undef
    BY <1>1, <2>1 DEF OutsidePcdata, Groups, Undef
  <2>3. nextTok.kind # "text"
    BY <1>1, <2>2, NoText
  <2> QED BY <1>2, <2>1, <2>3 DEF Kinds
<1>4. /\ tags = scan /\ Between(scan, groups) /\ Len(scan) \in Nat /\ Len(scan) >= 1
      /\ scan[Len(scan)] # "SyncML"
  BY <1>1, <1>3, NextAgrees
<1>5. Nests(scan, Len(scan), groups)
  BY <1>2, <1>4, InBody
<1>6. scan' \in Seq(Names) /\ tags' \in Seq(Names)
  BY <1>1, <1>3, Read
<1>7. "Final" \notin Groups
  BY DEF Groups
<1>8. tags' = scan' /\ Nests(scan', Len(scan'), groups')
  <2>1. CASE nextTok.kind = "empty"
    <3>1. scan' = scan /\ tags' = tags
      BY <1>1, <1>3, <2>1, Read
    <3>2. groups' = groups
      BY <1>1, <1>3, <1>7, <2>1
    <3> QED BY <1>4, <1>5, <3>1, <3>2
  <2>2. CASE nextTok.kind = "start"
    <3>1. Grown(scan, scan', "Final") /\ Grown(tags, tags', "Final")
      BY <1>1, <1>3, <2>2, Read
    <3>2. tags' = scan'
      BY <1>2, <1>4, <1>6, <3>1, StaysEqual
    <3>3. groups' = groups
      BY <1>1, <1>3, <1>7, <2>2
    <3>4. /\ Len(scan') = Len(scan) + 1 /\ scan'[Len(scan')] = "Final"
          /\ \A i \in 1 .. Len(scan) : scan'[i] = scan[i]
      BY <3>1 DEF Grown
    <3>5. Len(scan') - 1 = Len(scan) /\ Len(scan) \in Int /\ Len(scan) >= 2
      BY <1>4, <1>5, <3>4 DEF Nests
    <3>6. Nests(scan', Len(scan') - 1, groups)
      <4>1. Nests(scan', Len(scan), groups)
        BY <1>5, <3>4, <3>5, NestsPrefix
      <4> QED BY <3>5, <4>1
    <3>7. Len(scan') \in Nat /\ Len(scan') >= 3
      BY <1>4, <3>4, <3>5
    <3>8. Nests(scan', Len(scan'), groups)
      BY <3>4, <3>6, <3>7, FinalBegun
    <3> QED BY <3>2, <3>3, <3>8
  <2>3. CASE nextTok.kind = "end"
    <3>1. scan' = Front(scan) /\ tags' = Front(tags)
      BY <1>1, <1>3, <2>3, Read
    <3>2. scan[Len(scan)] = nextTok.tag
      BY <1>3, <1>4, <2>3 DEF Legal, Last
    <3>3. scan[Len(scan)] \in Groups \cup {"Final"}
      BY <1>3, <2>3, <3>2
    <3>4. Len(scan) >= 3
      BY <1>2, <1>4, <3>3, InBody
    <3>5. /\ Len(scan') = Len(scan) - 1
          /\ \A i \in 1 .. Len(scan) - 1 : scan'[i] = scan[i]
      BY <1>2, <1>4, <3>1, FrontShrunk DEF Shrunk
    <3>6. Nests(scan, Len(scan) - 1, groups')
      <4>1. CASE nextTok.tag = "Final"
        BY <1>1, <1>2, <1>4, <1>5, <1>7, <3>2, <3>4, <4>1, GroupEnded
      <4>2. CASE nextTok.tag \in Groups
        <5>1. nextTok.tag # "Final" /\ groups' = Front(groups)
          BY <1>1, <1>7, <4>2
        <5> QED BY <1>2, <1>4, <1>5, <3>2, <3>4, <5>1, GroupEnded
      <4> QED BY <3>2, <3>3, <4>1, <4>2
    <3>7. Len(scan) - 1 \in Int
      BY <1>4
    <3>8. Nests(scan', Len(scan) - 1, groups')
      BY <3>5, <3>6, <3>7, NestsPrefix
    <3> QED BY <1>4, <3>1, <3>5, <3>8
  <2> QED BY <1>3, <2>1, <2>2, <2>3
<1>9. Between(scan', groups')
  BY <1>8 DEF Between
<1> QED BY <1>1, <1>4, <1>8, <1>9 DEF Idle, Active

(* The body ends.                                                          *)
LEMMA EndKeeps ==
  ASSUME TypeInv, TypeInv', Idle, ~stray', EndOfBody
  PROVE  Idle' /\ Active'
<1>1. /\ pc = "next" /\ stream # << >> /\ AtNext(nextTok) = "end of body"
      /\ nextToken(nextTok) /\ pc' = "trailer"
  BY DEF EndOfBody, Next_, TokenAhead
<1>2. nextTok.kind \in Kinds
  BY <1>1, NextContext
<1>3. nextTok.kind = "end" /\ Legal(nextTok)
  <2>1. nextTok.kind \in {"end", "text"} /\ nextTok.tag = "SyncBody" /\ Legal(nextTok)
    BY <1>1, <1>2, NextReactions
  <2>2. OutsidePcdata /\ nextTok.tag # Undef
    BY <1>1, <2>1 DEF OutsidePcdata, Undef
  <2> QED BY <1>1, <2>1, <2>2, NoText
<1>4. tags = scan
  BY <1>1, NextAgrees
<1>5. scan' = Front(scan) /\ tags' = Front(tags)
  BY <1>1, <1>3, Read
<1> QED BY <1>1, <1>4, <1>5 DEF Idle, Active

(* A handed back command stays the next token, whatever arrives behind it. *)
LEMMA DoomedKept ==
  ASSUME TypeInv, Doomed, CallbackReturns \/ Input
  PROVE  Doomed'
<1>1. stream # << >> /\ nextTok.kind = "empty" /\ nextTok.tag \in cPE_Dec
  BY DEF Doomed, TokenAhead
<1>2. stream \in Seq(Items)
  BY DEF TypeInv
<1>3. UNCHANGED <<enc, page, curtok, scan>>
  BY DEF CallbackReturns, Input
<1>4. stream' # << >> /\ Head(stream') = Head(stream)
  <2>1. CASE CallbackReturns
    BY <2>1, <1>1 DEF CallbackReturns
  <2>2. CASE Input
    <3>1. stream' \in Seq(Items) /\ IsPrefix(stream, stream')
      BY <2>2 DEF Input
    <3>2. Len(stream) \in Nat /\ Len(stream) # 0 /\ Len(stream') \in Nat
      BY <1>1, <1>2, <3>1, EmptyLen
    <3>3. /\ Len(stream) <= Len(stream')
          /\ SubSeq(stream, 1, Len(stream)) = SubSeq(stream', 1, Len(stream))
      BY <3>1 DEF IsPrefix
    <3>4. stream[1] = stream'[1]
      <4>1. /\ 1 \in 1 .. Len(stream) - 1 + 1 /\ 1 + 1 - 1 = 1
            /\ \A i \in 1 .. Len(stream) : i \in 1 .. Len(stream')
        BY <3>2, <3>3
      <4>2. \A i \in 1 .. Len(stream) : stream[i] \in Items /\ stream'[i] \in Items
        BY <1>2, <3>1, <4>1, ElementOfSeq
      <4>3. SubSeq(stream, 1, Len(stream))[1] = stream[1]
        BY <3>2, <4>1, <4>2, SubSeqProperties
      <4>4. SubSeq(stream', 1, Len(stream))[1] = stream'[1]
        BY <3>2, <4>1, <4>2, SubSeqProperties
      <4> QED BY <3>3, <4>3, <4>4
    <3>5. stream' # << >>
      BY <3>1, <3>2, <3>3, EmptyLen
    <3>6. Head(stream) = stream[1] /\ Head(stream') = stream'[1]
      BY <1>1, <1>2, <3>1, <3>5
    <3> QED BY <3>4, <3>5, <3>6
  <2> QED BY <2>1, <2>2
<1>5. nextTok' = nextTok /\ Continues(Head(stream))' = Continues(Head(stream))
  BY <1>3, <1>4, SameToken
<1>6. TokenAhead'
  BY <1>4, <1>5 DEF Doomed, TokenAhead
<1> QED BY <1>1, <1>5, <1>6 DEF Doomed

(* A stray token is never forgotten.                                       *)
LEMMA StrayStays ==
  ASSUME [DecoderNext]_decoderVars, stray
  PROVE  stray'
<1>1. CASE UNCHANGED decoderVars
  BY <1>1 DEF decoderVars
<1>2. CASE \/ xltDecInit \/ EnterBody \/ xltDecNext \/ DeliverMark \/ EndOfBody
           \/ EndOfMessage \/ OpenChild \/ EmptyChild \/ concatPCData \/ MetInfWrapper
           \/ CloseElement
  <2>1. nextToken(nextTok)
    BY <1>2 DEF xltDecInit, EnterBody, xltDecNext, DeliverMark, EndOfBody, EndOfMessage,
                OpenChild, EmptyChild, concatPCData, MetInfWrapper, CloseElement
  <2> QED BY <2>1 DEF nextToken
<1>3. CASE \/ BuildExtension \/ CloseSync \/ StopAtCommand \/ Crash \/ DecodeError
           \/ EndOfBuffer \/ CallbackReturns \/ Input \/ TextGoesOn
  BY <1>3 DEF BuildExtension, CloseSync, StopAtCommand, Crash, DecodeError, EndOfBuffer,
              CallbackReturns, Input, TextGoesOn, discardToken
<1> QED BY <1>1, <1>2, <1>3 DEF DecoderNext, DecoderStep

(* Every step of the decoder keeps the invariant, and tells the callbacks  *)
(* something only while the two stacks agree.                              *)
LEMMA InvStep ==
  ASSUME DecoderInv, DecoderNext
  PROVE  DecoderInv' /\ (tags # scan /\ ~stray' => out' = out)
<1>1. TypeInv /\ TypeInv'
  BY TypeStep DEF DecoderInv
<1> SUFFICES ASSUME ~stray'
             PROVE  Idle' /\ Active' /\ (tags # scan => out' = out)
  BY <1>1 DEF DecoderInv
<1>2. ~stray /\ Idle /\ Active
  BY StrayStays DEF DecoderInv
<1>3. CASE xltDecInit
  BY <1>1, <1>2, <1>3, InitKeeps
<1>4. CASE EnterBody
  BY <1>1, <1>2, <1>4, BodyKeeps DEF EnterBody
<1>5. CASE xltDecNext
  BY <1>1, <1>2, <1>5, CommandKeeps DEF xltDecNext
<1>6. CASE DeliverMark
  BY <1>1, <1>2, <1>6, MarkKeeps
<1>7. CASE EndOfBody
  BY <1>1, <1>2, <1>7, EndKeeps DEF EndOfBody
<1>8. CASE EndOfMessage \/ Crash \/ DecodeError \/ EndOfBuffer
  <2>1. pc' \in {"done", "crashed", "failed"} /\ out' = out
    BY <1>8 DEF EndOfMessage, Crash, DecodeError, EndOfBuffer
  <2> QED BY <2>1 DEF Idle, Active
<1>9. CASE \/ OpenChild \/ EmptyChild \/ concatPCData \/ BuildExtension
           \/ MetInfWrapper \/ CloseElement \/ CloseSync \/ StopAtCommand
  <2>1. pc = "build" /\ stream # << >>
    BY <1>9 DEF OpenChild, EmptyChild, concatPCData, BuildExtension, MetInfWrapper,
                CloseElement, CloseSync, StopAtCommand, Building, TokenAhead
  <2>2. PICK k, h : BuildOK(k, h, calls, scan, tags, groups)
    BY <1>2, <2>1 DEF Active
  <2>3. CASE \/ OpenChild \/ EmptyChild \/ concatPCData \/ BuildExtension
             \/ MetInfWrapper
             \/ CloseElement /\ pc' = "build"
    <3>1. /\ pc' = "build" /\ out' = out
          /\ \E k2, h2 : BuildOK(k2, h2, calls', scan', tags', groups')
      BY <1>1, <2>1, <2>2, <2>3, BuildGoesOn
    <3> QED BY <3>1 DEF Idle, Active
  <2>4. CASE CloseElement /\ pc' # "build"
    <3>1. pc' = "held" /\ tags = scan /\ tags' = scan' /\ Between(scan', groups')
      BY <1>1, <2>1, <2>2, <2>4, ElementDelivered
    <3> QED BY <3>1 DEF Idle, Active
  <2>5. CASE CloseSync \/ StopAtCommand
    <3>1. /\ pc' = "held" /\ tags = scan /\ Between(scan', groups')
          /\ tags' = scan' \/ Doomed'
      BY <1>1, <2>1, <2>2, <2>5, GroupDelivered
    <3> QED BY <3>1 DEF Idle, Active
  <2>6. CASE CloseElement
    BY <2>3, <2>4, <2>6
  <2>7. CASE OpenChild \/ EmptyChild \/ concatPCData \/ BuildExtension \/ MetInfWrapper
    BY <2>3, <2>7
  <2> QED BY <1>9, <2>5, <2>6, <2>7
<1>10. CASE CallbackReturns
  <2>1. /\ pc = "held" /\ pc' = "next" /\ UNCHANGED <<scan, tags, calls, out, groups>>
    BY <1>10 DEF CallbackReturns
  <2>2. Doomed => Doomed'
    BY <1>1, <1>10, <2>1, DoomedKept
  <2> QED BY <1>2, <2>1, <2>2 DEF Idle, Active
<1>11. CASE Input
  <2>1. UNCHANGED <<scan, tags, calls, pc, out, groups>>
    BY <1>11 DEF Input
  <2>2. pc \in {"held", "next"} /\ Doomed => Doomed'
    BY <1>1, <1>11, DoomedKept
  <2>3. Idle'
    <3>1. /\ (pc = "start" => scan = << >> /\ tags = << >> /\ groups = << >>)'
          /\ (pc = "header" => scan = <<"SyncML">> /\ tags = <<"SyncML">> /\ groups = << >>)'
          /\ (pc = "trailer" => tags = scan)'
      BY <1>2, <2>1 DEF Idle
    <3>2. (pc \in {"held", "next"} => (tags = scan \/ Doomed) /\ Between(scan, groups))'
      BY <1>2, <2>1, <2>2 DEF Idle
    <3> QED BY <3>1, <3>2 DEF Idle
  <2>4. Active'
    BY <1>2, <2>1 DEF Active
  <2> QED BY <2>1, <2>3, <2>4
<1>12. CASE TextGoesOn
  <2>1. /\ pc \notin {"held", "done", "failed", "crashed"} /\ ~Doomed
        /\ UNCHANGED <<enc, scan, tags, pc, out, groups>>
    BY <1>12 DEF TextGoesOn, Reading, Doomed, TokenAhead
  <2>2. Idle'
    BY <1>2, <2>1 DEF Idle
  <2>3. Active'
    <3>1. CASE calls' = calls
      BY <1>2, <2>1, <3>1 DEF Active
    <3>2. CASE calls' # calls
      <4>1. pc = "build" /\ FramesOK(calls) /\ Collected(calls, calls')
        BY <1>1, <1>12, <3>2, GoesOnShape
      <4>2. PICK k, h : BuildOK(k, h, calls, scan, tags, groups)
        BY <1>2, <4>1 DEF Active
      <4>3. scan \in Seq(Names)
        BY <1>1 DEF TypeInv, DecoderTypeOK
      <4>4. \E k2, h2 : BuildOK(k2, h2, calls', scan, tags, groups)
        BY <4>1, <4>2, <4>3, CollectedKeeps
      <4> QED BY <2>1, <4>4 DEF Active
    <3> QED BY <3>1, <3>2
  <2> QED BY <2>1, <2>2, <2>3
<1> QED BY <1>3, <1>4, <1>5, <1>6, <1>7, <1>8, <1>9, <1>10, <1>11, <1>12
        DEF DecoderNext, DecoderStep

LEMMA InvStutter ==
  ASSUME DecoderInv, UNCHANGED decoderVars
  PROVE  DecoderInv'
<1>1. nextTok' = nextTok /\ Continues(Head(stream))' = Continues(Head(stream))
  BY SameToken DEF decoderVars
<1>2. Doomed' = Doomed
  BY <1>1 DEF decoderVars, Doomed, TokenAhead
<1>3. TypeInv'
  BY TypeStep DEF DecoderInv
<1>4. (~stray => Idle /\ Active)'
  BY <1>2 DEF DecoderInv, decoderVars, Idle, Active
<1> QED BY <1>3, <1>4 DEF DecoderInv

LEMMA InvStart == DecoderInit => DecoderInv
<1> SUFFICES ASSUME DecoderInit PROVE DecoderInv
  OBVIOUS
<1>1. TypeInv
  BY TypeStart
<1>2. Idle /\ Active
  BY DEF DecoderInit, Idle, Active
<1> QED BY <1>1, <1>2 DEF DecoderInv

(* The inductive invariant holds of every message, in WBXML and in XML.    *)
THEOREM DecoderInvariant == DecoderSpec => []DecoderInv
<1>1. DecoderInv /\ [DecoderNext]_decoderVars => DecoderInv'
  BY InvStep, InvStutter
<1> QED BY <1>1, InvStart, PTL DEF DecoderSpec

(* A build function ends at the end tag of its own element: the scanner's  *)
(* innermost tag is the one the innermost build function waits for, as     *)
(* long as the message had no stray token (in XML, text outside PCDATA).   *)
THEOREM EndsOfElements == DecoderSpec => []EndsMatch
<1>1. ASSUME DecoderInv PROVE EndsMatch
  <2> SUFFICES ASSUME EndsElement, ~stray, ~Stray(nextTok)
               PROVE  nextTok.tag = OwnEnd
    BY DEF EndsMatch
  <2>1. /\ TypeInv /\ pc = "build" /\ stream # << >> /\ Reaction(Top, nextTok) = "close"
        /\ ~(Len(calls) = 1 /\ Top.tag = "SyncHdr")
    BY <1>1 DEF DecoderInv, EndsElement, Building, TokenAhead
  <2>2. PICK k, h : BuildOK(k, h, calls, scan, tags, groups)
    BY <1>1, <2>1 DEF DecoderInv, Active
  <2>3. /\ FramesOK(calls) /\ Top = calls[Len(calls)] /\ FrameOK(Top)
        /\ Len(calls) \in Nat /\ Len(calls) >= 1 /\ nextTok.kind \in Kinds
    BY <2>1, BuildContext
  <2>4. nextTok.kind = "end"
    BY <2>1, <2>3, Reactions
  <2>5. h[Len(calls)] = Len(scan)
    BY <2>2 DEF BuildOK, Placed
  <2>6. Len(calls) > 1 \/ calls[1].tag # "SyncHdr"
    <3>1. CASE Len(calls) = 1
      BY <2>1, <2>3, <3>1
    <3>2. CASE Len(calls) # 1
      <4>1. \A n \in Nat : n >= 1 /\ n # 1 => n > 1
        OBVIOUS
      <4> QED BY <2>3, <3>2, <4>1
    <3> QED BY <3>1, <3>2
  <2>7. Len(scan) >= 1 /\ scan[Len(scan)] = Own(calls, Len(calls))
    <3>1. Len(calls) \in 1 .. Len(calls)
      BY <2>3
    <3> QED BY <2>2, <2>5, <2>6, <3>1 DEF BuildOK, Placed
  <2>8. scan # << >>
    <3>1. scan \in Seq(Names)
      BY <2>1 DEF TypeInv, DecoderTypeOK
    <3> QED BY <2>7, <3>1, EmptyLen
  <2>9. nextTok.tag = Last(scan)
    BY <2>4, <2>8 DEF Stray
  <2>10. OwnEnd = Own(calls, Len(calls))
    BY <2>3 DEF OwnEnd, Own
  <2> QED BY <2>7, <2>9, <2>10 DEF Last
<1> QED BY <1>1, DecoderInvariant, PTL

(* Between two commands the groups the callbacks know of are those the     *)
(* scanner has open, in the same order, whatever was in the message, as    *)
(* long as none of it was stray (in XML, text outside PCDATA is).          *)
THEOREM GroupsOfMessage == DecoderSpec => []GroupsNest
<1>1. ASSUME DecoderInv PROVE GroupsNest
  <2> SUFFICES ASSUME pc = "next", Len(scan) > 1, ~stray
               PROVE  Nests(scan, Len(scan), groups)
    BY DEF GroupsNest
  <2>1. Between(scan, groups)
    BY <1>1 DEF DecoderInv, Idle
  <2>2. scan # << >> /\ scan # <<"SyncML">>
    <3>1. Len(<< >>) = 0 /\ Len(<<"SyncML">>) = 1 /\ ~(0 > 1) /\ ~(1 > 1)
      OBVIOUS
    <3> QED BY <3>1
  <2> QED BY <2>1, <2>2 DEF Between
<1> QED BY <1>1, DecoderInvariant, PTL

(* Once the stacks of the scanner and of the decoder differ, no element    *)
(* reaches the callbacks any more, unless the message has stray tokens.    *)
THEOREM DesyncIsFatal == DecoderSpec => DesyncFatal
<1>1. ASSUME DecoderInv, [DecoderNext]_decoderVars
      PROVE  [tags # scan /\ ~stray' => out' = out]_decoderVars
  BY <1>1, InvStep
<1> QED BY <1>1, DecoderInvariant, PTL DEF DecoderSpec, DesyncFatal

==============================================================================
