---------------------------- MODULE SyncMLGrammar ----------------------------
(***************************************************************************)
(* The tables of the SyncML reference toolkit: the WBXML tag bytes, what   *)
(* each build function of the decoder accepts, in which order the encoder  *)
(* writes the children of an element, and which children the free          *)
(* functions release.  A protocol element is a node: its tag, its text (a  *)
(* sequence of content tokens) and its children, a function from the tags  *)
(* present to sequences of nodes.                                          *)
(***************************************************************************)
EXTENDS Naturals, Sequences

Undef == "undef"

(***************************************************************************)
(* Tag tables: the byte of a tag is its place in its code page plus 4.     *)
(* Byte 0x30 of the SyncML page is not assigned.                           *)
(***************************************************************************)
SyncMLPage ==
  << "Add", "Alert", "Archive", "Atomic", "Chal", "Cmd", "CmdID", "CmdRef",
     "Copy", "Cred", "Data", "Delete", "Exec", "Final", "Get", "Item", "Lang",
     "LocName", "LocURI", "Map", "MapItem", "Meta", "MsgID", "MsgRef", "NoResp",
     "NoResults", "Put", "Replace", "RespURI", "Results", "Search", "Sequence",
     "SessionID", "SftDel", "Source", "SourceRef", "Status", "Sync",
     "SyncBody", "SyncHdr", "SyncML", "Target", "TargetRef", Undef, "VerDTD",
     "VerProto", "NumberOfChanges", "MoreData", "Field", "Filter", "Record",
     "FilterType", "SourceParent", "TargetParent", "Move", "Correlator" >>

MetInfPage ==
  << "Anchor", "EMI", "Format", "FreeID", "FreeMem", "Last", "Mark",
     "MaxMsgSize", "Mem", "MetInf", "Next", "NextNonce", "SharedMem", "Size",
     "Type", "Version", "MaxObjSize", "FieldLevel" >>

getTagTable(page) == IF page = 0 THEN SyncMLPage ELSE MetInfPage

getTagIDByByteAndExt(byte, page) ==
  LET table == getTagTable(page)
  IN  IF byte \in 5 .. Len(table) + 4 THEN table[byte - 4] ELSE Undef

getTagIDByStringAndExt(name, page) ==
  LET table == getTagTable(page)
  IN  IF \E i \in DOMAIN table : table[i] = name THEN name ELSE Undef

getCodePage(tag) ==
  IF \E i \in DOMAIN MetInfPage : MetInfPage[i] = tag THEN 1 ELSE 0

getTagByte(tag) ==
  LET table == getTagTable(getCodePage(tag))
  IN  4 + CHOOSE i \in DOMAIN table : table[i] = tag

(***************************************************************************)
(* Build functions.  pcdata, structs, lists and flags are the children a   *)
(* function accepts; stops are the commands at which a group stops and     *)
(* hands the token back; required children are counted when met, present   *)
(* or not; empty says what becomes of the tag without content.             *)
(***************************************************************************)
Builder(pcdata, structs, lists, flags, required, empty) ==
  [pcdata |-> pcdata, structs |-> structs, lists |-> lists, flags |-> flags,
   stops |-> {}, required |-> required, empty |-> empty]

buildSyncHdr ==
  Builder({"VerDTD", "VerProto", "SessionID", "MsgID", "RespURI", "Meta"},
          {"Target", "Source", "Cred"}, {}, {"NoResp"},
          {"SessionID", "MsgID", "Target", "Source", "VerDTD", "VerProto"}, "keep")

buildSync ==
  [Builder({"CmdID", "Meta", "NumberOfChanges"}, {"Cred", "Target", "Source"},
           {}, {"NoResp"}, {}, "crash")
   EXCEPT !.stops = {"Add", "Atomic", "Copy", "Delete", "Sequence", "Replace"}]

buildAtomOrSeq ==
  [Builder({"CmdID", "Meta"}, {}, {}, {"NoResp"}, {"CmdID"}, "error")
   EXCEPT !.stops = {"Add", "Replace", "Delete", "Copy", "Atomic", "Map", "Sync",
                     "Get", "Alert", "Exec"}]

buildExec ==
  Builder({"CmdID", "Meta", "Correlator"}, {"Cred"}, {"Item"}, {"NoResp"},
          {"Item", "CmdID"}, "error")

buildGenericCmd ==
  Builder({"CmdID", "Meta"}, {"Cred"}, {"Item"}, {"NoResp", "Archive", "SftDel"},
          {"Item", "CmdID"}, "error")

buildAlert ==
  Builder({"CmdID", "Data"}, {"Cred"}, {"Item"}, {"NoResp"}, {"CmdID"}, "error")

buildPutOrGet ==
  Builder({"CmdID", "Lang", "Meta"}, {"Cred"}, {"Item"}, {"NoResp"},
          {"Item", "CmdID"}, "error")

buildStatus ==
  Builder({"CmdID", "MsgRef", "CmdRef", "Cmd", "Data"}, {"Chal", "Cred"},
          {"Item", "TargetRef", "SourceRef"}, {}, {"Cmd", "Data", "CmdID"}, "error")

buildRecordFieldFilter == Builder({}, {"Item"}, {}, {}, {"Item"}, "drop")

buildFilter ==
  Builder({"Meta", "FilterType"}, {"Field", "Record"}, {}, {}, {"Meta"}, "drop")

buildTargetOrSourceParent == Builder({"LocURI"}, {}, {}, {}, {"LocURI"}, "drop")

buildTargetOrSource ==
  Builder({"LocURI", "LocName"}, {"Filter"}, {}, {}, {"LocURI"}, "drop")

buildChal == Builder({"Meta"}, {}, {}, {}, {"Meta"}, "keep")

buildCred == Builder({"Data", "Meta"}, {}, {}, {}, {"Data"}, "keep")

buildItem ==
  Builder({"Meta", "Data"}, {"Target", "Source", "TargetParent", "SourceParent"},
          {}, {"MoreData"}, {}, "keep")

buildMetInfAnchorCmd == Builder({"Last", "Next"}, {}, {}, {}, {}, "keep")

buildMetInfMemCmd == Builder({"FreeMem", "FreeID"}, {}, {}, {"SharedMem"}, {}, "keep")

buildMetInfMetInfCmd ==
  Builder({"Format", "Type", "Mark", "Size", "Version", "NextNonce", "MaxMsgSize",
           "MaxObjSize"}, {"Anchor", "Mem"}, {"EMI"}, {"FieldLevel"}, {}, "keep")

GenericCmds == {"Add", "Copy", "Delete", "Replace", "Move"}

(* The commands of cPE_Dec.  The functions for the last three are not      *)
(* compiled in: their entries are null pointers.                           *)
NotCompiled == {"Map", "Results", "Search"}

cPE_Dec == GenericCmds \cup {"Alert", "Atomic", "Exec", "Get", "Put", "Sequence",
                             "Status", "Sync"} \cup NotCompiled

Build(tag) ==
  CASE tag = "SyncHdr"                          -> buildSyncHdr
    [] tag = "Sync"                             -> buildSync
    [] tag \in {"Atomic", "Sequence"}           -> buildAtomOrSeq
    [] tag = "Exec"                             -> buildExec
    [] tag \in GenericCmds                      -> buildGenericCmd
    [] tag = "Alert"                            -> buildAlert
    [] tag \in {"Get", "Put"}                   -> buildPutOrGet
    [] tag = "Status"                           -> buildStatus
    [] tag \in {"Field", "Record"}              -> buildRecordFieldFilter
    [] tag = "Filter"                           -> buildFilter
    [] tag \in {"TargetParent", "SourceParent"} -> buildTargetOrSourceParent
    [] tag \in {"Target", "Source"}             -> buildTargetOrSource
    [] tag = "Chal"                             -> buildChal
    [] tag = "Cred"                             -> buildCred
    [] tag = "Item"                             -> buildItem
    [] tag = "Anchor"                           -> buildMetInfAnchorCmd
    [] tag = "Mem"                              -> buildMetInfMemCmd
    [] tag = "MetInf"                           -> buildMetInfMetInfCmd

Children(b) == b.pcdata \cup b.structs \cup b.lists \cup b.flags

(* appendItemList builds items; the other lists hold PCDATA.               *)
ReadAsPcdata(b, tag) == tag \in b.pcdata \cup (b.lists \ {"Item"})

(* The tags whose content the XML scanner reads as PCDATA.                 *)
isPcdata(tag) ==
  tag \in {"Cmd", "CmdID", "CmdRef", "Lang", "LocName", "LocURI", "MsgID", "MsgRef",
           "RespURI", "SessionID", "SourceRef", "TargetRef", "VerDTD", "VerProto",
           "Data", "Meta", "Correlator", "NumberOfChanges", "FilterType", "EMI",
           "Format", "FreeID", "FreeMem", "Last", "Mark", "MaxMsgSize",
           "MaxObjSize", "Next", "NextNonce", "Size", "Type", "Version"}

(***************************************************************************)
(* Encoder: the children of an element in the order they are written, and  *)
(* those without which the element cannot be encoded.                      *)
(***************************************************************************)
Layout(order, required) == [order |-> order, required |-> required]

encSyncHdr ==
  Layout(<<"VerDTD", "VerProto", "SessionID", "MsgID", "Target", "Source",
           "RespURI", "NoResp", "Cred", "Meta">>,
         {"VerDTD", "VerProto", "SessionID", "MsgID", "Target", "Source"})

encCred == Layout(<<"Meta", "Data">>, {"Data"})

encParent == Layout(<<"LocURI">>, {"LocURI"})

encTargetOrSource == Layout(<<"LocURI", "LocName", "Filter">>, {"LocURI"})

encItem == Layout(<<"Target", "Source", "TargetParent", "SourceParent", "Meta",
                    "Data", "MoreData">>, {})

encRecordOrField == Layout(<<"Item">>, {"Item"})

encFilter == Layout(<<"Meta", "Field", "Record", "FilterType">>, {"Meta"})

encGeneric == Layout(<<"CmdID", "NoResp", "Cred", "Meta", "Item">>, {"CmdID", "Item"})

encAlert == Layout(<<"CmdID", "NoResp", "Cred", "Correlator", "Data", "Item">>,
                   {"CmdID"})

encDelete == Layout(<<"CmdID", "NoResp", "Archive", "SftDel", "Cred", "Meta",
                      "Item">>, {"CmdID", "Item"})

encPutOrGet == Layout(<<"CmdID", "NoResp", "Lang", "Cred", "Meta", "Item">>,
                      {"CmdID", "Item"})

encMap == Layout(<<"CmdID", "Target", "Source", "Cred", "Meta", "MapItem">>,
                 {"CmdID", "Target", "Source", "MapItem"})

encMapItem == Layout(<<"Target", "Source">>, {"Target", "Source"})

encResults == Layout(<<"CmdID", "MsgRef", "CmdRef", "Meta", "TargetRef",
                       "SourceRef", "Item">>, {"CmdID", "CmdRef", "Item"})

encChal == Layout(<<"Meta">>, {"Meta"})

encStatus == Layout(<<"CmdID", "MsgRef", "CmdRef", "Cmd", "TargetRef", "SourceRef",
                      "Cred", "Chal", "Data", "Item">>,
                    {"CmdID", "MsgRef", "CmdRef", "Cmd", "Data"})

encSync == Layout(<<"CmdID", "NoResp", "Cred", "Target", "Source", "Meta",
                    "NumberOfChanges">>, {"CmdID"})

encAnchor == Layout(<<"Last", "Next">>, {"Next"})

encMem == Layout(<<"SharedMem", "FreeMem", "FreeID">>, {"FreeMem", "FreeID"})

encMetInf == Layout(<<"Format", "Type", "Mark", "Size", "Anchor", "Version",
                      "NextNonce", "MaxMsgSize", "MaxObjSize", "EMI", "Mem",
                      "FieldLevel">>, {})

(* The elements with children of their own; every other tag is PCDATA,     *)
(* whose children, if any, are those of a MetInf document.                 *)
xltEncBlock(tag) ==
  CASE tag = "SyncHdr"                          -> encSyncHdr
    [] tag = "Cred"                             -> encCred
    [] tag \in {"TargetParent", "SourceParent"} -> encParent
    [] tag \in {"Target", "Source"}             -> encTargetOrSource
    [] tag = "Item"                             -> encItem
    [] tag \in {"Field", "Record"}              -> encRecordOrField
    [] tag = "Filter"                           -> encFilter
    [] tag \in GenericCmds \ {"Delete"}         -> encGeneric
    [] tag = "Alert"                            -> encAlert
    [] tag = "Delete"                           -> encDelete
    [] tag \in {"Get", "Put"}                   -> encPutOrGet
    [] tag = "Map"                              -> encMap
    [] tag = "MapItem"                          -> encMapItem
    [] tag = "Results"                          -> encResults
    [] tag = "Chal"                             -> encChal
    [] tag = "Status"                           -> encStatus
    [] tag = "Sync"                             -> encSync
    [] tag = "Anchor"                           -> encAnchor
    [] tag = "Mem"                              -> encMem
    [] OTHER                                    -> encMetInf

EncFlags == {"NoResp", "Archive", "SftDel", "MoreData", "SharedMem", "FieldLevel"}

(***************************************************************************)
(* Free functions: the children each of them releases.                     *)
(***************************************************************************)
freeCommand(tag) ==
  CASE tag = "SyncHdr" -> {"VerDTD", "VerProto", "SessionID", "MsgID", "RespURI",
                           "Meta", "Source", "Target", "Cred"}
    [] tag = "Sync"    -> {"CmdID", "Meta", "NumberOfChanges", "Source", "Target",
                           "Cred"}
    [] tag \in GenericCmds            -> {"CmdID", "Meta", "Cred", "Item"}
    [] tag = "Alert"                  -> {"CmdID", "Data", "Correlator", "Cred",
                                          "Item"}
    [] tag \in {"Atomic", "Sequence"} -> {"CmdID", "Meta"}
    [] tag = "Exec"                   -> {"CmdID", "Cred", "Item"}
    [] tag \in {"Get", "Put"}         -> {"CmdID", "Meta", "Lang", "Cred", "Item"}
    [] tag = "Status"                 -> {"CmdID", "MsgRef", "CmdRef", "Cmd", "Data",
                                          "Cred", "Chal", "TargetRef", "SourceRef",
                                          "Item"}

(* Mutant of freePart: the Meta of a Chal or a Cred is not released.       *)
MutantMetaKept(tag) ==
  CASE tag = "Cred"                             -> {"Data"}
    [] tag = "Chal"                             -> {}
    [] tag \in {"Field", "Record"}              -> {"Item"}
    [] tag = "Filter"                           -> {"Meta", "Field", "Record",
                                                    "FilterType"}
    [] tag \in {"TargetParent", "SourceParent"} -> {"LocURI"}
    [] tag \in {"Target", "Source"}             -> {"LocURI", "LocName", "Filter"}
    [] tag = "Item"                             -> {"Meta", "Data", "Source",
                                                    "Target"}

freePart(tag) ==
  CASE tag = "Cred"                             -> {"Meta", "Data"}
    [] tag = "Chal"                             -> {"Meta"}
    [] tag \in {"Field", "Record"}              -> {"Item"}
    [] tag = "Filter"                           -> {"Meta", "Field", "Record",
                                                    "FilterType"}
    [] tag \in {"TargetParent", "SourceParent"} -> {"LocURI"}
    [] tag \in {"Target", "Source"}             -> {"LocURI", "LocName", "Filter"}
    [] tag = "Item"                             -> {"Meta", "Data", "Source",
                                                    "Target"}

(* smlFreePcdata and its MetInf parts.                                     *)
freeMetinf(tag) ==
  CASE tag = "Anchor" -> {"Last", "Next"}
    [] tag = "Mem"    -> {"FreeMem", "FreeID"}
    [] OTHER          -> {"Format", "Type", "Mark", "Size", "Version", "NextNonce",
                          "MaxMsgSize", "MaxObjSize", "Anchor", "Mem", "EMI"}

smlFreeProtoElement(tag) ==
  CASE tag \in {"SyncHdr"} \cup (cPE_Dec \ NotCompiled) -> freeCommand(tag)
    [] tag \in {"Cred", "Chal", "Field", "Record", "Filter", "TargetParent",
                "SourceParent", "Target", "Source", "Item"} -> freePart(tag)
    [] OTHER -> freeMetinf(tag)

(***************************************************************************)
(* Nodes.                                                                  *)
(***************************************************************************)
Node(tag, text, kids) == [tag |-> tag, text |-> text, kids |-> kids]

Bare(tag) == Node(tag, << >>, << >>)

Leaf(tag, text) == Node(tag, <<text>>, << >>)

(* kids with one more child.                                               *)
WithKid(kids, v) ==
  [t \in DOMAIN kids \cup {v.tag} |->
     IF t = v.tag THEN Append(IF t \in DOMAIN kids THEN kids[t] ELSE << >>, v)
                  ELSE kids[t]]
==============================================================================
