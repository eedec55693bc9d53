------------------------------- MODULE MCWire -------------------------------
(* Instances of Wire for TLC: messages to encode and decode, and servers   *)
(* that send anything of a small vocabulary.                               *)
EXTENDS Wire

Elem(tag, kids) ==
  Node(tag, << >>, FoldLeft(LAMBDA fs, v : WithKid(fs, v), << >>, kids))

LocURI(tag) == Elem(tag, <<Leaf("LocURI", "uri")>>)
Meta(kids) == Elem("Meta", kids)
Id(n) == Leaf("CmdID", n)

Header ==
  Elem("SyncHdr", <<Leaf("VerDTD", "1.2"), Leaf("VerProto", "DM"),
                    Leaf("SessionID", "s"), Leaf("MsgID", "1"), LocURI("Target"),
                    Elem("Source", <<Leaf("LocURI", "uri"), Leaf("LocName", "n")>>),
                    Elem("Cred", <<Meta(<<Leaf("Format", "b64"), Leaf("Type", "md5")>>),
                                   Leaf("Data", "digest")>>),
                    Meta(<<Leaf("MaxMsgSize", "4000")>>)>>)

Alert == Elem("Alert", <<Id("1"), Leaf("Data", "1201")>>)

GenericAlert ==
  Elem("Alert", <<Id("2"), Leaf("Data", "1226"),
                  Elem("Item", <<LocURI("Source"),
                                 Meta(<<Leaf("Type", "t"), Leaf("Format", "chr"),
                                        Leaf("Mark", "m")>>),
                                 Leaf("Data", "d")>>)>>)

Replace ==
  Elem("Replace", <<Id("3"),
                    Elem("Item", <<LocURI("Source"), Leaf("Data", "d")>>),
                    Elem("Item", <<LocURI("Target"), Meta(<<Leaf("Size", "9")>>),
                                   Bare("MoreData")>>)>>)

(* Its last tag is on the MetInf page.                                     *)
Add ==
  Elem("Add", <<Id("4"), Elem("Item", <<LocURI("Target"),
                                        Meta(<<Elem("Anchor", <<Leaf("Last", "l"),
                                                                Leaf("Next", "n")>>),
                                               Leaf("EMI", "e"), Leaf("EMI", "f"),
                                               Elem("Mem", <<Bare("SharedMem"),
                                                             Leaf("FreeMem", "1"),
                                                             Leaf("FreeID", "2")>>)>>)>>)>>)

Status ==
  Elem("Status", <<Id("5"), Leaf("MsgRef", "1"), Leaf("CmdRef", "0"),
                   Leaf("Cmd", "SyncHdr"), Leaf("TargetRef", "t"),
                   Leaf("SourceRef", "s"), Leaf("SourceRef", "s2"),
                   Elem("Chal", <<Meta(<<Leaf("Format", "b64"), Leaf("Type", "md5"),
                                         Leaf("NextNonce", "n")>>)>>),
                   Leaf("Data", "401")>>)

NoMsgRef ==
  Elem("Status", <<Id("5"), Leaf("CmdRef", "0"), Leaf("Cmd", "Get"), Leaf("Data", "200")>>)

Results ==
  Elem("Results", <<Id("6"), Leaf("CmdRef", "2"),
                    Elem("Item", <<LocURI("Source"), Bare("Data")>>)>>)

Delete ==
  Elem("Delete", <<Id("7"), Bare("NoResp"), Bare("Archive"),
                   Elem("Item", <<LocURI("Target")>>)>>)

Get == Elem("Get", <<Id("8"), Leaf("Lang", "en"), Elem("Item", <<LocURI("Target")>>)>>)

Sync ==
  Elem("Sync", <<Id("9"),
                 Elem("Target", <<Leaf("LocURI", "uri"),
                                  Elem("Filter", <<Meta(<<Leaf("Type", "t")>>),
                                                   Elem("Record", <<Elem("Item", << >>)>>),
                                                   Leaf("FilterType", "x")>>)>>)>>)

(* FieldLevel after, and without, other tags of its page.                  *)
Flagged ==
  Elem("Add", <<Id("1"), Elem("Item", <<Meta(<<Leaf("Mark", "m"), Bare("FieldLevel")>>)>>)>>)
FlagOnly == Elem("Add", <<Id("1"), Elem("Item", <<Meta(<<Bare("FieldLevel")>>)>>)>>)

Encode(coding, message, final) ==
  [enc |-> coding, message |-> message, prefix |-> << >>, items |-> 0, vocabulary |-> {},
   final |-> final]

Messages ==
  {<<Header, Status, Alert, GenericAlert, Replace>>,
   <<Header, Add, Delete, Get>>,
   <<Header, Flagged, Delete>>,
   <<Header, FlagOnly>>,
   <<Header, Sync, Add, Bare("SyncEnd"), Sync, Bare("SyncEnd")>>,
   <<Header, Alert, NoMsgRef>>,
   <<Header, Status, Results>>}

Encoded == {Encode(coding, message, final) :
              coding \in {"wbxml", "xml"}, message \in Messages, final \in BOOLEAN}

(* Servers.  The messages begin with an empty header, and where a group or *)
(* a command is what matters, with its beginning.                          *)
Tag(tag) == TagItem(tag, TRUE, NoSwitch)
Empty(tag) == TagItem(tag, FALSE, NoSwitch)
OnPage(tag) == TagItem(tag, TRUE, getCodePage(tag))
EmptyOnPage(tag) == TagItem(tag, FALSE, getCodePage(tag))

Send(prefix, items, vocabulary) ==
  [enc |-> "wbxml", message |-> << >>, prefix |-> prefix, items |-> items, vocabulary |-> vocabulary,
   final |-> FALSE]

Body == <<Tag("SyncML"), Empty("SyncHdr"), Tag("SyncBody")>>
Text1(tag) == <<Tag(tag), TextItem("x"), EndItem>>
GetIn(prefix) == prefix \o <<Tag("Get")>> \o Text1("CmdID")

Servers ==
  {\* the frame of a message
   Send(<< >>, 7, {Tag("SyncML"), Empty("SyncHdr"), Tag("SyncHdr"), Tag("SyncBody"),
                   TextItem("x"), Empty("Final"), EndItem, BadItem}),
   \* a header
   Send(<<Tag("SyncML"), Tag("SyncHdr")>> \o Text1("VerDTD") \o Text1("VerProto") \o
          Text1("SessionID") \o Text1("MsgID") \o <<Empty("Target")>>,
        7, {Empty("Source"), Tag("Source"), Tag("LocURI"), Empty("RespURI"),
            Tag("NoResp"), Tag("SyncBody"), EndItem}),
   \* groups and commands without content
   Send(Body, 9, {Tag("Sync"), Tag("Atomic"), Tag("Sequence"), Empty("CmdID"),
                  Tag("Add"), Empty("Item"), Tag("Final"), EndItem}),
   Send(Body, 4, {Empty(t) : t \in cPE_Dec} \cup {Tag("Results"), TextItem("x"), EndItem}),
   \* a MetInf document in a group
   Send(Body \o <<Tag("Atomic"), Empty("CmdID"), Tag("Add"), Empty("CmdID"), Tag("Item"),
                  Tag("Meta")>>,
        9, {OnPage("MetInf"), EmptyOnPage("MetInf"), OnPage("EMI"), EmptyOnPage("EMI"),
            TextItem("x"), EndItem}),
   Send(GetIn(Body) \o <<Tag("Item"), Tag("Meta"), OnPage("Format")>>,
        9, {EmptyOnPage("Type"), EmptyOnPage("Format"), OnPage("Mem"), Empty("SharedMem"),
            TextItem("x"), EndItem}),
   \* what is freed
   Send(Body \o <<Tag("Exec"), Empty("CmdID"), Tag("Item")>>,
        7, {Empty("Meta"), Empty("Correlator"), Tag("TargetParent"), Empty("LocURI"),
            Empty("Cred"), EndItem}),
   Send(Body \o <<Tag("Status"), Empty("CmdID"), Empty("Cmd")>>,
        7, {Tag("Chal"), Empty("Meta"), Tag("Cred"), Empty("Data"), Empty("TargetRef"),
            EndItem})}

(* XML servers.                                                            *)
XTag(tag) == XmlItem(tag, TRUE, NoSwitch)
XEmpty(tag) == XmlItem(tag, FALSE, NoSwitch)
XSpace(tag) == XmlItem(tag, TRUE, 1)

SendXml(prefix, items, vocabulary) == [Send(prefix, items, vocabulary) EXCEPT !.enc = "xml"]

XBody == <<XmlItem("SyncML", TRUE, 0), XEmpty("SyncHdr"), XTag("SyncBody"), XTag("Atomic"),
           XEmpty("CmdID"), XTag("Add"), XEmpty("CmdID"), XTag("Item"), XTag("Meta")>>

(* A header under another name.                                            *)
XText1(tag) == <<XTag(tag), TextItem("x"), XmlEnd(tag)>>
XHeader == <<XmlItem("SyncML", TRUE, 0), XTag("Meta")>> \o XText1("VerDTD") \o
           XText1("VerProto") \o XText1("SessionID") \o XText1("MsgID") \o
           <<XEmpty("Target"), XEmpty("Source")>>

XmlServers ==
  {SendXml(XHeader, 7, {XTag("Meta"), XSpace("EMI"), XmlItem("EMI", FALSE, 1), XTag("SyncBody"),
                        XmlEnd("EMI"), XmlEnd("Meta"), XmlEnd("SyncML")}),
   SendXml(XBody, 8, {XSpace("MetInf"), XmlItem("EMI", FALSE, 1), XmlEnd("EMI"), XTag("EMI"),
                       XmlEnd("Meta"), XmlEnd("Item"), XmlEnd("Add"), XmlEnd("MetInf")}),
   SendXml(XBody, 7, {XSpace("Type"), XmlItem("Format", TRUE, 0), TextItem("x"),
                      XmlEnd("Type"), XmlEnd("Format"), XmlEnd("Meta"), XmlEnd("Item")}),
   SendXml(XBody \o <<XmlEnd("Meta"), XmlEnd("Item"), XmlEnd("Add")>>, 7,
           {XmlItem("Sync", TRUE, 0), XmlItem("Add", FALSE, 1), XEmpty("Final"), BadItem,
            XmlEnd("Sync"), XmlEnd("Atomic"), XmlEnd("SyncBody"), XmlEnd("SyncML")})}

(* XML servers that send text, CDATA sections and entities anywhere.       *)
XGroup == <<XmlItem("SyncML", TRUE, 0), XEmpty("SyncHdr"), XTag("SyncBody"), XTag("Atomic"),
            XEmpty("CmdID")>>

XmlTexts ==
  {\* between and after commands, groups and flags
   SendXml(XGroup \o <<XTag("Add"), XEmpty("CmdID"), XEmpty("Item")>>,
           7, {XEmpty("NoResp"), XTag("Item"), TextItem("x"), CdataItem("y"), XmlEnd("Item"),
               XmlEnd("Add"), XmlEnd("Atomic"), XEmpty("Final"), XmlEnd("SyncBody")}),
   \* in and after PCDATA, of which there may be several in a row
   SendXml(XGroup \o <<XTag("Add"), XEmpty("CmdID"), XTag("Item"), XTag("Meta"),
                       XSpace("EMI")>>,
           7, {XTag("EMI"), XEmpty("EMI"), TextItem("x"), CdataItem("y"), XmlEnd("EMI"),
               XmlEnd("Meta"), XmlEnd("Item"), XmlEnd("Add")}),
   \* in front of the header and of the body
   SendXml(<<XmlItem("SyncML", TRUE, 0)>>, 5,
           {XEmpty("SyncHdr"), XTag("SyncBody"), TextItem("x"), CdataItem("y"),
            XmlEnd("SyncBody"), XmlEnd("SyncML")})}

Runs == Encoded \cup Servers \cup XmlServers \cup XmlTexts
=============================================================================
