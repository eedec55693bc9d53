# libdmclient: a verification project

TLA+ models of libdmclient, the OMA Device Management client library: the
protocol session with a DM server, the delivery of its requests, authentication,
the device tree with its access control and its management objects, and the
SyncML toolkit that writes and reads the messages. TLC checks the models on small instances; TLAPS
proves the most important properties for every instance.

Paths such as `omadmclient.c` are relative to `src/dmcore/src/` unless they are
given in full.

## 1. The system

An application opens a handle, registers *management objects* (MOs: plug-ins
that hold parts of the device tree), starts a session with a server and then
repeats: take the next packet, send it, feed the reply back. The library packs
what it has to say (its package #1, generic alerts, answers to the server's
commands) into each packet, and executes the commands of each reply on the tree.
The library is single-threaded. What is hard is the order of things: replies
whose parts refer to earlier packets, commands nested in commands, failures
between two steps, state that outlives the call that set it.

| part | state | operations | talks to |
|---|---|---|---|
| session API (`omadmclient.c`, `internals.h`) | session state, account, `srv_auth`, `clt_auth`, message number, open Sequence | `init`, `session_add_mo`, `set_UI_callback`, `add_generic_alert`, `session_start`, `session_start_on_alert`, `get_next_packet`, `process_reply`, `session_close` | application; toolkit; tree |
| SyncML callbacks (`callbacks.c`) | the fields above | one callback per element of a reply: header, Status, Alert, Add/Copy/Delete/Replace/Exec/Get, Atomic, Sequence | called by the toolkit during `process_reply`; queue elements; call the tree and the user interface |
| element lists (`utils.c`) | `elem_first`/`elem_last` (to be sent), `old_elem` (sent, no final status yet) | `add_element`, `refresh_elements`, `retrieve_element`, `put_back_element` | used by API and callbacks |
| command conversion (`sml2tree.c`) | none | `add_node`, `get_node`, `delete_node`, `exec_node`, `replace_node`, `copy_node`, `get_device_info` | callbacks above, `dmtree.c` below |
| device tree and ACLs (`dmtree.c`) | server id of the session | `dmtree_get/add/delete/exec/replace/copy`, ACL checks | MO directory |
| MO directory (`momgr.c`) | tree of plug-ins, last URI found | registration, lookup, dispatch, URN search | plug-ins |
| default root (`defaultroot.c`), memory MO (`tests/mgtobj`) | nodes, values, ACLs | the plug-in interface | called by the directory |
| credentials (`credentials.c`), package #0 (`package0.c`) | account: addresses, secrets, nonces | read the account, make and check digests, store nonces, validate a server's notification | session API, tree |
| URI checks (`uricheck.c`), codec (`codec.c`), log | none | pure functions, output | everybody |
| SyncML toolkit (`externals/SyncMLRTK`) | workspace buffer and its locks; encoder and decoder state, stacks of open tags, code page | encode and decode WBXML and XML, build and free elements, dispatch to the callbacks | session API above, callbacks |
| MD5, Windows port (`externals/`, `windows/`) | none | pure functions | |

What makes each part correct:

* **Element lists** - a request of the client is in exactly one list until its
  final status, whatever comes back; a status finds its request and no other.
* **Session** - no answer is forgotten when the session ends; every command gets
  the statuses it is due; a user's refusal stops a Sequence; an unauthenticated
  server changes nothing; the exchange terminates; every call returns.
* **Device tree** - changes stay inside the rights the ACLs give; rights cannot
  be pieced together; a refused command changes nothing; the tree stays a tree.
* **MO directory** - an operation reaches the object with the longest matching
  prefix, whatever was looked up before; registering an object changes nothing
  outside its subtree; listings and searches see nested objects.
* **Authentication** - both sides use the same nonces again after any loss or
  crash; nobody honest is refused twice in a session; both get in, in the end.
* **Toolkit** - what is encoded is decoded into the same elements; groups and end
  tags match; no error path leaves an encoder, a decoder or a lock behind; a
  packet is one whole message and a callback sees nothing but the reply.
* **URI checks, codec** - pure functions on characters, mostly left out (section 7).

`PROJECT.json` lists, under `hazards`, each place in the code where one of these
could go wrong, with the properties that watch it.

## 2. Modules

| module | models |
|---|---|
| `Delivery` | abstract: what the library promises about one request - new, queued, sent, settled |
| `Elements` | the two lists and the composition of a message; implements `Delivery` |
| `Session` | API and callbacks, on top of the operators of `Elements` |
| `AccessRights` | the text of ACLs as `dmtree.c` reads it, and what it means |
| `DmTree` | the commands of a server on the tree: default root plus one memory MO |
| `MoMgr` | the directory of management objects |
| `Auth` | credentials, challenges and stored nonces, with a server, losses and crashes |
| `Workspace` | the toolkit's buffer, locks, command builder and dispatcher under `get_next_packet` and `process_reply` |
| `SyncMLGrammar` | tables of the toolkit: tags, build functions, order of encoding, free functions |
| `Decoder` | scanners and decoder over those tables, on any message at all |
| `Wire` | encoder and free functions over those tables, joined to `Decoder` |
| `ElementsProofs`, `SessionProofs`, `DmTreeProofs`, `MoMgrProofs`, `WorkspaceProofs`, `AuthProofs`, `DecoderProofs` | theorems and proofs |
| `UriProofs` | lemmas about URIs and their prefixes, for `DmTreeProofs` and `MoMgrProofs` |
| `MCElements`, `MCSession`, `MCDmTree`, `MCMoMgr`, `MCAuth`, `MCWorkspace`, `MCWire` | instances for TLC, with the `.cfg` files |

Definitions keep the names of the functions they model; `PROJECT.json` (`map`)
gives the lines of each. Definitions named `Mutant...` are deliberately wrong
variants of the definition that follows them; nothing uses them. They
document which mistake a property would notice.

### Elements

`elem` and `old_elem` are the two linked lists, as sequences. A cell of
`old_elem` holds the element, the message number *as stored* (`msg_id`, an
`int8_t`: `Int8`) and the command number. `sentIn` is the number actually
written in the header: a history value, as are `issued` and `settled`.
`Compose` is a message that was encoded (`refresh_elements` pushes its requests
on the front of `old_elem` and frees the rest), `ComposeFails` one the toolkit
refused. `StatusForCommand` is the part of `prv_status_cmd_cb` that finds a cell
(`retrieve_element`: first match; `-1` matches any message) and puts it back
(101), queues its element anew (401, 407) or frees it (any other code).
`NothingToSay` is the count in `prvComposeMessage` that decides between a packet
and `DMCLT_ERR_END`.

### Session

One action is one API call, except `process_reply`: the toolkit calls back once
per element of the reply, and each callback is an action, between
`prv_start_message_cb` and `prv_end_message_cb`. `phase` says where the
application is: `idle`, about to `call`, `wait`ing for the server, inside a
`reply`, `done`, `closed`, or `crashed` when the code would read a null or freed
pointer. The server is the environment: its commands are any, limited by
`budget`; a lost reply, a reply that cannot be parsed, and a message that cannot
be encoded are limited by `faults`. What a tree command returns is any code of
`TreeCode`; an account is the set of credentials it holds. `log` and `verdict`
are history: what was done with each command of the reply, and what the last
credentials were worth.

The element of a Sequence is freed before `prv_end_sequence_cb` reads its
command number. That read gives the old number, or a value of `StaleRef`, or
crashes; `StaleRef = {}` stands for an allocator that leaves freed memory alone.
Values of `StaleRef` may be numbers of other commands of the reply.

### DmTree and AccessRights

`node` maps the URIs of the object (sequences of segments) to kind and value;
`acl` maps URIs to the ACLs they have of their own. The default root "." always
has `Get=*`. Each command is a chain of checks, in the order of the code, of
which the first to fail gives the status; `Perform` says that nothing happens
unless all pass. `dmtree_add` is different: it creates the node and may then fail
to give it an ACL.

`prv_check_access_rights` searches the ACL with `strstr` and writes a 0 into it
where the entry of the command ends. Both matter, and both are modelled without
characters: `Within` says which server ids contain which, and `CutAfter` is what
a check leaves of the text. `Granted` is what the ACL means.

### MoMgr

`dirs` is the tree of `mo_dir_t`, as the set of the URIs of its directories; `at`
gives the plug-in of those that have one. `last_uri` and `last_plugin` are the
cache of `prv_findPlugin`; `stale` is history: the directory has changed since
the cache was filled. `call` is the last operation with its result. A plug-in
(`MO`) is what its functions answer: its nodes, its values, the URIs of a URN and
the optional functions it has. `urn` is a sequence, since a search takes the URIs in
their order. The value of an interior node is a bag of names: `momgr_get_value`
appends the names of the directories to those the plug-in lists and does not look
for a name that is there already. `momgr_set_value`, `_get_ACL`, `_set_ACL`,
`_rename_node`, `_delete_node` and `_exec_node` differ only in the function they
hand over to and are one action, `momgr_dispatch`. Registration may run out of
memory on the way (`prv_createMoDir_fails`) or at its end
(`momgr_add_plugin_fails`). What reads freed memory or writes past an allocation
ends in `alive = "corrupt"`.

### Auth

`tree` is the AAuthData of the account for both directions; `toServerCred` and
`toClientCred` are the session's copies. A message (`net`) carries credentials, the
status for the header before, and a challenge. A digest is the type and nonce it
was made with; names and secrets are right. The client's part is the code:
`get_credentials`, `check_credentials`, `get_challenge`, `store_nonce`,
`decode_b64` for the nonces of challenges, `validate_package_0`, and what header
callback, Status and API calls do with them. The server (`ServerReply`) is
honest and external: it challenges bad or missing credentials, may renew the
nonce with good ones, and authenticates itself until it is accepted. `Lose` loses
a message in either direction, `Crash` ends the process at any step, a store into
the tree may fail silently; `MaxFaults` bounds the three together. `unsaved` is
history: the levels whose last store failed.

### Workspace

`buf` and `read` are the workspace up to the write pointer, and the read pointer;
a unit is a header, a command, the end of a message, or junk, tagged with its
message. The buffer is shared by both directions and emptied only by a writer
that finds all of it read. Each function of the toolkit that locks it is an action
between the call of the API and its return (`pc`), with its error paths: no room,
an element that cannot be encoded, a reply larger than the room, no memory for
the copy, a unit of any kind that cannot be decoded, a reply that stops short or
goes on. `found`, `packet`, `reply` and
`seen` are history.

### SyncMLGrammar, Decoder and Wire

`SyncMLGrammar` holds the toolkit's tables as operators: which children each build
function takes, in which order the encoder writes them, what each free function
releases. `Decoder` and `Wire` run them. A stream is a sequence of items, one per
tag, end tag or text; a WBXML code page switch or an `xmlns` attribute is part of
the item it precedes. `tags` and `scan` are the two stacks of open tags, the
decoder's and the scanner's, `calls` the active build functions. `curtok` is the
scanner's token. The WBXML scanner clears it before it reads, so a text has no tag. The
XML scanner does not: a text keeps the tag of the token before it, and the decoder,
which mostly looks at the tag only, takes it for that tag once more. Characters that
follow a text belong to the same token (`Continues`, `TextGoesOn`), and raw text takes
the markup up to its end tag in, but a CDATA section or an entity ends the run. `groups`
is history: the groups the callbacks were told of and not of their end. So is `stray`: a
token came that only later code would refuse, or none would (an empty or second MetInf
wrapper; in XML an end tag that is not the innermost one's, or text outside PCDATA).

`DecoderSpec` is the decoder on its own: its input is any sequence of items, and
more may be added to its end at any time (`Input`). `Wire` adds the encoder, the
free functions, and scenarios: either a message this client encodes, or a server
that sends any items of a small vocabulary. That `Wire` does nothing to the decoder
but what `DecoderSpec` allows is a property of run `wire`; the theorems about
`DecoderSpec` hold in `Wire` by it. The two are separate modules because elements
are trees: the encoder and the free functions walk them with RECURSIVE operators,
the decoder builds them iteratively, on the stack `calls`.

## 3. What the runs check

Passing:

* `elements_lists` - three requests, a Status, a Results, three messages, every
  message reference (used, unused, not a number), command reference and code:
  no request is lost, freed early or listed twice (`NoRequestLost`); a status
  finds exactly its request (`AnswerReachesItsRequest`; the theorem covers the
  wrap-around of the `int8_t` number at the 128th message); the lists implement
  `Delivery` (`DeliversRequests`). Three requests are needed to remove a cell from
  the head, the middle and the tail of `old_elem`.
* `session_restart` - up to two session starts on a handle, accounts with and
  without credentials, failing starts, package #0, a generic alert at any
  moment, a fault at any moment: requests survive (`SessionKeepsRequests`), and
  END drops nothing but the status of a header (`EndLosesNothing`).
* `session_commands` - replies of up to four commands, of up to two items,
  Atomic and Sequence nested in each other (but no Sequence in a Sequence), user
  answers yes, no and cancel, good, bad and missing credentials: a refused
  Sequence stops (`SequenceObeysUser`), each command has a status for each of its
  items and at most one too many for each Sequence that has ended (`ItemsAnswered`),
  only an authenticated server acts (`OnlyAuthenticatedServerActs`). `StaleRef = {2, 99}`
  lets the freed read give the number of another command, or one that no command has.
  `Due` says who gets no status: an Atomic that is obeyed (`prv_start_atomic_cb` answers
  a refused one only), and what is in a Sequence that was stopped. Of the status of
  a Sequence itself nothing can be said: the code reads its number after freeing it.
* `session_live` - the loop terminates (`SessionEnds`), see section 4.
* `dmtree` - two servers, `dm` and `dm2` (one id contains the other), take turns
  on a tree of three levels under the object, with the memory object and with an
  object that cannot set ACLs; new ACLs are well formed, malformed, empty, and
  with entries in awkward orders. `OnlyGranted`, `NoSelfPromotion`,
  `CreatorMayReplace`, `FailureChangesNothing`. The view leaves out the code of the
  last command, which no guard reads; action properties are still checked on
  every transition.
* `momgr` - an accounts object with another nested two levels below it, two
  objects for one URI, one whose limits forbid later ones, and two that are
  refused, added in every order with operations and searches in between:
  `DispatchNearest`, `ListingExact`, `RegistrationLocal`, `FailedAddHarmless`,
  `SearchFinds`. The outer object knows several URIs, the second of which has the
  value looked for, or one below which the child is missing unless the inner object
  is there; both objects know a URN. So searches end early, late, in an error and,
  with two objects that know URIs, in the undefined list of `strArray_concat`: `SearchFinds`
  says exactly when each happens. `ListingExact` counts: a child is named once, and
  twice where it is both a node of the plug-in and a directory. What the code falls
  short of is in the comment of each property and in the list below.
* `auth` - all four pairs of types, servers that ask for either type, nonces
  provisioned, lost or absent, two nonces on each side, three faults:
  `NoncesStored`, `ServerRefusedOnce`, `ClientRefusedOnce`, and `Authenticates`
  (liveness). Two nonces are enough to tell the current one from the one before;
  three faults let a store, the message after it and the process fail.
* `workspace` - four units of room, replies that are whole, cut short, too long,
  followed by junk, or junk: `NothingLeftBehind` on every way out of a call,
  `SuccessLeavesNothing`, `PacketWhole`, `RepliesOnly`. With four units a header,
  two commands and an end fit, and one command more does not.
* `wire` - every kind of element this client writes, in both encodings, and
  servers that send four to nine arbitrary items after a legal beginning:
  what is sent is read back (`RoundTrip`), build functions end at their own end
  tags (`EndsMatch`), groups match (`GroupsNest`), a decoder whose two stacks differ
  delivers nothing any more (`DesyncFatal`), nothing but the known four children
  is leaked (`LeaksKnown`), and the decoder of this composition is that of
  `DecoderSpec`. One of the servers sends XML with a header under another name,
  which the decoder accepts: its tag is not looked at. Others send XML with characters
  and CDATA sections inside PCDATA, between commands and between the children of
  one. After text outside PCDATA the message is `stray`, and `EndsMatch`, `GroupsNest` and
  `DesyncFatal` claim nothing, since neither of the first two holds there (see below).

Each of the next runs ends in a counterexample: the code does not do what a
comment or the API documentation says (quoted under `findings`).

* `dmtree_listed` - with the ACL `Replace=dm2+dm` the server `dm` is refused: the
  first place where the text "dm" is found is inside "dm2", and the search stops.
* `session_nested` - an inner Sequence makes the library forget that the user
  refused the outer one.
* `auth_notified` - a package #0 with the digest that `package0.c` documents is
  refused: `buf_append_str` overwrites the beginning of what is hashed, and the
  second try reads a freed nonce.

The models contain more that a maintainer should look at. These are noted here
and in the comments, without a run of their own:

* `get_next_packet` returns `DMCLT_ERR_END` for a session whose DevInfo cannot
  be read, before anything was sent (omadmclient.c:63, 182).
* An account without credentials for the server is accepted by `session_start`,
  and `get_next_packet` reads a null pointer (omadmclient.c:462).
* With the memory object's own ACL a new node gets an ACL although its parent
  allows Replace, because the check for Add has cut the text (dmtree.c:213); Add
  below a missing node is carried out (dmtree.c:458).
* The value of an interior node may name a child twice, as in `a/a`: momgr.c:688 appends
  the name of a directory that the plug-in has named already. The value of one that is no
  directory names the children of the directory above it (momgr.c:665).
* Two plug-ins that know a URN: `strArray_concat` multiplies the offset by the
  size of a pointer once too often and writes behind the new list (utils.c:326).
  The search then returns anything, where momgr.c:889 says "the first match".
* The check for DevInfo never fails, since the default root always answers
  (momgr.c:497). A failed registration closes objects nested in a directory that
  was there before (momgr.c:581), and the cache may still name one of them.
* `decode_b64` does not decode what has one padding character (codec.c:189,
  which tests for 3 instead of 1): with a server nonce of 8 bytes,
  `ClientRefusedOnce` and `Authenticates` fail. The instance has nonces of the
  other lengths.
* An account that lacks AAuthData cannot be read: the last code of
  `prv_fill_credentials` is returned, `NOT_FOUND` (credentials.c:406).
* In XML a text between two tags keeps the tag before it (xltdecxml.c:740, 1081).
  Behind the end of a group, as in `</Atomic>x`, `xltDecNext` tells of that end again
  (xltdec.c:557, "found end tag"). Behind a child, as in `<Item/>x</Add>`, it begins a
  second child, which takes the end tag of its parent (xltdec.c:994, "until we find a
  matching end tag"), and the Add goes on to the end tag around it.
* The toolkit's free functions forget Meta and Correlator of an Exec and the two
  parents of an Item; an empty wrapper of a MetInf document, an empty group tag
  and a command without a build function (Map, Results, Search) are not guarded
  against (xltmetinf.c:206, xltdec.c:540, xltdec.c:367).

`CHECK_DEADLOCK FALSE` is set where the system may stop: a handle is closed or a
bound is used up (`Session`, `Elements`), the root of the object was freed
(`DmTree`), undefined behaviour or an unreadable account ended the process
(`Auth`), a message is done (`Wire`). `Workspace` and `MoMgr` never stop, and that is
checked.

### Bounds

`MaxPackets`, `MaxServerCmds`, `MaxFaults`, `MaxCmds`, `MaxNest`, `MaxItems`,
`MaxStarts`, `MaxGeneric`, `MaxElem`, `MaxMessageId`, `MaxQueue` and `MaxMsg` stand in
the guards. They are chosen so that each case happens at least twice where
repetition matters (two starts, two packets, two items, two levels of nesting)
and once where one fault is enough to break an invariant. In `session_live` the
five packets are more than the server's agenda can fill: with fewer the run would
report a session that stands still, so passing shows that the bound is not
reached. In `Wire` the number of items a server may send is part of the scenario.
The theorems of section 5 hold without any of these choices.

## 4. Fairness

`FairSpec` assumes what the loop of `src/tests/client/main.c` does: as long as
the last call succeeded, the application takes the next packet; after sending
one it gets a reply, or gives up when there is none; the toolkit reads a reply
to its end. Nothing is assumed of the server, except that its commands and
challenges are finite (`budget`): a server that always has one more command
keeps a session open for ever, and that is its right. Nor does the
application have to add alerts, start sessions or close the handle.

`FairAuthSpec` assumes that an application which has work goes on: it sends the
packet it was given, feeds back the reply, and starts another session after one
that ended or broke off; and that the server answers. Nothing is assumed of
notifications, of closing the handle, or of losses and crashes, whose number is
bounded.

## 5. What is proved

Assumptions: `ElementsAssumption` (requests, statuses and results are different
elements), `SessionAssumption`, `AccessAssumption`, `TreeAssumption`,
`SizeAssumption`, `BoundAssumption`, `RepliesAssumption`, `PluginAssumption` (types
of the constants), `AuthAssumption` (the nonces of both sides and the special ones
are different), `ContentAssumption` (what a plug-in holds is a finite tree below
its base_uri, and the default root, whose interface `defaultroot.c` fills in, has
no `findURN`). TLC evaluates each of them on a run. No other fact is assumed but
the hypotheses that single theorems state; finiteness of `Request`, `Server`,
`Target`, `Plugins` or `Uris` is not needed, and no bound on messages, commands
or faults.

**Elements.** `ElementsTypeCorrect`, `ElementsLoseNothing`,
`AnswersReachTheirRequests`, `ElementsImplementDelivery`. `NoRequestLost` alone is
not inductive for the third: one must know that two cells never carry the same
message *and* command number, and that the stored number is `Int8` of the real
one, which is at most `message_id`. `RefsOK` says so, and
`ListInv == ElemTypeOK /\ NoRequestLost /\ RefsOK` is inductive. The lemmas
`PushedCells`, `ConcatCells`, `WithoutCells` say which cells the list operations
give; each action has a lemma. In the refinement, each action is matched with one step of
`Delivery` or a stutter (`OneFateChanges`, `SameFate`).

**Session.** `EndLosesNoAnswer` needs `HeaderInv`: while a reply is processed,
or whenever an answer to a command is queued, the status of a header is queued
too. So an answer never stands alone in the list, and a list that is not worth a
packet holds at most the status of a header. Every action changes the list in
one of five ways (`Shape`). `OnlyAuthenticatedActs` needs `AuthInv`: what `srv_auth`
says agrees with the credentials last seen. It is about the first session on a
handle. A second one inherits `srv_auth` from the first, and the property is
not claimed there.

`SessionTypeCorrect` and `SessionLosesNoRequest` carry the result of `Elements` over
to the whole session. `Session` takes its two lists apart and puts them together
in more ways than `Elements` (package #1, answers and results queued between the
requests, a failed composition, a second session), so the proof speaks of any two
lists (`ListsOK`) and uses the lemmas of `ElementsProofs` for the list operations. The
invariant adds `FreshInv`: the elements of package #1 carry the number of their
session, so those queued at the next start are new and no request is listed twice.

`SequenceObeys` and `EveryItemAnswered` are about one reply.
Neither property is inductive. `ReplyInv` relates what the code keeps to the log
of what happened: the open Sequence is the one in `sequence` (`NestInv`); commands
are logged under their numbers (`LogInv`); `seq_code` is SUCCESS exactly as long
as the user has said nothing else in this Sequence (`FateInv`); no command ran
after a refusal (`ObeyInv`); for every number, whether a command has it yet or not, the
statuses queued under it are at least those due to it, and exceed them by at most one
for each Sequence that has ended (`AnswerInv`), and none is for a later message
(`RefInv`). Nothing is assumed of what `prv_end_sequence_cb` reads from freed memory: the
status it queues is the one too many, whoever gets it. Both theorems have one
hypothesis, which the code makes necessary. `MaxSequence <= 1`: a Sequence in a
Sequence overwrites `sequence` and `seq_code`, and run `session_nested` shows
`SequenceObeysUser` violated.

**Device tree.** `TreeWellFormed` is inductive as it stands. The other theorems
rest on `CommandStep`: each of the nine commands either leaves the tree alone or
is one of four changes (nodes added below an existing one, a subtree removed, a
value replaced, an ACL set), with the rights it checked. `CheckIsSound` and `CutCheckIsSound`
say that the text search, also on a cut ACL, never lets in a server that the ACL does not
name; it may refuse one that is named (`dmtree_listed`). `NearestSame` and `SameACL`
say that adding and deleting nodes leaves the ACL that the others inherit as it was.
From these: `ChangesAreGranted`, `NobodyPromotesHimself`, `CreatorsMayReplace`,
`RefusalsChangeNothing`.

**Management objects.** All six properties of `MoMgr`. The directory is described by
`DirInv` (with a directory all those above it are there), `AtInv` (a plug-in is in
the directory of its base_uri), `StatusInv` (a plug-in is registered if and only if
it is there); `CacheInv` says that the remembered plug-in is the one a lookup would
find as long as the directory has not changed since, which no property alone
says and `DispatchNearest` and `SearchFinds` need. `MoMgrInv` is their conjunction;
`DirectoryIsTree` follows. `NearestMeans` says what the lookup finds: the registered
plug-in with the longest base_uri on the way; from it `OperationsReachOwner`.
`AddIsLocal` and `FailedAddLeavesOthers` compare the prefixes of a URI that are
directories before and after. `ListingsAreExact` adds up how often a name is in the two lists that
`momgr_get_value` joins (`TimesOfSum`). It uses that content is a tree: where a node is
no directory its plug-in is that of the node above (`OwnerAbove`), and a plug-in has
no child below a node it does not have. `SearchesFindFirst` needs that the objects
asked are those in the directory and below (`KnowingAreFound`), that their lists give
one list or, with two of them, none (`UrnListMeans`), and that the loop over it stops
at the first hit or the first URI without the child (`SearchMeans`, with `Least`). Which case an instance is
in is part of the statement: no search is exempt but those with a stale cache.

**Workspace.** The type invariant says that the buffer never overflows. The others
need `Quiet` (an encoder exists exactly while a message is composed, a decoder only
while a reply is processed, and which calls may leave which lock), `Composed` (in
a call that found nothing unread, the buffer is exactly the header and the first
`next - 1` commands of this message) and `Followed` (the callbacks have seen exactly
what was read of the reply). `WsInv` is their conjunction; each action has a lemma.
From it `WorkspaceTypeCorrect`, `LeavesNothingBehind`, `ExchangeLeavesNothing`,
`PacketsAreWhole`, `CallbacksSeeReply`, for every size and every server.

**Auth.** `NoncesStored` is inductive with the types (`AuthTypeCorrect`,
`StoredNonces`). `HonestServerRefusedOnce` needs `Synced`: the nonce the client will
check with is the one the server will have learnt by then, whether it is still in
the queued Status, in the message under way, or with the server already.
`ClientAnswersChallenge` needs `Answered`, the same for the other direction: a
refusal carries the server's current challenge, and the credentials made after
it are the ones wanted. It assumes `Decodable`, that no nonce has a length of 2
modulo 3, without which it is false. Faults are not bounded in these proofs.

**Decoder.** `DecoderTypes`, `EndsOfElements`, `GroupsOfMessage` and `DesyncIsFatal`,
for every message in either encoding, of any length and nesting, from no assumption.
A message with XML text outside PCDATA is `stray` from there on, and for it the last
three claim nothing (section 3 says what the code does with it).
None of the three properties is inductive: each is about the moment at which an
element ends, and depends on everything that was open around it. `DecoderInv`, the
invariant, relates the active build functions to the two stacks:

* `Placed`: there is a place `h[j]` in the scanner's stack at whose tag the j-th build
  function ends, one higher than that of the function around it; only a MetInf
  document without wrapper shares the place of its PCDATA. `EndsMatch` follows.
* `Split`: what is open above the innermost PCDATA that holds a MetInf document
  are MetInf tags, and only those. The code pages keep the two languages apart, and
  the argument about the stacks uses it.
* `Drift`: if the stacks differ, then the decoder's is the shorter one and will never
  be right again. Either it has, below MetInf tags, a tag other than the one that
  must end next outside the document, at which every end tag is refused (`Barrier`);
  or the element is the header, and SyncML, whose end no build function takes, is
  at the bottom of both (`Bottom`). A drift begins only where `buildPCData` hands
  back an empty tag (`Fresh`: the tag popped in error is that of the PCDATA), or
  where a group hands back an empty command; the latter makes the next call fail
  (`Doomed`: what was handed back begins a token, `TokenAhead`, so no text that goes on
  comes before it).
* `Root`, `Between`: the groups told are, in this order, the open tags below the
  element being built, or all of them between two elements. `GroupsNest` follows.

Each operation on a stack has a lemma that says what it does to the invariant (`OpenKeeps`,
`CollectedKeeps`, `PopKeeps`, `ExtensionKeeps`, `WrapperKeeps`, `BodyKeeps`, ...) and
each action cites those it is made of (`InvStep`). The proof found a case that the
runs had not had. In XML the header may come under another name, and then the
end of *its* tag may be taken for another: the token that does so is the stray one,
so `DesyncFatal` excludes steps with `stray'`, not only those after `stray`. Run
`wire` has such a server now.

## 6. What is only model-checked

* `SessionEnds` and `Authenticates`: liveness under fairness is out of the prover's
  reach.
* `WireTypeOK`, `RoundTrip`, `LeaksKnown`, and that `Wire` implements `DecoderSpec`.
  `Written`, `Complete` and `NotFreed` walk trees with RECURSIVE operators, beside which
  the prover has no SMT backend; `RoundTrip` and `LeaksKnown` say what such a
  recursion computes, which would need induction over trees.
* `SequenceObeysUser` and `ItemsAnswered` with `MaxSequence` above 1; the former does not
  hold there.

## 7. What is not modelled

* Allocation failures, except where a module says so (`MoMgr`, `Workspace`). Almost
  every function has such a path; they would hide the others.
* Contents: the bytes of digests, base64 and tags, the bit fields of a package #0,
  the characters of URIs (`uricheck.c`), meta data, user interaction options,
  RespURI.
* An item without Data, and a leaf without Format: the model's items have both.
  The code reads null pointers otherwise (listed under `hazards`).
* The life of an object after its root was deleted: `mo = "freed"` and no
  command follows. `prv_free_node` reads the link of a block it has just freed;
  the model takes the outcome of the usual allocators, which leave that part of
  the block (offset 48) alone.
* What plug-ins of several objects do to each other's nodes: `MoMgr` has the
  directory over fixed contents, `DmTree` the contents of one object.
* Of the toolkit: device information documents (`xltdevinf.c`), the commands this
  configuration does not compile, the XML scanner's characters, attribute tables,
  and the porting layer. The walk of `get_device_info` over the DevInfo object.
* The log, the MD5 library, the Windows port, the sample client's own I/O.

## 8. Plan

What is left:

1. `Session` composed with `DmTree`, so that `TreeCode` is what the tree says.
2. Leaves with and without Format and Data in `DmTree` (momgr.c:654).
3. `UriCheck` and base64 as functions against reference definitions.
4. The tags of a message instead of its trees as what `RoundTrip` compares, so that
   the part of it about code pages can be proved without induction over trees.
