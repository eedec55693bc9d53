-------------------------------- MODULE MoMgr --------------------------------
(***************************************************************************)
(* The directory of management objects: a tree of names in which plug-ins  *)
(* are registered, nested if need be, and through which every operation on *)
(* a node finds the plug-in that owns it.  What a plug-in holds does not   *)
(* change here (DmTree has the operations on nodes).                       *)
(*                                                                         *)
(* A URI is the sequence of its segments, << >> for ".".                   *)
(***************************************************************************)
EXTENDS Integers, FiniteSets, Sequences, SequencesExt

CONSTANTS Plugins,   \* the management objects an application may add
          Root,      \* the default root plug-in
          MO(_),     \* the interface and content of each plug-in
          Uris,      \* URIs operations are called with
          Ops,       \* the operations that are only handed over
          Starts,    \* URIs below which searches look
          Urns,      \* URNs that are searched for
          Criteria,  \* pairs of a node's name and the value looked for
          Number     \* the values of leaves that are numbers

NoUri == <<"no URI">>

(* base_uri, the interior nodes, the values of the leaves, the URIs each   *)
(* URN stands for, and the functions that are set.                         *)
Functions_ == {"isNode", "findURN", "get", "set", "getACL", "setACL", "rename",
               "delete", "exec"}

URN_MO_DMACC == "dmacc"

ASSUME PluginAssumption ==
  /\ Root \notin Plugins
  /\ \A p \in Plugins \cup {Root} :
       /\ MO(p).base \in Seq(STRING) /\ MO(p).init \in BOOLEAN
       /\ MO(p).interior \subseteq Seq(STRING) /\ MO(p).funcs \subseteq Functions_
  /\ MO(Root).base = << >>
  /\ Ops \subseteq {"set", "getACL", "setACL", "rename", "delete", "exec"}
  /\ Uris \cup Starts \subseteq Seq(STRING) /\ NoUri \notin Uris
  /\ URN_MO_DMACC \in Urns /\ \A v \in DOMAIN Number : Number[v] \in Nat

(* What a plug-in holds is a tree below its base_uri, and what it finds    *)
(* for a URN are URIs; the default root finds none.                        *)
ASSUME ContentAssumption ==
  /\ \A p \in Plugins \cup {Root} :
       /\ IsFiniteSet(MO(p).interior) /\ IsFiniteSet(DOMAIN MO(p).leaf)
       /\ DOMAIN MO(p).leaf \subseteq Seq(STRING) \ MO(p).interior
       /\ \A u \in (MO(p).interior \cup DOMAIN MO(p).leaf) \ {MO(p).base} :
            u # << >> /\ Front(u) \in MO(p).interior
       /\ \A urn \in Urns : MO(p).urn[urn] \in Seq(Seq(STRING))
  /\ "findURN" \notin MO(Root).funcs
  /\ \A c \in Criteria : c[1] \in STRING /\ <<c[1]>> # NoUri

VARIABLES dirs,        \* the directories, the root among them
          at,          \* the plug-in of each directory that has one
          status,      \* of each plug-in: new, registered, lost or closed
          last_uri, last_plugin,
          max_depth,
          alive,       \* "open", "closed", or "corrupt" after undefined behaviour
          stale,       \* the directory has changed since last_uri was stored
          call         \* the last operation: [op, uri, plugin, code, value, key]

vars == <<dirs, at, status, last_uri, last_plugin, max_depth, alive, stale, call>>
registry == <<dirs, at, status, max_depth, alive>>
cache    == <<last_uri, last_plugin, stale>>

(* key is what a search looks for.                                         *)
CalledFor(key, op, uri, plugin, code, value) ==
  call' = [op |-> op, uri |-> uri, plugin |-> plugin, code |-> code, value |-> value,
           key |-> key]

Called(op, uri, plugin, code, value) == CalledFor(<< >>, op, uri, plugin, code, value)

Longest(uris) == CHOOSE u \in uris : \A w \in uris : Len(w) <= Len(u)

(* The names of the directories in dir.                                    *)
Nested(dir) == {Last(u) : u \in {w \in dirs \ {<< >>} : Front(w) = dir}}

(***************************************************************************)
(* Looking up.                                                             *)
(***************************************************************************)
(* The deepest directory on the way to uri.                                *)
prv_findMoDir(uri) == Longest(Prefixes(uri) \cap dirs)

(* Mutant of Nearest: only the deepest directory is asked.                 *)
MutantNoParents(uri) ==
  IF prv_findMoDir(uri) \in DOMAIN at THEN at[prv_findMoDir(uri)] ELSE Root

(* From there up to the first directory with a plug-in; the directories of *)
(* all prefixes of a directory are there.                                  *)
Nearest(uri) == at[Longest(Prefixes(uri) \cap DOMAIN at)]

prv_findPlugin(uri) == IF uri = last_uri THEN last_plugin ELSE Nearest(uri)

(* The remembered plug-in has not been freed with its directory.           *)
Alive(uri) == uri = last_uri /\ last_plugin # Root => status[last_plugin] # "closed"

Callable(uri) == alive = "open" /\ Alive(uri)

(* The root is not remembered, and ends what was.                          *)
Remember(uri) ==
  IF uri = << >> THEN
    /\ last_uri' = NoUri
    /\ UNCHANGED <<last_plugin, stale>>
  ELSE
    /\ last_uri' = uri
    /\ last_plugin' = prv_findPlugin(uri)
    /\ stale' = (stale /\ uri = last_uri)

isNodeFunc(plugin, uri) ==
  CASE uri \in MO(plugin).interior    -> "interior"
    [] uri \in DOMAIN MO(plugin).leaf -> "leaf"
    [] OTHER                          -> "absent"

Result(code, format, value) == [code |-> code, format |-> format, value |-> value]

(* The names of the nodes that a plug-in has below one.                    *)
Children(plugin, uri) ==
  {Last(u) : u \in {w \in MO(plugin).interior \cup DOMAIN MO(plugin).leaf :
                      w # << >> /\ Front(w) = uri}}

(* A value is a bag of texts: one for a leaf, for an interior node the     *)
(* names between the '/', however often they come.  A plug-in names each   *)
(* child once.                                                             *)
getFunc(plugin, uri) ==
  IF uri \in DOMAIN MO(plugin).leaf
  THEN Result("NONE", "chr", SetToBag({MO(plugin).leaf[uri]}))
  ELSE IF uri \in MO(plugin).interior
       THEN Result("NONE", "node", SetToBag(Children(plugin, uri)))
       ELSE Result("NOT_FOUND", "none", EmptyBag)

(* A directory exists, whatever the plug-in says.                          *)
Exists(plugin, uri) ==
  IF isNodeFunc(plugin, uri) = "absent" /\ uri \in dirs THEN "interior"
  ELSE isNodeFunc(plugin, uri)

(* Mutant of GetValue: nested objects are only listed where the plug-in    *)
(* knows the node.                                                         *)
MutantNotNested(plugin, uri) ==
  LET own    == getFunc(plugin, uri)
      nested == Nested(prv_findMoDir(uri))
  IN  IF own.format # "node" \/ nested = {} THEN own
      ELSE Result("NONE", "node", own.value (+) SetToBag(nested))

(* The names of the directories in the deepest directory on the way to the *)
(* node are appended to what the plug-in says, also if it has named them   *)
(* and if the node is not that directory.                                  *)
GetValue(plugin, uri) ==
  LET own    == getFunc(plugin, uri)
      nested == Nested(prv_findMoDir(uri))
  IN  IF own.format = "chr" \/ nested = {} THEN own
      ELSE Result("NONE", "node", own.value (+) SetToBag(nested))

Answer(plugin, uri) ==
  IF "get" \in MO(plugin).funcs THEN GetValue(plugin, uri)
  ELSE Result("NOT_ALLOWED", "none", EmptyBag)

(***************************************************************************)
(* Operations on a node.                                                   *)
(***************************************************************************)
momgr_exists(uri) ==
  LET plugin == prv_findPlugin(uri)
  IN  /\ Callable(uri)
      /\ Remember(uri)
      /\ IF "isNode" \in MO(plugin).funcs
         THEN Called("exists", uri, plugin, "NONE", {Exists(plugin, uri)})
         ELSE Called("exists", uri, plugin, "NOT_ALLOWED", {})
      /\ UNCHANGED registry

momgr_get_value(uri) ==
  LET plugin == prv_findPlugin(uri)
      result == Answer(plugin, uri)
  IN  /\ Callable(uri)
      /\ Remember(uri)
      /\ Called("get", uri, plugin, result.code, result.value)
      /\ UNCHANGED registry

(* momgr_set_value, momgr_get_ACL, momgr_set_ACL, momgr_rename_node,       *)
(* momgr_delete_node and momgr_exec_node hand over to the plug-in.         *)
momgr_dispatch(op, uri) ==
  LET plugin == prv_findPlugin(uri)
  IN  /\ Callable(uri)
      /\ Remember(uri)
      /\ Called(op, uri, plugin,
                IF op \in MO(plugin).funcs THEN "NONE" ELSE "NOT_ALLOWED", {})
      /\ UNCHANGED registry

(* What undefined behaviour leaves is not looked at.                       *)
Corrupted(key, op, uri) ==
  /\ alive' = "corrupt"
  /\ CalledFor(key, op, uri, Root, "undefined", {})
  /\ UNCHANGED <<dirs, at, status, max_depth, cache>>

(* An operation on the URI looked up last, whose plug-in has been freed.   *)
FreedPlugin(uri) == alive = "open" /\ ~Alive(uri) /\ Corrupted(<< >>, "freed", uri)

(***************************************************************************)
(* Searches.                                                               *)
(***************************************************************************)
List(uris) == [good |-> TRUE, uris |-> uris]

(* The lists of the plug-ins in dir and below.  strArray_concat copies the *)
(* second of two lists that are not empty behind the end of the memory it  *)
(* allocated for both.                                                     *)
prv_findUrn(dir, urn) ==
  LET found == {u \in DOMAIN at : /\ IsPrefix(dir, u) /\ "findURN" \in MO(at[u]).funcs
                                  /\ MO(at[u]).urn[urn] # << >>}
  IN  IF found = {} THEN List(<< >>)
      ELSE [good |-> Cardinality(found) = 1,
            uris |-> MO(at[CHOOSE u \in found : TRUE]).urn[urn]]

(* The children of uri, from the plug-in of the deepest directory and none *)
(* if that has no plug-in.                                                 *)
prv_getChildrenUrl(dir, uri) ==
  IF dir \in DOMAIN at /\ "get" \in MO(at[dir]).funcs
  THEN LET own == getFunc(at[dir], uri)
           names == BagToSet(own.value)
       IN  List([i \in 1 .. Cardinality(names) |-> Append(uri, SetToSeq(names)[i])])
  ELSE List(<< >>)

(* Mutant of StopAt: the search goes on to the last URI that would end it. *)
MutantLast(ends, n) == IF ends = {} THEN n ELSE CHOOSE i \in ends : \A j \in ends : i >= j

(* Where a search through n URIs stops.                                    *)
StopAt(ends, n) == IF ends = {} THEN n ELSE CHOOSE i \in ends : \A j \in ends : i <= j

(* The first URI of the list whose child name has the value; a URI without *)
(* such a child ends the search.                                           *)
Search(uris, name, value) ==
  LET owner   == [i \in DOMAIN uris |->
                    IF i = 1 THEN prv_findPlugin(Append(uris[1], name))
                    ELSE Nearest(Append(uris[i], name))]
      answers == [i \in DOMAIN uris |-> Answer(owner[i], Append(uris[i], name))]
      ends    == {i \in DOMAIN uris : answers[i].code # "NONE" \/ answers[i].value = SetToBag({value})}
      stop    == StopAt(ends, Len(uris))
  IN  [code   |-> IF ends = {} THEN "NOT_FOUND" ELSE answers[stop].code,
       uri    |-> IF ends # {} /\ answers[stop].code = "NONE" THEN {uris[stop]} ELSE {},
       last   |-> Append(uris[stop], name),
       plugin |-> owner[stop]]

SearchList(key, uri, list, name, value) ==
  CASE ~list.good \/ (list.uris # << >> /\ ~Alive(Append(list.uris[1], name))) ->
         Corrupted(key, "find", uri)
    [] list = List(<< >>) ->
         /\ CalledFor(key, "find", uri, Root, "NOT_FOUND", {})
         /\ UNCHANGED <<registry, cache>>
    [] OTHER ->
         LET s == Search(list.uris, name, value)
         IN  /\ CalledFor(key, "find", uri, s.plugin, s.code, s.uri)
             /\ last_uri' = s.last /\ last_plugin' = s.plugin
             /\ stale' = (stale /\ s.last = last_uri)
             /\ UNCHANGED registry

momgr_find_subtree_urn(uri, urn, name, value) ==
  /\ alive = "open"
  /\ SearchList(<<urn, name, value>>, uri, prv_findUrn(prv_findMoDir(uri), urn), name, value)

momgr_find_subtree_uri(uri, name, value) ==
  /\ alive = "open"
  /\ SearchList(<< >>, uri, prv_getChildrenUrl(prv_findMoDir(uri), uri), name, value)

momgr_list_uri(urn) ==
  LET list == prv_findUrn(<< >>, urn)
  IN  /\ alive = "open"
      /\ IF list.good
         THEN /\ Called("list", << >>, Root,
                        IF list.uris = << >> THEN "NOT_FOUND" ELSE "NONE", ToSet(list.uris))
              /\ UNCHANGED <<registry, cache>>
         ELSE Corrupted(<< >>, "list", << >>)

(***************************************************************************)
(* Registration.                                                           *)
(***************************************************************************)
(* initFunc, the root, and the depth; the characters are not looked at.    *)
Refusal(plugin) ==
  CASE ~MO(plugin).init                                         -> "init"
    [] MO(plugin).init /\ MO(plugin).base = << >>               -> "NOT_ALLOWED"
    [] MO(plugin).init /\ max_depth # 0 /\ Len(MO(plugin).base) > max_depth
                                                                -> "URI_TOO_LONG"
    [] OTHER                                                    -> "NONE"

MayAdd(plugin) == alive = "open" /\ status[plugin] = "new"

momgr_add_refused(plugin) ==
  /\ MayAdd(plugin) /\ Refusal(plugin) # "NONE"
  /\ Called("add", MO(plugin).base, plugin, Refusal(plugin), {})
  /\ UNCHANGED <<registry, cache>>

(* Mutant of momgr_add_plugin: the directories above are replaced.         *)
MutantWithoutSiblings(plugin) ==
  LET base == MO(plugin).base
  IN  /\ MayAdd(plugin) /\ Refusal(plugin) = "NONE"
      /\ dirs' = {u \in dirs : u = << >> \/ u[1] # base[1]} \cup Prefixes(base)
      /\ at' = [u \in {w \in DOMAIN at : w = << >> \/ w[1] # base[1]} \cup {base} |->
                  IF u = base THEN plugin ELSE at[u]]
      /\ status' = [p \in Plugins |->
                      CASE p = plugin -> "registered"
                        [] p # plugin /\ base \in DOMAIN at /\ p = at[base] -> "lost"
                        [] OTHER -> status[p]]
      /\ stale' = TRUE
      /\ Called("add", base, plugin, "NONE", {})
      /\ UNCHANGED <<last_uri, last_plugin, max_depth, alive>>

(* A plug-in registered before for the same URI is forgotten, not closed.  *)
momgr_add_plugin(plugin) ==
  LET base == MO(plugin).base
  IN  /\ MayAdd(plugin) /\ Refusal(plugin) = "NONE"
      /\ dirs' = dirs \cup Prefixes(base)
      /\ at' = [u \in DOMAIN at \cup {base} |-> IF u = base THEN plugin ELSE at[u]]
      /\ status' = [p \in Plugins |->
                      CASE p = plugin -> "registered"
                        [] p # plugin /\ base \in DOMAIN at /\ p = at[base] -> "lost"
                        [] OTHER -> status[p]]
      /\ stale' = TRUE
      /\ Called("add", base, plugin, "NONE", {})
      /\ UNCHANGED <<last_uri, last_plugin, max_depth, alive>>

(* No memory on the way: the directories created so far stay.              *)
prv_createMoDir_fails(plugin) ==
  LET base == MO(plugin).base
  IN  /\ MayAdd(plugin) /\ Refusal(plugin) = "NONE"
      /\ \E n \in 0 .. Len(base) - 1 :
           /\ SubSeq(base, 1, n + 1) \notin dirs
           /\ dirs' = dirs \cup Prefixes(SubSeq(base, 1, n))
      /\ stale' = TRUE
      /\ Called("add", base, plugin, "DEVICE_FULL", {})
      /\ UNCHANGED <<at, status, max_depth, alive, last_uri, last_plugin>>

(* Mutant of Freed: the directories on the way are freed as well.          *)
MutantFromTheTop(base) == {u \in dirs : u # << >> /\ u[1] = base[1]}

(* Mutant of Freed: what is in the directory stays.                        *)
MutantOnlyItself(base) == {base}

(* prv_freeMoDir: a directory goes with all that is in it.                 *)
Freed(base) == {u \in dirs : IsPrefix(base, u)} \cup {base}

(* No memory for the plug-in: its directory is freed, even if it was there *)
(* before; the plug-in it had was overwritten already.                     *)
momgr_add_plugin_fails(plugin) ==
  LET base == MO(plugin).base
      gone == Freed(base)
  IN  /\ MayAdd(plugin) /\ Refusal(plugin) = "NONE"
      /\ dirs' = (dirs \cup Prefixes(base)) \ gone
      /\ at' = [u \in DOMAIN at \ gone |-> at[u]]
      /\ status' = [p \in Plugins |->
                      CASE base \in DOMAIN at /\ p = at[base] -> "lost"
                        [] \E u \in (gone \cap DOMAIN at) \ {base} : p = at[u] -> "closed"
                        [] OTHER -> status[p]]
      /\ stale' = TRUE
      /\ Called("add", base, plugin, "DEVICE_FULL", {})
      /\ UNCHANGED <<last_uri, last_plugin, max_depth, alive>>

(***************************************************************************)
(* The directory itself.                                                   *)
(***************************************************************************)
Limits == <<"MaxDepth", "MaxTotLen", "MaxSegLen">>

(* prv_get_number gives -1 for what is no number, and it is stored.        *)
prv_get_short(plugin, name) ==
  LET own    == getFunc(plugin, <<"DevDetail", "URI", name>>)
      number == CASE own.value = EmptyBag                               -> 0
                  [] \E v \in DOMAIN Number : own.value = SetToBag({v}) ->
                       Number[CHOOSE v \in BagToSet(own.value) : TRUE]
                  [] OTHER                                              -> -1
  IN  [code   |-> CASE own.code # "NONE"                                -> own.code
                    [] own.code = "NONE" /\ number \in 0 .. 65535      -> "NONE"
                    [] own.code = "NONE" /\ number \notin 0 .. 65535   -> "INTERNAL",
       stored |-> own.code = "NONE",
       number |-> number % 65536]

momgr_check_mandatory_mo ==
  LET list   == prv_findUrn(<< >>, URN_MO_DMACC)
      plugin == Nearest(<<"DevDetail">>)
      short(i) == prv_get_short(plugin, Limits[i])
      bad    == {i \in 1 .. 3 : short(i).code # "NONE"}
  IN  /\ alive = "open"
      /\ CASE ~list.good ->
                Corrupted(<< >>, "check", << >>)
           [] list.good /\ list.uris = << >> ->
                /\ Called("check", << >>, Root, "COMMAND_FAILED", {})
                /\ UNCHANGED <<registry, cache>>
           [] list.good /\ list.uris # << >> /\ "get" \notin MO(plugin).funcs ->
                /\ last_uri' = <<"DevDetail">> /\ last_plugin' = plugin /\ stale' = FALSE
                /\ Called("check", << >>, plugin, "INTERNAL", {})
                /\ UNCHANGED registry
           [] OTHER ->
                /\ last_uri' = <<"DevDetail">> /\ last_plugin' = plugin /\ stale' = FALSE
                /\ max_depth' = IF short(1).stored THEN short(1).number ELSE max_depth
                /\ Called("check", << >>, plugin,
                          IF bad = {} THEN "NONE"
                          ELSE short(CHOOSE i \in bad : \A j \in bad : i <= j).code, {})
                /\ UNCHANGED <<dirs, at, status, alive>>

momgr_free ==
  /\ alive = "open"
  /\ alive' = "closed"
  /\ dirs' = {<< >>} /\ at' = [u \in {<< >>} |-> Root]
  /\ status' = [p \in Plugins |-> IF status[p] = "registered" THEN "closed" ELSE status[p]]
  /\ last_uri' = NoUri /\ last_plugin' = Root /\ stale' = FALSE
  /\ Called("free", << >>, Root, "NONE", {})
  /\ UNCHANGED max_depth

Init ==
  /\ dirs = {<< >>} /\ at = [u \in {<< >>} |-> Root]
  /\ status = [p \in Plugins |-> "new"]
  /\ last_uri = NoUri /\ last_plugin = Root /\ stale = FALSE
  /\ max_depth = 0 /\ alive = "open"
  /\ call = [op |-> "init", uri |-> << >>, plugin |-> Root, code |-> "NONE", value |-> {},
             key |-> << >>]

(* A new handle, in a new process.                                         *)
momgr_init ==
  /\ alive # "open"
  /\ dirs' = {<< >>} /\ at' = [u \in {<< >>} |-> Root]
  /\ status' = [p \in Plugins |-> "new"]
  /\ last_uri' = NoUri /\ last_plugin' = Root /\ stale' = FALSE
  /\ max_depth' = 0 /\ alive' = "open"
  /\ Called("init", << >>, Root, "NONE", {})

Next ==
  \/ \E uri \in Uris :
       \/ momgr_exists(uri) \/ momgr_get_value(uri)
       \/ \E op \in Ops : momgr_dispatch(op, uri)
       \/ FreedPlugin(uri)
  \/ \E uri \in Starts, c \in Criteria :
       \/ momgr_find_subtree_uri(uri, c[1], c[2])
       \/ \E urn \in Urns : momgr_find_subtree_urn(uri, urn, c[1], c[2])
  \/ \E urn \in Urns : momgr_list_uri(urn)
  \/ \E plugin \in Plugins :
       \/ momgr_add_plugin(plugin) \/ momgr_add_refused(plugin)
       \/ prv_createMoDir_fails(plugin) \/ momgr_add_plugin_fails(plugin)
  \/ momgr_check_mandatory_mo
  \/ momgr_free \/ momgr_init

Spec == Init /\ [][Next]_vars

(***************************************************************************)
(* Properties.                                                             *)
(***************************************************************************)
(* Types; every directory is reached from the root and is there once, and  *)
(* a plug-in is registered where its base_uri says, and there only.        *)
MoMgrTypeOK ==
  /\ << >> \in dirs /\ \A u \in dirs \ {<< >>} : u \in Seq(STRING) /\ Front(u) \in dirs
  /\ DOMAIN at \subseteq dirs /\ << >> \in DOMAIN at /\ at[<< >>] = Root
  /\ \A p \in Plugins : status[p] = "registered" <=>
                          MO(p).base \in DOMAIN at /\ at[MO(p).base] = p
  /\ \A u \in DOMAIN at : MO(at[u]).base = u
  /\ alive \in {"open", "closed", "corrupt"} /\ stale \in BOOLEAN /\ max_depth \in Nat

NodeOps == {"exists", "get", "set", "getACL", "setACL", "rename", "delete", "exec"}

(* An operation reaches the registered plug-in whose base_uri is the       *)
(* longest prefix of the URI, whatever was looked up before, except that   *)
(* the URI looked up last keeps its plug-in when the directory changes.    *)
DispatchNearest ==
  [][call' # call /\ call'.op \in NodeOps /\ ~stale =>
       LET base == MO(call'.plugin).base
       IN  /\ call'.plugin = Root \/ status[call'.plugin] = "registered"
           /\ IsPrefix(base, call'.uri)
           /\ \A q \in Plugins : status[q] = "registered" =>
                Len(MO(q).base) <= Len(base) \/ ~IsPrefix(MO(q).base, call'.uri)]_vars

NodeKind(uri) == Exists(Nearest(uri), uri)

(* How often a value names a node.                                         *)
Times(name, value) == IF BagIn(name, value) THEN value[name] ELSE 0

(* The children of uri among the nodes asked for.                          *)
ChildUris(uri) == {u \in Uris : u # << >> /\ Front(u) = uri}

(* momgr_get_value and momgr_exists agree: the value of an interior node   *)
(* names a child exactly if the child exists, be it a node of the same     *)
(* plug-in, an object nested there or a directory that leads to one.  A    *)
(* child is named twice if its parent's plug-in has it and it is a         *)
(* directory too, and once otherwise.  Left out: the nodes that get the    *)
(* nested objects of a directory above (momgr.c:665).                      *)
ListingExact ==
  \A uri \in Uris :
    LET plugin == Nearest(uri)
        got    == GetValue(plugin, uri).value
    IN  NodeKind(uri) = "interior" /\ (uri \in dirs \/ Nested(prv_findMoDir(uri)) = {}) =>
          \A child \in ChildUris(uri) :
            Times(Last(child), got) =
              CASE NodeKind(child) = "absent"                               -> 0
                [] child \in dirs /\ isNodeFunc(plugin, child) # "absent" -> 2
                [] OTHER                                                    -> 1

(* A new object changes nothing outside its own subtree: neither which     *)
(* plug-in owns a node nor whether it exists, but for the directories that *)
(* lead to the object.                                                     *)
RegistrationLocal ==
  [][call' # call /\ call'.op = "add" /\ call'.code = "NONE" =>
       \A uri \in Uris :
         ~IsPrefix(call'.uri, uri) =>
           /\ Nearest(uri)' = Nearest(uri)
           /\ NodeKind(uri)' # NodeKind(uri) => IsPrefix(uri, call'.uri)]_vars

(* An object that cannot be added leaves the others alone.  Left out: its  *)
(* directory was there already, and is freed with all that is in it.       *)
FailedAddHarmless ==
  [][call' # call /\ call'.op = "add" /\ call'.code # "NONE" /\ call'.uri \notin dirs =>
       at' = at /\ status' = status /\ dirs \subseteq dirs']_vars

(* The objects that are asked in a search below dir and know the URN.      *)
Knowing(dir, urn) ==
  {p \in Plugins : /\ status[p] = "registered" /\ "findURN" \in MO(p).funcs
                   /\ IsPrefix(dir, MO(p).base) /\ MO(p).urn[urn] # << >>}

(* What the node of a known URI that is compared has to say.               *)
Compared(uri, name) == Answer(Nearest(Append(uri, name)), Append(uri, name))

Fails(uri, name) == Compared(uri, name).code # "NONE"

Hit(uri, name, value) ==
  Compared(uri, name).code = "NONE" /\ Compared(uri, name).value = SetToBag({value})

(* A search by URN asks every object registered below the directory,       *)
(* nested or not.  It is undefined exactly if two of them know the URN     *)
(* (utils.c:326); else it returns the first URI, in the order of the object *)
(* that knows them, whose child has the value, and nothing if there is     *)
(* none or a URI before it lacks the child.  The child is always that of   *)
(* the object which owns it, however deep that is nested and whichever URI *)
(* was looked up before.                                                   *)
SearchFinds ==
  [][call' # call /\ call'.op = "find" /\ call'.key # << >> /\ ~stale =>
       LET knowing == Knowing(prv_findMoDir(call'.uri), call'.key[1])
           name    == call'.key[2]
           value   == call'.key[3]
       IN  /\ call'.code = "undefined" <=> \E p, q \in knowing : p # q
           /\ knowing = {} => call'.code = "NOT_FOUND"
           /\ \A p \in knowing :
                LET uris    == MO(p).urn[call'.key[1]]
                    hits    == {i \in DOMAIN uris : Hit(uris[i], name, value)}
                    fails   == {i \in DOMAIN uris : Fails(uris[i], name)}
                    first   == {i \in hits : \A j \in hits \cup fails : i <= j}
                IN  knowing = {p} => call'.value = {uris[i] : i \in first}]_vars
==============================================================================
