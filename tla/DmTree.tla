------------------------------- MODULE DmTree -------------------------------
(***************************************************************************)
(* The device tree behind the commands of a server: the access checks and  *)
(* the order of the refusals in dmtree.c, over the two plug-ins every      *)
(* client has at least - the default root "." (defaultroot.c) and one      *)
(* management object at Base, held in memory (memory_mo_util.c).           *)
(*                                                                         *)
(* A URI is the sequence of its segments, <<>> for ".".  A command is one  *)
(* action; code is the status sml2tree.c hands to the callbacks.           *)
(* Allocations are taken to succeed, and items to come with the Data and   *)
(* the Format that the code reads without looking whether they are there.  *)
(***************************************************************************)
EXTENDS AccessRights, SequencesExt

CONSTANTS
    Target,     \* URIs a server names
    Base,       \* base_uri of the management object
    BaseACL,    \* ACL of its root
    Plugins,    \* sets of optional functions a management object may have
    NewACL,     \* ACLs a server sends
    Value,      \* data of leaves
    MaxDepth    \* DevDetail/URI/MaxDepth

NoValue == "no value"

ASSUME TreeAssumption ==
    /\ Target \subseteq Seq(STRING) /\ Base \in Seq(STRING) \ {<<>>}
    /\ BaseACL \in ACL /\ NewACL \subseteq ACL
    /\ Plugins \subseteq SUBSET {"set", "setACL", "delete", "exec"}
    /\ NoValue \notin Value /\ MaxDepth \in Nat \ {0}

VARIABLES
    node,       \* nodes of the management object: [kind, value] for each URI
    acl,        \* the ACLs, for the URIs that have one of their own
    callbacks,  \* the optional functions of the management object
    server,     \* handle->server_id
    mo,         \* "loaded", or "freed" once the object's root was deleted
    code        \* status of the last command

treeVars == <<node, acl, callbacks, server, mo, code>>

NONE == 0
SUCCESS == 200
NOT_FOUND == 404
NOT_ALLOWED == 405
NOT_SUPPORTED == 406
URI_TOO_LONG == 414
ALREADY_EXISTS == 418
PERMISSION_DENIED == 425
COMMAND_FAILED == 500
NOT_IMPLEMENTED == 501

Property == {"ACL", "Name", "Title", "Format", "Type", "TStamp"}
NoProperty == "none"
StructQuery == "list"

Interior == [kind |-> "interior", value |-> NoValue]
Leaf(v) == [kind |-> "leaf", value |-> v]
RootACL == <<[cmd |-> "Get", all |-> TRUE, ids |-> <<>>]>>

Parent(u) == Front(u)
InObject(u) == IsPrefix(Base, u)
Below(u) == {w \in DOMAIN node : IsPrefix(u, w)}

TreeInit ==
    /\ node = [u \in {Base} |-> Interior]
    /\ acl = [u \in {<<>>, Base} |-> IF u = Base THEN BaseACL ELSE RootACL]
    /\ callbacks \in Plugins /\ server \in Server
    /\ mo = "loaded" /\ code = SUCCESS

-----------------------------------------------------------------------------
(* Looking at the tree                                                     *)

\* momgr_exists: the plug-in's answer, or a directory that leads to a plug-in.
momgr_exists(u) ==
    IF u \in DOMAIN node THEN node[u].kind
    ELSE IF IsPrefix(u, Base) THEN "interior" ELSE "absent"

\* prv_get_inherited_acl: up from the node until there is an ACL; URIs that
\* do not exist are passed over, and "." always has one.
Nearest(D, u) ==
    CHOOSE w \in D : IsPrefix(w, u) /\ \A v \in D : IsPrefix(v, u) => Len(v) <= Len(w)

prv_get_inherited_acl(u) == acl[Nearest(DOMAIN acl, u)]

prv_check_node_acl_rights(u, cmd) ==
    prv_check_access_rights(prv_get_inherited_acl(u), cmd, server)

\* DMC_FAIL_ERR, and a chain of them: the first to fail gives the code.
Fail(condition, error) == IF condition THEN error ELSE NONE

Passes(checks) == \A i \in DOMAIN checks : checks[i] = NONE

Refuse(checks) ==
    /\ \E i \in DOMAIN checks :
          checks[i] # NONE /\ (\A j \in 1 .. i - 1 : checks[j] = NONE) /\ code' = checks[i]
    /\ UNCHANGED <<node, acl, mo>>

\* uri_validate, for URIs of the right syntax; hasProp says that the command
\* accepts a property.
uri_validate(u, prop, hasProp) ==
    <<Fail(prop = StructQuery, NOT_SUPPORTED),
      Fail(prop # NoProperty /\ ~ hasProp, NOT_ALLOWED),
      Fail(Len(u) > MaxDepth, URI_TOO_LONG)>>

\* The function is there; the default root has none of the optional ones.
HasCallback(u, fn) == InObject(u) /\ fn \in callbacks

-----------------------------------------------------------------------------
(* memory_mo_util.c                                                        *)

\* Mutant of memory_mo_delete: the children of the node stay.
MutantNodeOnly(u) ==
    /\ node' = [w \in DOMAIN node \ {u} |-> node[w]]
    /\ acl' = [w \in DOMAIN acl \ {u} |-> acl[w]]

\* prv_free_node: the node and all below it, with their ACLs.
memory_mo_delete(u) ==
    /\ node' = [w \in DOMAIN node \ Below(u) |-> node[w]]
    /\ acl' = [w \in DOMAIN acl \ Below(u) |-> acl[w]]

\* memory_mo_set on a new URI: interior nodes for the missing segments, under
\* whatever node is the last to exist, then the node itself.
Missing(u) == {w \in Prefixes(u) : InObject(w)} \ DOMAIN node

memory_mo_create(u, new) ==
    node' = [w \in DOMAIN node \cup Missing(u) |->
                IF w \in DOMAIN node THEN node[w] ELSE IF w = u THEN new ELSE Interior]

\* memory_mo_set on a leaf that exists.
memory_mo_update(u, v) == node' = [node EXCEPT ![u].value = v]

memory_mo_setACL(u, a) ==
    acl' = [w \in DOMAIN acl \cup {u} |-> IF w = u THEN a ELSE acl[w]]

-----------------------------------------------------------------------------
(* The commands of a server                                                *)

\* A command that does nothing unless all its checks pass.  Nothing is said
\* of what happens once the object's root is freed.
Perform(checks, step) ==
    /\ mo = "loaded" /\ UNCHANGED <<callbacks, server>>
    /\ \/ Refuse(checks)
       \/ Passes(checks) /\ code' = SUCCESS /\ step

\* The ACL of a directory that only leads to plug-ins cannot be read.
HasNoAcl(u) == u # <<>> /\ ~ InObject(u)

dmtree_get(u, prop) ==
    Perform(uri_validate(u, prop, TRUE) \o
            <<Fail(momgr_exists(u) = "absent", NOT_FOUND),
              Fail(~ prv_check_node_acl_rights(u, "Get"), PERMISSION_DENIED),
              Fail(prop = "ACL" /\ HasNoAcl(u), NOT_FOUND),
              Fail(prop \in {"Title", "TStamp"}, NOT_SUPPORTED)>>,
            UNCHANGED <<node, acl, mo>>)

dmtree_delete(u, prop) ==
    Perform(uri_validate(u, prop, FALSE) \o
            <<Fail(momgr_exists(u) = "absent", NOT_FOUND),
              Fail(~ prv_check_node_acl_rights(u, "Delete"), PERMISSION_DENIED),
              Fail(~ HasCallback(u, "delete"), NOT_ALLOWED)>>,
            /\ memory_mo_delete(u)
            /\ mo' = IF u = Base THEN "freed" ELSE mo)

dmtree_exec(u, prop) ==
    Perform(uri_validate(u, prop, FALSE) \o
            <<Fail(momgr_exists(u) = "absent", NOT_FOUND),
              Fail(~ prv_check_node_acl_rights(u, "Exec"), PERMISSION_DENIED),
              Fail(~ HasCallback(u, "exec"), NOT_ALLOWED)>>,
            UNCHANGED <<node, acl, mo>>)

Everyone(cmd) == [cmd |-> cmd, all |-> TRUE, ids |-> <<>>]
Only(cmd, s) == [cmd |-> cmd, all |-> FALSE, ids |-> <<s>>]

\* Mutant of NewNodeACL: Replace is forgotten.
MutantNoReplace(s) == <<Everyone("Get"), Only("Add", s), Only("Delete", s)>>

\* "Get=*&Add=<server>&Delete=<server>&Replace=<server>"
NewNodeACL(s) == <<Everyone("Get"), Only("Add", s), Only("Delete", s), Only("Replace", s)>>

AddChecks(u, prop, format) ==
    uri_validate(u, prop, FALSE) \o
    <<Fail(format = "tnds", NOT_SUPPORTED),
      Fail(momgr_exists(u) # "absent", ALREADY_EXISTS),
      Fail(momgr_exists(Parent(u)) = "leaf", NOT_ALLOWED),
      Fail(~ prv_check_node_acl_rights(Parent(u), "Add"), PERMISSION_DENIED),
      Fail(~ HasCallback(u, "set"), NOT_ALLOWED)>>

\* The second look at the parent's ACL, for Replace, is at the text that the
\* first one, for Add, has cut.
MayReplaceInParent(u) ==
    prv_check_access_rights(CutAfter(prv_get_inherited_acl(Parent(u)), "Add"), "Replace", server)

\* The node is created first; giving it an ACL may then fail.
dmtree_add(u, prop, format, v) ==
    /\ mo = "loaded" /\ UNCHANGED <<callbacks, server>>
    /\ \/ Refuse(AddChecks(u, prop, format))
       \/ /\ Passes(AddChecks(u, prop, format)) /\ UNCHANGED mo
          /\ memory_mo_create(u, IF format = "node" THEN Interior ELSE Leaf(v))
          /\ \/ MayReplaceInParent(u) /\ code' = SUCCESS /\ UNCHANGED acl
             \/ /\ ~ MayReplaceInParent(u) /\ HasCallback(u, "setACL")
                /\ code' = SUCCESS /\ memory_mo_setACL(u, NewNodeACL(server))
             \/ /\ ~ MayReplaceInParent(u) /\ ~ HasCallback(u, "setACL")
                /\ code' = NOT_ALLOWED /\ UNCHANGED acl

\* A Replace without data is refused before its URI is looked at; an item
\* whose data is empty comes without.
ReplaceChecks(u, prop, empty) ==
    <<Fail(empty, COMMAND_FAILED)>> \o uri_validate(u, prop, TRUE)

\* Replace of a value; NoValue for a command without data.
dmtree_replace_value(u, v) ==
    Perform(ReplaceChecks(u, NoProperty, v = NoValue) \o
            <<Fail(momgr_exists(u) = "absent", NOT_FOUND),
              Fail(momgr_exists(u) = "interior", NOT_ALLOWED),
              Fail(~ prv_check_node_acl_rights(u, "Replace"), PERMISSION_DENIED),
              Fail(~ HasCallback(u, "set"), NOT_ALLOWED)>>,
            memory_mo_update(u, v) /\ UNCHANGED <<acl, mo>>)

\* Whose ACL decides who may change the ACL of u.
AclKeeper(u) == IF momgr_exists(u) = "interior" THEN u ELSE Parent(u)

\* Mutant of dmtree_replace_acl: only interior nodes have their rights checked.
MutantAnyLeaf(u, a) ==
    Perform(ReplaceChecks(u, "ACL", a = <<>>) \o
            <<Fail(momgr_exists(u) = "absent", NOT_FOUND),
              Fail(AclKeeper(u) = u /\ ~ prv_check_node_acl_rights(u, "Replace"), PERMISSION_DENIED),
              Fail(~ prv_check_acl_syntax(a), COMMAND_FAILED),
              Fail(~ HasCallback(u, "setACL"), NOT_ALLOWED)>>,
            memory_mo_setACL(u, a) /\ UNCHANGED <<node, mo>>)

\* Mutant of dmtree_replace_acl: the syntax is checked when the ACL is set.
MutantSyntaxLast(u, a) ==
    /\ mo = "loaded" /\ a # <<>> /\ momgr_exists(u) # "absent" /\ HasCallback(u, "setACL")
    /\ prv_check_node_acl_rights(AclKeeper(u), "Replace")
    /\ memory_mo_setACL(u, a)
    /\ code' = IF prv_check_acl_syntax(a) THEN SUCCESS ELSE COMMAND_FAILED
    /\ UNCHANGED <<node, callbacks, server, mo>>

dmtree_replace_acl(u, a) ==
    Perform(ReplaceChecks(u, "ACL", a = <<>>) \o
            <<Fail(momgr_exists(u) = "absent", NOT_FOUND),
              Fail(~ prv_check_node_acl_rights(AclKeeper(u), "Replace"), PERMISSION_DENIED),
              Fail(~ prv_check_acl_syntax(a), COMMAND_FAILED),
              Fail(~ HasCallback(u, "setACL"), NOT_ALLOWED)>>,
            memory_mo_setACL(u, a) /\ UNCHANGED <<node, mo>>)

\* Replace of another property: neither plug-in can rename a node, titles are
\* not supported, the rest is read-only.
dmtree_replace_property(u, prop, data) ==
    Perform(ReplaceChecks(u, prop, data = "empty") \o
            <<Fail(momgr_exists(u) = "absent", NOT_FOUND),
              Fail(prop = "Title", NOT_SUPPORTED),
              Fail(prop # "Name", NOT_ALLOWED),
              Fail(~ prv_check_node_acl_rights(u, "Replace"), PERMISSION_DENIED),
              Fail(data = "path", COMMAND_FAILED),
              Fail(TRUE, NOT_ALLOWED)>>,
            UNCHANGED <<node, acl, mo>>)

dmtree_copy == Perform(<<Fail(TRUE, NOT_IMPLEMENTED)>>, UNCHANGED <<node, acl, mo>>)

\* The next session is with another server.
dmtree_setServer(s) ==
    /\ mo = "loaded" /\ server' = s
    /\ UNCHANGED <<node, acl, callbacks, mo, code>>

Query == Property \cup {NoProperty, StructQuery}

\* For the commands that refuse any property, one stands for all.
SomeQuery == {NoProperty, "ACL", StructQuery}

TreeNext ==
    \/ \E u \in Target, prop \in Query : dmtree_get(u, prop)
    \/ \E u \in Target, prop \in SomeQuery :
          \/ dmtree_delete(u, prop)
          \/ dmtree_exec(u, prop)
          \/ \E format \in {"node", "chr", "tnds"}, v \in Value : dmtree_add(u, prop, format, v)
    \/ \E u \in Target, v \in Value \cup {NoValue} : dmtree_replace_value(u, v)
    \/ \E u \in Target, a \in NewACL : dmtree_replace_acl(u, a)
    \/ \E u \in Target, prop \in Property \ {"ACL"}, data \in {"empty", "name", "path"} :
          dmtree_replace_property(u, prop, data)
    \/ dmtree_copy
    \/ \E s \in Server : dmtree_setServer(s)

TreeSpec == TreeInit /\ [][TreeNext]_treeVars

-----------------------------------------------------------------------------
(* Properties                                                              *)

\* Types; besides, the tree hangs together: whatever leads from the root of
\* the object to a node is there, and only nodes that exist, and ".", have an
\* ACL.
TreeTypeOK ==
    /\ DOMAIN node \subseteq {u \in Seq(STRING) : InObject(u)}
    /\ \A u \in DOMAIN node : node[u] \in [kind : {"leaf", "interior"}, value : Value \cup {NoValue}]
    /\ \A u \in DOMAIN node : \A w \in Prefixes(u) : InObject(w) => w \in DOMAIN node
    /\ mo = "loaded" => Base \in DOMAIN node /\ node[Base].kind = "interior"
    /\ DOMAIN acl \subseteq DOMAIN node \cup {<<>>}
    /\ \A u \in DOMAIN acl : acl[u] \in ACL
    /\ <<>> \in DOMAIN acl
    /\ callbacks \in Plugins /\ server \in Server
    /\ mo \in {"loaded", "freed"}
    /\ code \in {SUCCESS, NOT_FOUND, NOT_ALLOWED, NOT_SUPPORTED, URI_TOO_LONG, ALREADY_EXISTS,
                 PERMISSION_DENIED, COMMAND_FAILED, NOT_IMPLEMENTED}

\* What the ACL in effect at u says of a command and the current server.
Allowed(u, cmd) == Granted(prv_get_inherited_acl(u), cmd, server)

OwnACL(u) == IF u \in DOMAIN acl THEN <<acl[u]>> ELSE <<>>

\* However a server goes about it, the tree changes only where the ACLs, read
\* as what they mean, give it the right: a node appears where it may Add,
\* disappears with a node it may Delete, takes a value or an ACL where it may
\* Replace (on the parent for the ACL of a leaf).
OnlyGranted ==
    [][/\ \A u \in DOMAIN node' \ DOMAIN node : Allowed(Parent(u), "Add")
       /\ \A u \in DOMAIN node \ DOMAIN node' :
             \E w \in DOMAIN node : IsPrefix(w, u) /\ Allowed(w, "Delete")
       /\ \A u \in DOMAIN node \cap DOMAIN node' :
             /\ node'[u] # node[u] => Allowed(u, "Replace")
             /\ OwnACL(u)' # OwnACL(u) =>
                   Allowed(IF node[u].kind = "leaf" THEN Parent(u) ELSE u, "Replace")]_treeVars

\* No command gives its own server a right on a node that was there before,
\* unless it already had Replace on the node or on one above it: adding and
\* deleting elsewhere in the tree does not change what is inherited.
NoSelfPromotion ==
    [][\A u \in DOMAIN node \cap DOMAIN node', cmd \in AclCommand :
          ~ Allowed(u, cmd) /\ Granted(prv_get_inherited_acl(u)', cmd, server) =>
              \E w \in DOMAIN node : IsPrefix(w, u) /\ Allowed(w, "Replace")]_treeVars

\* The server that adds a node can replace it afterwards, by the ACL it
\* inherits or by the one dmtree_add gives it.
CreatorMayReplace ==
    [][code' = SUCCESS =>
          \A u \in DOMAIN node' \ DOMAIN node :
              (\A w \in DOMAIN node' \ DOMAIN node : Len(w) <= Len(u)) =>
                  Allowed(u, "Replace")']_treeVars

\* A command answered with an error has changed nothing, if the management
\* object can set ACLs at all.
FailureChangesNothing ==
    [][code' # SUCCESS /\ "setACL" \in callbacks => UNCHANGED <<node, acl, mo>>]_treeVars

\* The comment in prv_check_access_rights: "Look for server_id in list
\* separated by "+"" - a server that the list names is let in.
ListedIsLetIn ==
    \A u \in DOMAIN node, cmd \in AclCommand :
        Allowed(u, cmd) => prv_check_node_acl_rights(u, cmd)
=============================================================================
