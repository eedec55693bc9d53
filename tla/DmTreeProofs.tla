---------------------------- MODULE DmTreeProofs ----------------------------
(***************************************************************************)
(* Proofs about DmTree: the tree stays well formed, and what the commands  *)
(* may change is bounded by the ACLs, for every set of servers, URIs, ACLs *)
(* and plug-ins.                                                           *)
(***************************************************************************)
EXTENDS DmTree, UriProofs

LEMMA ParentMeans ==
    ASSUME NEW u \in Uri
    PROVE  /\ Parent(u) \in Uri /\ IsPrefix(Parent(u), u)
           /\ u # <<>> => Len(Parent(u)) = Len(u) - 1
           /\ \A w \in Uri : IsPrefix(w, u) /\ w # u => IsPrefix(w, Parent(u))
BY FrontMeans DEF Parent

-----------------------------------------------------------------------------
(* Access checks                                                           *)

\* What the text search accepts is granted by the list.
LEMMA CheckIsSound ==
    ASSUME NEW a, NEW cmd, NEW s, prv_check_access_rights(a, cmd, s)
    PROVE  Granted(a, cmd, s)
BY DEF prv_check_access_rights, Granted, EntryOf, FirstMatch

\* So is what it accepts of the text that an earlier search has cut.
LEMMA CutCheckIsSound ==
    ASSUME NEW a \in ACL, NEW first, NEW cmd, NEW s,
           prv_check_access_rights(CutAfter(a, first), cmd, s)
    PROVE  Granted(a, cmd, s)
<1> DEFINE n == IF EntryOf(a, first) = {} THEN Len(a) ELSE CHOOSE i \in EntryOf(a, first) : TRUE
<1>1. Len(a) \in Nat /\ DOMAIN a = 1 .. Len(a)
  BY LenProperties DEF ACL
<1>2. n \in 0 .. Len(a)
  BY <1>1 DEF EntryOf
<1>3. CutAfter(a, first) = SubSeq(a, 1, n)
  BY DEF CutAfter
<1> HIDE DEF n
<1>4. /\ SubSeq(a, 1, n) \in Seq(Entry) /\ Len(SubSeq(a, 1, n)) = n
      /\ \A i \in 1 .. n : SubSeq(a, 1, n)[i] = a[i]
  BY <1>1, <1>2, SubSeqProperties DEF ACL
<1>5. \A i \in DOMAIN SubSeq(a, 1, n) : i \in DOMAIN a /\ SubSeq(a, 1, n)[i] = a[i]
  BY <1>1, <1>2, <1>4, LenProperties
<1>6. Granted(SubSeq(a, 1, n), cmd, s)
  BY <1>3, CheckIsSound
<1> QED BY <1>5, <1>6 DEF Granted

\* The codes a command may end with, and what a check gives.
Codes == {SUCCESS, NOT_FOUND, NOT_ALLOWED, NOT_SUPPORTED, URI_TOO_LONG, ALREADY_EXISTS,
          PERMISSION_DENIED, COMMAND_FAILED, NOT_IMPLEMENTED}
Results == Codes \cup {NONE}

LEMMA FailIsResult ==
    ASSUME NEW condition, NEW c \in Codes
    PROVE  Fail(condition, c) \in Results
BY DEF Fail, Results

LEMMA CodesAreCodes ==
    /\ NONE \notin Codes
    /\ SUCCESS \in Codes /\ NOT_FOUND \in Codes /\ NOT_ALLOWED \in Codes
    /\ NOT_SUPPORTED \in Codes /\ URI_TOO_LONG \in Codes /\ ALREADY_EXISTS \in Codes
    /\ PERMISSION_DENIED \in Codes /\ COMMAND_FAILED \in Codes /\ NOT_IMPLEMENTED \in Codes
BY DEF Codes, NONE, SUCCESS, NOT_FOUND, NOT_ALLOWED, NOT_SUPPORTED, URI_TOO_LONG, ALREADY_EXISTS,
       PERMISSION_DENIED, COMMAND_FAILED, NOT_IMPLEMENTED

\* A chain of checks in two parts: if it passes, the second part does; if it
\* refuses, the code is one of the codes.
LEMMA Chain ==
    ASSUME NEW p \in Seq(Results), NEW q \in Seq(Results)
    PROVE  /\ p \o q \in Seq(Results)
           /\ Passes(p \o q) => Passes(q)
           /\ Refuse(p \o q) => code' \in Codes
<1>1. /\ Len(p) \in Nat /\ Len(q) \in Nat /\ DOMAIN q = 1 .. Len(q)
      /\ p \o q \in Seq(Results) /\ Len(p \o q) = Len(p) + Len(q)
  BY LenProperties, ConcatProperties
<1>2. \A i \in 1 .. Len(q) : (p \o q)[Len(p) + i] = q[i]
  BY <1>1, ConcatProperties
<1>3. \A i \in DOMAIN q : Len(p) + i \in DOMAIN (p \o q)
  BY <1>1, LenProperties
<1>4. \A i \in DOMAIN (p \o q) : (p \o q)[i] \in Results
  BY <1>1, LenProperties
<1>5. Passes(p \o q) => Passes(q)
  BY <1>1, <1>2, <1>3 DEF Passes
<1>6. Refuse(p \o q) => code' \in Codes
  BY <1>4 DEF Refuse, Results
<1> QED BY <1>1, <1>5, <1>6

LEMMA ValidationIsChain ==
    ASSUME NEW u, NEW prop, NEW hasProp
    PROVE  uri_validate(u, prop, hasProp) \in Seq(Results)
<1> DEFINE a == Fail(prop = StructQuery, NOT_SUPPORTED)
           b == Fail(prop # NoProperty /\ ~ hasProp, NOT_ALLOWED)
           c == Fail(Len(u) > MaxDepth, URI_TOO_LONG)
<1>1. a \in Results /\ b \in Results /\ c \in Results
  BY FailIsResult, CodesAreCodes
<1>2. uri_validate(u, prop, hasProp) = <<a, b, c>>
  BY DEF uri_validate
<1> HIDE DEF a, b, c
<1> QED BY <1>1, <1>2

LEMMA ReplaceIsChain ==
    ASSUME NEW u, NEW prop, NEW empty
    PROVE  ReplaceChecks(u, prop, empty) \in Seq(Results)
<1> DEFINE z == Fail(empty, COMMAND_FAILED)
           p == uri_validate(u, prop, TRUE)
<1>1. z \in Results
  BY FailIsResult, CodesAreCodes
<1>2. p \in Seq(Results)
  BY ValidationIsChain
<1>3. ReplaceChecks(u, prop, empty) = <<z>> \o p
  BY DEF ReplaceChecks
<1> HIDE DEF z, p
<1>4. <<z>> \in Seq(Results)
  BY <1>1
<1> QED BY <1>2, <1>3, <1>4, Chain

\* There is always an ACL to inherit: the one nearest to the node.
LEMMA NearestMeans ==
    ASSUME NEW D \in SUBSET Uri, <<>> \in D, NEW u \in Uri
    PROVE  /\ Nearest(D, u) \in D /\ IsPrefix(Nearest(D, u), u)
           /\ \A v \in D : IsPrefix(v, u) => Len(v) <= Len(Nearest(D, u))
BY LongestExists DEF Nearest

\* It depends only on which of the ancestors have an ACL.
LEMMA NearestSame ==
    ASSUME NEW D \in SUBSET Uri, <<>> \in D, NEW E \in SUBSET Uri, <<>> \in E,
           NEW x \in Uri, NEW y \in Uri,
           \A v \in Uri : v \in D /\ IsPrefix(v, x) <=> v \in E /\ IsPrefix(v, y)
    PROVE  Nearest(D, x) = Nearest(E, y)
<1> DEFINE d == Nearest(D, x)
           e == Nearest(E, y)
<1>1. d \in D /\ IsPrefix(d, x) /\ \A v \in D : IsPrefix(v, x) => Len(v) <= Len(d)
  BY NearestMeans
<1>2. e \in E /\ IsPrefix(e, y) /\ \A v \in E : IsPrefix(v, y) => Len(v) <= Len(e)
  BY NearestMeans
<1> HIDE DEF d, e
<1>3. d \in Uri /\ e \in Uri
  BY <1>1, <1>2
<1>4. IsPrefix(e, x) /\ e \in D /\ IsPrefix(d, y) /\ d \in E
  BY <1>1, <1>2, <1>3
<1>5. Len(e) <= Len(d) /\ Len(d) <= Len(e)
  BY <1>1, <1>2, <1>4
<1>6. IsPrefix(e, d)
  BY <1>1, <1>3, <1>4, <1>5, PrefixOrder
<1>7. e = d
  BY <1>3, <1>5, <1>6, PrefixOrder
<1> QED BY <1>7 DEF d, e

-----------------------------------------------------------------------------
(* What a command can do                                                   *)

Deletion(u) ==
    /\ u \in DOMAIN node /\ Allowed(u, "Delete")
    /\ memory_mo_delete(u) /\ mo' = (IF u = Base THEN "freed" ELSE mo)
    /\ code' = SUCCESS

Addition(u, new) ==
    /\ u \in Target /\ InObject(u) /\ u \notin DOMAIN node
    /\ new \in [kind : {"leaf", "interior"}, value : Value \cup {NoValue}]
    /\ Allowed(Parent(u), "Add")
    /\ memory_mo_create(u, new) /\ UNCHANGED mo
    /\ \/ Allowed(Parent(u), "Replace") /\ UNCHANGED acl /\ code' = SUCCESS
       \/ memory_mo_setACL(u, NewNodeACL(server)) /\ code' = SUCCESS
       \/ UNCHANGED acl /\ code' = NOT_ALLOWED /\ "setACL" \notin callbacks

Update(u, v) ==
    /\ u \in DOMAIN node /\ node[u].kind = "leaf" /\ v \in Value \cup {NoValue}
    /\ Allowed(u, "Replace")
    /\ memory_mo_update(u, v) /\ UNCHANGED <<acl, mo>> /\ code' = SUCCESS

Grant(u, a) ==
    /\ u \in DOMAIN node /\ a \in ACL
    /\ Allowed(IF node[u].kind = "leaf" THEN Parent(u) ELSE u, "Replace")
    /\ memory_mo_setACL(u, a) /\ UNCHANGED <<node, mo>> /\ code' = SUCCESS

Change ==
    \/ \E u : Deletion(u)
    \/ \E u, new : Addition(u, new)
    \/ \E u, v : Update(u, v)
    \/ \E u, a : Grant(u, a)

\* A command leaves the tree alone or makes one of these changes.
CommandStep ==
    /\ mo = "loaded" /\ UNCHANGED callbacks
    /\ code' \in Codes
    /\ \/ UNCHANGED <<node, acl, mo>>
       \/ Change /\ UNCHANGED server

\* The facts about the tree that the steps below use.
LEMMA Shape ==
    ASSUME TreeTypeOK
    PROVE  /\ DOMAIN node \subseteq Uri /\ \A x \in DOMAIN node : IsPrefix(Base, x)
           /\ \A x \in DOMAIN node : \A w \in Uri :
                  IsPrefix(w, x) /\ IsPrefix(Base, w) => w \in DOMAIN node
           /\ \A x \in DOMAIN node : node[x] \in [kind : {"leaf", "interior"}, value : Value \cup {NoValue}]
           /\ mo = "loaded" => Base \in DOMAIN node /\ node[Base].kind = "interior"
           /\ DOMAIN acl \subseteq DOMAIN node \cup {<<>>} /\ <<>> \in DOMAIN acl
           /\ DOMAIN acl \subseteq Uri
           /\ \A x \in DOMAIN acl : acl[x] \in ACL
           /\ <<>> \in Uri /\ Base \in Uri /\ Base # <<>> /\ <<>> \notin DOMAIN node
<1>1. <<>> \in Uri /\ Base \in Uri /\ Base # <<>>
  BY TreeAssumption DEF Uri
<1>2. DOMAIN node \subseteq Uri /\ \A x \in DOMAIN node : IsPrefix(Base, x)
  BY DEF TreeTypeOK, InObject, Uri
<1>3. ASSUME NEW x \in DOMAIN node, NEW w \in Uri, IsPrefix(w, x), IsPrefix(Base, w)
      PROVE  w \in DOMAIN node
  <2>1. w \in Prefixes(x)
    BY <1>2, <1>3, PrefixesMeans
  <2> QED BY <1>3, <2>1 DEF TreeTypeOK, InObject
<1>4. /\ \A x \in DOMAIN node : node[x] \in [kind : {"leaf", "interior"}, value : Value \cup {NoValue}]
      /\ mo = "loaded" => Base \in DOMAIN node /\ node[Base].kind = "interior"
      /\ DOMAIN acl \subseteq DOMAIN node \cup {<<>>} /\ <<>> \in DOMAIN acl
      /\ \A x \in DOMAIN acl : acl[x] \in ACL
  BY DEF TreeTypeOK
<1>5. <<>> \notin DOMAIN node
  BY <1>1, <1>2, PrefixOrder
<1> QED BY <1>1, <1>2, <1>3, <1>4, <1>5

LEMMA NodeOfObject ==
    ASSUME TreeTypeOK, mo = "loaded", NEW u \in Uri, InObject(u), momgr_exists(u) # "absent"
    PROVE  u \in DOMAIN node
<1>1. CASE IsPrefix(u, Base)
  <2>1. Base \in Uri
    BY TreeAssumption DEF Uri
  <2>2. u = Base
    BY <1>1, <2>1, PrefixOrder DEF InObject
  <2> QED BY <2>2 DEF TreeTypeOK
<1>2. CASE ~ IsPrefix(u, Base)
  BY <1>2 DEF momgr_exists
<1> QED BY <1>1, <1>2

LEMMA AddStep ==
    ASSUME TreeTypeOK, NEW u \in Target, NEW prop, NEW format, NEW v \in Value,
           dmtree_add(u, prop, format, v)
    PROVE  CommandStep
<1> DEFINE a == Fail(format = "tnds", NOT_SUPPORTED)
           b == Fail(momgr_exists(u) # "absent", ALREADY_EXISTS)
           c == Fail(momgr_exists(Parent(u)) = "leaf", NOT_ALLOWED)
           d == Fail(~ prv_check_node_acl_rights(Parent(u), "Add"), PERMISSION_DENIED)
           e == Fail(~ HasCallback(u, "set"), NOT_ALLOWED)
           p == uri_validate(u, prop, FALSE)
           new == IF format = "node" THEN Interior ELSE Leaf(v)
<1>1. <<a, b, c, d, e>> \in Seq(Results) /\ p \in Seq(Results)
  <2>1. a \in Results /\ b \in Results /\ c \in Results /\ d \in Results /\ e \in Results
    BY FailIsResult, CodesAreCodes
  <2>2. p \in Seq(Results)
    BY ValidationIsChain
  <2> HIDE DEF a, b, c, d, e, p
  <2> QED BY <2>1, <2>2
<1>2. AddChecks(u, prop, format) = p \o <<a, b, c, d, e>>
  BY DEF AddChecks
<1>3. mo = "loaded" /\ UNCHANGED <<callbacks, server>>
  BY DEF dmtree_add
<1>4. CASE Refuse(AddChecks(u, prop, format))
  <2>1. code' \in Codes
    <3> HIDE DEF a, b, c, d, e, p
    <3> QED BY <1>1, <1>2, <1>4, Chain
  <2> QED BY <1>3, <1>4, <2>1 DEF CommandStep, Refuse
<1>5. CASE ~ Refuse(AddChecks(u, prop, format))
  <2>1. Passes(<<a, b, c, d, e>>)
    <3>1. Passes(AddChecks(u, prop, format))
      BY <1>5 DEF dmtree_add
    <3> HIDE DEF a, b, c, d, e, p
    <3> QED BY <1>1, <1>2, <3>1, Chain
  <2>2. a = NONE /\ b = NONE /\ c = NONE /\ d = NONE /\ e = NONE
    <3> HIDE DEF a, b, c, d, e
    <3> QED BY <2>1 DEF Passes
  <2>3. /\ momgr_exists(u) = "absent"
        /\ prv_check_node_acl_rights(Parent(u), "Add") /\ HasCallback(u, "set")
    BY <2>2 DEF Fail, NONE, NOT_SUPPORTED, NOT_ALLOWED, ALREADY_EXISTS, PERMISSION_DENIED
  <2>4. InObject(u) /\ u \notin DOMAIN node /\ Allowed(Parent(u), "Add")
    <3>1. InObject(u)
      BY <2>3 DEF HasCallback
    <3>2. u \notin DOMAIN node
      BY <2>3 DEF momgr_exists, TreeTypeOK
    <3> QED BY <2>3, <3>1, <3>2, CheckIsSound DEF prv_check_node_acl_rights, Allowed
  <2>5. new \in [kind : {"leaf", "interior"}, value : Value \cup {NoValue}]
    BY DEF Interior, Leaf
  <2>6. /\ memory_mo_create(u, new) /\ UNCHANGED mo
        /\ \/ MayReplaceInParent(u) /\ code' = SUCCESS /\ UNCHANGED acl
           \/ /\ ~ MayReplaceInParent(u) /\ HasCallback(u, "setACL")
              /\ code' = SUCCESS /\ memory_mo_setACL(u, NewNodeACL(server))
           \/ /\ ~ MayReplaceInParent(u) /\ ~ HasCallback(u, "setACL")
              /\ code' = NOT_ALLOWED /\ UNCHANGED acl
    BY <1>5 DEF dmtree_add
  <2>7. MayReplaceInParent(u) => Allowed(Parent(u), "Replace")
    <3>1. u \in Uri
      BY TreeAssumption DEF Uri
    <3>2. prv_get_inherited_acl(Parent(u)) \in ACL
      <4>1. DOMAIN acl \in SUBSET Uri /\ <<>> \in DOMAIN acl /\ \A x \in DOMAIN acl : acl[x] \in ACL
        BY Shape
      <4>2. Nearest(DOMAIN acl, Parent(u)) \in DOMAIN acl
        BY <3>1, <4>1, ParentMeans, NearestMeans
      <4> QED BY <4>1, <4>2 DEF prv_get_inherited_acl
    <3> QED BY <3>2, CutCheckIsSound DEF MayReplaceInParent, Allowed
  <2>8. ~ HasCallback(u, "setACL") => "setACL" \notin callbacks
    BY <2>4 DEF HasCallback
  <2>9. Addition(u, new)
    <3> HIDE DEF new
    <3> QED BY <2>4, <2>5, <2>6, <2>7, <2>8 DEF Addition
  <2>10. code' \in Codes
    BY <2>6, CodesAreCodes
  <2> HIDE DEF new
  <2> QED BY <1>3, <2>9, <2>10 DEF CommandStep, Change
<1> QED BY <1>4, <1>5

LEMMA DeleteStep ==
    ASSUME TreeTypeOK, NEW u \in Target, NEW prop, dmtree_delete(u, prop)
    PROVE  CommandStep
<1> DEFINE a == Fail(momgr_exists(u) = "absent", NOT_FOUND)
           b == Fail(~ prv_check_node_acl_rights(u, "Delete"), PERMISSION_DENIED)
           c == Fail(~ HasCallback(u, "delete"), NOT_ALLOWED)
           p == uri_validate(u, prop, FALSE)
<1>1. <<a, b, c>> \in Seq(Results) /\ p \in Seq(Results)
  <2>1. a \in Results /\ b \in Results /\ c \in Results
    BY FailIsResult, CodesAreCodes
  <2>2. p \in Seq(Results)
    BY ValidationIsChain
  <2> HIDE DEF a, b, c, p
  <2> QED BY <2>1, <2>2
<1>2. /\ mo = "loaded" /\ UNCHANGED <<callbacks, server>>
      /\ \/ Refuse(p \o <<a, b, c>>)
         \/ /\ Passes(p \o <<a, b, c>>) /\ code' = SUCCESS
            /\ memory_mo_delete(u) /\ mo' = IF u = Base THEN "freed" ELSE mo
  BY DEF dmtree_delete, Perform
<1>3. CASE Refuse(p \o <<a, b, c>>)
  <2>1. code' \in Codes
    <3> HIDE DEF a, b, c, p
    <3> QED BY <1>1, <1>3, Chain
  <2> QED BY <1>2, <1>3, <2>1 DEF CommandStep, Refuse
<1>4. CASE ~ Refuse(p \o <<a, b, c>>)
  <2>1. a = NONE /\ b = NONE /\ c = NONE
    <3>1. Passes(p \o <<a, b, c>>)
      BY <1>2, <1>4
    <3> HIDE DEF a, b, c, p
    <3>2. Passes(<<a, b, c>>)
      BY <1>1, <3>1, Chain
    <3> QED BY <3>2 DEF Passes
  <2>2. /\ momgr_exists(u) # "absent" /\ prv_check_node_acl_rights(u, "Delete")
        /\ HasCallback(u, "delete")
    BY <2>1 DEF Fail, NONE, NOT_FOUND, PERMISSION_DENIED, NOT_ALLOWED
  <2>3. u \in DOMAIN node
    <3>1. u \in Uri /\ InObject(u)
      BY <2>2, TreeAssumption DEF Uri, HasCallback
    <3> QED BY <1>2, <2>2, <3>1, NodeOfObject
  <2>4. Allowed(u, "Delete")
    BY <2>2, CheckIsSound DEF prv_check_node_acl_rights, Allowed
  <2>5. code' = SUCCESS /\ memory_mo_delete(u) /\ mo' = IF u = Base THEN "freed" ELSE mo
    BY <1>2, <1>4
  <2>6. Deletion(u)
    BY <2>3, <2>4, <2>5 DEF Deletion
  <2>7. code' \in Codes
    BY <2>5, CodesAreCodes
  <2> QED BY <1>2, <2>6, <2>7 DEF CommandStep, Change
<1> QED BY <1>3, <1>4

LEMMA ReplaceValueStep ==
    ASSUME TreeTypeOK, NEW u \in Target, NEW v \in Value \cup {NoValue}, dmtree_replace_value(u, v)
    PROVE  CommandStep
<1> DEFINE a == Fail(momgr_exists(u) = "absent", NOT_FOUND)
           b == Fail(momgr_exists(u) = "interior", NOT_ALLOWED)
           c == Fail(~ prv_check_node_acl_rights(u, "Replace"), PERMISSION_DENIED)
           d == Fail(~ HasCallback(u, "set"), NOT_ALLOWED)
           p == ReplaceChecks(u, NoProperty, v = NoValue)
<1>1. <<a, b, c, d>> \in Seq(Results) /\ p \in Seq(Results)
  <2>1. a \in Results /\ b \in Results /\ c \in Results /\ d \in Results
    BY FailIsResult, CodesAreCodes
  <2>2. p \in Seq(Results)
    BY ReplaceIsChain
  <2> HIDE DEF a, b, c, d, p
  <2> QED BY <2>1, <2>2
<1>2. /\ mo = "loaded" /\ UNCHANGED <<callbacks, server>>
      /\ \/ Refuse(p \o <<a, b, c, d>>)
         \/ /\ Passes(p \o <<a, b, c, d>>) /\ code' = SUCCESS
            /\ memory_mo_update(u, v) /\ UNCHANGED <<acl, mo>>
  BY DEF dmtree_replace_value, Perform
<1>3. /\ Passes(p \o <<a, b, c, d>>) => Passes(<<a, b, c, d>>)
      /\ Refuse(p \o <<a, b, c, d>>) => code' \in Codes
  <2> HIDE DEF a, b, c, d, p
  <2> QED BY <1>1, Chain
<1>4. CASE Refuse(p \o <<a, b, c, d>>)
  BY <1>2, <1>3, <1>4 DEF CommandStep, Refuse
<1>5. CASE ~ Refuse(p \o <<a, b, c, d>>)
  <2>1. a = NONE /\ b = NONE /\ c = NONE /\ d = NONE
    <3> HIDE DEF a, b, c, d, p
    <3>1. Passes(<<a, b, c, d>>)
      BY <1>2, <1>3, <1>5
    <3> QED BY <3>1 DEF Passes
  <2>2. /\ momgr_exists(u) # "absent" /\ momgr_exists(u) # "interior"
        /\ prv_check_node_acl_rights(u, "Replace") /\ HasCallback(u, "set")
    BY <2>1 DEF Fail, NONE, NOT_FOUND, PERMISSION_DENIED, NOT_ALLOWED
  <2>3. u \in DOMAIN node
    <3>1. u \in Uri /\ InObject(u)
      BY <2>2, TreeAssumption DEF Uri, HasCallback
    <3> QED BY <1>2, <2>2, <3>1, NodeOfObject
  <2>4. node[u].kind = "leaf"
    BY <2>2, <2>3 DEF momgr_exists, TreeTypeOK
  <2>5. Allowed(u, "Replace")
    BY <2>2, CheckIsSound DEF prv_check_node_acl_rights, Allowed
  <2>6. code' = SUCCESS /\ memory_mo_update(u, v) /\ UNCHANGED <<acl, mo>>
    BY <1>2, <1>5
  <2>8. Update(u, v)
    BY <2>3, <2>4, <2>5, <2>6 DEF Update
  <2>9. code' \in Codes
    BY <2>6, CodesAreCodes
  <2> QED BY <1>2, <2>8, <2>9 DEF CommandStep, Change
<1> QED BY <1>4, <1>5

LEMMA ReplaceAclStep ==
    ASSUME TreeTypeOK, NEW u \in Target, NEW new \in NewACL, dmtree_replace_acl(u, new)
    PROVE  CommandStep
<1> DEFINE a == Fail(momgr_exists(u) = "absent", NOT_FOUND)
           b == Fail(~ prv_check_node_acl_rights(AclKeeper(u), "Replace"), PERMISSION_DENIED)
           c == Fail(~ prv_check_acl_syntax(new), COMMAND_FAILED)
           d == Fail(~ HasCallback(u, "setACL"), NOT_ALLOWED)
           p == ReplaceChecks(u, "ACL", new = <<>>)
<1>1. <<a, b, c, d>> \in Seq(Results) /\ p \in Seq(Results)
  <2>1. a \in Results /\ b \in Results /\ c \in Results /\ d \in Results
    BY FailIsResult, CodesAreCodes
  <2>2. p \in Seq(Results)
    BY ReplaceIsChain
  <2> HIDE DEF a, b, c, d, p
  <2> QED BY <2>1, <2>2
<1>2. /\ mo = "loaded" /\ UNCHANGED <<callbacks, server>>
      /\ \/ Refuse(p \o <<a, b, c, d>>)
         \/ /\ Passes(p \o <<a, b, c, d>>) /\ code' = SUCCESS
            /\ memory_mo_setACL(u, new) /\ UNCHANGED <<node, mo>>
  BY DEF dmtree_replace_acl, Perform
<1>3. CASE Refuse(p \o <<a, b, c, d>>)
  <2>1. code' \in Codes
    <3> HIDE DEF a, b, c, d, p
    <3> QED BY <1>1, <1>3, Chain
  <2> QED BY <1>2, <1>3, <2>1 DEF CommandStep, Refuse
<1>4. CASE ~ Refuse(p \o <<a, b, c, d>>)
  <2>1. a = NONE /\ b = NONE /\ c = NONE /\ d = NONE
    <3>1. Passes(p \o <<a, b, c, d>>)
      BY <1>2, <1>4
    <3> HIDE DEF a, b, c, d, p
    <3>2. Passes(<<a, b, c, d>>)
      BY <1>1, <3>1, Chain
    <3> QED BY <3>2 DEF Passes
  <2>2. /\ momgr_exists(u) # "absent" /\ prv_check_node_acl_rights(AclKeeper(u), "Replace")
        /\ HasCallback(u, "setACL")
    BY <2>1 DEF Fail, NONE, NOT_FOUND, PERMISSION_DENIED, NOT_ALLOWED
  <2>3. u \in DOMAIN node
    <3>1. u \in Uri /\ InObject(u)
      BY <2>2, TreeAssumption DEF Uri, HasCallback
    <3> QED BY <1>2, <2>2, <3>1, NodeOfObject
  <2>4. AclKeeper(u) = IF node[u].kind = "leaf" THEN Parent(u) ELSE u
    BY <2>3 DEF AclKeeper, momgr_exists, TreeTypeOK
  <2>5. Allowed(AclKeeper(u), "Replace")
    BY <2>2, CheckIsSound DEF prv_check_node_acl_rights, Allowed
  <2>6. code' = SUCCESS /\ memory_mo_setACL(u, new) /\ UNCHANGED <<node, mo>>
    BY <1>2, <1>4
  <2>7. Grant(u, new)
    BY <2>3, <2>4, <2>5, <2>6, TreeAssumption DEF Grant
  <2>8. code' \in Codes
    BY <2>6, CodesAreCodes
  <2> QED BY <1>2, <2>7, <2>8 DEF CommandStep, Change
<1> QED BY <1>3, <1>4

LEMMA GetStep ==
    ASSUME NEW u, NEW prop, dmtree_get(u, prop)
    PROVE  CommandStep
<1> DEFINE a == Fail(momgr_exists(u) = "absent", NOT_FOUND)
           b == Fail(~ prv_check_node_acl_rights(u, "Get"), PERMISSION_DENIED)
           c == Fail(prop = "ACL" /\ HasNoAcl(u), NOT_FOUND)
           d == Fail(prop \in {"Title", "TStamp"}, NOT_SUPPORTED)
           p == uri_validate(u, prop, TRUE)
<1>1. <<a, b, c, d>> \in Seq(Results) /\ p \in Seq(Results)
  <2>1. a \in Results /\ b \in Results /\ c \in Results /\ d \in Results
    BY FailIsResult, CodesAreCodes
  <2>2. p \in Seq(Results)
    BY ValidationIsChain
  <2> HIDE DEF a, b, c, d, p
  <2> QED BY <2>1, <2>2
<1>2. /\ mo = "loaded" /\ UNCHANGED <<callbacks, server>>
      /\ \/ Refuse(p \o <<a, b, c, d>>)
         \/ code' = SUCCESS /\ UNCHANGED <<node, acl, mo>>
  BY DEF dmtree_get, Perform
<1>3. code' \in Codes
  <2> HIDE DEF a, b, c, d, p
  <2> QED BY <1>1, <1>2, Chain, CodesAreCodes
<1>4. UNCHANGED <<node, acl, mo>>
  BY <1>2 DEF Refuse
<1> QED BY <1>2, <1>3, <1>4 DEF CommandStep

LEMMA ExecStep ==
    ASSUME NEW u, NEW prop, dmtree_exec(u, prop)
    PROVE  CommandStep
<1> DEFINE a == Fail(momgr_exists(u) = "absent", NOT_FOUND)
           b == Fail(~ prv_check_node_acl_rights(u, "Exec"), PERMISSION_DENIED)
           c == Fail(~ HasCallback(u, "exec"), NOT_ALLOWED)
           p == uri_validate(u, prop, FALSE)
<1>1. <<a, b, c>> \in Seq(Results) /\ p \in Seq(Results)
  <2>1. a \in Results /\ b \in Results /\ c \in Results
    BY FailIsResult, CodesAreCodes
  <2>2. p \in Seq(Results)
    BY ValidationIsChain
  <2> HIDE DEF a, b, c, p
  <2> QED BY <2>1, <2>2
<1>2. /\ mo = "loaded" /\ UNCHANGED <<callbacks, server>>
      /\ \/ Refuse(p \o <<a, b, c>>)
         \/ code' = SUCCESS /\ UNCHANGED <<node, acl, mo>>
  BY DEF dmtree_exec, Perform
<1>3. code' \in Codes
  <2> HIDE DEF a, b, c, p
  <2> QED BY <1>1, <1>2, Chain, CodesAreCodes
<1>4. UNCHANGED <<node, acl, mo>>
  BY <1>2 DEF Refuse
<1> QED BY <1>2, <1>3, <1>4 DEF CommandStep

LEMMA ReplacePropertyStep ==
    ASSUME NEW u, NEW prop, NEW data, dmtree_replace_property(u, prop, data)
    PROVE  CommandStep
<1> DEFINE a == Fail(momgr_exists(u) = "absent", NOT_FOUND)
           b == Fail(prop = "Title", NOT_SUPPORTED)
           c == Fail(prop # "Name", NOT_ALLOWED)
           d == Fail(~ prv_check_node_acl_rights(u, "Replace"), PERMISSION_DENIED)
           e == Fail(data = "path", COMMAND_FAILED)
           f == Fail(TRUE, NOT_ALLOWED)
           p == ReplaceChecks(u, prop, data = "empty")
<1>1. <<a, b, c, d, e, f>> \in Seq(Results) /\ p \in Seq(Results)
  <2>1. a \in Results /\ b \in Results /\ c \in Results /\ d \in Results /\ e \in Results /\ f \in Results
    BY FailIsResult, CodesAreCodes
  <2>2. p \in Seq(Results)
    BY ReplaceIsChain
  <2> HIDE DEF a, b, c, d, e, f, p
  <2> QED BY <2>1, <2>2
<1>2. /\ mo = "loaded" /\ UNCHANGED <<callbacks, server>>
      /\ \/ Refuse(p \o <<a, b, c, d, e, f>>)
         \/ code' = SUCCESS /\ UNCHANGED <<node, acl, mo>>
  BY DEF dmtree_replace_property, Perform
<1>3. code' \in Codes
  <2> HIDE DEF a, b, c, d, e, f, p
  <2> QED BY <1>1, <1>2, Chain, CodesAreCodes
<1>4. UNCHANGED <<node, acl, mo>>
  BY <1>2 DEF Refuse
<1> QED BY <1>2, <1>3, <1>4 DEF CommandStep

LEMMA CopyStep == dmtree_copy => CommandStep
BY CodesAreCodes DEF dmtree_copy, Perform, Refuse, Passes, Fail, CommandStep, NONE, NOT_IMPLEMENTED

LEMMA SetServerStep ==
    ASSUME TreeTypeOK, NEW s, dmtree_setServer(s)
    PROVE  CommandStep
BY DEF dmtree_setServer, CommandStep, TreeTypeOK, Codes

LEMMA NextIsCommand ==
    ASSUME TreeTypeOK, TreeNext
    PROVE  CommandStep /\ server' \in Server
<1>1. CommandStep
  BY GetStep, DeleteStep, ExecStep, AddStep, ReplaceValueStep, ReplaceAclStep,
     ReplacePropertyStep, CopyStep, SetServerStep DEF TreeNext
<1>2. server' \in Server
  BY DEF TreeNext, dmtree_get, dmtree_delete, dmtree_exec, dmtree_add, dmtree_replace_value,
         dmtree_replace_acl, dmtree_replace_property, dmtree_copy, dmtree_setServer, Perform,
         TreeTypeOK
<1> QED BY <1>1, <1>2

-----------------------------------------------------------------------------
(* The tree stays well formed                                              *)

LEMMA NewNodeACLMeans ==
    ASSUME NEW s \in Server
    PROVE  NewNodeACL(s) \in ACL /\ Granted(NewNodeACL(s), "Replace", s)
<1>1. /\ Everyone("Get") \in Entry /\ Only("Add", s) \in Entry
      /\ Only("Delete", s) \in Entry /\ Only("Replace", s) \in Entry
  <2>1. <<>> \in Seq(Server) /\ <<s>> \in Seq(Server)
    OBVIOUS
  <2>2. "Get" \in AclCommand /\ "Add" \in AclCommand /\ "Delete" \in AclCommand /\ "Replace" \in AclCommand
    BY DEF AclCommand
  <2> QED BY <2>1, <2>2, Zenon DEF Everyone, Only, Entry
<1>2. NewNodeACL(s) \in ACL
  BY <1>1 DEF NewNodeACL, ACL
<1>3. 4 \in DOMAIN NewNodeACL(s) /\ NewNodeACL(s)[4] = Only("Replace", s)
  BY DEF NewNodeACL
<1>4. Only("Replace", s).cmd = "Replace" /\ Only("Replace", s).ids = <<s>>
  BY DEF Only
<1>5. 1 \in DOMAIN <<s>> /\ <<s>>[1] = s
  OBVIOUS
<1> QED BY <1>2, <1>3, <1>4, <1>5 DEF Granted

\* ... and conversely, for the state after a step.
LEMMA ShapeIsType ==
    ASSUME DOMAIN node' \subseteq Uri, \A x \in DOMAIN node' : IsPrefix(Base, x),
           \A x \in DOMAIN node' : \A w \in Uri :
               IsPrefix(w, x) /\ IsPrefix(Base, w) => w \in DOMAIN node',
           \A x \in DOMAIN node' : node'[x] \in [kind : {"leaf", "interior"}, value : Value \cup {NoValue}],
           mo' = "loaded" => Base \in DOMAIN node' /\ node'[Base].kind = "interior",
           DOMAIN acl' \subseteq DOMAIN node' \cup {<<>>}, <<>> \in DOMAIN acl',
           \A x \in DOMAIN acl' : acl'[x] \in ACL,
           callbacks' \in Plugins, server' \in Server, mo' \in {"loaded", "freed"}, code' \in Codes
    PROVE  TreeTypeOK'
<1>1. \A x \in DOMAIN node' : \A w \in Prefixes(x) : InObject(w) => w \in DOMAIN node'
  BY PrefixesMeans DEF InObject
<1>2. DOMAIN node' \subseteq {x \in Seq(STRING) : InObject(x)}
  BY DEF InObject, Uri
<1> QED BY <1>1, <1>2 DEF TreeTypeOK, Codes

LEMMA InitType == TreeInit => TreeTypeOK
<1> SUFFICES ASSUME TreeInit PROVE TreeTypeOK
  OBVIOUS
<1>1. Base \in Uri /\ <<>> \in Uri /\ Base # <<>>
  BY TreeAssumption DEF Uri
<1>2. DOMAIN node = {Base} /\ node[Base] = Interior /\ DOMAIN acl = {<<>>, Base}
  BY DEF TreeInit
<1>3. RootACL \in ACL
  <2>1. <<>> \in Seq(Server) /\ "Get" \in AclCommand
    BY DEF AclCommand
  <2>2. [cmd |-> "Get", all |-> TRUE, ids |-> <<>>] \in Entry
    BY <2>1, Zenon DEF Entry
  <2> QED BY <2>2 DEF RootACL, ACL
<1>4. \A x \in DOMAIN acl : acl[x] \in ACL
  BY <1>3, TreeAssumption DEF TreeInit
<1>5. DOMAIN node \subseteq {x \in Seq(STRING) : InObject(x)}
  BY <1>1, <1>2, PrefixOrder DEF InObject, Uri
<1>6. \A x \in DOMAIN node : \A w \in Prefixes(x) : InObject(w) => w \in DOMAIN node
  BY <1>1, <1>2, PrefixesMeans, PrefixOrder DEF InObject
<1>7. Interior \in [kind : {"leaf", "interior"}, value : Value \cup {NoValue}] /\ Interior.kind = "interior"
  BY DEF Interior
<1> QED BY <1>1, <1>2, <1>4, <1>5, <1>6, <1>7 DEF TreeInit, TreeTypeOK

\* A node with its subtree goes: what is left is closed under ancestors.
LEMMA DeletionKeepsType ==
    ASSUME TreeTypeOK, NEW u, Deletion(u), UNCHANGED <<callbacks, server>>
    PROVE  TreeTypeOK'
<1>1. /\ u \in DOMAIN node /\ u \in Uri
      /\ DOMAIN node' = DOMAIN node \ Below(u) /\ DOMAIN acl' = DOMAIN acl \ Below(u)
      /\ \A x \in DOMAIN node' : node'[x] = node[x]
      /\ \A x \in DOMAIN acl' : acl'[x] = acl[x]
  BY Shape DEF Deletion, memory_mo_delete
<1>2. Below(u) = {w \in DOMAIN node : IsPrefix(u, w)}
  BY DEF Below
<1>3. ASSUME NEW x \in DOMAIN node', NEW w \in Uri, IsPrefix(w, x), IsPrefix(Base, w)
      PROVE  w \in DOMAIN node'
  <2>1. w \in DOMAIN node /\ x \in Uri /\ ~ IsPrefix(u, x)
    BY <1>1, <1>2, <1>3, Shape
  <2>2. ~ IsPrefix(u, w)
    BY <1>1, <1>3, <2>1, PrefixOrder
  <2> QED BY <1>1, <1>2, <2>1, <2>2
<1>4. ASSUME mo' = "loaded" PROVE Base \in DOMAIN node'
  <2>1. u # Base /\ mo = "loaded"
    BY <1>4 DEF Deletion
  <2>2. ~ IsPrefix(u, Base)
    BY <1>1, <2>1, Shape, PrefixOrder
  <2> QED BY <1>1, <1>2, <2>1, <2>2, Shape
<1>5. mo' = "loaded" => Base \in DOMAIN node' /\ node'[Base].kind = "interior"
  <2>1. mo' = "loaded" => mo = "loaded"
    BY DEF Deletion
  <2> QED BY <1>1, <1>4, <2>1, Shape
<1>6. DOMAIN acl' \subseteq DOMAIN node' \cup {<<>>} /\ <<>> \in DOMAIN acl'
  BY <1>1, <1>2, Shape
<1>7. /\ DOMAIN node' \subseteq Uri /\ \A x \in DOMAIN node' : IsPrefix(Base, x)
      /\ \A x \in DOMAIN node' : node'[x] \in [kind : {"leaf", "interior"}, value : Value \cup {NoValue}]
      /\ \A x \in DOMAIN acl' : acl'[x] \in ACL
  BY <1>1, Shape
<1>8. callbacks' \in Plugins /\ server' \in Server /\ mo' \in {"loaded", "freed"} /\ code' \in Codes
  BY CodesAreCodes DEF Deletion, TreeTypeOK
<1> QED BY <1>3, <1>5, <1>6, <1>7, <1>8, ShapeIsType

\* A new node comes with whatever was missing above it.
LEMMA AdditionKeepsType ==
    ASSUME TreeTypeOK, NEW u, NEW new, Addition(u, new), UNCHANGED <<callbacks, server>>
    PROVE  TreeTypeOK'
<1>1. u \in Uri /\ IsPrefix(Base, u) /\ u \notin DOMAIN node
  BY TreeAssumption DEF Addition, InObject, Uri
<1>2. \A w : w \in Missing(u) <=> w \in Uri /\ IsPrefix(w, u) /\ IsPrefix(Base, w) /\ w \notin DOMAIN node
  BY <1>1, PrefixesMeans DEF Missing, InObject
<1>3. /\ DOMAIN node' = DOMAIN node \cup Missing(u)
      /\ \A x \in DOMAIN node : node'[x] = node[x]
      /\ \A x \in Missing(u) : node'[x] \in {new, Interior}
  BY DEF Addition, memory_mo_create, Missing
<1>4. u \in DOMAIN node'
  BY <1>1, <1>2, <1>3, PrefixOrder
<1>5. ASSUME NEW x \in DOMAIN node', NEW w \in Uri, IsPrefix(w, x), IsPrefix(Base, w)
      PROVE  w \in DOMAIN node'
  <2>1. CASE x \in DOMAIN node
    BY <1>3, <1>5, <2>1, Shape
  <2>2. CASE x \in Missing(u)
    <3>1. IsPrefix(w, u)
      BY <1>1, <1>2, <1>5, <2>2, PrefixOrder
    <3> QED BY <1>2, <1>3, <1>5, <3>1
  <2> QED BY <1>3, <2>1, <2>2
<1>6. \A x \in DOMAIN node' : node'[x] \in [kind : {"leaf", "interior"}, value : Value \cup {NoValue}]
  <2>1. new \in [kind : {"leaf", "interior"}, value : Value \cup {NoValue}]
    BY DEF Addition
  <2>2. Interior \in [kind : {"leaf", "interior"}, value : Value \cup {NoValue}]
    BY DEF Interior
  <2> QED BY <1>3, <2>1, <2>2, Shape
<1>7. mo' = "loaded" => Base \in DOMAIN node' /\ node'[Base].kind = "interior"
  BY <1>3, Shape DEF Addition
<1>8. DOMAIN acl' \subseteq DOMAIN acl \cup {u} /\ DOMAIN acl \subseteq DOMAIN acl'
  BY DEF Addition, memory_mo_setACL
<1>9. \A x \in DOMAIN acl' : acl'[x] \in ACL
  <2>1. CASE UNCHANGED acl
    BY <2>1, Shape
  <2>2. CASE memory_mo_setACL(u, NewNodeACL(server))
    <3>1. NewNodeACL(server) \in ACL
      BY NewNodeACLMeans DEF TreeTypeOK
    <3> QED BY <2>2, <3>1, Shape DEF memory_mo_setACL
  <2> QED BY <2>1, <2>2 DEF Addition
<1>10. DOMAIN acl' \subseteq DOMAIN node' \cup {<<>>} /\ <<>> \in DOMAIN acl'
  BY <1>3, <1>4, <1>8, Shape
<1>11. DOMAIN node' \subseteq Uri /\ \A x \in DOMAIN node' : IsPrefix(Base, x)
  BY <1>2, <1>3, Shape
<1>12. callbacks' \in Plugins /\ server' \in Server /\ mo' \in {"loaded", "freed"} /\ code' \in Codes
  BY CodesAreCodes DEF Addition, TreeTypeOK
<1> QED BY <1>5, <1>6, <1>7, <1>9, <1>10, <1>11, <1>12, ShapeIsType

LEMMA UpdateKeepsType ==
    ASSUME TreeTypeOK, NEW u, NEW v, Update(u, v), UNCHANGED <<callbacks, server>>
    PROVE  TreeTypeOK'
<1>1. /\ u \in DOMAIN node /\ node[u].kind = "leaf" /\ v \in Value \cup {NoValue}
      /\ node' = [node EXCEPT ![u].value = v] /\ UNCHANGED <<acl, mo>> /\ code' = SUCCESS
  BY DEF Update, memory_mo_update
<1>2. /\ DOMAIN node' = DOMAIN node
      /\ \A x \in DOMAIN node : node'[x] \in [kind : {"leaf", "interior"}, value : Value \cup {NoValue}]
      /\ \A x \in DOMAIN node : x # u => node'[x] = node[x]
  BY <1>1, Shape
<1>3. mo' = "loaded" => Base \in DOMAIN node' /\ node'[Base].kind = "interior"
  <2>1. mo = "loaded" => Base # u
    BY <1>1, Shape
  <2> QED BY <1>1, <1>2, <2>1, Shape
<1>4. DOMAIN acl' = DOMAIN acl /\ acl' = acl
  BY <1>1
<1>5. /\ DOMAIN node' \subseteq Uri /\ \A x \in DOMAIN node' : IsPrefix(Base, x)
      /\ \A x \in DOMAIN node' : \A w \in Uri :
            IsPrefix(w, x) /\ IsPrefix(Base, w) => w \in DOMAIN node'
      /\ DOMAIN acl' \subseteq DOMAIN node' \cup {<<>>} /\ <<>> \in DOMAIN acl'
      /\ \A x \in DOMAIN acl' : acl'[x] \in ACL
  BY <1>2, <1>4, Shape
<1>6. callbacks' \in Plugins /\ server' \in Server /\ mo' \in {"loaded", "freed"} /\ code' \in Codes
  BY <1>1, CodesAreCodes DEF TreeTypeOK
<1> QED BY <1>2, <1>3, <1>5, <1>6, ShapeIsType

LEMMA GrantKeepsType ==
    ASSUME TreeTypeOK, NEW u, NEW a, Grant(u, a), UNCHANGED <<callbacks, server>>
    PROVE  TreeTypeOK'
<1>1. /\ u \in DOMAIN node /\ a \in ACL /\ UNCHANGED <<node, mo>> /\ code' = SUCCESS
      /\ DOMAIN acl' = DOMAIN acl \cup {u}
      /\ \A x \in DOMAIN acl' : acl'[x] = IF x = u THEN a ELSE acl[x]
  BY DEF Grant, memory_mo_setACL
<1>2. /\ DOMAIN acl' \subseteq DOMAIN node' \cup {<<>>} /\ <<>> \in DOMAIN acl'
      /\ \A x \in DOMAIN acl' : acl'[x] \in ACL
  BY <1>1, Shape
<1>3. callbacks' \in Plugins /\ server' \in Server /\ mo' \in {"loaded", "freed"} /\ code' \in Codes
  BY <1>1, CodesAreCodes DEF TreeTypeOK
<1>4. /\ DOMAIN node' \subseteq Uri /\ \A x \in DOMAIN node' : IsPrefix(Base, x)
      /\ \A x \in DOMAIN node' : \A w \in Uri :
            IsPrefix(w, x) /\ IsPrefix(Base, w) => w \in DOMAIN node'
      /\ \A x \in DOMAIN node' : node'[x] \in [kind : {"leaf", "interior"}, value : Value \cup {NoValue}]
      /\ mo' = "loaded" => Base \in DOMAIN node' /\ node'[Base].kind = "interior"
  BY <1>1, Shape
<1> QED BY <1>2, <1>3, <1>4, ShapeIsType

LEMMA NextKeepsType ==
    ASSUME TreeTypeOK, [TreeNext]_treeVars
    PROVE  TreeTypeOK'
<1>1. CASE TreeNext
  <2>1. CommandStep /\ server' \in Server
    BY <1>1, NextIsCommand
  <2>2. CASE UNCHANGED <<node, acl, mo>>
    <3>1. callbacks' = callbacks /\ code' \in Codes
      BY <2>1 DEF CommandStep
    <3> QED BY <2>1, <2>2, <3>1 DEF TreeTypeOK, Codes, InObject
  <2>3. CASE Change /\ UNCHANGED server
    <3>1. UNCHANGED <<callbacks, server>>
      BY <2>1, <2>3 DEF CommandStep
    <3> QED BY <2>3, <3>1, DeletionKeepsType, AdditionKeepsType, UpdateKeepsType, GrantKeepsType
            DEF Change
  <2> QED BY <2>1, <2>2, <2>3 DEF CommandStep
<1>2. CASE UNCHANGED treeVars
  BY <1>2 DEF treeVars, TreeTypeOK, InObject
<1> QED BY <1>1, <1>2

\* The tree of the management object stays well formed under all the commands
\* of all servers: closed under ancestors, ACLs on live nodes only.
THEOREM TreeWellFormed == TreeSpec => []TreeTypeOK
<1>1. TreeInit => TreeTypeOK
  BY InitType
<1>2. TreeTypeOK /\ [TreeNext]_treeVars => TreeTypeOK'
  BY NextKeepsType
<1> QED BY <1>1, <1>2, PTL DEF TreeSpec

-----------------------------------------------------------------------------
(* What the ACLs guarantee                                                 *)

\* The ACL in effect at a URI only changes if the ACL of an ancestor does.
LEMMA SameACL ==
    ASSUME TreeTypeOK, TreeTypeOK', NEW x \in Uri,
           \A v \in Uri : IsPrefix(v, x) => (v \in DOMAIN acl <=> v \in DOMAIN acl'),
           \A v \in DOMAIN acl : IsPrefix(v, x) => acl'[v] = acl[v]
    PROVE  prv_get_inherited_acl(x)' = prv_get_inherited_acl(x)
<1>1. DOMAIN acl \in SUBSET Uri /\ <<>> \in DOMAIN acl
  BY Shape
<1>2. DOMAIN acl' \in SUBSET Uri /\ <<>> \in DOMAIN acl'
  <2>1. DOMAIN node' \subseteq Uri /\ DOMAIN acl' \subseteq DOMAIN node' \cup {<<>>} /\ <<>> \in DOMAIN acl'
    BY DEF TreeTypeOK, Uri
  <2>2. <<>> \in Uri
    BY DEF Uri
  <2> QED BY <2>1, <2>2
<1>3. Nearest(DOMAIN acl', x) = Nearest(DOMAIN acl, x)
  <2>1. \A v \in Uri : v \in DOMAIN acl' /\ IsPrefix(v, x) <=> v \in DOMAIN acl /\ IsPrefix(v, x)
    OBVIOUS
  <2> DEFINE D == DOMAIN acl
             E == DOMAIN acl'
  <2> HIDE DEF D, E
  <2>2. D \in SUBSET Uri /\ <<>> \in D /\ E \in SUBSET Uri /\ <<>> \in E
    BY <1>1, <1>2 DEF D, E
  <2>3. \A v \in Uri : v \in E /\ IsPrefix(v, x) <=> v \in D /\ IsPrefix(v, x)
    BY <2>1 DEF D, E
  <2>4. Nearest(E, x) = Nearest(D, x)
    BY <2>2, <2>3, NearestSame
  <2> QED BY <2>4 DEF D, E
<1>4. Nearest(DOMAIN acl, x) \in DOMAIN acl /\ IsPrefix(Nearest(DOMAIN acl, x), x)
  BY <1>1, NearestMeans
<1> QED BY <1>3, <1>4 DEF prv_get_inherited_acl

\* All that an Add creates hangs below the same ACL.
LEMMA AddedUnderOneACL ==
    ASSUME TreeTypeOK, NEW u \in Uri, NEW x \in Missing(u)
    PROVE  prv_get_inherited_acl(Parent(x)) = prv_get_inherited_acl(Parent(u))
<1>1. x \in Uri /\ IsPrefix(x, u) /\ IsPrefix(Base, x) /\ x \notin DOMAIN node
  BY PrefixesMeans DEF Missing, InObject
<1>2. Parent(x) \in Uri /\ Parent(u) \in Uri /\ IsPrefix(Parent(x), x) /\ IsPrefix(Parent(u), u)
  BY <1>1, ParentMeans
<1>3. ASSUME NEW v \in Uri, v \in DOMAIN acl, IsPrefix(v, Parent(x)) PROVE IsPrefix(v, Parent(u))
  <2>1. CASE x = u
    BY <1>3, <2>1
  <2>2. CASE x # u
    <3>1. IsPrefix(x, Parent(u))
      BY <1>1, <2>2, ParentMeans
    <3> QED BY <1>1, <1>2, <1>3, <3>1, PrefixOrder
  <2> QED BY <2>1, <2>2
<1>4. ASSUME NEW v \in Uri, v \in DOMAIN acl, IsPrefix(v, Parent(u)) PROVE IsPrefix(v, Parent(x))
  <2>1. CASE v = <<>>
    BY <1>2, <2>1, PrefixOrder
  <2>2. CASE v # <<>>
    <3>1. v \in DOMAIN node
      BY <1>4, <2>2, Shape
    <3>2. IsPrefix(v, u)
      BY <1>2, <1>4, PrefixOrder
    <3>3. ~ IsPrefix(x, v)
      BY <1>1, <1>4, <3>1, Shape
    <3>4. IsPrefix(v, x) /\ v # x
      BY <1>1, <1>4, <3>1, <3>2, <3>3, PrefixOrder
    <3> QED BY <1>1, <1>4, <3>4, ParentMeans
  <2> QED BY <2>1, <2>2
<1>5. DOMAIN acl \in SUBSET Uri /\ <<>> \in DOMAIN acl
  BY Shape
<1>6. Nearest(DOMAIN acl, Parent(x)) = Nearest(DOMAIN acl, Parent(u))
  <2> DEFINE D == DOMAIN acl
             xx == Parent(x)
             uu == Parent(u)
  <2>1. \A v \in Uri : v \in D /\ IsPrefix(v, xx) <=> v \in D /\ IsPrefix(v, uu)
    BY <1>3, <1>4
  <2>2. D \in SUBSET Uri /\ <<>> \in D /\ xx \in Uri /\ uu \in Uri
    BY <1>2, <1>5
  <2> HIDE DEF D, xx, uu
  <2>3. Nearest(D, xx) = Nearest(D, uu)
    BY <2>1, <2>2, NearestSame
  <2> QED BY <2>3 DEF D, xx, uu
<1> QED BY <1>6 DEF prv_get_inherited_acl

\* What a Deletion leaves, and what an Addition and a Grant change.
LEMMA ChangedParts ==
    /\ \A u : Deletion(u) =>
          /\ DOMAIN node' = DOMAIN node \ Below(u) /\ \A x \in DOMAIN node' : node'[x] = node[x]
          /\ DOMAIN acl' = DOMAIN acl \ Below(u) /\ \A x \in DOMAIN acl' : acl'[x] = acl[x]
    /\ \A u, new : Addition(u, new) =>
          /\ DOMAIN node' = DOMAIN node \cup Missing(u)
          /\ \A x \in DOMAIN node : node'[x] = node[x]
          /\ DOMAIN acl \subseteq DOMAIN acl' /\ DOMAIN acl' \subseteq DOMAIN acl \cup {u}
          /\ \A x \in DOMAIN acl : x # u => acl'[x] = acl[x]
    /\ \A u, a : Grant(u, a) =>
          /\ DOMAIN acl' = DOMAIN acl \cup {u} /\ \A x \in DOMAIN acl : x # u => acl'[x] = acl[x]
<1>1. ASSUME NEW u, Deletion(u)
      PROVE  /\ DOMAIN node' = DOMAIN node \ Below(u) /\ \A x \in DOMAIN node' : node'[x] = node[x]
             /\ DOMAIN acl' = DOMAIN acl \ Below(u) /\ \A x \in DOMAIN acl' : acl'[x] = acl[x]
  BY <1>1 DEF Deletion, memory_mo_delete
<1>2. ASSUME NEW u, NEW new, Addition(u, new)
      PROVE  /\ DOMAIN node' = DOMAIN node \cup Missing(u)
             /\ \A x \in DOMAIN node : node'[x] = node[x]
             /\ DOMAIN acl \subseteq DOMAIN acl' /\ DOMAIN acl' \subseteq DOMAIN acl \cup {u}
             /\ \A x \in DOMAIN acl : x # u => acl'[x] = acl[x]
  <2>1. DOMAIN node' = DOMAIN node \cup Missing(u) /\ \A x \in DOMAIN node : node'[x] = node[x]
    BY <1>2 DEF Addition, memory_mo_create
  <2>2. UNCHANGED acl \/ memory_mo_setACL(u, NewNodeACL(server))
    BY <1>2 DEF Addition
  <2> QED BY <2>1, <2>2 DEF memory_mo_setACL
<1>3. ASSUME NEW u, NEW a, Grant(u, a)
      PROVE  DOMAIN acl' = DOMAIN acl \cup {u} /\ \A x \in DOMAIN acl : x # u => acl'[x] = acl[x]
  BY <1>3 DEF Grant, memory_mo_setACL
<1> QED BY <1>1, <1>2, <1>3

\* The nodes that an Addition makes.
LEMMA AddedNodes ==
    ASSUME TreeTypeOK, NEW u, NEW new, Addition(u, new)
    PROVE  /\ u \in Uri /\ u \in Missing(u)
           /\ \A x \in Missing(u) : x \in Uri /\ IsPrefix(x, u) /\ x \notin DOMAIN node
<1>1. u \in Uri /\ IsPrefix(Base, u) /\ u \notin DOMAIN node
  BY TreeAssumption DEF Addition, InObject, Uri
<1>2. \A x : x \in Missing(u) <=> x \in Uri /\ IsPrefix(x, u) /\ IsPrefix(Base, x) /\ x \notin DOMAIN node
  BY <1>1, PrefixesMeans DEF Missing, InObject
<1> QED BY <1>1, <1>2, PrefixOrder

\* Every change is inside the server's rights: one step of OnlyGranted.
LEMMA StepOnlyGranted ==
    ASSUME TreeTypeOK, [TreeNext]_treeVars
    PROVE  [/\ \A u \in DOMAIN node' \ DOMAIN node : Allowed(Parent(u), "Add")
            /\ \A u \in DOMAIN node \ DOMAIN node' :
                  \E w \in DOMAIN node : IsPrefix(w, u) /\ Allowed(w, "Delete")
            /\ \A u \in DOMAIN node \cap DOMAIN node' :
                  /\ node'[u] # node[u] => Allowed(u, "Replace")
                  /\ OwnACL(u)' # OwnACL(u) =>
                        Allowed(IF node[u].kind = "leaf" THEN Parent(u) ELSE u, "Replace")]_treeVars
<1> DEFINE New == \A x \in DOMAIN node' \ DOMAIN node : Allowed(Parent(x), "Add")
           Gone == \A x \in DOMAIN node \ DOMAIN node' :
                      \E w \in DOMAIN node : IsPrefix(w, x) /\ Allowed(w, "Delete")
           Kept == \A x \in DOMAIN node \cap DOMAIN node' :
                      /\ node'[x] # node[x] => Allowed(x, "Replace")
                      /\ OwnACL(x)' # OwnACL(x) =>
                            Allowed(IF node[x].kind = "leaf" THEN Parent(x) ELSE x, "Replace")
<1>1. CASE UNCHANGED <<node, acl>>
  <2>1. \A x : OwnACL(x)' = OwnACL(x)
    BY <1>1 DEF OwnACL
  <2> QED BY <1>1, <2>1
<1>2. ASSUME NEW u, Deletion(u) PROVE New /\ Gone /\ Kept
  <2>1. DOMAIN node' = DOMAIN node \ Below(u) /\ DOMAIN acl' = DOMAIN acl \ Below(u)
    BY <1>2, ChangedParts
  <2>2. Below(u) = {w \in DOMAIN node : IsPrefix(u, w)}
    BY DEF Below
  <2>3. Gone
    BY <1>2, <2>1, <2>2 DEF Deletion
  <2>4. \A x \in DOMAIN node' : OwnACL(x)' = OwnACL(x)
    BY <1>2, <2>1, <2>2, ChangedParts DEF OwnACL
  <2> QED BY <1>2, <2>1, <2>3, <2>4, ChangedParts
<1>3. ASSUME NEW u, NEW new, Addition(u, new) PROVE New /\ Gone /\ Kept
  <2>1. DOMAIN node' = DOMAIN node \cup Missing(u) /\ u \in Uri /\ u \notin DOMAIN node
    BY <1>3, ChangedParts, AddedNodes DEF Addition
  <2>2. New
    <3> SUFFICES ASSUME NEW x \in Missing(u) PROVE Allowed(Parent(x), "Add")
      BY <2>1
    <3>1. prv_get_inherited_acl(Parent(x)) = prv_get_inherited_acl(Parent(u))
      BY <2>1, AddedUnderOneACL
    <3> QED BY <1>3, <3>1 DEF Addition, Allowed
  <2>3. \A x \in DOMAIN node : OwnACL(x)' = OwnACL(x)
    BY <1>3, <2>1, ChangedParts DEF OwnACL
  <2> QED BY <1>3, <2>1, <2>2, <2>3, ChangedParts
<1>4. ASSUME NEW u, NEW v, Update(u, v) PROVE New /\ Gone /\ Kept
  <2>1. DOMAIN node' = DOMAIN node /\ \A x \in DOMAIN node : x # u => node'[x] = node[x]
    BY <1>4 DEF Update, memory_mo_update
  <2>2. \A x : OwnACL(x)' = OwnACL(x)
    BY <1>4 DEF OwnACL, Update
  <2> QED BY <1>4, <2>1, <2>2 DEF Update
<1>5. ASSUME NEW u, NEW a, Grant(u, a) PROVE New /\ Gone /\ Kept
  <2>1. \A x : x # u => OwnACL(x)' = OwnACL(x)
    BY <1>5, ChangedParts DEF OwnACL
  <2> QED BY <1>5, <2>1 DEF Grant
<1> HIDE DEF New, Gone, Kept
<1>6. (New /\ Gone /\ Kept) \/ UNCHANGED <<node, acl>>
  <2>1. CASE UNCHANGED treeVars
    BY <2>1 DEF treeVars
  <2>2. CASE TreeNext
    BY <2>2, NextIsCommand, <1>2, <1>3, <1>4, <1>5 DEF CommandStep, Change
  <2> QED BY <2>1, <2>2
<1> QED BY <1>1, <1>6 DEF New, Gone, Kept

\* Whatever the server does, nodes appear, disappear and change only where the
\* ACLs in effect give it the right.
THEOREM ChangesAreGranted == TreeSpec => OnlyGranted
<1>1. TreeTypeOK /\ [TreeNext]_treeVars =>
         [/\ \A u \in DOMAIN node' \ DOMAIN node : Allowed(Parent(u), "Add")
          /\ \A u \in DOMAIN node \ DOMAIN node' :
                \E w \in DOMAIN node : IsPrefix(w, u) /\ Allowed(w, "Delete")
          /\ \A u \in DOMAIN node \cap DOMAIN node' :
                /\ node'[u] # node[u] => Allowed(u, "Replace")
                /\ OwnACL(u)' # OwnACL(u) =>
                      Allowed(IF node[u].kind = "leaf" THEN Parent(u) ELSE u, "Replace")]_treeVars
  BY StepOnlyGranted
<1> QED BY <1>1, TreeWellFormed, PTL DEF TreeSpec, OnlyGranted

\* A refused command leaves the tree as it was, for every management object
\* that can set ACLs.
THEOREM RefusalsChangeNothing == TreeSpec => FailureChangesNothing
<1>1. TreeTypeOK /\ [TreeNext]_treeVars =>
         [code' # SUCCESS /\ "setACL" \in callbacks => UNCHANGED <<node, acl, mo>>]_treeVars
  <2> SUFFICES ASSUME TreeTypeOK, TreeNext, code' # SUCCESS, "setACL" \in callbacks
               PROVE  UNCHANGED <<node, acl, mo>>
    OBVIOUS
  <2> QED BY NextIsCommand DEF CommandStep, Change, Deletion, Addition, Update, Grant
<1> QED BY <1>1, TreeWellFormed, PTL DEF TreeSpec, FailureChangesNothing

\* Where the ACL of one node u changes, the ACL in effect changes at u and
\* below, nowhere else.
LEMMA OthersInheritTheSame ==
    ASSUME TreeTypeOK, TreeTypeOK', NEW u \in Uri, NEW x \in Uri, ~ IsPrefix(u, x),
           \A v \in Uri : v # u => (v \in DOMAIN acl <=> v \in DOMAIN acl'),
           \A v \in DOMAIN acl : v # u => acl'[v] = acl[v]
    PROVE  prv_get_inherited_acl(x)' = prv_get_inherited_acl(x)
<1>1. \A v \in Uri : IsPrefix(v, x) => v # u
  OBVIOUS
<1>2. DOMAIN acl \subseteq Uri
  BY Shape
<1> QED BY <1>1, <1>2, SameACL

\* One step of NoSelfPromotion.
LEMMA StepNoPromotion ==
    ASSUME TreeTypeOK, TreeTypeOK', TreeNext,
           NEW x \in DOMAIN node \cap DOMAIN node', NEW cmd,
           ~ Allowed(x, cmd), Granted(prv_get_inherited_acl(x)', cmd, server)
    PROVE  \E w \in DOMAIN node : IsPrefix(w, x) /\ Allowed(w, "Replace")
<1>1. prv_get_inherited_acl(x)' # prv_get_inherited_acl(x)
  BY DEF Allowed
<1>2. x \in Uri /\ x \in DOMAIN node
  BY Shape
<1>3. CASE UNCHANGED acl
  BY <1>1, <1>3 DEF prv_get_inherited_acl
<1>4. ASSUME NEW u, Deletion(u) PROVE FALSE
  <2>1. /\ DOMAIN node' = DOMAIN node \ Below(u) /\ DOMAIN acl' = DOMAIN acl \ Below(u)
        /\ \A v \in DOMAIN acl' : acl'[v] = acl[v]
    BY <1>4, ChangedParts
  <2>2. Below(u) = {w \in DOMAIN node : IsPrefix(u, w)}
    BY DEF Below
  <2>3. u \in Uri /\ ~ IsPrefix(u, x)
    BY <1>2, <1>4, <2>1, <2>2, Shape DEF Deletion
  <2>4. \A v \in Uri : IsPrefix(v, x) => v \notin Below(u)
    BY <1>2, <2>2, <2>3, PrefixOrder
  <2>5. DOMAIN acl \subseteq Uri
    BY Shape
  <2>6. /\ \A v \in Uri : IsPrefix(v, x) => (v \in DOMAIN acl <=> v \in DOMAIN acl')
        /\ \A v \in DOMAIN acl : IsPrefix(v, x) => acl'[v] = acl[v]
    BY <2>1, <2>4, <2>5
  <2> QED BY <1>1, <1>2, <2>6, SameACL
<1>5. ASSUME NEW u, NEW new, Addition(u, new) PROVE FALSE
  <2>1. u \in Uri /\ u \notin DOMAIN node /\ IsPrefix(Base, u)
    BY <1>5, AddedNodes DEF Addition, InObject
  <2>2. ~ IsPrefix(u, x)
    BY <1>2, <2>1, Shape
  <2>3. /\ \A v \in Uri : v # u => (v \in DOMAIN acl <=> v \in DOMAIN acl')
        /\ \A v \in DOMAIN acl : v # u => acl'[v] = acl[v]
    BY <1>5, ChangedParts
  <2> QED BY <1>1, <1>2, <2>1, <2>2, <2>3, OthersInheritTheSame
<1>6. ASSUME NEW u, NEW a, Grant(u, a), mo = "loaded"
      PROVE  \E w \in DOMAIN node : IsPrefix(w, x) /\ Allowed(w, "Replace")
  <2>1. u \in Uri /\ u \in DOMAIN node
    BY <1>6, Shape DEF Grant
  <2>2. /\ \A v \in Uri : v # u => (v \in DOMAIN acl <=> v \in DOMAIN acl')
        /\ \A v \in DOMAIN acl : v # u => acl'[v] = acl[v]
    <3>1. DOMAIN acl' = DOMAIN acl \cup {u} /\ \A v \in DOMAIN acl : v # u => acl'[v] = acl[v]
      BY <1>6, ChangedParts, Zenon
    <3> QED BY <3>1
  <2>3. IsPrefix(u, x)
    BY <1>1, <1>2, <2>1, <2>2, OthersInheritTheSame
  <2>4. CASE node[u].kind # "leaf"
    BY <1>6, <2>1, <2>3, <2>4 DEF Grant
  <2>5. CASE node[u].kind = "leaf"
    <3>1. u # Base /\ IsPrefix(Base, u) /\ Base \in Uri
      BY <1>6, <2>1, <2>5, Shape
    <3>2. Parent(u) \in Uri /\ IsPrefix(Parent(u), u) /\ IsPrefix(Base, Parent(u))
      BY <2>1, <3>1, ParentMeans
    <3>3. Parent(u) \in DOMAIN node /\ IsPrefix(Parent(u), x)
      BY <1>2, <2>1, <2>3, <3>2, Shape, PrefixOrder
    <3> QED BY <1>6, <2>5, <3>3 DEF Grant
  <2> QED BY <2>4, <2>5
<1>7. CommandStep
  BY NextIsCommand
<1>8. ASSUME NEW u, NEW v, Update(u, v) PROVE UNCHANGED acl
  BY <1>8 DEF Update
<1> QED BY <1>3, <1>4, <1>5, <1>6, <1>7, <1>8 DEF CommandStep, Change

\* No command gives its own server a right on an old node, unless the server
\* already had Replace there or above.
THEOREM NobodyPromotesHimself == TreeSpec => NoSelfPromotion
<1>1. TreeTypeOK /\ TreeTypeOK' /\ [TreeNext]_treeVars =>
         [\A u \in DOMAIN node \cap DOMAIN node', cmd \in AclCommand :
             ~ Allowed(u, cmd) /\ Granted(prv_get_inherited_acl(u)', cmd, server) =>
                 \E w \in DOMAIN node : IsPrefix(w, u) /\ Allowed(w, "Replace")]_treeVars
  BY StepNoPromotion
<1> QED BY <1>1, TreeWellFormed, PTL DEF TreeSpec, NoSelfPromotion

\* One step of CreatorMayReplace: the last node that an Addition makes is u,
\* and the ACL in effect there is its own or the one of its parent.
LEMMA StepCreator ==
    ASSUME TreeTypeOK, TreeTypeOK', TreeNext, code' = SUCCESS,
           NEW x \in DOMAIN node' \ DOMAIN node,
           \A w \in DOMAIN node' \ DOMAIN node : Len(w) <= Len(x)
    PROVE  Allowed(x, "Replace")'
<1>1. PICK u, new : Addition(u, new) /\ UNCHANGED server
  <2>1. CommandStep
    BY NextIsCommand
  <2>2. ~ UNCHANGED node
    OBVIOUS
  <2>3. \A u : ~ Deletion(u)
    BY ChangedParts
  <2>4. \A u, v : ~ Update(u, v)
    BY DEF Update, memory_mo_update
  <2>5. \A u, a : ~ Grant(u, a)
    BY DEF Grant
  <2> QED BY <2>1, <2>2, <2>3, <2>4, <2>5 DEF CommandStep, Change
<1>2. /\ u \in Uri /\ u \in Missing(u) /\ u \notin DOMAIN node
      /\ DOMAIN node' \ DOMAIN node = Missing(u) /\ x \in Uri /\ IsPrefix(x, u)
  <2>1. DOMAIN node' = DOMAIN node \cup Missing(u)
    BY <1>1, ChangedParts, Zenon
  <2>2. u \in Uri /\ u \in Missing(u) /\ \A w \in Missing(u) : w \in Uri /\ IsPrefix(w, u) /\ w \notin DOMAIN node
    BY <1>1, AddedNodes
  <2> QED BY <2>1, <2>2
<1>3. x = u
  BY <1>2, PrefixOrder
<1>4. CASE UNCHANGED acl /\ Allowed(Parent(u), "Replace")
  <2>1. Parent(u) \in Uri /\ IsPrefix(Parent(u), u)
    BY <1>2, ParentMeans
  <2>2. DOMAIN acl \in SUBSET Uri /\ <<>> \in DOMAIN acl /\ u \notin DOMAIN acl
    <3>1. u # <<>>
      BY <1>1, <1>2, Shape, PrefixOrder DEF Addition, InObject
    <3> QED BY <1>2, <3>1, Shape
  <2>3. \A v \in Uri : v \in DOMAIN acl /\ IsPrefix(v, u) <=> v \in DOMAIN acl /\ IsPrefix(v, Parent(u))
    BY <1>2, <2>1, <2>2, ParentMeans, PrefixOrder
  <2>4. Nearest(DOMAIN acl, u) = Nearest(DOMAIN acl, Parent(u))
    <3> DEFINE D == DOMAIN acl
               y == Parent(u)
    <3>1. D \in SUBSET Uri /\ <<>> \in D /\ y \in Uri
      BY <2>1, <2>2
    <3>2. \A v \in Uri : v \in D /\ IsPrefix(v, u) <=> v \in D /\ IsPrefix(v, y)
      BY <2>3
    <3> HIDE DEF D, y
    <3>3. Nearest(D, u) = Nearest(D, y)
      BY <1>2, <3>1, <3>2, NearestSame
    <3> QED BY <3>3 DEF D, y
  <2>5. prv_get_inherited_acl(u)' = prv_get_inherited_acl(Parent(u))
    BY <1>4, <2>4 DEF prv_get_inherited_acl
  <2>6. Granted(prv_get_inherited_acl(Parent(u)), "Replace", server)
    BY <1>4 DEF Allowed
  <2> QED BY <1>1, <1>3, <2>5, <2>6 DEF Allowed
<1>5. CASE memory_mo_setACL(u, NewNodeACL(server))
  <2>1. DOMAIN acl' = DOMAIN acl \cup {u} /\ acl'[u] = NewNodeACL(server)
    BY <1>5 DEF memory_mo_setACL
  <2>2. DOMAIN acl' \in SUBSET Uri /\ <<>> \in DOMAIN acl'
    BY <1>2, <2>1, Shape
  <2>3. Nearest(DOMAIN acl', u) = u
    <3> DEFINE D == DOMAIN acl'
               w == Nearest(D, u)
    <3>1. D \in SUBSET Uri /\ <<>> \in D /\ u \in D
      BY <2>1, <2>2
    <3> HIDE DEF D
    <3>2. w \in Uri /\ IsPrefix(w, u) /\ Len(u) <= Len(w)
      BY <1>2, <3>1, NearestMeans, PrefixOrder
    <3> HIDE DEF w
    <3>3. w = u
      BY <1>2, <3>2, PrefixOrder
    <3> QED BY <3>3 DEF D, w
  <2>4. prv_get_inherited_acl(u)' = NewNodeACL(server)
    BY <2>1, <2>3 DEF prv_get_inherited_acl
  <2>5. Granted(NewNodeACL(server), "Replace", server)
    BY NewNodeACLMeans DEF TreeTypeOK
  <2> QED BY <1>1, <1>3, <2>4, <2>5 DEF Allowed
<1> QED BY <1>1, <1>4, <1>5 DEF Addition, SUCCESS, NOT_ALLOWED

\* The server that adds a node may replace it afterwards.
THEOREM CreatorsMayReplace == TreeSpec => CreatorMayReplace
<1>1. TreeTypeOK /\ TreeTypeOK' /\ [TreeNext]_treeVars =>
         [code' = SUCCESS =>
             \A u \in DOMAIN node' \ DOMAIN node :
                 (\A w \in DOMAIN node' \ DOMAIN node : Len(w) <= Len(u)) =>
                     Allowed(u, "Replace")']_treeVars
  BY StepCreator
<1> QED BY <1>1, TreeWellFormed, PTL DEF TreeSpec, CreatorMayReplace
=============================================================================
