----------------------------- MODULE MoMgrProofs -----------------------------
(***************************************************************************)
(* Proofs about MoMgr: the directory stays a tree with each plug-in in its *)
(* place, and operations, listings and searches find what is in it, for    *)
(* every set of plug-ins and whatever they hold.                           *)
(***************************************************************************)
EXTENDS MoMgr, UriProofs, FiniteSetTheorems

-----------------------------------------------------------------------------
(* Looking up                                                              *)

\* The longest of the prefixes of a URI in a set that holds the root.
LEMMA LongestMeans ==
  ASSUME NEW D \in SUBSET Uri, << >> \in D, NEW u \in Uri
  PROVE  LET w == Longest(Prefixes(u) \cap D)
         IN  /\ w \in D /\ IsPrefix(w, u)
             /\ \A v \in D : IsPrefix(v, u) => Len(v) <= Len(w)
<1> DEFINE S == Prefixes(u) \cap D
<1>1. \A v : v \in S <=> v \in D /\ IsPrefix(v, u)
  BY PrefixesMeans
<1>2. PICK w \in D : IsPrefix(w, u) /\ \A v \in D : IsPrefix(v, u) => Len(v) <= Len(w)
  BY LongestExists
<1> HIDE DEF S
<1>3. \E x \in S : \A v \in S : Len(v) <= Len(x)
  BY <1>1, <1>2
<1>4. Longest(S) \in S /\ \A v \in S : Len(v) <= Len(Longest(S))
  BY <1>3 DEF Longest
<1> QED
  BY <1>1, <1>4 DEF S

\* It depends only on which of the prefixes are in the set.
LEMMA LongestSame ==
  ASSUME NEW D \in SUBSET Uri, NEW E \in SUBSET Uri, NEW u \in Uri,
         \A v \in Uri : IsPrefix(v, u) => (v \in D <=> v \in E)
  PROVE  Longest(Prefixes(u) \cap D) = Longest(Prefixes(u) \cap E)
<1>1. Prefixes(u) \cap D = Prefixes(u) \cap E
  BY PrefixesMeans
<1> QED
  BY <1>1

-----------------------------------------------------------------------------
(* The inductive invariant                                                 *)

\* The directories are URIs, and with each all those above it.
DirInv ==
  /\ << >> \in dirs /\ dirs \subseteq Uri
  /\ \A u \in dirs : \A w \in Uri : IsPrefix(w, u) => w \in dirs

\* A plug-in is in the directory of its base_uri.
AtInv ==
  /\ at = [u \in DOMAIN at |-> at[u]]
  /\ DOMAIN at \subseteq dirs /\ IsFiniteSet(DOMAIN at)
  /\ << >> \in DOMAIN at /\ at[<< >>] = Root
  /\ \A u \in DOMAIN at : at[u] \in Plugins \cup {Root} /\ MO(at[u]).base = u

StatusInv ==
  /\ status = [p \in Plugins |-> status[p]]
  /\ \A p \in Plugins : status[p] = "registered" <=>
                          MO(p).base \in DOMAIN at /\ at[MO(p).base] = p

FieldInv ==
  alive \in {"open", "closed", "corrupt"} /\ stale \in BOOLEAN /\ max_depth \in Nat

\* What is remembered is what a search would find, as long as the directory
\* has not changed since.
CacheInv ==
  alive = "open" /\ ~stale /\ last_uri # NoUri => last_plugin = Nearest(last_uri)

MoMgrInv == DirInv /\ AtInv /\ StatusInv /\ FieldInv /\ CacheInv

LEMMA PluginTypes ==
  ASSUME NEW p \in Plugins \cup {Root}
  PROVE  MO(p).base \in Uri /\ MO(p).interior \subseteq Uri
BY PluginAssumption DEF Uri

LEMMA NearestMeans ==
  ASSUME DirInv, AtInv, NEW u \in Uri
  PROVE  LET w == MO(Nearest(u)).base
         IN  /\ w \in DOMAIN at /\ Nearest(u) = at[w] /\ IsPrefix(w, u)
             /\ \A v \in DOMAIN at : IsPrefix(v, u) => Len(v) <= Len(w)
<1> DEFINE w == Longest(Prefixes(u) \cap DOMAIN at)
<1>1. DOMAIN at \in SUBSET Uri /\ << >> \in DOMAIN at
  BY DEF DirInv, AtInv
<1>2. /\ w \in DOMAIN at /\ IsPrefix(w, u)
      /\ \A v \in DOMAIN at : IsPrefix(v, u) => Len(v) <= Len(w)
  BY <1>1, LongestMeans
<1>3. Nearest(u) = at[w]
  BY DEF Nearest
<1>4. MO(at[w]).base = w
  BY <1>2 DEF AtInv
<1> QED
  BY <1>2, <1>3, <1>4

LEMMA MoMgrInvMeans == MoMgrInv => MoMgrTypeOK
<1> SUFFICES ASSUME MoMgrInv PROVE MoMgrTypeOK
  OBVIOUS
<1>1. \A u \in dirs \ {<< >>} : u \in Seq(STRING) /\ Front(u) \in dirs
  BY FrontMeans DEF MoMgrInv, DirInv, Uri
<1> QED
  BY <1>1 DEF MoMgrInv, DirInv, AtInv, StatusInv, FieldInv, MoMgrTypeOK

-----------------------------------------------------------------------------
(* The steps                                                               *)

\* A new directory has only the root.
LEMMA EmptyDirectory ==
  ASSUME dirs' = {<< >>}, at' = [u \in {<< >>} |-> Root],
         status' = [p \in Plugins |-> status'[p]],
         \A p \in Plugins : status'[p] # "registered",
         FieldInv', last_uri' = NoUri
  PROVE  MoMgrInv'
<1>1. DirInv'
  <2>1. << >> \in Uri
    BY EmptySeq DEF Uri
  <2> QED
    BY <2>1, PrefixOfRoot DEF DirInv
<1>2. AtInv'
  BY PluginAssumption, FS_Singleton DEF AtInv
<1>3. StatusInv'
  BY PluginAssumption DEF StatusInv
<1>4. CacheInv'
  BY DEF CacheInv
<1> QED
  BY <1>1, <1>2, <1>3, <1>4 DEF MoMgrInv

LEMMA InvInit == Init => MoMgrInv
<1> SUFFICES ASSUME Init PROVE MoMgrInv
  OBVIOUS
<1>1. DirInv
  <2>1. << >> \in Uri
    BY EmptySeq DEF Uri
  <2> QED
    BY <2>1, PrefixOfRoot DEF DirInv, Init
<1>2. AtInv /\ StatusInv /\ FieldInv /\ CacheInv
  BY PluginAssumption, FS_Singleton DEF Init, AtInv, StatusInv, FieldInv, CacheInv
<1> QED
  BY <1>1, <1>2 DEF MoMgrInv

\* What does not touch the directory.
LEMMA SameDirectory ==
  ASSUME MoMgrInv, UNCHANGED <<dirs, at, status>>, FieldInv', CacheInv'
  PROVE  MoMgrInv'
BY DEF MoMgrInv, DirInv, AtInv, StatusInv

\* An operation on a node finds the plug-in that a search would find.
LEMMA FoundIsNearest ==
  ASSUME MoMgrInv, NEW uri, uri # NoUri, alive = "open",
         ~ stale \/ uri # last_uri
  PROVE  prv_findPlugin(uri) = Nearest(uri)
BY DEF MoMgrInv, CacheInv, prv_findPlugin

\* ... and remembers it.
LEMMA InvRemember ==
  ASSUME MoMgrInv, NEW uri \in Uris, Callable(uri), Remember(uri), UNCHANGED registry
  PROVE  MoMgrInv'
<1>1. uri # NoUri /\ alive = "open" /\ UNCHANGED <<dirs, at, status, max_depth, alive>>
  BY PluginAssumption DEF Callable, registry
<1>2. FieldInv'
  BY <1>1 DEF MoMgrInv, FieldInv, Remember
<1>3. CacheInv'
  <2>1. CASE uri = << >>
    BY <2>1 DEF CacheInv, Remember
  <2>2. CASE uri # << >> /\ ~ stale'
    <3>1. last_uri' = uri /\ last_plugin' = prv_findPlugin(uri) /\ (~ stale \/ uri # last_uri)
      BY <2>2 DEF Remember
    <3>2. last_plugin' = Nearest(uri)
      BY <1>1, <3>1, FoundIsNearest
    <3> QED
      BY <1>1, <3>1, <3>2 DEF CacheInv, Nearest
  <2>3. CASE stale'
    BY <2>3 DEF CacheInv
  <2> QED
    BY <2>1, <2>2, <2>3
<1> QED
  BY <1>1, <1>2, <1>3, SameDirectory

LEMMA InvCorrupted ==
  ASSUME MoMgrInv, NEW key, NEW op, NEW uri, Corrupted(key, op, uri)
  PROVE  MoMgrInv'
<1>1. /\ alive' = "corrupt" /\ UNCHANGED <<dirs, at, status, max_depth, stale>>
  BY DEF Corrupted, cache
<1>2. FieldInv' /\ CacheInv'
  BY <1>1 DEF MoMgrInv, FieldInv, CacheInv
<1> QED
  BY <1>1, <1>2, SameDirectory

LEMMA InvSame ==
  ASSUME MoMgrInv, UNCHANGED <<registry, cache>>
  PROVE  MoMgrInv'
<1>1. UNCHANGED <<dirs, at, status, max_depth, alive, last_uri, last_plugin, stale>>
  BY DEF registry, cache
<1>2. FieldInv' /\ CacheInv'
  BY <1>1 DEF MoMgrInv, FieldInv, CacheInv, Nearest
<1> QED
  BY <1>1, <1>2, SameDirectory

LEMMA InvNode ==
  ASSUME MoMgrInv, NEW uri \in Uris,
         \/ momgr_exists(uri) \/ momgr_get_value(uri)
         \/ \E op \in Ops : momgr_dispatch(op, uri)
         \/ FreedPlugin(uri)
  PROVE  MoMgrInv'
<1>1. CASE FreedPlugin(uri)
  BY <1>1, InvCorrupted DEF FreedPlugin
<1>2. CASE ~ FreedPlugin(uri)
  BY <1>2, InvRemember DEF momgr_exists, momgr_get_value, momgr_dispatch
<1> QED
  BY <1>1, <1>2

-----------------------------------------------------------------------------
(* Searches                                                                *)

LEMMA Least ==
  ASSUME NEW T \in SUBSET Nat, T # {}
  PROVE  /\ (CHOOSE i \in T : \A j \in T : i <= j) \in T
         /\ \A k \in T : (CHOOSE i \in T : \A j \in T : i <= j) <= k
<1> DEFINE R == {p \in Nat \X Nat : p[1] < p[2]}
<1>1. IsWellFoundedOn(R, Nat)
  BY NatLessThanWellFounded DEF OpToRel
<1>2. PICK m \in T : \A n \in T : <<n, m>> \notin R
  <2> HIDE DEF R
  <2> QED BY <1>1, WFMin
<1>3. \A n \in T : m <= n
  <2> SUFFICES ASSUME NEW n \in T PROVE m <= n
    OBVIOUS
  <2>1. ~ n < m
    BY <1>2
  <2> QED BY <2>1
<1> QED
  BY <1>3

\* A search ends at one of the URIs, with the plug-in that was asked there.
LEMMA SearchStops ==
  ASSUME NEW uris, NEW n \in Nat, n # 0, DOMAIN uris = 1 .. n, Len(uris) = n,
         NEW name, NEW value
  PROVE  \E i \in 1 .. n :
           /\ Search(uris, name, value).last = Append(uris[i], name)
           /\ Search(uris, name, value).plugin =
                 IF i = 1 THEN prv_findPlugin(Append(uris[1], name))
                 ELSE Nearest(Append(uris[i], name))
<1> DEFINE owner == [i \in DOMAIN uris |->
                       IF i = 1 THEN prv_findPlugin(Append(uris[1], name))
                       ELSE Nearest(Append(uris[i], name))]
           answers == [i \in DOMAIN uris |-> Answer(owner[i], Append(uris[i], name))]
           ends == {i \in DOMAIN uris : \/ answers[i].code # "NONE"
                                       \/ answers[i].value = SetToBag({value})}
           stop == StopAt(ends, Len(uris))
<1>1. /\ Search(uris, name, value).last = Append(uris[stop], name)
      /\ Search(uris, name, value).plugin = owner[stop]
  BY DEF Search
<1>2. stop \in 1 .. n
  <2>1. ends \in SUBSET Nat /\ ends \subseteq 1 .. n
    OBVIOUS
  <2> HIDE DEF ends
  <2>2. CASE ends = {}
    BY <2>2 DEF StopAt
  <2>3. CASE ends # {}
    BY <2>1, <2>3, Least DEF StopAt
  <2> QED
    BY <2>2, <2>3
<1> HIDE DEF stop
<1>3. owner[stop] = IF stop = 1 THEN prv_findPlugin(Append(uris[1], name))
                    ELSE Nearest(Append(uris[stop], name))
  BY <1>2
<1> QED
  BY <1>1, <1>2, <1>3

\* A list of URIs, as the searches make them.
IsList(list) ==
  /\ list = [good |-> list.good, uris |-> list.uris] /\ list.good \in BOOLEAN
  /\ \E S : list.uris \in Seq(S)

LEMMA InvSearchList ==
  ASSUME MoMgrInv, alive = "open", NEW key, NEW uri, NEW list, IsList(list),
         NEW name, NEW value, SearchList(key, uri, list, name, value)
  PROVE  MoMgrInv'
<1> DEFINE s == Search(list.uris, name, value)
           bad == ~list.good \/ (list.uris # << >> /\ ~Alive(Append(list.uris[1], name)))
<1>1. CASE bad
  <2>1. list # List(<< >>)
    BY <1>1 DEF List
  <2> QED
    BY <1>1, <2>1, InvCorrupted DEF SearchList
<1>2. CASE ~ bad /\ list = List(<< >>)
  BY <1>2, InvSame DEF SearchList
<1>3. CASE ~ bad /\ list # List(<< >>)
  <2>1. /\ last_uri' = s.last /\ last_plugin' = s.plugin
        /\ stale' = (stale /\ s.last = last_uri)
        /\ UNCHANGED <<dirs, at, status, max_depth, alive>>
    BY <1>3 DEF SearchList, registry
  <2>2. PICK S : list.uris \in Seq(S)
    BY DEF IsList
  <2>3. /\ Len(list.uris) \in Nat /\ DOMAIN list.uris = 1 .. Len(list.uris)
        /\ Len(list.uris) # 0
    <3>1. list.uris # << >>
      BY <1>3 DEF IsList, List
    <3> QED
      BY <2>2, <3>1, LenProperties, EmptySeq
  <2>4. PICK i \in 1 .. Len(list.uris) :
          /\ s.last = Append(list.uris[i], name)
          /\ s.plugin = IF i = 1 THEN prv_findPlugin(Append(list.uris[1], name))
                        ELSE Nearest(Append(list.uris[i], name))
    <3> DEFINE us == list.uris
    <3> HIDE DEF us
    <3>1. Len(us) \in Nat /\ Len(us) # 0 /\ DOMAIN us = 1 .. Len(us)
      BY <2>3 DEF us
    <3>2. \E i \in 1 .. Len(us) :
            /\ Search(us, name, value).last = Append(us[i], name)
            /\ Search(us, name, value).plugin =
                 IF i = 1 THEN prv_findPlugin(Append(us[1], name))
                 ELSE Nearest(Append(us[i], name))
      BY <3>1, SearchStops
    <3> QED
      BY <3>2 DEF us
  <2> HIDE DEF s
  <2>5. FieldInv'
    BY <2>1 DEF MoMgrInv, FieldInv
  <2>6. ASSUME ~ stale', last_uri' # NoUri
        PROVE  last_plugin' = Nearest(last_uri')
    <3>1. ~ stale \/ s.last # last_uri
      BY <2>1, <2>6
    <3>2. CASE i = 1
      <4>1. s.plugin = prv_findPlugin(s.last)
        BY <2>4, <3>2
      <4>2. prv_findPlugin(s.last) = Nearest(s.last)
        BY <2>1, <2>6, <3>1, FoundIsNearest
      <4> QED
        BY <2>1, <4>1, <4>2
    <3>3. CASE i # 1
      BY <2>1, <2>4, <3>3
    <3> QED
      BY <3>2, <3>3
  <2>7. CacheInv'
    BY <2>1, <2>6 DEF CacheInv, Nearest
  <2> QED
    BY <2>1, <2>5, <2>7, SameDirectory
<1> QED
  BY <1>1, <1>2, <1>3

Found(dir, urn) ==
  {u \in DOMAIN at : /\ IsPrefix(dir, u) /\ "findURN" \in MO(at[u]).funcs
                     /\ MO(at[u]).urn[urn] # << >>}

LEMMA UrnList ==
  ASSUME MoMgrInv, NEW dir, NEW urn \in Urns
  PROVE  IsList(prv_findUrn(dir, urn))
<1> DEFINE found == Found(dir, urn)
           u == CHOOSE v \in found : TRUE
<1>1. prv_findUrn(dir, urn) =
        IF found = {} THEN List(<< >>)
        ELSE [good |-> Cardinality(found) = 1, uris |-> MO(at[u]).urn[urn]]
  BY DEF prv_findUrn, Found
<1>2. found # {} => MO(at[u]).urn[urn] \in Seq(Seq(STRING))
  <2>1. found # {} => u \in found
    OBVIOUS
  <2>2. found # {} => at[u] \in Plugins \cup {Root}
    BY <2>1 DEF Found, MoMgrInv, AtInv
  <2> QED
    BY <2>2, ContentAssumption
<1> HIDE DEF found, u
<1>3. CASE found = {}
  <2>1. << >> \in Seq(Uri)
    BY EmptySeq
  <2> QED
    BY <1>1, <1>3, <2>1 DEF IsList, List
<1>4. CASE found # {}
  <2> DEFINE us == MO(at[u]).urn[urn]
             good == Cardinality(found) = 1
  <2>1. prv_findUrn(dir, urn) = [good |-> good, uris |-> us] /\ us \in Seq(Seq(STRING))
    BY <1>1, <1>2, <1>4
  <2>2. good \in BOOLEAN
    OBVIOUS
  <2> HIDE DEF us, good
  <2> QED
    BY <2>1, <2>2 DEF IsList
<1> QED
  BY <1>3, <1>4

\* What a bag made of a set names, and of which set it is made.
LEMMA NamesOfBag ==
  /\ \A S : BagToSet(SetToBag(S)) = S
  /\ BagToSet(EmptyBag) = {}
  /\ \A x, y : SetToBag({x}) = SetToBag({y}) => x = y
BY DEF BagToSet, SetToBag, EmptyBag

\* A plug-in lists finitely many children.
LEMMA ChildrenFinite ==
  ASSUME NEW p \in Plugins \cup {Root}, NEW uri
  PROVE  Cardinality(BagToSet(getFunc(p, uri).value)) \in Nat
<1> DEFINE nodes == MO(p).interior \cup DOMAIN MO(p).leaf
           below == {w \in nodes : w # << >> /\ Front(w) = uri}
           names == Children(p, uri)
           last  == [u \in below |-> Last(u)]
<1>1. IsFiniteSet(nodes)
  BY ContentAssumption, FS_Union
<1>2. IsFiniteSet(below)
  BY <1>1, FS_Subset
<1>3. last \in Surjection(below, names)
  BY DEF Surjection, Children
<1>4. IsFiniteSet(names)
  <2> HIDE DEF below, names, last
  <2> QED
    BY <1>2, <1>3, FS_Surjection
<1>5. \A x : IsFiniteSet({x})
  BY FS_Singleton
<1>6. IsFiniteSet({})
  BY FS_EmptySet
<1>7. \/ getFunc(p, uri).value = SetToBag({MO(p).leaf[uri]})
      \/ getFunc(p, uri).value = SetToBag(names)
      \/ getFunc(p, uri).value = EmptyBag
  BY DEF getFunc, Result
<1> HIDE DEF names
<1>8. IsFiniteSet(BagToSet(getFunc(p, uri).value))
  BY <1>4, <1>5, <1>6, <1>7, NamesOfBag
<1> QED
  BY <1>8, FS_CardinalityType

LEMMA ChildrenList ==
  ASSUME MoMgrInv, NEW dir, NEW uri
  PROVE  IsList(prv_getChildrenUrl(dir, uri))
<1> DEFINE own == getFunc(at[dir], uri)
           names == BagToSet(own.value)
           n == Cardinality(names)
           us == [i \in 1 .. n |-> Append(uri, SetToSeq(names)[i])]
<1>1. CASE dir \in DOMAIN at /\ "get" \in MO(at[dir]).funcs
  <2>1. prv_getChildrenUrl(dir, uri) = [good |-> TRUE, uris |-> us]
    BY <1>1 DEF prv_getChildrenUrl, List
  <2>2. n \in Nat
    BY <1>1, ChildrenFinite DEF MoMgrInv, AtInv
  <2> DEFINE S == {Append(uri, SetToSeq(names)[i]) : i \in 1 .. n}
  <2>3. us \in [1 .. n -> S]
    OBVIOUS
  <2> HIDE DEF n, S, us
  <2>4. us \in Seq(S)
    BY <2>2, <2>3, IsASeq
  <2> QED
    BY <2>1, <2>4 DEF IsList
<1>2. CASE ~ (dir \in DOMAIN at /\ "get" \in MO(at[dir]).funcs)
  <2>1. << >> \in Seq(Uri)
    BY EmptySeq
  <2> QED
    BY <1>2, <2>1 DEF prv_getChildrenUrl, IsList, List
<1> QED
  BY <1>1, <1>2

LEMMA InvFind ==
  ASSUME MoMgrInv, NEW uri, NEW name, NEW value,
         \/ momgr_find_subtree_uri(uri, name, value)
         \/ \E urn \in Urns : momgr_find_subtree_urn(uri, urn, name, value)
  PROVE  MoMgrInv'
<1>1. CASE momgr_find_subtree_uri(uri, name, value)
  BY <1>1, ChildrenList, InvSearchList DEF momgr_find_subtree_uri
<1>2. ASSUME NEW urn \in Urns, momgr_find_subtree_urn(uri, urn, name, value)
      PROVE  MoMgrInv'
  BY <1>2, UrnList, InvSearchList DEF momgr_find_subtree_urn
<1> QED
  BY <1>1, <1>2

LEMMA InvList ==
  ASSUME MoMgrInv, NEW urn, momgr_list_uri(urn)
  PROVE  MoMgrInv'
<1> DEFINE list == prv_findUrn(<< >>, urn)
<1>1. CASE list.good
  BY <1>1, InvSame DEF momgr_list_uri
<1>2. CASE ~ list.good
  BY <1>2, InvCorrupted DEF momgr_list_uri
<1> QED
  BY <1>1, <1>2

-----------------------------------------------------------------------------
(* Registration                                                            *)

LEMMA AddTypes ==
  ASSUME MoMgrInv, NEW plugin \in Plugins, MayAdd(plugin), Refusal(plugin) = "NONE"
  PROVE  /\ MO(plugin).base \in Uri /\ MO(plugin).base # << >> /\ plugin # Root
         /\ status[plugin] # "registered"
         /\ \A w : w \in Prefixes(MO(plugin).base) <=> w \in Uri /\ IsPrefix(w, MO(plugin).base)
<1>1. MO(plugin).base \in Uri /\ plugin # Root /\ MO(plugin).init \in BOOLEAN
  BY PluginTypes, PluginAssumption
<1>2. MO(plugin).base # << >>
  BY <1>1 DEF Refusal
<1> QED
  BY <1>1, <1>2, PrefixesMeans DEF MayAdd

\* The directories that lead to base.
LEMMA DirsGrow ==
  ASSUME DirInv, NEW base \in Uri, dirs' = dirs \cup Prefixes(base)
  PROVE  DirInv'
<1>1. \A w : w \in Prefixes(base) <=> w \in Uri /\ IsPrefix(w, base)
  BY PrefixesMeans
<1>2. \A u \in dirs' : u \in Uri
  BY <1>1 DEF DirInv
<1>3. ASSUME NEW u \in dirs', NEW w \in Uri, IsPrefix(w, u)
      PROVE  w \in dirs'
  BY <1>1, <1>2, <1>3, PrefixOrder DEF DirInv
<1> QED
  BY <1>2, <1>3 DEF DirInv

LEMMA InvAdd ==
  ASSUME MoMgrInv, NEW plugin \in Plugins, momgr_add_plugin(plugin)
  PROVE  MoMgrInv'
<1> DEFINE base == MO(plugin).base
<1>1. /\ base \in Uri /\ base # << >> /\ plugin # Root /\ status[plugin] # "registered"
      /\ \A w : w \in Prefixes(base) <=> w \in Uri /\ IsPrefix(w, base)
  BY AddTypes DEF momgr_add_plugin
<1>2. /\ dirs' = dirs \cup Prefixes(base)
      /\ at' = [u \in DOMAIN at \cup {base} |-> IF u = base THEN plugin ELSE at[u]]
      /\ status' = [p \in Plugins |->
                      CASE p = plugin -> "registered"
                        [] p # plugin /\ base \in DOMAIN at /\ p = at[base] -> "lost"
                        [] OTHER -> status[p]]
      /\ stale' = TRUE /\ UNCHANGED <<last_uri, last_plugin, max_depth, alive>>
  BY DEF momgr_add_plugin
<1>3. MO(plugin).base = base
  OBVIOUS
<1> HIDE DEF base
<1>4. DirInv'
  BY <1>1, <1>2, DirsGrow DEF MoMgrInv
<1>5. AtInv'
  <2>1. base \in dirs' /\ dirs \subseteq dirs'
    BY <1>1, <1>2, PrefixOrder
  <2>2. IsFiniteSet(DOMAIN at')
    BY <1>2, FS_AddElement DEF MoMgrInv, AtInv
  <2>3. /\ at' = [u \in DOMAIN at' |-> at'[u]] /\ DOMAIN at' = DOMAIN at \cup {base}
        /\ at'[base] = plugin /\ \A u \in DOMAIN at \ {base} : at'[u] = at[u]
    BY <1>2
  <2> QED
    BY <1>1, <1>3, <2>1, <2>2, <2>3 DEF MoMgrInv, AtInv
<1>6. StatusInv'
  <2>1. status' = [p \in Plugins |-> status'[p]]
    BY <1>2
  <2>2. ASSUME NEW p \in Plugins
        PROVE  status'[p] = "registered" <=> MO(p).base \in DOMAIN at' /\ at'[MO(p).base] = p
    <3>1. status[p] = "registered" <=> MO(p).base \in DOMAIN at /\ at[MO(p).base] = p
      BY DEF MoMgrInv, StatusInv
    <3>2. /\ DOMAIN at' = DOMAIN at \cup {base}
          /\ at'[base] = plugin /\ \A u \in DOMAIN at \ {base} : at'[u] = at[u]
      BY <1>2
    <3>3. CASE p = plugin
      BY <1>2, <1>3, <3>2, <3>3
    <3>4. CASE p # plugin /\ base \in DOMAIN at /\ p = at[base]
      <4>1. status'[p] = "lost" /\ MO(p).base = base
        BY <1>2, <3>4 DEF MoMgrInv, AtInv
      <4> QED
        BY <3>2, <3>4, <4>1
    <3>5. CASE p # plugin /\ ~ (base \in DOMAIN at /\ p = at[base])
      <4>1. status'[p] = status[p]
        BY <1>2, <3>5
      <4>2. CASE MO(p).base = base
        BY <3>1, <3>2, <3>5, <4>1, <4>2
      <4>3. CASE MO(p).base # base
        BY <3>1, <3>2, <4>1, <4>3
      <4> QED
        BY <4>2, <4>3
    <3> QED
      BY <3>3, <3>4, <3>5
  <2> QED
    BY <2>1, <2>2 DEF StatusInv
<1>7. FieldInv' /\ CacheInv'
  BY <1>2 DEF MoMgrInv, FieldInv, CacheInv
<1> QED
  BY <1>4, <1>5, <1>6, <1>7 DEF MoMgrInv

LEMMA InvCreateFails ==
  ASSUME MoMgrInv, NEW plugin \in Plugins, prv_createMoDir_fails(plugin)
  PROVE  MoMgrInv'
<1> DEFINE base == MO(plugin).base
<1>1. PICK n \in 0 .. Len(base) - 1 : dirs' = dirs \cup Prefixes(SubSeq(base, 1, n))
  BY DEF prv_createMoDir_fails
<1>2. /\ stale' = TRUE /\ UNCHANGED <<at, status, max_depth, alive, last_uri, last_plugin>>
  BY DEF prv_createMoDir_fails
<1>3. SubSeq(base, 1, n) \in Uri
  <2>1. base \in Seq(STRING)
    BY PluginTypes DEF Uri
  <2> HIDE DEF base
  <2>2. n \in 0 .. Len(base)
    BY <2>1, LenProperties
  <2> QED
    BY <2>1, <2>2, SubSeqProperties, LenProperties DEF Uri
<1>4. DirInv' /\ dirs \subseteq dirs'
  BY <1>1, <1>3, DirsGrow DEF MoMgrInv
<1>5. AtInv' /\ StatusInv'
  BY <1>2, <1>4 DEF MoMgrInv, AtInv, StatusInv
<1>6. FieldInv' /\ CacheInv'
  BY <1>2 DEF MoMgrInv, FieldInv, CacheInv
<1> QED
  BY <1>4, <1>5, <1>6 DEF MoMgrInv

LEMMA InvAddFails ==
  ASSUME MoMgrInv, NEW plugin \in Plugins, momgr_add_plugin_fails(plugin)
  PROVE  MoMgrInv'
<1> DEFINE base == MO(plugin).base
           gone == Freed(base)
<1>1. /\ base \in Uri /\ base # << >>
      /\ \A w : w \in Prefixes(base) <=> w \in Uri /\ IsPrefix(w, base)
  BY AddTypes DEF momgr_add_plugin_fails
<1>2. /\ dirs' = (dirs \cup Prefixes(base)) \ gone
      /\ at' = [u \in DOMAIN at \ gone |-> at[u]]
      /\ status' = [p \in Plugins |->
                      CASE base \in DOMAIN at /\ p = at[base] -> "lost"
                        [] \E u \in (gone \cap DOMAIN at) \ {base} : p = at[u] -> "closed"
                        [] OTHER -> status[p]]
      /\ stale' = TRUE /\ UNCHANGED <<last_uri, last_plugin, max_depth, alive>>
  BY DEF momgr_add_plugin_fails
<1>3. gone = {u \in dirs : IsPrefix(base, u)} \cup {base}
  BY DEF Freed
<1> HIDE DEF base, gone
<1>4. << >> \notin gone
  BY <1>1, <1>3, PrefixOfRoot
<1>5. DirInv'
  <2>1. \A u \in dirs' : u \in Uri
    BY <1>1, <1>2 DEF MoMgrInv, DirInv
  <2>2. ASSUME NEW u \in dirs', NEW w \in Uri, IsPrefix(w, u)
        PROVE  w \in dirs'
    <3>1. u \in Uri /\ u \notin gone /\ u \in dirs \cup Prefixes(base)
      BY <1>2, <2>1
    <3>2. w \in dirs \cup Prefixes(base)
      BY <1>1, <2>2, <3>1, PrefixOrder DEF MoMgrInv, DirInv
    <3>3. w \in gone => IsPrefix(base, w)
      BY <1>1, <1>3, PrefixOrder
    <3>4. w \in gone => IsPrefix(base, u)
      BY <1>1, <2>2, <3>1, <3>3, PrefixOrder
    <3>5. IsPrefix(base, u) => u \in gone
      <4>1. CASE u \in dirs
        BY <1>3, <4>1
      <4>2. CASE u \in Prefixes(base)
        <5>1. IsPrefix(u, base)
          BY <1>1, <4>2
        <5>2. IsPrefix(base, u) => Len(base) <= Len(u)
          BY <1>1, <3>1, PrefixOrder
        <5> QED
          BY <1>1, <1>3, <3>1, <5>1, <5>2, PrefixOrder
      <4> QED
        BY <3>1, <4>1, <4>2
    <3> QED
      BY <1>2, <3>1, <3>2, <3>4, <3>5
  <2>3. << >> \in dirs'
    BY <1>2, <1>4 DEF MoMgrInv, DirInv
  <2> QED
    BY <2>1, <2>2, <2>3 DEF DirInv
<1>6. AtInv'
  <2>1. IsFiniteSet(DOMAIN at')
    BY <1>2, FS_Subset DEF MoMgrInv, AtInv
  <2>2. /\ at' = [u \in DOMAIN at' |-> at'[u]] /\ DOMAIN at' = DOMAIN at \ gone
        /\ \A u \in DOMAIN at \ gone : at'[u] = at[u]
    BY <1>2
  <2>3. DOMAIN at' \subseteq dirs'
    BY <1>2, <2>2 DEF MoMgrInv, AtInv
  <2> QED
    BY <1>4, <2>1, <2>2, <2>3 DEF MoMgrInv, AtInv
<1>7. StatusInv'
  <2>1. status' = [p \in Plugins |-> status'[p]]
    BY <1>2
  <2>2. ASSUME NEW p \in Plugins
        PROVE  status'[p] = "registered" <=> MO(p).base \in DOMAIN at' /\ at'[MO(p).base] = p
    <3>1. status[p] = "registered" <=> MO(p).base \in DOMAIN at /\ at[MO(p).base] = p
      BY DEF MoMgrInv, StatusInv
    <3>2. /\ DOMAIN at' = DOMAIN at \ gone /\ \A u \in DOMAIN at \ gone : at'[u] = at[u]
      BY <1>2
    <3>3. CASE base \in DOMAIN at /\ p = at[base]
      <4>1. MO(p).base = base /\ base \in gone
        BY <1>3, <3>3 DEF MoMgrInv, AtInv
      <4>2. ~ \E u \in (gone \cap DOMAIN at) \ {base} : p = at[u]
        BY <4>1 DEF MoMgrInv, AtInv
      <4>3. status'[p] = "lost"
        BY <1>2, <3>3, <4>2
      <4> QED
        BY <3>2, <4>1, <4>3
    <3>4. CASE /\ ~ (base \in DOMAIN at /\ p = at[base])
               /\ \E u \in (gone \cap DOMAIN at) \ {base} : p = at[u]
      <4>1. MO(p).base \in gone
        BY <3>4 DEF MoMgrInv, AtInv
      <4>2. status'[p] = "closed"
        BY <1>2, <3>4
      <4> QED
        BY <3>2, <4>1, <4>2
    <3>5. CASE /\ ~ (base \in DOMAIN at /\ p = at[base])
               /\ ~ \E u \in (gone \cap DOMAIN at) \ {base} : p = at[u]
      <4>1. status'[p] = status[p]
        BY <1>2, <3>5
      <4>2. \A u \in gone \cap DOMAIN at : p # at[u]
        BY <3>5
      <4> QED
        BY <3>1, <3>2, <4>1, <4>2
    <3> QED
      BY <3>3, <3>4, <3>5
  <2> QED
    BY <2>1, <2>2 DEF StatusInv
<1>8. FieldInv' /\ CacheInv'
  BY <1>2 DEF MoMgrInv, FieldInv, CacheInv
<1> QED
  BY <1>5, <1>6, <1>7, <1>8 DEF MoMgrInv
-----------------------------------------------------------------------------
(* The directory itself, and every step                                    *)

\* A limit is stored in an unsigned number.
LEMMA ShortTypes ==
  ASSUME NEW plugin, NEW name
  PROVE  prv_get_short(plugin, name).number \in Nat
<1> DEFINE own == getFunc(plugin, <<"DevDetail", "URI", name>>)
           known == \E v \in DOMAIN Number : own.value = SetToBag({v})
           number == CASE own.value = EmptyBag -> 0
                       [] known -> Number[CHOOSE v \in BagToSet(own.value) : TRUE]
                       [] OTHER -> -1
<1>1. prv_get_short(plugin, name).number = number % 65536
  BY DEF prv_get_short
<1>2. number \in Int
  <2>1. CASE own.value = EmptyBag
    <3>1. ~ known
      <4>1. BagToSet(own.value) = {}
        BY <2>1, NamesOfBag
      <4>2. \A v : BagToSet(SetToBag({v})) = {v}
        BY NamesOfBag
      <4> HIDE DEF own
      <4> QED
        BY <4>1, <4>2
    <3> QED
      BY <2>1, <3>1
  <2>2. CASE known /\ own.value # EmptyBag
    <3>1. PICK v \in DOMAIN Number : own.value = SetToBag({v})
      BY <2>2
    <3>2. (CHOOSE w \in BagToSet(own.value) : TRUE) = v
      BY <3>1, NamesOfBag
    <3>3. number = Number[v]
      BY <2>2, <3>2
    <3>4. Number[v] \in Nat
      BY <3>1, PluginAssumption
    <3> HIDE DEF number
    <3> QED
      BY <3>3, <3>4
  <2>3. CASE own.value # EmptyBag /\ ~ known
    BY <2>3
  <2> QED
    BY <2>1, <2>2, <2>3
<1> HIDE DEF number
<1> QED
  BY <1>1, <1>2

LEMMA InvCheck ==
  ASSUME MoMgrInv, momgr_check_mandatory_mo
  PROVE  MoMgrInv'
<1> DEFINE list   == prv_findUrn(<< >>, URN_MO_DMACC)
           plugin == Nearest(<<"DevDetail">>)
           depth  == prv_get_short(plugin, "MaxDepth")
<1>1. alive = "open" /\ depth.number \in Nat
  BY ShortTypes DEF momgr_check_mandatory_mo
<1>2. CASE ~ list.good
  BY <1>2, InvCorrupted DEF momgr_check_mandatory_mo
<1>3. CASE list.good /\ list.uris = << >>
  BY <1>3, InvSame DEF momgr_check_mandatory_mo
<1>4. CASE list.good /\ list.uris # << >>
  <2>1. /\ last_uri' = <<"DevDetail">> /\ last_plugin' = plugin /\ stale' = FALSE
        /\ max_depth' \in {max_depth, depth.number}
        /\ UNCHANGED <<dirs, at, status, alive>>
    <3>1. CASE "get" \notin MO(plugin).funcs
      BY <1>4, <3>1 DEF momgr_check_mandatory_mo, registry
    <3>2. CASE "get" \in MO(plugin).funcs
      <4>1. Limits[1] = "MaxDepth"
        BY DEF Limits
      <4> HIDE DEF depth
      <4> QED
        BY <1>4, <3>2, <4>1 DEF momgr_check_mandatory_mo, depth
    <3> QED
      BY <3>1, <3>2
  <2> HIDE DEF depth
  <2>2. FieldInv' /\ CacheInv'
    BY <1>1, <2>1 DEF MoMgrInv, FieldInv, CacheInv, Nearest
  <2> QED
    BY <2>1, <2>2, SameDirectory
<1> QED
  BY <1>2, <1>3, <1>4

LEMMA InvEnds ==
  ASSUME MoMgrInv, momgr_free \/ momgr_init
  PROVE  MoMgrInv'
<1>1. /\ dirs' = {<< >>} /\ at' = [u \in {<< >>} |-> Root] /\ last_uri' = NoUri
  BY DEF momgr_free, momgr_init
<1>3. FieldInv'
  <2>1. /\ alive' \in {"open", "closed"} /\ stale' = FALSE /\ max_depth' \in {0, max_depth}
    BY DEF momgr_free, momgr_init
  <2> QED
    <3>1. alive' \in {"open", "closed", "corrupt"} /\ max_depth' \in Nat
      BY <2>1 DEF MoMgrInv, FieldInv
    <3>2. stale' \in BOOLEAN
      BY <2>1
    <3> QED
      BY <3>1, <3>2 DEF FieldInv
<1>2. /\ status' = [p \in Plugins |-> status'[p]]
      /\ \A p \in Plugins : status'[p] # "registered"
  <2>1. CASE momgr_free
    BY <2>1 DEF momgr_free
  <2>2. CASE momgr_init
    BY <2>2 DEF momgr_init
  <2> QED
    BY <2>1, <2>2
<1> QED
  BY <1>1, <1>2, <1>3, EmptyDirectory

LEMMA InvNext == MoMgrInv /\ [Next]_vars => MoMgrInv'
<1> SUFFICES ASSUME MoMgrInv, [Next]_vars PROVE MoMgrInv'
  OBVIOUS
<1>1. CASE UNCHANGED vars
  BY <1>1, InvSame DEF vars, registry, cache
<1>2. ASSUME NEW uri \in Uris,
             \/ momgr_exists(uri) \/ momgr_get_value(uri)
             \/ \E op \in Ops : momgr_dispatch(op, uri)
             \/ FreedPlugin(uri)
      PROVE  MoMgrInv'
  BY <1>2, InvNode
<1>3. ASSUME NEW uri \in Starts, NEW c \in Criteria,
             \/ momgr_find_subtree_uri(uri, c[1], c[2])
             \/ \E urn \in Urns : momgr_find_subtree_urn(uri, urn, c[1], c[2])
      PROVE  MoMgrInv'
  BY <1>3, InvFind
<1>4. ASSUME NEW urn \in Urns, momgr_list_uri(urn) PROVE MoMgrInv'
  BY <1>4, InvList
<1>5. ASSUME NEW plugin \in Plugins,
             \/ momgr_add_plugin(plugin) \/ momgr_add_refused(plugin)
             \/ prv_createMoDir_fails(plugin) \/ momgr_add_plugin_fails(plugin)
      PROVE  MoMgrInv'
  <2>1. CASE momgr_add_refused(plugin)
    BY <2>1, InvSame DEF momgr_add_refused
  <2> QED
    BY <1>5, <2>1, InvAdd, InvCreateFails, InvAddFails
<1>6. CASE momgr_check_mandatory_mo
  BY <1>6, InvCheck
<1>7. CASE momgr_free \/ momgr_init
  BY <1>7, InvEnds
<1> QED
  BY <1>1, <1>2, <1>3, <1>4, <1>5, <1>6, <1>7 DEF Next

LEMMA MoMgrInvAlways == Spec => []MoMgrInv
BY InvInit, InvNext, PTL DEF Spec

(* The directory of management objects (momgr.c): it stays a tree, and a   *)
(* plug-in is in the directory of its base_uri as long as it is            *)
(* registered, and in no other.                                            *)
THEOREM DirectoryIsTree == Spec => []MoMgrTypeOK
BY MoMgrInvAlways, MoMgrInvMeans, PTL
-----------------------------------------------------------------------------
(* What a step answers                                                     *)

\* A search says "find" and what it looked for; without a key it looked among
\* the children of a node.
LEMMA FindCalls ==
  ASSUME NEW key, NEW uri, NEW list, NEW name, NEW value,
         SearchList(key, uri, list, name, value)
  PROVE  call'.op = "find" /\ call'.uri = uri /\ call'.key = key
<1> DEFINE s == Search(list.uris, name, value)
           bad == ~list.good \/ (list.uris # << >> /\ ~Alive(Append(list.uris[1], name)))
<1> HIDE DEF s
<1>1. \/ Corrupted(key, "find", uri)
      \/ CalledFor(key, "find", uri, Root, "NOT_FOUND", {})
      \/ CalledFor(key, "find", uri, s.plugin, s.code, s.uri)
  <2>1. bad => list # List(<< >>)
    BY DEF List
  <2>2. CASE bad
    BY <2>1, <2>2 DEF SearchList
  <2>3. CASE ~ bad /\ list = List(<< >>)
    BY <2>3 DEF SearchList
  <2>4. CASE ~ bad /\ list # List(<< >>)
    BY <2>4 DEF SearchList, s
  <2> QED
    BY <2>2, <2>3, <2>4
<1> QED
  BY <1>1 DEF Corrupted, Called, CalledFor

\* The operation that the last answer is of.
LEMMA WhoCalled ==
  ASSUME Next
  PROVE  \/ \E uri \in Uris :
              /\ Callable(uri) /\ call'.op \in NodeOps
              /\ call'.uri = uri /\ call'.plugin = prv_findPlugin(uri)
         \/ /\ call'.op = "find"
            /\ call'.key # << >> =>
                 \E uri \in Starts, c \in Criteria, urn \in Urns :
                   momgr_find_subtree_urn(uri, urn, c[1], c[2])
         \/ call'.op = "add" /\ \E plugin \in Plugins :
                                  \/ momgr_add_plugin(plugin) \/ momgr_add_refused(plugin)
                                  \/ prv_createMoDir_fails(plugin)
                                  \/ momgr_add_plugin_fails(plugin)
         \/ call'.op \in {"freed", "list", "check", "free", "init"}
<1>1. ASSUME NEW uri \in Uris, momgr_exists(uri)
      PROVE  /\ Callable(uri) /\ call'.op \in NodeOps
             /\ call'.uri = uri /\ call'.plugin = prv_findPlugin(uri)
  BY <1>1 DEF momgr_exists, Called, CalledFor, NodeOps
<1>2. ASSUME NEW uri \in Uris, momgr_get_value(uri)
      PROVE  /\ Callable(uri) /\ call'.op \in NodeOps
             /\ call'.uri = uri /\ call'.plugin = prv_findPlugin(uri)
  <2> DEFINE result == Answer(prv_findPlugin(uri), uri)
  <2>1. Callable(uri) /\ Called("get", uri, prv_findPlugin(uri), result.code, result.value)
    BY <1>2 DEF momgr_get_value
  <2> HIDE DEF result
  <2> QED
    BY <2>1 DEF Called, CalledFor, NodeOps
<1>3. ASSUME NEW uri \in Uris, NEW op \in Ops, momgr_dispatch(op, uri)
      PROVE  /\ Callable(uri) /\ call'.op \in NodeOps
             /\ call'.uri = uri /\ call'.plugin = prv_findPlugin(uri)
  <2>1. op \in NodeOps
    BY PluginAssumption DEF NodeOps
  <2> QED
    BY <1>3, <2>1 DEF momgr_dispatch, Called, CalledFor
<1>4. ASSUME NEW uri, FreedPlugin(uri) PROVE call'.op = "freed"
  BY <1>4 DEF FreedPlugin, Corrupted, Called, CalledFor
<1>5. ASSUME NEW uri, NEW name, NEW value, momgr_find_subtree_uri(uri, name, value)
      PROVE  call'.op = "find" /\ call'.key = << >>
  BY <1>5, FindCalls DEF momgr_find_subtree_uri
<1>6. ASSUME NEW uri, NEW urn, NEW name, NEW value, momgr_find_subtree_urn(uri, urn, name, value)
      PROVE  call'.op = "find"
  BY <1>6, FindCalls DEF momgr_find_subtree_urn
<1>7. ASSUME NEW urn, momgr_list_uri(urn) PROVE call'.op = "list"
  <2> DEFINE list == prv_findUrn(<< >>, urn)
  <2>1. \/ Corrupted(<< >>, "list", << >>)
        \/ \E code : Called("list", << >>, Root, code, ToSet(list.uris))
    BY <1>7 DEF momgr_list_uri
  <2> HIDE DEF list
  <2> QED
    BY <2>1 DEF Corrupted, Called, CalledFor
<1>8. ASSUME NEW plugin \in Plugins,
             \/ momgr_add_plugin(plugin) \/ momgr_add_refused(plugin)
             \/ prv_createMoDir_fails(plugin) \/ momgr_add_plugin_fails(plugin)
      PROVE  call'.op = "add"
  BY <1>8 DEF momgr_add_plugin, momgr_add_refused, prv_createMoDir_fails,
              momgr_add_plugin_fails, Called, CalledFor
<1>9. ASSUME momgr_check_mandatory_mo PROVE call'.op = "check"
  <2> DEFINE list   == prv_findUrn(<< >>, URN_MO_DMACC)
             plugin == Nearest(<<"DevDetail">>)
  <2>1. CASE ~ list.good
    BY <1>9, <2>1 DEF momgr_check_mandatory_mo, Corrupted, Called, CalledFor
  <2>2. CASE list.good /\ list.uris = << >>
    BY <1>9, <2>2 DEF momgr_check_mandatory_mo, Called, CalledFor
  <2>3. CASE list.good /\ list.uris # << >>
    <3>1. \E code : Called("check", << >>, plugin, code, {})
      BY <1>9, <2>3 DEF momgr_check_mandatory_mo
    <3> QED
      BY <3>1 DEF Called, CalledFor
  <2> QED
    BY <2>1, <2>2, <2>3
<1>10. ASSUME momgr_free \/ momgr_init PROVE call'.op \in {"free", "init"}
  BY <1>10 DEF momgr_free, momgr_init, Called, CalledFor
<1> QED
  BY <1>1, <1>2, <1>3, <1>4, <1>5, <1>6, <1>7, <1>8, <1>9, <1>10 DEF Next

-----------------------------------------------------------------------------
(* Operations reach the plug-in that owns the node                         *)

LEMMA NearestStep ==
  ASSUME MoMgrInv, [Next]_vars, call' # call, call'.op \in NodeOps, ~ stale
  PROVE  LET base == MO(call'.plugin).base
         IN  /\ call'.plugin = Root \/ status[call'.plugin] = "registered"
             /\ IsPrefix(base, call'.uri)
             /\ \A q \in Plugins : status[q] = "registered" =>
                  Len(MO(q).base) <= Len(base) \/ ~IsPrefix(MO(q).base, call'.uri)
<1>1. Next
  BY DEF vars
<1>2. call'.op \notin {"find", "add", "freed", "list", "check", "free", "init"}
  BY DEF NodeOps
<1>3. PICK uri \in Uris : /\ Callable(uri) /\ call'.uri = uri
                          /\ call'.plugin = prv_findPlugin(uri)
  BY <1>1, <1>2, WhoCalled
<1>4. uri \in Uri /\ uri # NoUri /\ alive = "open"
  BY <1>3, PluginAssumption DEF Uri, Callable
<1>5. call'.plugin = Nearest(uri)
  BY <1>3, <1>4, FoundIsNearest
<1> DEFINE w == MO(Nearest(uri)).base
<1>6. /\ w \in DOMAIN at /\ Nearest(uri) = at[w] /\ IsPrefix(w, uri)
      /\ \A v \in DOMAIN at : IsPrefix(v, uri) => Len(v) <= Len(w)
  BY <1>4, NearestMeans DEF MoMgrInv
<1>7. Nearest(uri) = Root \/ status[Nearest(uri)] = "registered"
  BY <1>6 DEF MoMgrInv, AtInv, StatusInv
<1>8. ASSUME NEW q \in Plugins, status[q] = "registered"
      PROVE  Len(MO(q).base) <= Len(w) \/ ~IsPrefix(MO(q).base, uri)
  BY <1>6, <1>8 DEF MoMgrInv, StatusInv
<1> QED
  BY <1>3, <1>5, <1>6, <1>7, <1>8

(* prv_findPlugin (momgr.c), with its one-entry memory of the last lookup: *)
(* an operation on a node reaches the registered plug-in whose base_uri is *)
(* the longest prefix of the URI, however objects are nested, unless the   *)
(* directory has changed since the same URI was looked up.                 *)
THEOREM OperationsReachOwner == Spec => DispatchNearest
<1>1. MoMgrInv /\ [Next]_vars =>
        [call' # call /\ call'.op \in NodeOps /\ ~stale =>
           LET base == MO(call'.plugin).base
           IN  /\ call'.plugin = Root \/ status[call'.plugin] = "registered"
               /\ IsPrefix(base, call'.uri)
               /\ \A q \in Plugins : status[q] = "registered" =>
                    Len(MO(q).base) <= Len(base) \/ ~IsPrefix(MO(q).base, call'.uri)]_vars
  BY NearestStep
<1> QED
  BY <1>1, MoMgrInvAlways, PTL DEF Spec, DispatchNearest

-----------------------------------------------------------------------------
(* Registration changes nothing elsewhere                                  *)

LEMMA AddedElsewhere ==
  ASSUME MoMgrInv, NEW plugin \in Plugins, momgr_add_plugin(plugin),
         NEW uri \in Uri, ~ IsPrefix(MO(plugin).base, uri)
  PROVE  /\ Nearest(uri)' = Nearest(uri)
         /\ NodeKind(uri)' # NodeKind(uri) => IsPrefix(uri, MO(plugin).base)
<1> DEFINE base == MO(plugin).base
           w == Longest(Prefixes(uri) \cap DOMAIN at)
<1>1. /\ base \in Uri
      /\ \A v : v \in Prefixes(base) <=> v \in Uri /\ IsPrefix(v, base)
  BY AddTypes DEF momgr_add_plugin
<1>2. /\ dirs' = dirs \cup Prefixes(base)
      /\ at' = [u \in DOMAIN at \cup {base} |-> IF u = base THEN plugin ELSE at[u]]
  BY DEF momgr_add_plugin
<1>3. DOMAIN at' = DOMAIN at \cup {base} /\ \A u \in DOMAIN at \ {base} : at'[u] = at[u]
  BY <1>2
<1>4. DOMAIN at \in SUBSET Uri /\ << >> \in DOMAIN at /\ DOMAIN at' \in SUBSET Uri
  BY <1>1, <1>3 DEF MoMgrInv, DirInv, AtInv
<1>5. \A v \in Uri : IsPrefix(v, uri) => (v \in DOMAIN at' <=> v \in DOMAIN at)
  BY <1>3
<1>6. Longest(Prefixes(uri) \cap DOMAIN at') = w
  BY <1>4, <1>5, LongestSame
<1>7. w \in DOMAIN at /\ IsPrefix(w, uri)
  BY <1>4, LongestMeans
<1>8. at'[w] = at[w]
  BY <1>3, <1>7
<1>9. Nearest(uri)' = Nearest(uri)
  BY <1>6, <1>8 DEF Nearest
<1>10. uri \in dirs' => uri \in dirs \/ IsPrefix(uri, base)
  BY <1>1, <1>2
<1>11. dirs \subseteq dirs'
  BY <1>2
<1> QED
  BY <1>9, <1>10, <1>11 DEF NodeKind, Exists, isNodeFunc

LEMMA LocalStep ==
  ASSUME MoMgrInv, [Next]_vars, call' # call, call'.op = "add", call'.code = "NONE",
         NEW uri \in Uris, ~ IsPrefix(call'.uri, uri)
  PROVE  /\ Nearest(uri)' = Nearest(uri)
         /\ NodeKind(uri)' # NodeKind(uri) => IsPrefix(uri, call'.uri)
<1>1. PICK plugin \in Plugins :
        \/ momgr_add_plugin(plugin) \/ momgr_add_refused(plugin)
        \/ prv_createMoDir_fails(plugin) \/ momgr_add_plugin_fails(plugin)
  BY WhoCalled DEF vars, NodeOps
<1>2. momgr_add_plugin(plugin)
  BY <1>1 DEF momgr_add_refused, prv_createMoDir_fails, momgr_add_plugin_fails,
              Called, CalledFor
<1>3. call'.uri = MO(plugin).base
  BY <1>2 DEF momgr_add_plugin, Called, CalledFor
<1>4. uri \in Uri
  BY PluginAssumption DEF Uri
<1> QED
  BY <1>2, <1>3, <1>4, AddedElsewhere

(* momgr_add_plugin and prv_createMoDir (momgr.c): a new object takes over *)
(* no node outside its own subtree, and makes none appear or vanish there  *)
(* but the directories that lead to it.                                    *)
THEOREM AddIsLocal == Spec => RegistrationLocal
<1>1. MoMgrInv /\ [Next]_vars =>
        [call' # call /\ call'.op = "add" /\ call'.code = "NONE" =>
           \A uri \in Uris :
             ~IsPrefix(call'.uri, uri) =>
               /\ Nearest(uri)' = Nearest(uri)
               /\ NodeKind(uri)' # NodeKind(uri) => IsPrefix(uri, call'.uri)]_vars
  BY LocalStep
<1> QED
  BY <1>1, MoMgrInvAlways, PTL DEF Spec, RegistrationLocal

LEMMA FailedStep ==
  ASSUME MoMgrInv, [Next]_vars, call' # call, call'.op = "add", call'.code # "NONE",
         call'.uri \notin dirs
  PROVE  at' = at /\ status' = status /\ dirs \subseteq dirs'
<1>1. PICK plugin \in Plugins :
        \/ momgr_add_plugin(plugin) \/ momgr_add_refused(plugin)
        \/ prv_createMoDir_fails(plugin) \/ momgr_add_plugin_fails(plugin)
  BY WhoCalled DEF vars, NodeOps
<1>2. call'.uri = MO(plugin).base
  BY <1>1 DEF momgr_add_plugin, momgr_add_refused, prv_createMoDir_fails,
              momgr_add_plugin_fails, Called, CalledFor
<1>3. ~ momgr_add_plugin(plugin)
  BY DEF momgr_add_plugin, Called, CalledFor
<1>4. CASE momgr_add_refused(plugin)
  BY <1>4 DEF momgr_add_refused, registry
<1>5. CASE prv_createMoDir_fails(plugin)
  BY <1>5 DEF prv_createMoDir_fails
<1>6. CASE momgr_add_plugin_fails(plugin)
  <2> DEFINE base == MO(plugin).base
             gone == Freed(base)
  <2>1. base \in Uri /\ base \notin dirs
    BY <1>2, PluginTypes
  <2>2. gone = {base}
    BY <2>1 DEF Freed, MoMgrInv, DirInv
  <2>3. /\ dirs' = (dirs \cup Prefixes(base)) \ gone
        /\ at' = [u \in DOMAIN at \ gone |-> at[u]]
        /\ status' = [p \in Plugins |->
                        CASE base \in DOMAIN at /\ p = at[base] -> "lost"
                          [] \E u \in (gone \cap DOMAIN at) \ {base} : p = at[u] -> "closed"
                          [] OTHER -> status[p]]
    BY <1>6 DEF momgr_add_plugin_fails
  <2> HIDE DEF base, gone
  <2>4. dirs \subseteq dirs' /\ base \notin DOMAIN at
    BY <2>1, <2>2, <2>3 DEF MoMgrInv, AtInv
  <2>5. at' = at
    BY <2>2, <2>3, <2>4 DEF MoMgrInv, AtInv
  <2>6. ~ \E u \in (gone \cap DOMAIN at) \ {base} : TRUE
    BY <2>2
  <2>7. status' = [p \in Plugins |-> status[p]]
    BY <2>3, <2>4, <2>6
  <2> QED
    BY <2>4, <2>5, <2>7 DEF MoMgrInv, StatusInv
<1> QED
  BY <1>1, <1>3, <1>4, <1>5, <1>6

(* The error paths of momgr_add_plugin (momgr.c): an object that is        *)
(* refused, or for which there is no memory at any point, takes nothing    *)
(* from the others, unless its own directory was there before.             *)
THEOREM FailedAddLeavesOthers == Spec => FailedAddHarmless
<1>1. MoMgrInv /\ [Next]_vars =>
        [call' # call /\ call'.op = "add" /\ call'.code # "NONE" /\ call'.uri \notin dirs =>
           at' = at /\ status' = status /\ dirs \subseteq dirs']_vars
  BY FailedStep
<1> QED
  BY <1>1, MoMgrInvAlways, PTL DEF Spec, FailedAddHarmless
-----------------------------------------------------------------------------
(* Listings                                                                *)

\* A URI is the one above it and its last name.
LEMMA FrontAndLast ==
  ASSUME NEW u \in Uri, NEW w \in Uri, u # << >>, w # << >>,
         Front(u) = Front(w), Last(u) = Last(w)
  PROVE  u = w
<1>1. Len(u) \in Nat /\ Len(w) \in Nat /\ Len(u) # 0 /\ Len(w) # 0
  BY LenProperties, EmptySeq DEF Uri
<1>2. Len(u) = Len(w)
  BY <1>1, FrontMeans
<1>3. \A i \in 1 .. Len(u) - 1 : Front(u)[i] = u[i]
  BY <1>1, SubSeqProperties, LenProperties DEF Uri, Front
<1>4. \A i \in 1 .. Len(w) - 1 : Front(w)[i] = w[i]
  BY <1>1, SubSeqProperties, LenProperties DEF Uri, Front
<1>5. u[Len(u)] = w[Len(w)]
  BY DEF Last
<1>6. \A i \in 1 .. Len(u) : u[i] = w[i]
  <2> SUFFICES ASSUME NEW i \in 1 .. Len(u) PROVE u[i] = w[i]
    OBVIOUS
  <2>1. i = Len(u) \/ i \in 1 .. Len(u) - 1
    BY <1>1
  <2> QED
    BY <1>2, <1>3, <1>4, <1>5, <2>1
<1> QED
  BY <1>2, <1>6, SeqEqual DEF Uri

\* The names in a set of URIs of those directly below one.
LEMMA NamesBelow ==
  ASSUME NEW S \in SUBSET Uri, NEW child \in Uri, child # << >>
  PROVE  Last(child) \in {Last(u) : u \in {w \in S : w # << >> /\ Front(w) = Front(child)}}
           <=> child \in S
BY FrontAndLast

\* What is not a directory has the plug-in of the node above.
LEMMA OwnerAbove ==
  ASSUME MoMgrInv, NEW child \in Uri, child \notin dirs
  PROVE  Nearest(child) = Nearest(Front(child))
<1>1. Front(child) \in Uri /\ IsPrefix(Front(child), child)
  BY FrontMeans
<1>2. child \notin DOMAIN at
  BY DEF MoMgrInv, AtInv
<1>3. \A v \in Uri : v \in DOMAIN at => (IsPrefix(v, child) <=> IsPrefix(v, Front(child)))
  BY <1>1, <1>2, FrontMeans, PrefixOrder
<1>4. \A v : v \in Prefixes(child) \cap DOMAIN at <=> v \in Prefixes(Front(child)) \cap DOMAIN at
  BY <1>1, <1>3, PrefixesMeans
<1>5. Prefixes(child) \cap DOMAIN at = Prefixes(Front(child)) \cap DOMAIN at
  BY <1>4
<1> QED
  BY <1>5 DEF Nearest

\* How often a value put together from two sets names something.
LEMMA TimesOfSum ==
  ASSUME NEW x, NEW S, NEW T
  PROVE  /\ Times(x, SetToBag(S)) = (IF x \in S THEN 1 ELSE 0)
         /\ Times(x, SetToBag(S) (+) SetToBag(T)) =
              (IF x \in S THEN 1 ELSE 0) + (IF x \in T THEN 1 ELSE 0)
BY DEF Times, BagIn, BagToSet, SetToBag, (+)

\* What a plug-in knows it knows as a child.
Listed(p, uri) == IF uri \in MO(p).interior THEN Children(p, uri) ELSE {}

LEMMA ListingMeans ==
  ASSUME MoMgrInv, NEW uri \in Uri, NodeKind(uri) = "interior",
         uri \in dirs \/ Nested(prv_findMoDir(uri)) = {},
         NEW child \in Uri, child # << >>, Front(child) = uri
  PROVE  Times(Last(child), GetValue(Nearest(uri), uri).value) =
           CASE NodeKind(child) = "absent"                                     -> 0
             [] child \in dirs /\ isNodeFunc(Nearest(uri), child) # "absent" -> 2
             [] OTHER                                                          -> 1
<1> DEFINE p == Nearest(uri)
           d == prv_findMoDir(uri)
           own == getFunc(p, uri)
           nodes == MO(p).interior \cup DOMAIN MO(p).leaf
           got == GetValue(p, uri).value
           x == Last(child)
<1>1. p \in Plugins \cup {Root} /\ MO(p).base \in DOMAIN at /\ IsPrefix(MO(p).base, uri)
  BY NearestMeans DEF MoMgrInv, AtInv
<1>2. /\ MO(p).interior \subseteq Uri /\ DOMAIN MO(p).leaf \subseteq Uri \ MO(p).interior
      /\ \A u \in nodes \ {MO(p).base} : Front(u) \in MO(p).interior
  BY <1>1, PluginTypes, ContentAssumption DEF Uri
<1>3. uri \notin DOMAIN MO(p).leaf
  BY <1>2 DEF NodeKind, Exists, isNodeFunc
<1>4. own.format # "chr" /\ own.value = SetToBag(Listed(p, uri))
  BY <1>3 DEF getFunc, Result, Listed, EmptyBag
<1>5. Times(x, got) = (IF x \in Listed(p, uri) THEN 1 ELSE 0) + (IF x \in Nested(d) THEN 1 ELSE 0)
  <2> HIDE DEF own, p, x
  <2>1. CASE Nested(d) = {}
    <3>1. got = SetToBag(Listed(p, uri))
      BY <1>4, <2>1 DEF GetValue, own
    <3> HIDE DEF got, d
    <3>2. Times(x, got) = IF x \in Listed(p, uri) THEN 1 ELSE 0
      BY <3>1, TimesOfSum
    <3> QED
      BY <2>1, <3>2
  <2>2. CASE Nested(d) # {}
    <3>1. got = SetToBag(Listed(p, uri)) (+) SetToBag(Nested(d))
      BY <1>4, <2>2 DEF GetValue, own, Result
    <3> HIDE DEF got, d
    <3> QED
      BY <3>1, TimesOfSum
  <2> QED
    BY <2>1, <2>2
<1>6. child \in dirs => uri \in dirs
  BY FrontMeans DEF MoMgrInv, DirInv
<1>7. Last(child) \in Nested(d) <=> child \in dirs
  <2>1. CASE uri \in dirs
    <3>1. d = uri
      <4>1. dirs \in SUBSET Uri /\ << >> \in dirs
        BY DEF MoMgrInv, DirInv
      <4>2. /\ d \in dirs /\ IsPrefix(d, uri)
            /\ \A v \in dirs : IsPrefix(v, uri) => Len(v) <= Len(d)
        BY <4>1, LongestMeans DEF prv_findMoDir
      <4>3. d \in Uri /\ Len(uri) <= Len(d)
        BY <2>1, <4>1, <4>2, PrefixOrder
      <4> QED
        BY <4>2, <4>3, PrefixOrder
    <3>2. Nested(uri) = {Last(u) : u \in {w \in dirs : w # << >> /\ Front(w) = uri}}
      BY DEF Nested
    <3> HIDE DEF d
    <3> QED
      BY <3>1, <3>2, NamesBelow DEF MoMgrInv, DirInv
  <2>2. CASE uri \notin dirs
    BY <1>6, <2>2
  <2> QED
    BY <2>1, <2>2
<1>8. x \in Listed(p, uri) <=> child \in nodes
  <2>1. x \in Children(p, uri) <=> child \in nodes
    BY <1>2, NamesBelow DEF Children
  <2>2. child # MO(p).base
    <3>1. MO(p).base \in Uri
      BY <1>1, PluginTypes
    <3>2. Len(MO(p).base) <= Len(uri) /\ Len(child) = Len(uri) + 1 /\ Len(uri) \in Nat
      BY <1>1, <3>1, PrefixOrder, FrontMeans, LenProperties DEF Uri
    <3> QED
      BY <3>2
  <2>3. child \in nodes => uri \in MO(p).interior
    BY <1>2, <2>2
  <2> HIDE DEF p, nodes, x
  <2> QED
    BY <2>1, <2>3 DEF Listed
<1>9. isNodeFunc(p, child) # "absent" <=> child \in nodes
  BY DEF isNodeFunc
<1> HIDE DEF nodes, got, d
<1>10. CASE child \in dirs
  <2>1. NodeKind(child) # "absent"
    BY <1>10 DEF NodeKind, Exists
  <2> HIDE DEF p, x
  <2>2. Times(x, got) = IF isNodeFunc(p, child) # "absent" THEN 2 ELSE 1
    BY <1>5, <1>7, <1>8, <1>9, <1>10 DEF x
  <2> QED
    BY <1>10, <2>1, <2>2 DEF p, got, x
<1>11. CASE child \notin dirs
  <2>1. Nearest(child) = p
    BY <1>11, OwnerAbove
  <2>2. NodeKind(child) # "absent" <=> child \in nodes
    BY <1>9, <1>11, <2>1 DEF NodeKind, Exists
  <2> HIDE DEF p, x
  <2>3. Times(x, got) = IF NodeKind(child) # "absent" THEN 1 ELSE 0
    BY <1>5, <1>7, <1>8, <1>11, <2>2 DEF x
  <2> QED
    BY <1>11, <2>3 DEF p, got, x
<1> QED
  BY <1>10, <1>11

(* momgr_get_value (momgr.c), which appends the names of the directories   *)
(* to what the plug-in says: the value of an interior node names exactly   *)
(* the nodes that exist below it, twice those that the plug-in has and     *)
(* that are directories too and once all others, for any nesting of        *)
(* objects of any content.  Left out: a node that is no directory itself,  *)
(* below one with nested objects.                                          *)
THEOREM ListingsAreExact == Spec => []ListingExact
<1>1. MoMgrInv => ListingExact
  <2>1. Uris \subseteq Uri
    BY PluginAssumption DEF Uri
  <2> QED
    BY <2>1, ListingMeans DEF ListingExact, ChildUris
<1> QED
  BY <1>1, MoMgrInvAlways, PTL
-----------------------------------------------------------------------------
(* Searches by URN                                                         *)

\* They are the plug-ins in the directory and below that know the URN.
LEMMA KnowingAreFound ==
  ASSUME MoMgrInv, NEW dir, NEW urn
  PROVE  /\ \A u \in Found(dir, urn) : at[u] \in Knowing(dir, urn) /\ MO(at[u]).base = u
         /\ \A p \in Knowing(dir, urn) :
              MO(p).base \in Found(dir, urn) /\ at[MO(p).base] = p
<1>1. ASSUME NEW u \in Found(dir, urn)
      PROVE  at[u] \in Knowing(dir, urn) /\ MO(at[u]).base = u
  <2>1. /\ u \in DOMAIN at /\ IsPrefix(dir, u) /\ "findURN" \in MO(at[u]).funcs
        /\ MO(at[u]).urn[urn] # << >>
    BY DEF Found
  <2>2. at[u] \in Plugins \cup {Root} /\ MO(at[u]).base = u
    BY <2>1 DEF MoMgrInv, AtInv
  <2>3. at[u] # Root
    BY <2>1, ContentAssumption
  <2>4. status[at[u]] = "registered"
    BY <2>1, <2>2, <2>3 DEF MoMgrInv, StatusInv
  <2> QED
    BY <2>1, <2>2, <2>3, <2>4 DEF Knowing
<1>2. ASSUME NEW p \in Knowing(dir, urn)
      PROVE  MO(p).base \in Found(dir, urn) /\ at[MO(p).base] = p
  BY DEF Knowing, Found, MoMgrInv, StatusInv
<1> QED
  BY <1>1, <1>2

\* The list of a URN: empty if no object knows it, that of the object if one
\* does, and not to be looked at if two do.
LEMMA UrnListMeans ==
  ASSUME MoMgrInv, NEW dir, NEW urn \in Urns
  PROVE  LET list    == prv_findUrn(dir, urn)
             knowing == Knowing(dir, urn)
         IN  /\ list.good <=> ~ \E p, q \in knowing : p # q
             /\ knowing = {} => list = List(<< >>)
             /\ \A p \in knowing :
                  list.good => /\ knowing = {p} /\ list.uris = MO(p).urn[urn]
                               /\ list.uris \in Seq(Uri) /\ list.uris # << >>
<1> DEFINE found == Found(dir, urn)
           knowing == Knowing(dir, urn)
           u == CHOOSE v \in found : TRUE
<1>1. prv_findUrn(dir, urn) =
        IF found = {} THEN List(<< >>)
        ELSE [good |-> Cardinality(found) = 1, uris |-> MO(at[u]).urn[urn]]
  BY DEF prv_findUrn, Found
<1>2. /\ \A v \in found : at[v] \in knowing /\ MO(at[v]).base = v
      /\ \A p \in knowing : MO(p).base \in found /\ at[MO(p).base] = p
  BY KnowingAreFound
<1>3. found # {} => u \in found
  OBVIOUS
<1>4. IsFiniteSet(found)
  <2>1. found \subseteq DOMAIN at
    BY DEF Found
  <2> QED
    BY <2>1, FS_Subset DEF MoMgrInv, AtInv
<1>5. \A p \in knowing : MO(p).urn[urn] \in Seq(Uri) /\ MO(p).urn[urn] # << >>
  BY ContentAssumption DEF Knowing, Uri
<1> HIDE DEF found, knowing, u
<1>6. CASE found = {}
  <2>1. prv_findUrn(dir, urn) = List(<< >>)
    BY <1>1, <1>6
  <2>2. knowing = {}
    BY <1>2, <1>6
  <2> QED
    BY <2>1, <2>2 DEF List, knowing
<1>7. CASE found # {}
  <2> DEFINE one == Cardinality(found) = 1
             us  == MO(at[u]).urn[urn]
  <2>1. prv_findUrn(dir, urn) = [good |-> one, uris |-> us]
    BY <1>1, <1>7
  <2>2. one <=> \E x : found = {x}
    BY <1>4, FS_Singleton
  <2>3. at[u] \in knowing
    BY <1>2, <1>3, <1>7
  <2> HIDE DEF one, us
  <2>4. ASSUME one PROVE knowing = {at[u]}
    <3>1. found = {u}
      BY <1>3, <1>7, <2>2, <2>4
    <3> QED
      BY <1>2, <2>3, <3>1
  <2>5. ASSUME ~ one PROVE \E p, q \in knowing : p # q
    <3>1. PICK v \in found : v # u
      BY <1>3, <1>7, <2>2, <2>5
    <3>2. at[v] \in knowing /\ at[v] # at[u]
      BY <1>2, <1>3, <1>7, <3>1
    <3> QED
      BY <2>3, <3>2
  <2>6. us = MO(at[u]).urn[urn]
    BY DEF us
  <2> QED
    BY <1>5, <2>1, <2>3, <2>4, <2>5, <2>6 DEF knowing
<1> QED
  BY <1>6, <1>7

\* The URI asked for is not the one that stands for none.
LEMMA NotNoUri ==
  ASSUME NEW u \in Uri, NEW name \in STRING, <<name>> # NoUri
  PROVE  Append(u, name) # NoUri
<1>1. /\ Len(Append(u, name)) = Len(u) + 1 /\ Append(u, name)[Len(u) + 1] = name
      /\ Len(u) \in Nat
  BY AppendProperties, LenProperties DEF Uri
<1>2. ASSUME Append(u, name) = NoUri PROVE FALSE
  <2>1. Len(NoUri) = 1 /\ NoUri[1] = "no URI"
    BY DEF NoUri
  <2>2. name = "no URI"
    BY <1>1, <1>2, <2>1
  <2> QED
    BY <2>2 DEF NoUri
<1> QED
  BY <1>2

\* What is remembered is alive as long as the directory has not changed.
LEMMA RememberedIsAlive ==
  ASSUME MoMgrInv, alive = "open", ~ stale, NEW u \in Uri, u # NoUri
  PROVE  Alive(u)
<1> SUFFICES ASSUME u = last_uri, last_plugin # Root PROVE status[last_plugin] # "closed"
  BY DEF Alive
<1>1. last_plugin = Nearest(u)
  BY DEF MoMgrInv, CacheInv
<1>2. /\ MO(Nearest(u)).base \in DOMAIN at
      /\ Nearest(u) = at[MO(Nearest(u)).base]
  BY NearestMeans DEF MoMgrInv
<1>3. Nearest(u) \in Plugins
  BY <1>1, <1>2 DEF MoMgrInv, AtInv
<1> QED
  BY <1>1, <1>2, <1>3 DEF MoMgrInv, StatusInv

\* The answer of an object is one of three.
LEMMA AnswerCodes ==
  ASSUME NEW p, NEW u
  PROVE  Answer(p, u).code \in {"NONE", "NOT_FOUND", "NOT_ALLOWED"}
<1> DEFINE own == getFunc(p, u)
           nested == Nested(prv_findMoDir(u))
<1>1. own.code \in {"NONE", "NOT_FOUND"}
  BY DEF getFunc, Result
<1>2. GetValue(p, u).code \in {"NONE", "NOT_FOUND"}
  <2>1. GetValue(p, u) = own \/ GetValue(p, u) = Result("NONE", "node", own.value (+) SetToBag(nested))
    BY DEF GetValue
  <2> HIDE DEF own, nested
  <2> QED
    BY <1>1, <2>1 DEF Result
<1> QED
  BY <1>2 DEF Answer, Result

\* A search through a list finds the first URI that hits, if it fails at none
\* before.
LEMMA SearchMeans ==
  ASSUME MoMgrInv, alive = "open", ~ stale,
         NEW uris \in Seq(Uri), uris # << >>, NEW name \in STRING, <<name>> # NoUri, NEW value
  PROVE  LET hits  == {i \in DOMAIN uris : Hit(uris[i], name, value)}
             fails == {i \in DOMAIN uris : Fails(uris[i], name)}
             first == {i \in hits : \A j \in hits \cup fails : i <= j}
         IN  /\ Search(uris, name, value).uri = {uris[i] : i \in first}
             /\ Search(uris, name, value).code # "undefined"
<1> DEFINE owner == [i \in DOMAIN uris |->
                       IF i = 1 THEN prv_findPlugin(Append(uris[1], name))
                       ELSE Nearest(Append(uris[i], name))]
           answers == [i \in DOMAIN uris |-> Answer(owner[i], Append(uris[i], name))]
           ends == {i \in DOMAIN uris : \/ answers[i].code # "NONE"
                                       \/ answers[i].value = SetToBag({value})}
           stop == StopAt(ends, Len(uris))
           hits == {i \in DOMAIN uris : Hit(uris[i], name, value)}
           fails == {i \in DOMAIN uris : Fails(uris[i], name)}
           first == {i \in hits : \A j \in hits \cup fails : i <= j}
           s == Search(uris, name, value)
<1>1. /\ s.uri = IF ends # {} /\ answers[stop].code = "NONE" THEN {uris[stop]} ELSE {}
      /\ s.code = IF ends = {} THEN "NOT_FOUND" ELSE answers[stop].code
  BY DEF Search
<1>2. Len(uris) \in Nat /\ DOMAIN uris = 1 .. Len(uris) /\ Len(uris) # 0
  BY LenProperties, EmptySeq
<1>3. Append(uris[1], name) # NoUri
  <2>1. uris[1] \in Uri
    BY <1>2, ElementOfSeq
  <2> QED
    BY <2>1, NotNoUri
<1>4. \A i \in DOMAIN uris : owner[i] = Nearest(Append(uris[i], name))
  BY <1>3, FoundIsNearest
<1>5. \A i \in DOMAIN uris : answers[i] = Compared(uris[i], name)
  <2> HIDE DEF owner
  <2> QED
    BY <1>4 DEF Compared
<1>6. \A i \in DOMAIN uris : answers[i].code # "undefined"
  BY <1>5, AnswerCodes DEF Compared
<1> HIDE DEF answers, s
<1>7. /\ hits = {i \in DOMAIN uris : answers[i].code = "NONE" /\ answers[i].value = SetToBag({value})}
      /\ fails = {i \in DOMAIN uris : answers[i].code # "NONE"}
  BY <1>5 DEF Hit, Fails
<1> HIDE DEF hits, fails
<1>8. ends = hits \cup fails
  BY <1>7
<1>9. ends \in SUBSET Nat /\ ends \subseteq DOMAIN uris
  BY <1>2
<1> HIDE DEF ends
<1>10. CASE ends = {}
  BY <1>1, <1>8, <1>10 DEF s, hits, fails
<1>11. CASE ends # {}
  <2>1. stop \in ends /\ \A j \in ends : stop <= j
    BY <1>9, <1>11, Least DEF StopAt
  <2> HIDE DEF stop
  <2>2. \A i \in first : i = stop
    <3> SUFFICES ASSUME NEW i \in first PROVE i = stop
      OBVIOUS
    <3>1. i \in ends /\ i <= stop /\ stop <= i
      BY <1>8, <2>1
    <3> QED
      BY <1>9, <2>1, <3>1
  <2>3. stop \in first <=> stop \in hits
    BY <1>8, <2>1
  <2> HIDE DEF first
  <2>4. stop \in hits <=> answers[stop].code = "NONE"
    BY <1>7, <1>8, <1>9, <2>1
  <2>5. s.uri = {uris[i] : i \in first}
    <3>1. CASE stop \in hits
      <4>1. first = {stop}
        BY <2>2, <2>3, <3>1
      <4> QED
        BY <1>1, <1>11, <2>4, <3>1, <4>1
    <3>2. CASE stop \notin hits
      <4>1. first = {}
        BY <2>2, <2>3, <3>2
      <4> QED
        BY <1>1, <2>4, <3>2, <4>1
    <3> QED
      BY <3>1, <3>2
  <2>6. s.code # "undefined"
    BY <1>1, <1>6, <1>9, <1>11, <2>1
  <2> QED
    BY <2>5, <2>6 DEF s, first, hits, fails
<1> QED
  BY <1>10, <1>11

\* What a search by URN must answer.
Finds(dir, key, answer) ==
  LET knowing == Knowing(dir, key[1])
      name    == key[2]
      value   == key[3]
  IN  /\ answer.code = "undefined" <=> \E p, q \in knowing : p # q
      /\ knowing = {} => answer.code = "NOT_FOUND"
      /\ \A p \in knowing :
           LET uris    == MO(p).urn[key[1]]
               hits    == {i \in DOMAIN uris : Hit(uris[i], name, value)}
               fails   == {i \in DOMAIN uris : Fails(uris[i], name)}
               first   == {i \in hits : \A j \in hits \cup fails : i <= j}
           IN  knowing = {p} => answer.value = {uris[i] : i \in first}

LEMMA FindStep ==
  ASSUME MoMgrInv, [Next]_vars, call' # call, call'.op = "find", call'.key # << >>, ~ stale
  PROVE  Finds(prv_findMoDir(call'.uri), call'.key, call')
<1>1. PICK uri \in Starts, c \in Criteria, urn \in Urns :
        momgr_find_subtree_urn(uri, urn, c[1], c[2])
  BY WhoCalled DEF vars, NodeOps
<1> DEFINE dir == prv_findMoDir(uri)
           name == c[1]
           value == c[2]
           list == prv_findUrn(dir, urn)
           key == <<urn, name, value>>
           knowing == Knowing(dir, urn)
           bad == ~list.good \/ (list.uris # << >> /\ ~Alive(Append(list.uris[1], name)))
           s == Search(list.uris, name, value)
<1>2. alive = "open" /\ SearchList(key, uri, list, name, value)
  BY <1>1 DEF momgr_find_subtree_urn
<1>3. name \in STRING /\ <<name>> # NoUri
  BY ContentAssumption
<1>4. /\ list.good <=> ~ \E p, q \in knowing : p # q
      /\ knowing = {} => list = List(<< >>)
      /\ \A p \in knowing :
           list.good => /\ knowing = {p} /\ list.uris = MO(p).urn[urn]
                        /\ list.uris \in Seq(Uri) /\ list.uris # << >>
  BY UrnListMeans
<1> HIDE DEF dir, name, value, list, key, s, knowing
<1>5. call'.uri = uri /\ call'.key = key
  BY <1>2, FindCalls
<1>6. key[1] = urn /\ key[2] = name /\ key[3] = value
  BY DEF key
<1> SUFFICES Finds(dir, key, call')
  BY <1>5 DEF dir
<1>7. CASE \E p, q \in knowing : p # q
  <2>1. Corrupted(key, "find", uri)
    <3>1. ~ list.good
      BY <1>4, <1>7
    <3>2. list # List(<< >>)
      BY <3>1 DEF List
    <3> QED
      BY <1>2, <3>1, <3>2 DEF SearchList
  <2>2. call'.code = "undefined"
    BY <2>1 DEF Corrupted, CalledFor
  <2>3. \A p \in knowing : knowing # {p}
    BY <1>7
  <2> QED
    BY <1>6, <1>7, <2>2, <2>3 DEF Finds, knowing
<1>8. CASE knowing = {}
  <2>1. list = List(<< >>)
    BY <1>4, <1>8
  <2>2. ~ bad
    BY <2>1 DEF List
  <2>3. call'.code = "NOT_FOUND"
    BY <1>2, <2>1, <2>2 DEF SearchList, CalledFor
  <2> QED
    BY <1>6, <1>8, <2>3 DEF Finds, knowing
<1>9. ASSUME NEW p \in knowing, ~ \E r, q \in knowing : r # q
      PROVE  Finds(dir, key, call')
  <2> DEFINE us == MO(p).urn[urn]
  <2>1. /\ list.good /\ knowing = {p} /\ list.uris = us
        /\ us \in Seq(Uri) /\ us # << >>
    BY <1>4, <1>9
  <2> HIDE DEF us
  <2>2. Alive(Append(us[1], name))
    <3>1. us[1] \in Uri
      <4>1. Len(us) \in Nat /\ Len(us) # 0
        BY <2>1, LenProperties, EmptySeq
      <4> QED
        BY <2>1, <4>1, ElementOfSeq
    <3>2. Append(us[1], name) # NoUri /\ Append(us[1], name) \in Uri
      BY <1>3, <3>1, NotNoUri, AppendProperties DEF Uri
    <3> QED
      BY <1>2, <3>2, RememberedIsAlive
  <2>3. ~ bad /\ list # List(<< >>)
    BY <2>1, <2>2 DEF List
  <2>4. CalledFor(key, "find", uri, s.plugin, s.code, s.uri)
    BY <1>2, <2>3 DEF SearchList, s
  <2>5. call'.code = s.code /\ call'.value = s.uri
    BY <2>4 DEF CalledFor
  <2>6. s = Search(us, name, value)
    BY <2>1 DEF s
  <2> DEFINE hits  == {i \in DOMAIN us : Hit(us[i], name, value)}
             fails == {i \in DOMAIN us : Fails(us[i], name)}
             first == {i \in hits : \A j \in hits \cup fails : i <= j}
  <2>7. s.uri = {us[i] : i \in first} /\ s.code # "undefined"
    BY <1>2, <1>3, <2>1, <2>6, SearchMeans
  <2>8. \A q \in knowing : q = p
    BY <2>1
  <2> QED
    BY <1>6, <1>9, <2>1, <2>5, <2>7, <2>8 DEF Finds, knowing, us
<1> QED
  BY <1>7, <1>8, <1>9

(* momgr_find_subtree and prv_findUrn (momgr.c): a search by URN asks      *)
(* every object registered in the directory and below.  If two know the    *)
(* URN it is undefined (strArray_concat); if one does, it returns the      *)
(* first URI of that object's list whose child has the value, and nothing  *)
(* if there is none or a URI before it lacks the child, whatever was       *)
(* looked up before and however the objects are nested.                    *)
THEOREM SearchesFindFirst == Spec => SearchFinds
<1>1. MoMgrInv /\ [Next]_vars =>
        [call' # call /\ call'.op = "find" /\ call'.key # << >> /\ ~stale =>
           LET knowing == Knowing(prv_findMoDir(call'.uri), call'.key[1])
               name    == call'.key[2]
               value   == call'.key[3]
           IN  /\ call'.code = "undefined" <=> \E p, q \in knowing : p # q
               /\ knowing = {} => call'.code = "NOT_FOUND"
               /\ \A p \in knowing :
                    LET uris    == MO(p).urn[call'.key[1]]
                        hits    == {i \in DOMAIN uris : Hit(uris[i], name, value)}
                        fails   == {i \in DOMAIN uris : Fails(uris[i], name)}
                        first   == {i \in hits : \A j \in hits \cup fails : i <= j}
                    IN  knowing = {p} => call'.value = {uris[i] : i \in first}]_vars
  BY FindStep DEF Finds
<1> QED
  BY <1>1, MoMgrInvAlways, PTL DEF Spec, SearchFinds
==============================================================================
