------------------------------ MODULE UriProofs ------------------------------
(***************************************************************************)
(* Lemmas about URIs, which are the sequences of their segments, and about *)
(* the ancestors of a URI, which are its prefixes.                         *)
(***************************************************************************)
EXTENDS Integers, Sequences, SequencesExt, SequenceTheorems, WellFoundedInduction, TLAPS

Uri == Seq(STRING)

\* An ancestor of a URI, element by element.
LEMMA PrefixMeans ==
    ASSUME NEW s \in Uri, NEW t \in Uri
    PROVE  IsPrefix(s, t) <=> Len(s) <= Len(t) /\ \A i \in 1 .. Len(s) : s[i] = t[i]
<1>1. CASE Len(s) <= Len(t)
  <2>1. /\ SubSeq(s, 1, Len(s)) \in Seq(STRING) /\ Len(SubSeq(s, 1, Len(s))) = Len(s)
        /\ \A i \in 1 .. Len(s) : SubSeq(s, 1, Len(s))[i] = s[i]
    BY SubSeqProperties, LenProperties DEF Uri
  <2>2. /\ SubSeq(t, 1, Len(s)) \in Seq(STRING) /\ Len(SubSeq(t, 1, Len(s))) = Len(s)
        /\ \A i \in 1 .. Len(s) : SubSeq(t, 1, Len(s))[i] = t[i]
    BY <1>1, SubSeqProperties, LenProperties DEF Uri
  <2>3. SubSeq(s, 1, Len(s)) = SubSeq(t, 1, Len(s)) <=> \A i \in 1 .. Len(s) : s[i] = t[i]
    BY <2>1, <2>2, SeqEqual
  <2> QED BY <1>1, <2>3 DEF IsPrefix
<1>2. CASE ~ Len(s) <= Len(t)
  BY <1>2 DEF IsPrefix
<1> QED BY <1>1, <1>2

LEMMA PrefixesMeans ==
    ASSUME NEW t \in Uri, NEW w
    PROVE  w \in Prefixes(t) <=> w \in Uri /\ IsPrefix(w, t)
<1>1. ASSUME w \in Prefixes(t) PROVE w \in Uri /\ IsPrefix(w, t)
  <2>1. PICK l \in 0 .. Len(t) : w = SubSeq(t, 1, l)
    BY <1>1 DEF Prefixes
  <2>2. w \in Uri /\ Len(w) = l /\ \A i \in 1 .. l : w[i] = t[i]
    BY <2>1, SubSeqProperties, LenProperties DEF Uri
  <2> QED BY <2>2, PrefixMeans
<1>2. ASSUME w \in Uri, IsPrefix(w, t) PROVE w \in Prefixes(t)
  <2>1. SubSeq(w, 1, Len(w)) = w
    <3>1. /\ SubSeq(w, 1, Len(w)) \in Seq(STRING) /\ Len(SubSeq(w, 1, Len(w))) = Len(w)
          /\ \A i \in 1 .. Len(w) : SubSeq(w, 1, Len(w))[i] = w[i]
      BY <1>2, SubSeqProperties, LenProperties DEF Uri
    <3> QED BY <1>2, <3>1, SeqEqual DEF Uri
  <2>2. Len(w) \in 0 .. Len(t)
    BY <1>2, LenProperties DEF IsPrefix, Uri
  <2> QED BY <1>2, <2>1, <2>2 DEF IsPrefix, Prefixes
<1> QED BY <1>1, <1>2

LEMMA PrefixOrder ==
    ASSUME NEW s \in Uri, NEW t \in Uri, NEW u \in Uri
    PROVE  /\ IsPrefix(<<>>, u) /\ IsPrefix(u, u)
           /\ IsPrefix(s, t) /\ IsPrefix(t, u) => IsPrefix(s, u)
           /\ IsPrefix(s, u) /\ IsPrefix(t, u) /\ Len(s) <= Len(t) => IsPrefix(s, t)
           /\ IsPrefix(s, t) /\ Len(t) <= Len(s) => s = t
           /\ IsPrefix(s, t) => Len(s) <= Len(t)
           /\ Len(s) \in Nat
<1>1. Len(s) \in Nat /\ Len(t) \in Nat /\ Len(u) \in Nat
  BY LenProperties DEF Uri
<1>2. <<>> \in Uri /\ Len(<<>>) = 0
  BY DEF Uri
<1>3. IsPrefix(<<>>, u) /\ IsPrefix(u, u)
  BY <1>1, <1>2, PrefixMeans
<1>4. IsPrefix(s, t) /\ IsPrefix(t, u) => IsPrefix(s, u)
  BY <1>1, PrefixMeans
<1>5. IsPrefix(s, u) /\ IsPrefix(t, u) /\ Len(s) <= Len(t) => IsPrefix(s, t)
  BY <1>1, PrefixMeans
<1>6. IsPrefix(s, t) => Len(s) <= Len(t)
  BY PrefixMeans
<1>7. ASSUME IsPrefix(s, t), Len(t) <= Len(s) PROVE s = t
  <2>1. Len(s) = Len(t) /\ \A i \in 1 .. Len(s) : s[i] = t[i]
    BY <1>1, <1>7, PrefixMeans
  <2> QED BY <2>1, SeqEqual DEF Uri
<1> QED BY <1>1, <1>3, <1>4, <1>5, <1>6, <1>7

LEMMA PrefixOfRoot ==
    ASSUME NEW w \in Uri
    PROVE  /\ <<>> \in Uri
           /\ IsPrefix(w, <<>>) => w = <<>>
<1>1. <<>> \in Uri
  BY EmptySeq DEF Uri
<1>2. IsPrefix(<<>>, w) /\ (IsPrefix(w, <<>>) => Len(w) <= Len(<<>>))
  BY <1>1, PrefixOrder
<1> QED BY <1>1, <1>2, PrefixOrder

\* The parent, which is the longest of the other ancestors.
LEMMA FrontMeans ==
    ASSUME NEW u \in Uri
    PROVE  /\ Front(u) \in Uri /\ IsPrefix(Front(u), u)
           /\ u # <<>> => Len(Front(u)) = Len(u) - 1
           /\ \A w \in Uri : IsPrefix(w, u) /\ w # u => IsPrefix(w, Front(u))
<1>1. Len(u) \in Nat
  BY LenProperties DEF Uri
<1>2. CASE u = <<>>
  <2>1. Front(u) = <<>>
    BY <1>2 DEF Front
  <2>2. \A w \in Uri : IsPrefix(w, u) => w = u
    BY <1>2, PrefixOrder, LenProperties DEF Uri
  <2> QED BY <1>2, <2>1, <2>2, PrefixOrder
<1>3. CASE u # <<>>
  <2>1. Len(u) >= 1
    BY <1>1, <1>3, EmptySeq DEF Uri
  <2>2. /\ Front(u) \in Uri /\ Len(Front(u)) = Len(u) - 1
        /\ \A i \in 1 .. Len(u) - 1 : Front(u)[i] = u[i]
    <3> DEFINE n == Len(u) - 1
    <3>1. n \in 0 .. Len(u) /\ n \in Nat
      BY <1>1, <2>1
    <3> HIDE DEF n
    <3>2. SubSeq(u, 1, n) \in Seq(STRING) /\ Len(SubSeq(u, 1, n)) = n
          /\ \A i \in 1 .. n : SubSeq(u, 1, n)[i] = u[i]
      BY <1>1, <3>1, SubSeqProperties DEF Uri
    <3> QED BY <3>2 DEF Front, Uri, n
  <2>3. IsPrefix(Front(u), u)
    BY <1>1, <2>2, PrefixMeans
  <2>4. ASSUME NEW w \in Uri, IsPrefix(w, u), w # u PROVE IsPrefix(w, Front(u))
    <3>1. Len(w) \in Nat /\ Len(w) <= Len(u) - 1
      BY <1>1, <2>4, PrefixOrder
    <3> QED BY <2>2, <2>3, <2>4, <3>1, PrefixOrder
  <2> QED BY <2>2, <2>3, <2>4
<1> QED BY <1>2, <1>3

\* Of the ancestors in D one is the longest.
LEMMA LongestExists ==
    ASSUME NEW D \in SUBSET Uri, <<>> \in D, NEW u \in Uri
    PROVE  \E w \in D : IsPrefix(w, u) /\ \A v \in D : IsPrefix(v, u) => Len(v) <= Len(w)
<1> DEFINE T == {Len(u) - Len(w) : w \in {x \in D : IsPrefix(x, u)}}
           R == {p \in Nat \X Nat : p[1] < p[2]}
<1>1. <<>> \in D
  OBVIOUS
<1>2. \A w \in D : IsPrefix(w, u) => Len(w) \in Nat /\ Len(u) \in Nat /\ Len(w) <= Len(u)
  BY PrefixOrder
<1>3. T \subseteq Nat /\ T # {}
  BY <1>1, <1>2, PrefixOrder
<1>4. IsWellFoundedOn(R, Nat)
  BY NatLessThanWellFounded DEF OpToRel
<1>5. PICK m \in T : \A n \in T : <<n, m>> \notin R
  <2> HIDE DEF T, R
  <2> QED BY <1>3, <1>4, WFMin
<1>6. \A n \in T : n >= m
  <2> SUFFICES ASSUME NEW n \in T PROVE n >= m
    OBVIOUS
  <2>1. m \in Nat /\ n \in Nat /\ <<n, m>> \notin R
    <3> HIDE DEF T, R
    <3> QED BY <1>3, <1>5
  <2>2. ~ n < m
    BY <2>1
  <2> HIDE DEF T, R
  <2> QED BY <2>1, <2>2
<1>7. PICK w \in D : IsPrefix(w, u) /\ m = Len(u) - Len(w)
  BY <1>5
<1>8. \A v \in D : IsPrefix(v, u) => Len(v) <= Len(w)
  <2> SUFFICES ASSUME NEW v \in D, IsPrefix(v, u) PROVE Len(v) <= Len(w)
    OBVIOUS
  <2>1. Len(u) - Len(v) \in T
    OBVIOUS
  <2>2. Len(u) - Len(v) >= m
    <3> HIDE DEF T
    <3> QED BY <1>6, <2>1
  <2> QED BY <1>2, <1>7, <2>2
<1> QED BY <1>7, <1>8

\* It is one only.
LEMMA LongestUnique ==
    ASSUME NEW u \in Uri, NEW v \in Uri, NEW w \in Uri, IsPrefix(v, u), IsPrefix(w, u),
           Len(v) <= Len(w), Len(w) <= Len(v)
    PROVE  v = w
<1>1. IsPrefix(v, w)
  BY PrefixOrder
<1> QED BY <1>1, PrefixOrder
=============================================================================
