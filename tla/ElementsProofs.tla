--------------------------- MODULE ElementsProofs ---------------------------
(***************************************************************************)
(* Proofs about Elements: the lists are well typed, no request is lost,    *)
(* the answer to a request reaches it, and the lists implement Delivery.   *)
(***************************************************************************)
EXTENDS Elements, FiniteSetTheorems, FunctionTheorems, SequenceTheorems, TLAPS

-----------------------------------------------------------------------------
(* The list operations                                                     *)

\* Int8 lands in the range of an int8_t.
LEMMA Int8Range ==
  ASSUME NEW n \in Nat
  PROVE  Int8(n) \in -128 .. 127
BY DEF Int8

\* Up to 256, only n itself is stored as a number n of 1 .. 127.
LEMMA Int8Faithful ==
  ASSUME NEW n \in 1 .. 256, NEW m \in 1 .. 127, Int8(n) = m
  PROVE  n = m
<1>1. CASE n <= 127
  <2>1. (n + 128) % 256 = n + 128
    BY <1>1
  <2> QED
    BY <2>1 DEF Int8
<1>2. CASE n >= 128
  <2>1. (n + 128) % 256 = n - 128
    BY <1>2
  <2>2. Int8(n) = n - 256
    BY <2>1 DEF Int8
  <2> QED
    BY <2>2
<1> QED
  BY <1>1, <1>2

\* The requests of a list are finitely many.
LEMMA RequestAtFinite ==
  ASSUME NEW list \in Seq(Element)
  PROVE  /\ RequestAt(list) \subseteq 1 .. Len(list)
         /\ IsFiniteSet(RequestAt(list))
         /\ Cardinality(RequestAt(list)) \in Nat
<1>1. RequestAt(list) \subseteq 1 .. Len(list)
  BY DEF RequestAt
<1>2. IsFiniteSet(1 .. Len(list))
  BY FS_Interval
<1>3. IsFiniteSet(RequestAt(list))
  BY <1>1, <1>2, FS_Subset
<1> QED
  BY <1>1, <1>3, FS_CardinalityType

\* Place numbers the requests of a list from 1, without gap or repetition.
LEMMA PlaceIsBijective ==
  ASSUME NEW list \in Seq(Element)
  PROVE  LET R == RequestAt(list)
             n == Cardinality(R)
         IN  /\ \A i \in R : Place(list, i) \in 1 .. n
             /\ \A i, j \in R : Place(list, i) = Place(list, j) => i = j
             /\ \A k \in 1 .. n : \E i \in R : Place(list, i) = k
<1> DEFINE R == RequestAt(list)
           n == Cardinality(R)
           From(i) == {j \in R : j >= i}
           place == [i \in R |-> Place(list, i)]
<1>1. R \subseteq Nat /\ IsFiniteSet(R) /\ n \in Nat
  BY RequestAtFinite
<1>2. ASSUME NEW i \in R
      PROVE  IsFiniteSet(From(i)) /\ Cardinality(From(i)) \in 1 .. n
  <2>1. From(i) \in SUBSET R /\ i \in From(i)
    BY <1>1
  <2>2. IsFiniteSet(From(i)) /\ Cardinality(From(i)) <= n
    BY <1>1, <2>1, FS_Subset
  <2>3. Cardinality(From(i)) \in Nat /\ Cardinality(From(i)) # 0
    BY <2>1, <2>2, FS_CardinalityType, FS_EmptySet
  <2> QED
    BY <1>1, <2>2, <2>3
<1>3. ASSUME NEW i \in R, NEW j \in R, i < j
      PROVE  Cardinality(From(i)) # Cardinality(From(j))
  <2>1. From(j) \in SUBSET From(i) /\ i \notin From(j) /\ i \in From(i)
    BY <1>1, <1>3
  <2>2. IsFiniteSet(From(i))
    BY <1>2
  <2> QED
    BY <2>1, <2>2, FS_Subset
<1>4. \A i \in R : Place(list, i) = Cardinality(From(i))
  BY DEF Place
<1>5. \A i \in R : Place(list, i) \in 1 .. n
  BY <1>2, <1>4
<1>6. \A i, j \in R : Place(list, i) = Place(list, j) => i = j
  <2> SUFFICES ASSUME NEW i \in R, NEW j \in R, i # j
               PROVE  Place(list, i) # Place(list, j)
    OBVIOUS
  <2>1. i < j \/ j < i
    BY <1>1
  <2> QED
    BY <2>1, <1>3, <1>4
<1>7. place \in Injection(R, 1 .. n)
  BY <1>5, <1>6, Fun_IsInj DEF Injection, IsInjective
<1>8. IsFiniteSet(1 .. n) /\ Cardinality(1 .. n) = n
  BY <1>1, FS_Interval
<1>9. place \in Surjection(R, 1 .. n)
  BY <1>7, <1>8, FS_Injection
<1>10. \A k \in 1 .. n : \E i \in R : place[i] = k
  BY <1>9 DEF Surjection
<1> QED
  BY <1>5, <1>6, <1>10

\* Views of the lists in which an invariant is easy to follow: the cells of
\* old_elem, and the fact that no request has two cells or two places.
CellsOf(old) == {old[k] : k \in DOMAIN old}

OneCellEach(old) ==
    \A k, l \in DOMAIN old : old[k].element = old[l].element => k = l

OnePlaceEach(list) ==
    \A i, j \in DOMAIN list : list[i] = list[j] /\ list[i] \in Request => i = j

\* A composed message leaves one cell for each request it holds.
LEMMA PushedCells ==
  ASSUME NEW list \in Seq(Element), NEW mid \in Nat, OnePlaceEach(list)
  PROVE  /\ Pushed(list, mid) \in Seq(Cell)
         /\ CellsOf(Pushed(list, mid)) = {CellAt(list, mid, i) : i \in RequestAt(list)}
         /\ OneCellEach(Pushed(list, mid))
<1> DEFINE R == RequestAt(list)
           n == Cardinality(R)
           at(k) == CHOOSE i \in R : Place(list, i) = k
           P == Pushed(list, mid)
<1>1. n \in Nat /\ R \subseteq 1 .. Len(list)
  BY RequestAtFinite
<1>2. \A k \in 1 .. n : at(k) \in R /\ Place(list, at(k)) = k
  BY PlaceIsBijective
<1>3. \A i \in R : Place(list, i) \in 1 .. n /\ at(Place(list, i)) = i
  BY <1>2, PlaceIsBijective
<1>4. P = [k \in 1 .. n |-> CellAt(list, mid, at(k))]
  BY DEF Pushed
<1>5. \A i \in R : CellAt(list, mid, i) \in Cell /\ CellAt(list, mid, i).element = list[i]
  <2> SUFFICES ASSUME NEW i \in R
               PROVE  CellAt(list, mid, i) \in Cell /\ CellAt(list, mid, i).element = list[i]
    OBVIOUS
  <2>1. list[i] \in Request /\ i \in Nat \ {0}
    BY <1>1 DEF RequestAt
  <2>2. Int8(mid) \in -128 .. 127
    BY Int8Range
  <2> QED
    BY <2>1, <2>2 DEF CellAt, Cell
<1>6. P \in [1 .. n -> Cell]
  BY <1>2, <1>4, <1>5
<1>7. P \in Seq(Cell) /\ DOMAIN P = 1 .. n
  BY <1>1, <1>6, IsASeq
<1>8. CellsOf(P) \subseteq {CellAt(list, mid, i) : i \in R}
  BY <1>2, <1>4, <1>7 DEF CellsOf
<1>9. \A i \in R : CellAt(list, mid, i) \in CellsOf(P)
  BY <1>3, <1>4, <1>7 DEF CellsOf
<1>10. OneCellEach(P)
  <2> SUFFICES ASSUME NEW k \in 1 .. n, NEW l \in 1 .. n, P[k].element = P[l].element
               PROVE  k = l
    BY <1>7 DEF OneCellEach
  <2>1. list[at(k)] = list[at(l)]
    BY <1>2, <1>4, <1>5
  <2>2. list[at(k)] \in Request /\ at(k) \in DOMAIN list /\ at(l) \in DOMAIN list
    BY <1>2 DEF RequestAt
  <2>3. at(k) = at(l)
    BY <2>1, <2>2 DEF OnePlaceEach
  <2> QED
    BY <2>3, <1>2
<1> QED
  BY <1>7, <1>8, <1>9, <1>10

\* Joining two lists of cells that share no request.
LEMMA ConcatCells ==
  ASSUME NEW p \in Seq(Cell), NEW q \in Seq(Cell),
         OneCellEach(p), OneCellEach(q),
         \A c \in CellsOf(p), d \in CellsOf(q) : c.element # d.element
  PROVE  /\ p \o q \in Seq(Cell)
         /\ CellsOf(p \o q) = CellsOf(p) \cup CellsOf(q)
         /\ OneCellEach(p \o q)
<1>1. /\ p \o q \in Seq(Cell)
      /\ Len(p \o q) = Len(p) + Len(q)
      /\ \A k \in 1 .. Len(p) + Len(q) :
            (p \o q)[k] = IF k <= Len(p) THEN p[k] ELSE q[k - Len(p)]
  BY ConcatProperties
<1>2. DOMAIN (p \o q) = 1 .. Len(p) + Len(q) /\ Len(p) \in Nat /\ Len(q) \in Nat
  BY <1>1, LenProperties
<1>3. \A k \in 1 .. Len(p) : (p \o q)[k] = p[k] /\ k \in DOMAIN (p \o q)
  BY <1>1, <1>2
<1>4. \A k \in 1 .. Len(q) : (p \o q)[k + Len(p)] = q[k] /\ k + Len(p) \in DOMAIN (p \o q)
  BY <1>1, <1>2
<1>5. \A k \in DOMAIN (p \o q) :
        k \notin 1 .. Len(p) =>
          k - Len(p) \in 1 .. Len(q) /\ (p \o q)[k] = q[k - Len(p)]
  BY <1>1, <1>2
<1>6. DOMAIN p = 1 .. Len(p) /\ DOMAIN q = 1 .. Len(q)
  BY LenProperties
<1>7. CellsOf(p \o q) \subseteq CellsOf(p) \cup CellsOf(q)
  BY <1>3, <1>5, <1>6 DEF CellsOf
<1>8. CellsOf(p) \subseteq CellsOf(p \o q)
  BY <1>3, <1>6 DEF CellsOf
<1>9. CellsOf(q) \subseteq CellsOf(p \o q)
  BY <1>4, <1>6 DEF CellsOf
<1>10. OneCellEach(p \o q)
  <2> SUFFICES ASSUME NEW k \in DOMAIN (p \o q), NEW l \in DOMAIN (p \o q),
                      (p \o q)[k].element = (p \o q)[l].element
               PROVE  k = l
    BY DEF OneCellEach
  <2>1. CASE k \in 1 .. Len(p) /\ l \in 1 .. Len(p)
    BY <2>1, <1>3, <1>6 DEF OneCellEach
  <2>2. CASE k \in 1 .. Len(p) /\ l \notin 1 .. Len(p)
    BY <2>2, <1>3, <1>5, <1>6 DEF CellsOf
  <2>3. CASE k \notin 1 .. Len(p) /\ l \in 1 .. Len(p)
    BY <2>3, <1>3, <1>5, <1>6 DEF CellsOf
  <2>4. CASE k \notin 1 .. Len(p) /\ l \notin 1 .. Len(p)
    <3>1. k - Len(p) = l - Len(p)
      BY <2>4, <1>5, <1>6 DEF OneCellEach
    <3> QED
      BY <3>1, <1>2
  <2> QED
    BY <2>1, <2>2, <2>3, <2>4
<1> QED
  BY <1>1, <1>7, <1>8, <1>9, <1>10

\* Unlinking a cell takes away that cell and nothing else.
LEMMA WithoutCells ==
  ASSUME NEW old \in Seq(Cell), NEW k \in DOMAIN old, OneCellEach(old)
  PROVE  /\ Without(old, k) \in Seq(Cell)
         /\ CellsOf(Without(old, k)) = CellsOf(old) \ {old[k]}
         /\ OneCellEach(Without(old, k))
<1> DEFINE W == Without(old, k)
           src(j) == IF j < k THEN j ELSE j + 1
<1>1. /\ Len(old) \in Nat /\ k \in 1 .. Len(old)
      /\ DOMAIN old = 1 .. Len(old)
      /\ \A j \in 1 .. Len(old) : old[j] \in Cell
  BY LenProperties, ElementOfSeq
<1>2. \A j \in 1 .. Len(old) - 1 : src(j) \in 1 .. Len(old) /\ src(j) # k
  BY <1>1
<1>3. W = [j \in 1 .. Len(old) - 1 |-> old[src(j)]]
  BY DEF Without
<1>4. W \in [1 .. Len(old) - 1 -> Cell]
  BY <1>1, <1>2, <1>3
<1>5. W \in Seq(Cell) /\ DOMAIN W = 1 .. Len(old) - 1
  BY <1>1, <1>4, IsASeq
<1>6. \A j \in DOMAIN W : W[j] = old[src(j)]
  BY <1>3, <1>5
<1>7. \A m \in 1 .. Len(old) : m # k =>
          \E j \in 1 .. Len(old) - 1 : src(j) = m
  <2> SUFFICES ASSUME NEW m \in 1 .. Len(old), m # k
               PROVE  \E j \in 1 .. Len(old) - 1 : src(j) = m
    OBVIOUS
  <2>1. CASE m < k
    BY <2>1, <1>1
  <2>2. CASE m > k
    <3>1. m - 1 \in 1 .. Len(old) - 1 /\ src(m - 1) = m
      BY <2>2, <1>1
    <3> QED
      BY <3>1
  <2> QED
    BY <2>1, <2>2, <1>1
<1>8. \A m \in 1 .. Len(old) : m # k => old[m] # old[k]
  BY <1>1 DEF OneCellEach
<1>9. CellsOf(W) = CellsOf(old) \ {old[k]}
  <2>1. CellsOf(W) \subseteq CellsOf(old) \ {old[k]}
    BY <1>1, <1>2, <1>5, <1>6, <1>8 DEF CellsOf
  <2>2. ASSUME NEW c \in CellsOf(old), c # old[k]
        PROVE  c \in CellsOf(W)
    <3>1. PICK m \in 1 .. Len(old) : c = old[m]
      BY <1>1 DEF CellsOf
    <3>2. PICK j \in 1 .. Len(old) - 1 : src(j) = m
      BY <2>2, <3>1, <1>7
    <3>3. W[j] = c
      BY <3>1, <3>2, <1>5, <1>6
    <3> QED
      BY <3>3, <1>5 DEF CellsOf
  <2> QED
    BY <2>1, <2>2
<1>10. OneCellEach(W)
  <2> SUFFICES ASSUME NEW j \in 1 .. Len(old) - 1, NEW l \in 1 .. Len(old) - 1,
                      old[src(j)].element = old[src(l)].element
               PROVE  j = l
    BY <1>5, <1>6 DEF OneCellEach
  <2>1. src(j) = src(l)
    BY <1>1, <1>2 DEF OneCellEach
  <2> QED
    BY <2>1, <1>1
<1> QED
  BY <1>5, <1>9, <1>10

-----------------------------------------------------------------------------
(* The inductive invariant                                                 *)

\* Cells are numbered by the message that carried them, and no two cells
\* answer to the same message and command.
RefsOK ==
    /\ \A c \in CellsOf(old_elem) : c.sentIn \in 1 .. message_id /\ c.msg_id = Int8(c.sentIn)
    /\ \A c, d \in CellsOf(old_elem) : c.sentIn = d.sentIn /\ c.cmdID = d.cmdID => c = d

ListInv == ElemTypeOK /\ NoRequestLost /\ RefsOK

\* NoRequestLost through the views above.
LEMMA OutstandingCell ==
  ASSUME NEW r
  PROVE  Outstanding(r) <=> \E c \in CellsOf(old_elem) : c.element = r
BY DEF Outstanding, CellsOf

LEMMA OutstandingCellNext ==
  ASSUME NEW r
  PROVE  Outstanding(r)' <=> \E c \in CellsOf(old_elem') : c.element = r
BY DEF Outstanding, CellsOf

\* Appending to a list: what was in it stays in its place.
LEMMA AppendPlaces ==
  ASSUME NEW list \in Seq(Element), NEW e \in Element, OnePlaceEach(list),
         e \in Request => \A i \in DOMAIN list : list[i] # e
  PROVE  /\ Append(list, e) \in Seq(Element)
         /\ OnePlaceEach(Append(list, e))
         /\ \A x : (\E i \in DOMAIN Append(list, e) : Append(list, e)[i] = x)
                     <=> (x = e \/ \E i \in DOMAIN list : list[i] = x)
<1>1. /\ Append(list, e) \in Seq(Element)
      /\ Len(Append(list, e)) = Len(list) + 1
      /\ \A i \in 1 .. Len(list) : Append(list, e)[i] = list[i]
      /\ Append(list, e)[Len(list) + 1] = e
  BY AppendProperties
<1>2. /\ Len(list) \in Nat
      /\ DOMAIN list = 1 .. Len(list)
      /\ DOMAIN Append(list, e) = 1 .. Len(list) + 1
  BY <1>1, LenProperties
<1>3. \A i \in 1 .. Len(list) + 1 : i \in 1 .. Len(list) \/ i = Len(list) + 1
  BY <1>2
<1>4. OnePlaceEach(Append(list, e))
  BY <1>1, <1>2, <1>3 DEF OnePlaceEach
<1>5. ASSUME NEW x
      PROVE  (\E i \in DOMAIN Append(list, e) : Append(list, e)[i] = x)
               <=> (x = e \/ \E i \in DOMAIN list : list[i] = x)
  <2>1. Len(list) + 1 \in DOMAIN Append(list, e) /\ DOMAIN list \subseteq DOMAIN Append(list, e)
    BY <1>2
  <2> QED
    BY <2>1, <1>1, <1>2, <1>3
<1> QED
  BY <1>1, <1>4, <1>5

LEMMA ListInvInit == ElemInit => ListInv
<1> SUFFICES ASSUME ElemInit PROVE ListInv
  OBVIOUS
<1> USE DEF ElemInit
<1>1. ElemTypeOK
  BY EmptySeq DEF ElemTypeOK
<1>2. NoRequestLost
  BY DEF NoRequestLost, Queued, Outstanding
<1>3. RefsOK
  BY DEF RefsOK, CellsOf
<1> QED
  BY <1>1, <1>2, <1>3 DEF ListInv

\* A new request or reply at the end of elem.
LEMMA ListInvAddRequest ==
  ASSUME ListInv, NEW r \in Request, AddRequest(r)
  PROVE  ListInv' /\ \A x : Queued(x)' <=> (x = r \/ Queued(x))
<1> USE DEF ListInv
<1>1. /\ elem \in Seq(Element) /\ OnePlaceEach(elem) /\ r \in Element
      /\ \A i \in DOMAIN elem : elem[i] # r
  BY DEF ElemTypeOK, NoRequestLost, OnePlaceEach, Element, AddRequest, Queued
<1>2. elem' = Append(elem, r)
  BY DEF AddRequest, add_element
<1>3. elem' \in Seq(Element) /\ OnePlaceEach(elem')
      /\ \A x : Queued(x)' <=> (x = r \/ Queued(x))
  BY <1>1, <1>2, AppendPlaces DEF Queued
<1>4. ElemTypeOK'
  BY <1>3 DEF ElemTypeOK, AddRequest
<1>5. \A x : Outstanding(x)' <=> Outstanding(x)
  BY DEF Outstanding, AddRequest
<1>6. NoRequestLost'
  <2>1. ~ Queued(r) /\ ~ Outstanding(r) /\ r \notin settled /\ issued' = issued \cup {r}
        /\ settled' = settled /\ old_elem' = old_elem
    BY DEF NoRequestLost, AddRequest
  <2> QED
    BY <1>3, <1>5, <2>1 DEF NoRequestLost, OnePlaceEach
<1>7. RefsOK'
  BY DEF RefsOK, CellsOf, AddRequest
<1> QED
  BY <1>3, <1>4, <1>6, <1>7

LEMMA ListInvAddReply ==
  ASSUME ListInv, NEW e \in Status \cup Results, AddReply(e)
  PROVE  ListInv' /\ \A x \in Request : Queued(x)' <=> Queued(x)
<1> USE DEF ListInv
<1>1. elem \in Seq(Element) /\ OnePlaceEach(elem) /\ e \in Element /\ e \notin Request
  BY ElementsAssumption DEF ElemTypeOK, NoRequestLost, OnePlaceEach, Element
<1>2. elem' = Append(elem, e)
  BY DEF AddReply, add_element
<1>3. elem' \in Seq(Element) /\ OnePlaceEach(elem')
      /\ \A x : Queued(x)' <=> (x = e \/ Queued(x))
  BY <1>1, <1>2, AppendPlaces DEF Queued
<1>4. ElemTypeOK'
  BY <1>3 DEF ElemTypeOK, AddReply
<1>5. \A x \in Request : Queued(x)' <=> Queued(x)
  BY <1>1, <1>3
<1>6. NoRequestLost'
  <2>1. \A x : Outstanding(x)' <=> Outstanding(x)
    BY DEF Outstanding, AddReply
  <2> QED
    BY <1>3, <1>5, <2>1 DEF NoRequestLost, OnePlaceEach, AddReply
<1>7. RefsOK'
  BY DEF RefsOK, CellsOf, AddReply
<1> QED
  BY <1>4, <1>6, <1>7, <1>5

\* Composing a message moves every queued request to old_elem.
LEMMA ListInvCompose ==
  ASSUME ListInv, Compose
  PROVE  /\ ListInv'
         /\ \A r \in Request : ~ Queued(r)' /\ (Outstanding(r)' <=> Queued(r) \/ Outstanding(r))
<1> USE DEF ListInv
<1> DEFINE mid == message_id + 1
           P == Pushed(elem, mid)
<1>1. /\ elem \in Seq(Element) /\ old_elem \in Seq(Cell) /\ mid \in Nat
      /\ OnePlaceEach(elem) /\ OneCellEach(old_elem)
  BY DEF ElemTypeOK, NoRequestLost, OnePlaceEach, OneCellEach
<1>2. /\ P \in Seq(Cell) /\ OneCellEach(P)
      /\ CellsOf(P) = {CellAt(elem, mid, i) : i \in RequestAt(elem)}
  BY <1>1, PushedCells
<1>3. \A c \in CellsOf(P) : /\ c.element \in Request /\ Queued(c.element)
                            /\ c.sentIn = mid /\ c.msg_id = Int8(mid)
  BY <1>2 DEF CellAt, RequestAt, Queued
<1>4. \A d \in CellsOf(old_elem) : d.element \in Request /\ Outstanding(d.element)
  <2>1. \A k \in DOMAIN old_elem : old_elem[k] \in Cell
    BY <1>1, ElementOfSeq
  <2> QED
    BY <2>1 DEF CellsOf, Outstanding, Cell
<1>5. \A c \in CellsOf(P), d \in CellsOf(old_elem) : c.element # d.element
  BY <1>3, <1>4 DEF NoRequestLost
<1>6. /\ old_elem' = P \o old_elem /\ elem' = <<>> /\ message_id' = mid
      /\ issued' = issued /\ settled' = settled
  BY DEF Compose, refresh_elements
<1>7. /\ old_elem' \in Seq(Cell) /\ OneCellEach(old_elem')
      /\ CellsOf(old_elem') = CellsOf(P) \cup CellsOf(old_elem)
  BY <1>1, <1>2, <1>5, <1>6, ConcatCells
<1>8. \A r \in Request : Queued(r) => \E c \in CellsOf(P) : c.element = r
  <2> SUFFICES ASSUME NEW r \in Request, NEW i \in DOMAIN elem, elem[i] = r
               PROVE  \E c \in CellsOf(P) : c.element = r
    BY DEF Queued
  <2>1. CellAt(elem, mid, i) \in CellsOf(P) /\ CellAt(elem, mid, i).element = r
    BY <1>2 DEF RequestAt, CellAt
  <2> QED
    BY <2>1
<1>9. \A r \in Request : Outstanding(r)' <=> (Queued(r) \/ Outstanding(r))
  BY <1>3, <1>7, <1>8, OutstandingCell, OutstandingCellNext
<1>10. \A r \in Request : ~ Queued(r)'
  BY <1>6 DEF Queued
<1>11. ElemTypeOK'
  BY <1>1, <1>6, <1>7, EmptySeq DEF ElemTypeOK
<1>12. NoRequestLost'
  BY <1>6, <1>7, <1>9, <1>10 DEF NoRequestLost, OneCellEach
<1>13. RefsOK'
  <2>1. message_id \in Nat
    BY DEF ElemTypeOK
  <2>2. \A c \in CellsOf(old_elem') : c.sentIn \in 1 .. message_id' /\ c.msg_id = Int8(c.sentIn)
    BY <2>1, <1>3, <1>6, <1>7 DEF RefsOK
  <2>3. \A c, d \in CellsOf(P) : c.cmdID = d.cmdID => c = d
    BY <1>2 DEF CellAt
  <2>4. \A c \in CellsOf(P), d \in CellsOf(old_elem) : c.sentIn # d.sentIn
    BY <2>1, <1>3 DEF RefsOK
  <2> QED
    BY <2>2, <2>3, <2>4, <1>7 DEF RefsOK
<1> QED
  BY <1>9, <1>10, <1>11, <1>12, <1>13

LEMMA ListInvComposeFails ==
  ASSUME ListInv, ComposeFails
  PROVE  ListInv'
<1> USE DEF ListInv, ComposeFails
<1>1. ElemTypeOK'
  BY DEF ElemTypeOK
<1>2. NoRequestLost'
  BY DEF NoRequestLost, Queued, Outstanding
<1>3. RefsOK'
  BY DEF RefsOK, CellsOf, ElemTypeOK
<1> QED
  BY <1>1, <1>2, <1>3

\* A status of the server: the cell found stays, goes back to elem or goes.
LEMMA ListInvStatus ==
  ASSUME ListInv, NEW m, NEW c, NEW code, StatusForCommand(m, c, code)
  PROVE  /\ ListInv'
         /\ \E r \in Request :
              /\ Outstanding(r)
              /\ \A x \in Request : x # r => /\ Queued(x)' <=> Queued(x)
                                             /\ Outstanding(x)' <=> Outstanding(x)
                                             /\ x \in settled' <=> x \in settled
              /\ \/ Outstanding(r)' /\ (r \in settled' <=> r \in settled)
                 \/ ~ Outstanding(r)' /\ Queued(r)' /\ (r \in settled' <=> r \in settled)
                 \/ r \in settled'
<1> USE DEF ListInv
<1>1. PICK k \in DOMAIN old_elem :
        /\ \/ /\ code = IN_PROGRESS
              /\ old_elem' = put_back_element(Without(old_elem, k), old_elem[k])
              /\ UNCHANGED <<elem, settled>>
           \/ /\ old_elem' = Without(old_elem, k)
              /\ elem' = add_element(elem, old_elem[k].element)
              /\ UNCHANGED settled
           \/ /\ old_elem' = Without(old_elem, k)
              /\ settled' = settled \cup {old_elem[k].element}
              /\ UNCHANGED elem
        /\ UNCHANGED <<message_id, issued>>
  BY DEF StatusForCommand
<1> DEFINE cell == old_elem[k]
           r == cell.element
           W == Without(old_elem, k)
<1>2. /\ elem \in Seq(Element) /\ old_elem \in Seq(Cell) /\ message_id \in Nat
      /\ OnePlaceEach(elem) /\ OneCellEach(old_elem)
  BY DEF ElemTypeOK, NoRequestLost, OnePlaceEach, OneCellEach
<1>3. cell \in Cell /\ r \in Request /\ r \in Element /\ cell \in CellsOf(old_elem)
  <2>1. cell \in Cell
    BY <1>2, ElementOfSeq
  <2> QED
    BY <2>1 DEF Cell, Element, CellsOf
<1>4. W \in Seq(Cell) /\ CellsOf(W) = CellsOf(old_elem) \ {cell} /\ OneCellEach(W)
  BY <1>2, WithoutCells
<1>5. \A d \in CellsOf(old_elem) : d.element = r => d = cell
  BY DEF CellsOf, NoRequestLost
<1>6. Outstanding(r) /\ ~ Queued(r) /\ r \in issued /\ r \notin settled
  BY <1>3, OutstandingCell DEF NoRequestLost
<1>7. \A x \in Request : (\E d \in CellsOf(W) : d.element = x) <=> (Outstanding(x) /\ x # r)
  BY <1>3, <1>4, <1>5, OutstandingCell
<1>8. CASE /\ old_elem' = put_back_element(W, cell)
           /\ UNCHANGED <<elem, settled, message_id, issued>>
  <2>1. <<cell>> \in Seq(Cell) /\ CellsOf(<<cell>>) = {cell} /\ OneCellEach(<<cell>>)
    BY <1>3 DEF CellsOf, OneCellEach
  <2>2. /\ old_elem' \in Seq(Cell) /\ OneCellEach(old_elem')
        /\ CellsOf(old_elem') = {cell} \cup CellsOf(W)
    BY <2>1, <1>4, <1>5, <1>8, ConcatCells DEF put_back_element
  <2>3. CellsOf(old_elem') = CellsOf(old_elem)
    BY <2>2, <1>3, <1>4
  <2>4. \A x \in Request : (Outstanding(x)' <=> Outstanding(x)) /\ (Queued(x)' <=> Queued(x))
    BY <2>3, <1>8, OutstandingCell, OutstandingCellNext DEF Queued
  <2>5. ElemTypeOK'
    BY <2>2, <1>8 DEF ElemTypeOK
  <2>6. NoRequestLost'
    BY <2>2, <2>4, <1>8 DEF NoRequestLost, OneCellEach
  <2>7. RefsOK'
    BY <2>3, <1>8 DEF RefsOK
  <2> QED
    BY <2>4, <2>5, <2>6, <2>7, <1>3, <1>6, <1>8
<1>9. CASE /\ old_elem' = W
           /\ elem' = add_element(elem, r)
           /\ UNCHANGED <<settled, message_id, issued>>
  <2>1. /\ elem' \in Seq(Element) /\ OnePlaceEach(elem')
        /\ \A x : Queued(x)' <=> (x = r \/ Queued(x))
    BY <1>2, <1>3, <1>6, <1>9, AppendPlaces DEF add_element, Queued
  <2>2. \A x \in Request : Outstanding(x)' <=> (Outstanding(x) /\ x # r)
    BY <1>7, <1>9, OutstandingCellNext
  <2>3. ElemTypeOK'
    BY <2>1, <1>4, <1>9 DEF ElemTypeOK
  <2>4. NoRequestLost'
    BY <2>1, <2>2, <1>3, <1>4, <1>6, <1>9 DEF NoRequestLost, OneCellEach, OnePlaceEach
  <2>5. RefsOK'
    BY <1>4, <1>9 DEF RefsOK
  <2> QED
    BY <2>1, <2>2, <2>3, <2>4, <2>5, <1>3, <1>6, <1>9
<1>10. CASE /\ old_elem' = W
            /\ settled' = settled \cup {r}
            /\ UNCHANGED <<elem, message_id, issued>>
  <2>1. \A x : Queued(x)' <=> Queued(x)
    BY <1>10 DEF Queued
  <2>2. \A x \in Request : Outstanding(x)' <=> (Outstanding(x) /\ x # r)
    BY <1>7, <1>10, OutstandingCellNext
  <2>3. ElemTypeOK'
    BY <1>3, <1>4, <1>10 DEF ElemTypeOK
  <2>4. NoRequestLost'
    BY <2>1, <2>2, <1>3, <1>4, <1>6, <1>10 DEF NoRequestLost, OneCellEach
  <2>5. RefsOK'
    BY <1>4, <1>10 DEF RefsOK
  <2> QED
    BY <2>1, <2>2, <2>3, <2>4, <2>5, <1>3, <1>6, <1>10
<1> QED
  BY <1>1, <1>8, <1>9, <1>10

\* ListInv is inductive.
LEMMA ListInvNext == ListInv /\ [ElemNext]_elemVars => ListInv'
<1> SUFFICES ASSUME ListInv, [ElemNext]_elemVars PROVE ListInv'
  OBVIOUS
<1>1. CASE \E r \in Request : AddRequest(r)
  BY <1>1, ListInvAddRequest
<1>2. CASE \E e \in Status \cup Results : AddReply(e)
  BY <1>2, ListInvAddReply
<1>3. CASE Compose
  BY <1>3, ListInvCompose
<1>4. CASE ComposeFails
  BY <1>4, ListInvComposeFails
<1>5. CASE \E m \in MsgRef, c \in CmdRef, code \in StatusCode : StatusForCommand(m, c, code)
  BY <1>5, ListInvStatus
<1>6. CASE UNCHANGED elemVars
  <2> USE <1>6 DEF elemVars
  <2>1. ElemTypeOK' /\ NoRequestLost' /\ RefsOK'
    BY DEF ListInv, ElemTypeOK, NoRequestLost, Queued, Outstanding, RefsOK, CellsOf
  <2> QED
    BY <2>1 DEF ListInv
<1> QED
  BY <1>1, <1>2, <1>3, <1>4, <1>5, <1>6 DEF ElemNext

LEMMA ListInvAlways == ElemSpec => []ListInv
BY ListInvInit, ListInvNext, PTL DEF ElemSpec

-----------------------------------------------------------------------------
(* The theorems                                                            *)

\* The lists and counters of a session are always well typed, the int8_t
\* message number of every cell included.
THEOREM ElementsTypeCorrect == ElemSpec => []ElemTypeOK
<1>1. ListInv => ElemTypeOK
  BY DEF ListInv
<1> QED
  BY <1>1, ListInvAlways, PTL

\* Whatever statuses the server sends, for however many requests and messages,
\* add_element, refresh_elements, retrieve_element and put_back_element lose
\* no request and duplicate none.
THEOREM ElementsLoseNothing == ElemSpec => []NoRequestLost
<1>1. ListInv => NoRequestLost
  BY DEF ListInv
<1> QED
  BY <1>1, ListInvAlways, PTL

\* Within 256 messages the int8_t numbers are distinct, so that a status for
\* one of the first 127 finds the request it quotes and no other.
THEOREM AnswersReachTheirRequests == ElemSpec => []AnswerReachesItsRequest
<1>1. ListInv => AnswerReachesItsRequest
  <2> SUFFICES ASSUME ListInv, message_id <= 256, NEW k \in DOMAIN old_elem,
                      old_elem[k].sentIn <= 127
               PROVE  Found(old_elem, old_elem[k].sentIn, old_elem[k].cmdID, k)
    BY DEF AnswerReachesItsRequest
  <2> DEFINE c == old_elem[k]
  <2>1. message_id \in Nat /\ c \in CellsOf(old_elem) /\ c.sentIn \in 1 .. message_id
        /\ c.msg_id = Int8(c.sentIn)
    BY DEF ListInv, ElemTypeOK, RefsOK, CellsOf
  <2>2. Int8(c.sentIn) = c.sentIn /\ c.sentIn # AnyMessage
    BY <2>1 DEF Int8, AnyMessage
  <2>3. Names(c.sentIn, c.cmdID, c)
    BY <2>1, <2>2 DEF Names
  <2>4. ASSUME NEW j \in DOMAIN old_elem, Names(c.sentIn, c.cmdID, old_elem[j])
        PROVE  j = k
    <3> DEFINE d == old_elem[j]
    <3>1. d \in CellsOf(old_elem) /\ d.sentIn \in 1 .. message_id
          /\ d.msg_id = Int8(d.sentIn) /\ d.msg_id = c.sentIn /\ d.cmdID = c.cmdID
      BY <2>2, <2>4 DEF ListInv, RefsOK, CellsOf, Names
    <3>2. d.sentIn \in 1 .. 256 /\ c.sentIn \in 1 .. 127 /\ Int8(d.sentIn) = c.sentIn
      BY <2>1, <3>1
    <3>3. d.sentIn = c.sentIn
      <4> HIDE DEF c, d
      <4>1. \A n \in 1 .. 256, m \in 1 .. 127 : Int8(n) = m => n = m
        BY Int8Faithful
      <4> QED
        BY <3>2, <4>1
    <3>4. d = c
      BY <2>1, <3>1, <3>3 DEF ListInv, RefsOK
    <3> QED
      BY <3>4 DEF ListInv, NoRequestLost
  <2>5. \A j \in DOMAIN old_elem : j < k => ~ Names(c.sentIn, c.cmdID, old_elem[j])
    <3>1. k \in Nat
      BY DEF ListInv, ElemTypeOK
    <3> QED
      BY <2>4, <3>1
  <2> QED
    BY <2>3, <2>5 DEF Found
<1> QED
  BY <1>1, ListInvAlways, PTL

\* What a step does to the fate of one request.
LEMMA SameFate ==
  ASSUME NEW r \in Request,
         Outstanding(r)' <=> Outstanding(r), Queued(r)' <=> Queued(r),
         r \in settled' <=> r \in settled
  PROVE  FateOf(r)' = FateOf(r)
BY DEF FateOf

\* One request changes its fate and the others keep theirs.
LEMMA OneFateChanges ==
  ASSUME NEW r \in Request, NEW f,
         FateOf(r)' = f,
         \A x \in Request : x # r => FateOf(x)' = FateOf(x)
  PROVE  fateBar' = [fateBar EXCEPT ![r] = f]
BY DEF fateBar

\* The lists implement the delivery promise: what the session does with a
\* request, through all of the list operations, is what Delivery allows.
THEOREM ElementsImplementDelivery == ElemSpec => DeliversRequests
<1>1. ElemInit => Abstract!DeliveryInit
  <2> SUFFICES ASSUME ElemInit PROVE fateBar = [r \in Request |-> "new"]
    BY DEF Abstract!DeliveryInit
  <2>1. \A r \in Request : FateOf(r) = "new"
    BY DEF ElemInit, FateOf, Outstanding, Queued
  <2> QED
    BY <2>1 DEF fateBar
<1>2. ListInv /\ [ElemNext]_elemVars => [Abstract!DeliveryNext]_fateBar
  <2> SUFFICES ASSUME ListInv, [ElemNext]_elemVars
               PROVE  Abstract!DeliveryNext \/ fateBar' = fateBar
    OBVIOUS
  <2>0. \A x \in Request : fateBar[x] = FateOf(x)
    BY DEF fateBar
  <2>1. CASE \E r \in Request : AddRequest(r)
    <3>1. PICK r \in Request : AddRequest(r)
      BY <2>1
    <3>2. \A x : Queued(x)' <=> (x = r \/ Queued(x))
      BY <3>1, ListInvAddRequest
    <3>3. \A x : Outstanding(x)' <=> Outstanding(x)
      BY <3>1 DEF Outstanding, AddRequest
    <3>4. \A x \in Request : x # r => FateOf(x)' = FateOf(x)
      BY <3>1, <3>2, <3>3, SameFate DEF AddRequest
    <3>5. FateOf(r) = "new" /\ FateOf(r)' = "queued"
      BY <3>1, <3>2, <3>3 DEF AddRequest, FateOf, ListInv, NoRequestLost
    <3>6. fateBar' = [fateBar EXCEPT ![r] = "queued"]
      BY <3>4, <3>5, OneFateChanges
    <3>7. Abstract!Issue(r)
      BY <3>5, <3>6, <2>0 DEF Abstract!Issue
    <3> QED
      BY <3>7 DEF Abstract!DeliveryNext
  <2>2. CASE \E e \in Status \cup Results : AddReply(e)
    <3>1. PICK e \in Status \cup Results : AddReply(e)
      BY <2>2
    <3>2. \A x \in Request : Queued(x)' <=> Queued(x)
      BY <3>1, ListInvAddReply
    <3>3. \A x : Outstanding(x)' <=> Outstanding(x)
      BY <3>1 DEF Outstanding, AddReply
    <3>4. \A x \in Request : FateOf(x)' = FateOf(x)
      BY <3>1, <3>2, <3>3, SameFate DEF AddReply
    <3> QED
      BY <3>4 DEF fateBar
  <2>3. CASE Compose
    <3>1. \A r \in Request : ~ Queued(r)' /\ (Outstanding(r)' <=> Queued(r) \/ Outstanding(r))
      BY <2>3, ListInvCompose
    <3>2. settled' = settled /\ \A r \in Request : r \in settled => ~ Queued(r)
      BY <2>3 DEF Compose, ListInv, NoRequestLost
    <3>3. \A r \in Request : FateOf(r)' = IF FateOf(r) = "queued" THEN "sent" ELSE FateOf(r)
      BY <3>1, <3>2 DEF FateOf
    <3>4. fateBar' = [r \in Request |-> IF fateBar[r] = "queued" THEN "sent" ELSE fateBar[r]]
      BY <3>3 DEF fateBar
    <3>5. CASE \E r \in Request : fateBar[r] = "queued"
      BY <3>4, <3>5 DEF Abstract!DeliveryNext, Abstract!Transmit
    <3>6. CASE ~ \E r \in Request : fateBar[r] = "queued"
      <4>1. \A r \in Request : FateOf(r)' = FateOf(r)
        BY <3>3, <3>6, <2>0
      <4> QED
        BY <4>1 DEF fateBar
    <3> QED
      BY <3>5, <3>6
  <2>4. CASE ComposeFails
    BY <2>4 DEF ComposeFails, fateBar, FateOf, Outstanding, Queued
  <2>5. CASE \E m \in MsgRef, c \in CmdRef, code \in StatusCode : StatusForCommand(m, c, code)
    <3>1. PICK r \in Request :
             /\ Outstanding(r)
             /\ \A x \in Request : x # r => /\ Queued(x)' <=> Queued(x)
                                            /\ Outstanding(x)' <=> Outstanding(x)
                                            /\ x \in settled' <=> x \in settled
             /\ \/ Outstanding(r)' /\ (r \in settled' <=> r \in settled)
                \/ ~ Outstanding(r)' /\ Queued(r)' /\ (r \in settled' <=> r \in settled)
                \/ r \in settled'
      BY <2>5, ListInvStatus
    <3>2. \A x \in Request : x # r => FateOf(x)' = FateOf(x)
      BY <3>1, SameFate
    <3>3. r \notin settled /\ FateOf(r) = "sent" /\ fateBar[r] = "sent"
      BY <3>1, <2>0 DEF FateOf, ListInv, NoRequestLost
    <3>4. FateOf(r)' \in {"sent", "queued", "settled"}
      BY <3>1, <3>3 DEF FateOf
    <3>5. fateBar' = [fateBar EXCEPT ![r] = FateOf(r)']
      BY <3>2, OneFateChanges
    <3>6. CASE FateOf(r)' = "sent"
      <4>1. \A x \in Request : FateOf(x)' = FateOf(x)
        BY <3>2, <3>3, <3>6
      <4> QED
        BY <4>1 DEF fateBar
    <3>7. CASE FateOf(r)' = "queued"
      BY <3>3, <3>5, <3>7 DEF Abstract!Resend, Abstract!DeliveryNext
    <3>8. CASE FateOf(r)' = "settled"
      BY <3>3, <3>5, <3>8 DEF Abstract!Settle, Abstract!DeliveryNext
    <3> QED
      BY <3>4, <3>6, <3>7, <3>8
  <2>6. CASE UNCHANGED elemVars
    BY <2>6 DEF elemVars, fateBar, FateOf, Outstanding, Queued
  <2> QED
    BY <2>1, <2>2, <2>3, <2>4, <2>5, <2>6 DEF ElemNext
<1> QED
  BY <1>1, <1>2, ListInvAlways, PTL DEF ElemSpec, DeliversRequests, Abstract!DeliverySpec
=============================================================================
