------------------------- MODULE CisRequestsProofs -------------------------
(***************************************************************************)
(* Proofs about the sorted list of the LwM2M client and about the requests *)
(* and observations kept in it, for lists of any length and any number of  *)
(* messages, objects, answers and registrations.                           *)
(***************************************************************************)
EXTENDS CisRequests, CisListUse, SequenceTheorems, WellFoundedInduction, TLAPS

\* A search from position k on ends: at the first position of S, or behind the last.
LEMMA FirstPosition ==
    ASSUME NEW n \in Nat, NEW k \in Nat, k <= n + 1, NEW S
    PROVE  \E i \in k .. n + 1 : (i <= n => i \in S) /\ \A j \in k .. i - 1 : j \notin S
<1> DEFINE T == {i \in k .. n : i \in S} \cup {n + 1}
           Less == {ss \in Nat \X Nat : ss[1] < ss[2]}
<1>1. T \subseteq Nat /\ T # {}
  OBVIOUS
<1>2. IsWellFoundedOn(Less, Nat)
  BY NatLessThanWellFounded DEF OpToRel
<1>3. \A j \in T, i \in T : j < i => <<j, i>> \in Less
  BY <1>1
<1> HIDE DEF T, Less
<1>4. PICK i \in T : \A j \in T : ~(<<j, i>> \in Less)
  BY <1>1, <1>2, WFMin
<1>5. \A j \in T : ~(j < i)
  BY <1>4, <1>3
<1> USE DEF T
<1>6. i \in k .. n + 1 /\ (i <= n => i \in S)
  OBVIOUS
<1>7. ASSUME NEW j \in k .. i - 1, j \in S PROVE FALSE
  <2>1. j \in T
    BY <1>6, <1>7
  <2> QED BY <1>5, <1>6, <1>7, <2>1
<1> QED BY <1>6, <1>7

\* The position cis_list_find looks at.
LEMMA FindStops ==
    ASSUME NEW R, \A r \in R : r.id \in Nat, NEW l \in Seq(R), NEW id \in Nat,
           NEW k \in {1, 2}, k <= Len(l) + 1
    PROVE  LET i == NotSmallerFrom(l, k, id)
           IN  /\ i \in k .. Len(l) + 1
               /\ i <= Len(l) => l[i].id >= id
               /\ \A j \in k .. i - 1 : l[j].id < id
<1> DEFINE S == {j \in 1 .. Len(l) : l[j].id >= id}
           C(i) == (i <= Len(l) => l[i].id >= id) /\ \A j \in k .. i - 1 : ~(l[j].id >= id)
<1>0. Len(l) \in Nat /\ k \in Nat
  OBVIOUS
<1> HIDE DEF S
<1>1. PICK i \in k .. Len(l) + 1 : (i <= Len(l) => i \in S) /\ \A j \in k .. i - 1 : j \notin S
  BY <1>0, FirstPosition
<1>2. C(i)
  BY <1>1 DEF S
<1>3. NotSmallerFrom(l, k, id) = CHOOSE x \in k .. Len(l) + 1 : C(x)
  BY DEF NotSmallerFrom, FirstFrom
<1>4. (CHOOSE x \in k .. Len(l) + 1 : C(x)) \in k .. Len(l) + 1 /\ C(CHOOSE x \in k .. Len(l) + 1 : C(x))
  BY <1>2
<1> DEFINE c == NotSmallerFrom(l, k, id)
<1>5. c \in k .. Len(l) + 1 /\ C(c)
  BY <1>3, <1>4
<1>6. \A j \in k .. c - 1 : l[j] \in R
  BY <1>5
<1> HIDE DEF c
<1>7. \A j \in k .. c - 1 : l[j].id < id
  BY <1>5, <1>6
<1> QED BY <1>5, <1>7 DEF c

\* Where cis_list_add links a node in: what is in front of it is not greater, and what
\* comes next, if anything, is not smaller.
LEMMA AddPlace ==
    ASSUME NEW R, \A r \in R : r.id \in Nat, NEW l \in Seq(R), NEW id \in Nat
    PROVE  /\ AddPosition(l, id) \in 1 .. Len(l) + 1
           /\ \A j \in 1 .. AddPosition(l, id) - 1 : l[j].id <= id
           /\ AddPosition(l, id) <= Len(l) => l[AddPosition(l, id)].id >= id
<1>1. CASE l = << >>
  BY <1>1 DEF AddPosition
<1>2. CASE l # << >> /\ l[1].id > id
  <2>1. AddPosition(l, id) = 1 /\ Len(l) >= 1 /\ l[1] \in R
    BY <1>2, EmptySeq DEF AddPosition
  <2> QED BY <1>2, <2>1
<1>3. CASE l # << >> /\ ~(l[1].id > id)
  <2> DEFINE c == NotSmallerFrom(l, 2, id)
  <2>1. AddPosition(l, id) = c /\ Len(l) \in Nat /\ Len(l) >= 1 /\ l[1] \in R
    BY <1>3, EmptySeq DEF AddPosition
  <2>2. /\ c \in 2 .. Len(l) + 1
        /\ c <= Len(l) => l[c].id >= id
        /\ \A j \in 2 .. c - 1 : l[j].id < id
    <3>1. 2 <= Len(l) + 1
      BY <2>1
    <3> QED BY <3>1, FindStops
  <2> HIDE DEF c
  <2>3. ASSUME NEW j \in 1 .. c - 1 PROVE l[j].id <= id
    <3>1. CASE j = 1
      BY <1>3, <2>1, <3>1
    <3>2. CASE j # 1
      <4>1. j \in 2 .. c - 1 /\ l[j] \in R
        BY <3>2, <2>1, <2>2
      <4> QED BY <2>2, <4>1
    <3> QED BY <3>1, <3>2
  <2> QED BY <2>1, <2>2, <2>3
<1> QED BY <1>1, <1>2, <1>3

\* t is l with e linked in at p.
Inserted(t, l, p, e) ==
    /\ Len(t) = Len(l) + 1
    /\ \A j \in 1 .. Len(l) + 1 : t[j] = IF j < p THEN l[j] ELSE IF j = p THEN e ELSE l[j - 1]

\* What linking in does to the sequence.
LEMMA InsertIndex ==
    ASSUME NEW R, NEW l \in Seq(R), NEW e \in R, NEW p \in 1 .. Len(l) + 1
    PROVE  Ext!InsertAt(l, p, e) \in Seq(R) /\ Inserted(Ext!InsertAt(l, p, e), l, p, e)
<1> DEFINE a == SubSeq(l, 1, p - 1)
           b == SubSeq(l, p, Len(l))
           ae == a \o <<e>>
           t == ae \o b
<1>1. a \in Seq(R) /\ Len(a) = p - 1 /\ \A j \in 1 .. p - 1 : a[j] = l[j]
  BY SubSeqProperties
<1>2. b \in Seq(R) /\ Len(b) = Len(l) - p + 1 /\ \A j \in 1 .. Len(l) - p + 1 : b[j] = l[p - 1 + j]
  BY SubSeqProperties
<1>3. Ext!InsertAt(l, p, e) = t
  BY DEF Ext!InsertAt
<1> HIDE DEF a, b
<1>4. ae \in Seq(R) /\ Len(ae) = p /\ \A j \in 1 .. p : ae[j] = IF j < p THEN l[j] ELSE e
  BY <1>1
<1> HIDE DEF ae
<1>5. /\ t \in Seq(R) /\ Len(t) = Len(ae) + Len(b)
      /\ \A j \in 1 .. Len(ae) + Len(b) : t[j] = IF j <= Len(ae) THEN ae[j] ELSE b[j - Len(ae)]
  BY <1>2, <1>4, ConcatProperties, Zenon
<1> HIDE DEF t
<1>6. ASSUME NEW j \in 1 .. Len(l) + 1
      PROVE  t[j] = IF j < p THEN l[j] ELSE IF j = p THEN e ELSE l[j - 1]
  <2>1. CASE j <= p
    BY <1>2, <1>4, <1>5, <2>1
  <2>2. CASE j > p
    <3>1. j - p \in 1 .. Len(l) - p + 1 /\ p - 1 + (j - p) = j - 1
      BY <2>2
    <3>2. t[j] = b[j - p]
      BY <1>2, <1>4, <1>5, <2>2
    <3> QED BY <1>2, <2>2, <3>1, <3>2
  <2> QED BY <2>1, <2>2
<1>7. Len(t) = Len(l) + 1
  BY <1>2, <1>4, <1>5
<1>8. Inserted(t, l, p, e)
  BY <1>6, <1>7, Zenon DEF Inserted
<1> QED BY <1>3, <1>5, <1>8, Zenon

\* What unlinking does to it.
LEMMA RemoveIndex ==
    ASSUME NEW R, NEW l \in Seq(R), NEW p \in 1 .. Len(l)
    PROVE  /\ Ext!RemoveAt(l, p) \in Seq(R)
           /\ Len(Ext!RemoveAt(l, p)) = Len(l) - 1
           /\ \A j \in 1 .. Len(l) - 1 : Ext!RemoveAt(l, p)[j] = IF j < p THEN l[j] ELSE l[j + 1]
<1> DEFINE a == SubSeq(l, 1, p - 1)
           b == SubSeq(l, p + 1, Len(l))
           t == a \o b
<1>1. a \in Seq(R) /\ Len(a) = p - 1 /\ \A j \in 1 .. p - 1 : a[j] = l[j]
  BY SubSeqProperties
<1>2. b \in Seq(R) /\ Len(b) = Len(l) - p /\ \A j \in 1 .. Len(l) - p : b[j] = l[p + j]
  BY SubSeqProperties
<1>3. Ext!RemoveAt(l, p) = t
  BY DEF Ext!RemoveAt
<1> HIDE DEF a, b
<1>4. /\ t \in Seq(R) /\ Len(t) = Len(a) + Len(b)
      /\ \A j \in 1 .. Len(a) + Len(b) : t[j] = IF j <= Len(a) THEN a[j] ELSE b[j - Len(a)]
  BY <1>1, <1>2, ConcatProperties, Zenon
<1>5. Len(a) + Len(b) = Len(l) - 1
  BY <1>1, <1>2
<1>6. /\ t \in Seq(R) /\ Len(t) = Len(l) - 1
      /\ \A j \in 1 .. Len(l) - 1 : t[j] = IF j <= p - 1 THEN a[j] ELSE b[j - (p - 1)]
  BY <1>1, <1>4, <1>5, Zenon
<1> HIDE DEF t
<1>7. ASSUME NEW j \in 1 .. Len(l) - 1 PROVE t[j] = IF j < p THEN l[j] ELSE l[j + 1]
  <2>1. CASE j < p
    <3>1. j \in 1 .. p - 1 /\ j <= p - 1
      BY <2>1
    <3> QED BY <1>1, <1>6, <2>1, <3>1
  <2>2. CASE j >= p
    <3>1. j - (p - 1) \in 1 .. Len(l) - p /\ p + (j - (p - 1)) = j + 1
      BY <2>2
    <3>2. t[j] = b[j - (p - 1)]
      BY <1>6, <2>2
    <3> QED BY <1>2, <2>2, <3>1, <3>2
  <2> QED BY <2>1, <2>2
<1> QED BY <1>3, <1>6, <1>7

\* The ids of a list do not descend; they ascend.
Sorted(l) == \A i, j \in 1 .. Len(l) : i < j => l[i].id <= l[j].id
Ascending(l) == \A i, j \in 1 .. Len(l) : i < j => l[i].id < l[j].id

\* cis_list_add keeps a sorted list sorted, also with a node of an id that is there.
LEMMA AddKeepsSorted ==
    ASSUME NEW R, \A r \in R : r.id \in Nat, NEW l \in Seq(R), NEW e \in R, Sorted(l)
    PROVE  cis_list_add(l, e) \in Seq(R) /\ Sorted(cis_list_add(l, e))
<1>1. PICK p \in 1 .. Len(l) + 1 :
        /\ cis_list_add(l, e) = Ext!InsertAt(l, p, e)
        /\ \A j \in 1 .. p - 1 : l[j].id <= e.id
        /\ p <= Len(l) => l[p].id >= e.id
  BY AddPlace DEF cis_list_add
<1> DEFINE t == cis_list_add(l, e)
<1>2. /\ t \in Seq(R) /\ Len(t) = Len(l) + 1
      /\ \A j \in 1 .. Len(l) + 1 : t[j] = IF j < p THEN l[j] ELSE IF j = p THEN e ELSE l[j - 1]
  <2>1. t \in Seq(R) /\ Inserted(t, l, p, e)
    BY <1>1, InsertIndex, Zenon
  <2> HIDE DEF t
  <2> QED BY <2>1, Zenon DEF Inserted
<1> HIDE DEF t
<1>3. \A j \in 1 .. Len(l) : l[j].id \in Nat /\ (j >= p => l[j].id >= e.id)
  BY <1>1 DEF Sorted
<1>4. ASSUME NEW i \in 1 .. Len(t), NEW j \in 1 .. Len(t), i < j PROVE t[i].id <= t[j].id
  <2>0. i \in 1 .. Len(l) + 1 /\ j \in 1 .. Len(l) + 1 /\ e.id \in Nat
    BY <1>2
  <2>1. CASE j < p
    <3>1. t[i] = l[i] /\ t[j] = l[j] /\ i \in 1 .. Len(l) /\ j \in 1 .. Len(l)
      BY <1>2, <1>4, <2>0, <2>1
    <3> QED BY <1>4, <3>1 DEF Sorted
  <2>2. CASE j = p
    <3>1. t[i] = l[i] /\ t[j] = e /\ i \in 1 .. p - 1 /\ i \in 1 .. Len(l)
      BY <1>2, <1>4, <2>0, <2>2
    <3> QED BY <1>1, <1>3, <3>1
  <2>3. CASE j > p /\ i < p
    <3>1. t[i] = l[i] /\ t[j] = l[j - 1] /\ i \in 1 .. p - 1 /\ i \in 1 .. Len(l)
          /\ j - 1 \in 1 .. Len(l) /\ j - 1 >= p
      BY <1>2, <1>4, <2>0, <2>3
    <3>2. l[i].id \in Nat /\ l[j - 1].id \in Nat
      BY <1>3, <3>1
    <3>3. l[i].id <= e.id /\ e.id <= l[j - 1].id
      BY <1>1, <1>3, <3>1
    <3> QED BY <2>0, <3>1, <3>2, <3>3
  <2>4. CASE i = p
    <3>1. t[i] = e /\ t[j] = l[j - 1] /\ j - 1 \in 1 .. Len(l) /\ j - 1 >= p
      BY <1>2, <1>4, <2>0, <2>4
    <3> QED BY <1>3, <3>1
  <2>5. CASE i > p
    <3>1. t[i] = l[i - 1] /\ t[j] = l[j - 1] /\ i - 1 \in 1 .. Len(l)
          /\ j - 1 \in 1 .. Len(l) /\ i - 1 < j - 1
      BY <1>2, <1>4, <2>0, <2>5
    <3> QED BY <3>1 DEF Sorted
  <2> QED BY <1>4, <2>0, <2>1, <2>2, <2>3, <2>4, <2>5
<1> QED BY <1>2, <1>4 DEF t, Sorted

\* With a new id, the ids ascend as they did.  The new list has the nodes of the old
\* one and the new one.
LEMMA AddKeepsAscending ==
    ASSUME NEW R, \A r \in R : r.id \in Nat, NEW l \in Seq(R), NEW e \in R, Ascending(l),
           \A i \in 1 .. Len(l) : l[i].id # e.id
    PROVE  /\ cis_list_add(l, e) \in Seq(R) /\ Ascending(cis_list_add(l, e))
           /\ \A j \in 1 .. Len(cis_list_add(l, e)) :
                 \/ cis_list_add(l, e)[j] = e
                 \/ \E i \in 1 .. Len(l) : cis_list_add(l, e)[j] = l[i]
<1>1. PICK p \in 1 .. Len(l) + 1 :
        /\ cis_list_add(l, e) = Ext!InsertAt(l, p, e)
        /\ \A j \in 1 .. p - 1 : l[j].id <= e.id
        /\ p <= Len(l) => l[p].id >= e.id
  BY AddPlace DEF cis_list_add
<1> DEFINE t == cis_list_add(l, e)
<1>2. /\ t \in Seq(R) /\ Len(t) = Len(l) + 1
      /\ \A j \in 1 .. Len(l) + 1 : t[j] = IF j < p THEN l[j] ELSE IF j = p THEN e ELSE l[j - 1]
  <2>1. t \in Seq(R) /\ Inserted(t, l, p, e)
    BY <1>1, InsertIndex, Zenon
  <2> HIDE DEF t
  <2> QED BY <2>1, Zenon DEF Inserted
<1> HIDE DEF t
<1>3. \A j \in 1 .. Len(l) :
        l[j].id \in Nat /\ (j >= p => l[j].id > e.id) /\ (j < p => l[j].id < e.id)
  BY <1>1 DEF Ascending
<1>4. ASSUME NEW i \in 1 .. Len(t), NEW j \in 1 .. Len(t), i < j PROVE t[i].id < t[j].id
  <2>0. i \in 1 .. Len(l) + 1 /\ j \in 1 .. Len(l) + 1 /\ e.id \in Nat
    BY <1>2
  <2>1. CASE j < p
    <3>1. t[i] = l[i] /\ t[j] = l[j] /\ i \in 1 .. Len(l) /\ j \in 1 .. Len(l)
      BY <1>2, <1>4, <2>0, <2>1
    <3> QED BY <1>4, <3>1 DEF Ascending
  <2>2. CASE j = p
    <3>1. t[i] = l[i] /\ t[j] = e /\ i \in 1 .. p - 1 /\ i \in 1 .. Len(l)
      BY <1>2, <1>4, <2>0, <2>2
    <3> QED BY <1>1, <1>3, <3>1
  <2>3. CASE j > p /\ i < p
    <3>1. t[i] = l[i] /\ t[j] = l[j - 1] /\ i \in 1 .. p - 1 /\ i \in 1 .. Len(l)
          /\ j - 1 \in 1 .. Len(l) /\ j - 1 >= p
      BY <1>2, <1>4, <2>0, <2>3
    <3>2. l[i].id \in Nat /\ l[j - 1].id \in Nat
      BY <1>3, <3>1
    <3>3. l[i].id < e.id /\ e.id < l[j - 1].id
      BY <1>3, <2>3, <3>1
    <3>4. \A x, y, z \in Nat : x < y /\ y < z => x < z
      OBVIOUS
    <3>5. l[i].id < l[j - 1].id
      BY <2>0, <3>2, <3>3, <3>4, Zenon
    <3> QED BY <3>1, <3>5, Zenon
  <2>4. CASE i = p
    <3>1. t[i] = e /\ t[j] = l[j - 1] /\ j - 1 \in 1 .. Len(l) /\ j - 1 >= p
      BY <1>2, <1>4, <2>0, <2>4
    <3> QED BY <1>3, <3>1
  <2>5. CASE i > p
    <3>1. t[i] = l[i - 1] /\ t[j] = l[j - 1] /\ i - 1 \in 1 .. Len(l)
          /\ j - 1 \in 1 .. Len(l) /\ i - 1 < j - 1
      BY <1>2, <1>4, <2>0, <2>5
    <3> QED BY <3>1 DEF Ascending
  <2> QED BY <1>4, <2>0, <2>1, <2>2, <2>3, <2>4, <2>5
<1>5. ASSUME NEW j \in 1 .. Len(t) PROVE t[j] = e \/ \E i \in 1 .. Len(l) : t[j] = l[i]
  <2>1. CASE j < p
    <3>1. j \in 1 .. Len(l) /\ t[j] = l[j]
      BY <1>1, <1>2, <2>1
    <3> QED BY <3>1
  <2>2. CASE j = p
    BY <1>1, <1>2, <2>2
  <2>3. CASE j > p
    <3>1. j - 1 \in 1 .. Len(l) /\ t[j] = l[j - 1]
      BY <1>1, <1>2, <2>3
    <3> QED BY <3>1
  <2> QED BY <2>1, <2>2, <2>3
<1> QED BY <1>2, <1>4, <1>5 DEF t, Ascending

\* cis_list_find returns a node of the id, and NULL only if there is none.
LEMMA FindIsRight ==
    ASSUME NEW R, \A r \in R : r.id \in Nat, NEW l \in Seq(R), NEW id \in Nat, Sorted(l)
    PROVE  \/ /\ cis_list_find(l, id) = 0
              /\ \A j \in 1 .. Len(l) : l[j].id # id
           \/ cis_list_find(l, id) \in 1 .. Len(l) /\ l[cis_list_find(l, id)].id = id
<1> DEFINE c == NotSmallerFrom(l, 1, id)
<1>1. /\ c \in 1 .. Len(l) + 1
      /\ c <= Len(l) => l[c].id >= id
      /\ \A j \in 1 .. c - 1 : l[j].id < id
  BY FindStops
<1>2. cis_list_find(l, id) = IF c <= Len(l) /\ l[c].id = id THEN c ELSE 0
  BY DEF cis_list_find
<1> HIDE DEF c
<1>3. CASE c <= Len(l) /\ l[c].id = id
  BY <1>1, <1>2, <1>3
<1>4. CASE ~(c <= Len(l) /\ l[c].id = id)
  <2>1. ASSUME NEW j \in 1 .. Len(l), l[j].id = id PROVE FALSE
    <3>1. ~(j < c)
      BY <1>1, <2>1
    <3>2. c <= Len(l) /\ l[c].id > id
      BY <1>1, <1>4, <3>1
    <3> QED BY <1>1, <2>1, <3>1, <3>2 DEF Sorted
  <2> QED BY <1>2, <1>4, <2>1
<1> QED BY <1>3, <1>4

\* And so does the search of cis_list_remove, which starts behind the head.
LEMMA RemoveIsRight ==
    ASSUME NEW R, \A r \in R : r.id \in Nat, NEW l \in Seq(R), NEW id \in Nat, Sorted(l)
    PROVE  \/ /\ RemovePosition(l, id) = 0
              /\ \A j \in 1 .. Len(l) : l[j].id # id
           \/ RemovePosition(l, id) \in 1 .. Len(l) /\ l[RemovePosition(l, id)].id = id
<1>1. CASE l = << >>
  BY <1>1 DEF RemovePosition
<1>2. CASE l # << >> /\ l[1].id = id
  BY <1>2, EmptySeq DEF RemovePosition
<1>3. CASE l # << >> /\ l[1].id # id
  <2> DEFINE c == NotSmallerFrom(l, 2, id)
  <2>0. Len(l) \in Nat /\ Len(l) >= 1
    BY <1>3, EmptySeq
  <2>1. /\ c \in 2 .. Len(l) + 1
        /\ c <= Len(l) => l[c].id >= id
        /\ \A j \in 2 .. c - 1 : l[j].id < id
    <3>1. 2 <= Len(l) + 1
      BY <2>0
    <3> QED BY <3>1, FindStops
  <2>2. RemovePosition(l, id) = IF c <= Len(l) /\ l[c].id = id THEN c ELSE 0
    BY <1>3 DEF RemovePosition
  <2> HIDE DEF c
  <2>3. CASE c <= Len(l) /\ l[c].id = id
    BY <2>1, <2>2, <2>3
  <2>4. CASE ~(c <= Len(l) /\ l[c].id = id)
    <3>1. ASSUME NEW j \in 1 .. Len(l), l[j].id = id PROVE FALSE
      <4>1. j # 1 /\ ~(j < c)
        BY <1>3, <2>1, <3>1
      <4>2. c <= Len(l) /\ l[c].id > id
        BY <2>1, <2>4, <4>1
      <4> QED BY <2>1, <3>1, <4>1, <4>2 DEF Sorted
    <3> QED BY <2>2, <2>4, <3>1
  <2> QED BY <2>3, <2>4
<1> QED BY <1>1, <1>2, <1>3

\* What cis_list_find_u16 returns, if anything, is a node with that message id.
LEMMA FoundByMessageId ==
    ASSUME NEW R, NEW l \in Seq(R), NEW id \in Nat, cis_list_find_u16(l, id) # 0
    PROVE  /\ cis_list_find_u16(l, id) \in 1 .. Len(l)
           /\ l[cis_list_find_u16(l, id)].id % Width = id
<1> DEFINE S == {j \in 1 .. Len(l) : l[j].id % Width >= id}
           C(i) == /\ i <= Len(l) => l[i].id % Width >= id
                   /\ \A j \in 1 .. i - 1 : ~(l[j].id % Width >= id)
           c == CHOOSE x \in 1 .. Len(l) + 1 : C(x)
<1>1. Len(l) \in Nat /\ 1 <= Len(l) + 1
  OBVIOUS
<1> HIDE DEF S
<1>2. PICK i \in 1 .. Len(l) + 1 : (i <= Len(l) => i \in S) /\ \A j \in 1 .. i - 1 : j \notin S
  <2>1. ASSUME NEW k \in Nat, k <= Len(l) + 1
        PROVE  \E i \in k .. Len(l) + 1 : (i <= Len(l) => i \in S) /\ \A j \in k .. i - 1 : j \notin S
    BY <1>1, <2>1, FirstPosition
  <2> QED BY <1>1, <2>1
<1>3. C(i)
  BY <1>2 DEF S
<1>4. c \in 1 .. Len(l) + 1
  BY <1>3
<1>5. cis_list_find_u16(l, id) = IF c <= Len(l) /\ l[c].id % Width = id THEN c ELSE 0
  BY DEF cis_list_find_u16, FirstFrom
<1> HIDE DEF c
<1> QED BY <1>1, <1>4, <1>5

\* Ids that ascend do not descend.
LEMMA AscendingIsSorted ==
    ASSUME NEW R, \A r \in R : r.id \in Nat, NEW l \in Seq(R), Ascending(l)
    PROVE  Sorted(l)
  BY DEF Ascending, Sorted

\* What cis_list_remove leaves is the list, or the list without the node it found.
LEMMA RemoveShape ==
    ASSUME NEW R, \A r \in R : r.id \in Nat, NEW l \in Seq(R), NEW id \in Nat, Sorted(l)
    PROVE  /\ cis_list_remove(l, id) \in Seq(R)
           /\ Len(cis_list_remove(l, id)) <= Len(l)
           /\ \E f \in [1 .. Len(cis_list_remove(l, id)) -> 1 .. Len(l)] :
                 /\ \A i, j \in 1 .. Len(cis_list_remove(l, id)) : i < j => f[i] < f[j]
                 /\ \A i \in 1 .. Len(cis_list_remove(l, id)) : cis_list_remove(l, id)[i] = l[f[i]]
<1> DEFINE k == RemovePosition(l, id)
           t == cis_list_remove(l, id)
<1>1. k = 0 \/ k \in 1 .. Len(l)
  BY RemoveIsRight
<1>2. CASE k = 0
  <2>1. t = l
    BY <1>2 DEF cis_list_remove
  <2> DEFINE f == [i \in 1 .. Len(l) |-> i]
  <2>2. /\ f \in [1 .. Len(l) -> 1 .. Len(l)]
        /\ \A i, j \in 1 .. Len(l) : i < j => f[i] < f[j]
        /\ \A i \in 1 .. Len(l) : l[i] = l[f[i]]
    OBVIOUS
  <2> HIDE DEF f, k
  <2>3. \E g \in [1 .. Len(l) -> 1 .. Len(l)] :
           /\ \A i, j \in 1 .. Len(l) : i < j => g[i] < g[j]
           /\ \A i \in 1 .. Len(l) : l[i] = l[g[i]]
    BY <2>2
  <2> QED BY <2>1, <2>3
<1>3. CASE k \in 1 .. Len(l)
  <2>1. t = Ext!RemoveAt(l, k)
    BY <1>3 DEF cis_list_remove
  <2> HIDE DEF k
  <2>2. /\ t \in Seq(R) /\ Len(t) = Len(l) - 1
        /\ \A j \in 1 .. Len(l) - 1 : t[j] = IF j < k THEN l[j] ELSE l[j + 1]
    BY <1>3, <2>1, RemoveIndex
  <2> DEFINE f == [i \in 1 .. Len(t) |-> IF i < k THEN i ELSE i + 1]
  <2> HIDE DEF t
  <2>3. f \in [1 .. Len(t) -> 1 .. Len(l)]
    BY <1>3, <2>2
  <2>4. \A i, j \in 1 .. Len(t) : i < j => f[i] < f[j]
    BY <1>3, <2>2
  <2>5. \A i \in 1 .. Len(t) : t[i] = l[f[i]]
    BY <1>3, <2>2
  <2> HIDE DEF f
  <2>6. \E g \in [1 .. Len(t) -> 1 .. Len(l)] :
           /\ \A i, j \in 1 .. Len(t) : i < j => g[i] < g[j]
           /\ \A i \in 1 .. Len(t) : t[i] = l[g[i]]
    BY <2>3, <2>4, <2>5
  <2>7. Len(t) <= Len(l)
    BY <2>2
  <2> QED BY <2>2, <2>6, <2>7 DEF t
<1> QED BY <1>1, <1>2, <1>3

\* cis_list_remove keeps a sorted list sorted.
LEMMA RemoveKeepsSorted ==
    ASSUME NEW R, \A r \in R : r.id \in Nat, NEW l \in Seq(R), NEW id \in Nat, Sorted(l)
    PROVE  cis_list_remove(l, id) \in Seq(R) /\ Sorted(cis_list_remove(l, id))
<1> DEFINE t == cis_list_remove(l, id)
<1>1. PICK f \in [1 .. Len(t) -> 1 .. Len(l)] :
        /\ \A i, j \in 1 .. Len(t) : i < j => f[i] < f[j]
        /\ \A i \in 1 .. Len(t) : t[i] = l[f[i]]
  BY RemoveShape
<1>2. t \in Seq(R)
  BY RemoveShape
<1> HIDE DEF t
<1>3. ASSUME NEW i \in 1 .. Len(t), NEW j \in 1 .. Len(t), i < j PROVE t[i].id <= t[j].id
  <2>1. f[i] \in 1 .. Len(l) /\ f[j] \in 1 .. Len(l) /\ f[i] < f[j]
    BY <1>1, <1>3
  <2> QED BY <1>1, <2>1 DEF Sorted
<1>4. Sorted(t)
  BY <1>3, Zenon DEF Sorted
<1> QED BY <1>2, <1>4 DEF t

\* The ids still ascend, and no node is new.
LEMMA RemoveKeepsAscending ==
    ASSUME NEW R, \A r \in R : r.id \in Nat, NEW l \in Seq(R), NEW id \in Nat, Ascending(l)
    PROVE  /\ cis_list_remove(l, id) \in Seq(R) /\ Ascending(cis_list_remove(l, id))
           /\ \A j \in 1 .. Len(cis_list_remove(l, id)) :
                 \E i \in 1 .. Len(l) : cis_list_remove(l, id)[j] = l[i]
<1> DEFINE t == cis_list_remove(l, id)
<1>0. Sorted(l)
  BY AscendingIsSorted
<1>1. PICK f \in [1 .. Len(t) -> 1 .. Len(l)] :
        /\ \A i, j \in 1 .. Len(t) : i < j => f[i] < f[j]
        /\ \A i \in 1 .. Len(t) : t[i] = l[f[i]]
  BY <1>0, RemoveShape
<1>2. t \in Seq(R)
  BY <1>0, RemoveShape
<1> HIDE DEF t
<1>3. ASSUME NEW i \in 1 .. Len(t), NEW j \in 1 .. Len(t), i < j PROVE t[i].id < t[j].id
  <2>1. f[i] \in 1 .. Len(l) /\ f[j] \in 1 .. Len(l) /\ f[i] < f[j]
    BY <1>1, <1>3
  <2> QED BY <1>1, <2>1 DEF Ascending
<1>4. Ascending(t)
  BY <1>3, Zenon DEF Ascending
<1>5. \A j \in 1 .. Len(t) : \E i \in 1 .. Len(l) : t[j] = l[i]
  <2>1. \A j \in 1 .. Len(t) : f[j] \in 1 .. Len(l)
    BY <1>1
  <2> QED BY <1>1, <2>1, Zenon
<1> QED BY <1>2, <1>4, <1>5 DEF t
-----------------------------------------------------------------------------
\* A list that is only changed by cis_list_add and cis_list_remove is sorted.
THEOREM ListIsSorted == ListSpec => [](ListTypeOK /\ Sorted(list))
<1> DEFINE R == [node : Elements, id : Ids]
<1>0. \A r \in R : r.id \in Nat
  BY ListAssumption
<1>1. ListInit => ListTypeOK /\ Sorted(list)
  BY DEF ListInit, ListTypeOK, Sorted
<1>2. ListTypeOK /\ Sorted(list) /\ [ListNext]_listVars => (ListTypeOK /\ Sorted(list))'
  <2> SUFFICES ASSUME ListTypeOK, Sorted(list), [ListNext]_listVars
               PROVE  list' \in Seq(R) /\ Sorted(list')
    BY DEF ListTypeOK, Sorted
  <2>0. list \in Seq(R)
    BY DEF ListTypeOK
  <2> HIDE DEF R
  <2>1. CASE ListAdd
    <3>1. PICK n \in Elements, id \in Ids : list' = cis_list_add(list, [node |-> n, id |-> id])
      BY <2>1 DEF ListAdd
    <3>2. [node |-> n, id |-> id] \in R
      BY DEF R
    <3> QED BY <1>0, <2>0, <3>1, <3>2, AddKeepsSorted
  <2>2. CASE ListRemove
    <3>1. PICK id \in Ids : list' = cis_list_remove(list, id)
      BY <2>2 DEF ListRemove
    <3>2. id \in Nat
      BY ListAssumption
    <3> QED BY <1>0, <2>0, <3>1, <3>2, RemoveKeepsSorted
  <2>3. CASE UNCHANGED listVars
    BY <2>0, <2>3 DEF listVars
  <2> QED BY <2>1, <2>2, <2>3 DEF ListNext
<1> QED BY <1>1, <1>2, PTL DEF ListSpec

\* Both searches, which stop early, find what is there, in a list of any length.
THEOREM SearchesFind == ListSpec => []FindFinds
<1>1. ListTypeOK /\ Sorted(list) => FindFinds
  <2> SUFFICES ASSUME ListTypeOK, Sorted(list), NEW id \in Ids
               PROVE  LET i == cis_list_find(list, id)
                          k == RemovePosition(list, id)
                          present == \E j \in DOMAIN list : list[j].id = id
                      IN  IF present THEN /\ i \in DOMAIN list /\ list[i].id = id
                                          /\ k \in DOMAIN list /\ list[k].id = id
                          ELSE i = 0 /\ k = 0
    BY DEF FindFinds
  <2> DEFINE R == [node : Elements, id : Ids]
  <2>1. id \in Nat /\ list \in Seq(R) /\ \A r \in R : r.id \in Nat
    BY ListAssumption DEF ListTypeOK
  <2> HIDE DEF R
  <2>2. DOMAIN list = 1 .. Len(list) /\ 0 \notin 1 .. Len(list)
    BY <2>1
  <2>3. \/ /\ cis_list_find(list, id) = 0
           /\ \A j \in 1 .. Len(list) : list[j].id # id
        \/ cis_list_find(list, id) \in 1 .. Len(list) /\ list[cis_list_find(list, id)].id = id
    BY <2>1, FindIsRight
  <2>4. \/ /\ RemovePosition(list, id) = 0
           /\ \A j \in 1 .. Len(list) : list[j].id # id
        \/ RemovePosition(list, id) \in 1 .. Len(list) /\ list[RemovePosition(list, id)].id = id
    BY <2>1, RemoveIsRight
  <2> QED BY <2>2, <2>3, <2>4, Zenon
<1> QED BY <1>1, ListIsSorted, PTL
-----------------------------------------------------------------------------
USE WidthAssumption, RequestsAssumption

\* The types, with those the type invariant leaves out: the application makes one call
\* at a time.
TypesInv ==
    /\ RequestsTypeOK
    /\ call \in Seq(Notices) /\ Len(call) <= 1
    /\ accepted \in SUBSET [id : Nat, uri : Uris]
    /\ reports \in SUBSET Nat
    /\ serverMid \in 1 .. MaxMessages + 1

\* The lists ascend, and what the application is about to add comes behind.
OrderInv ==
    /\ Ascending(requestList) /\ Ascending(notifyList)
    /\ \A i \in 1 .. Len(notifyList) : notifyList[i].id <= nextNotifyId
    /\ call # << >> => /\ call[1].id = nextNotifyId
                       /\ \A i \in 1 .. Len(notifyList) : notifyList[i].id < nextNotifyId

ListInv == TypesInv /\ OrderInv

\* What the server asks and the application answers is of the known kinds.
LEMMA KindsKnown ==
    /\ Kinds \subseteq AllKinds /\ Results \subseteq AllResults
    /\ Values \subseteq AllValues /\ "none" \in AllValues
  BY DEF AllKinds, AllValues

\* A report has room for a value.
LEMMA CapacityIsPositive == \A uri \in Uris : Capacity(uri) \in Nat \ {0}
  BY DEF Capacity

\* The two lists hold records with ids.
LEMMA ListsTyped ==
    ASSUME TypesInv
    PROVE  /\ requestList \in Seq(Requests) /\ notifyList \in Seq(Notices)
           /\ \A r \in Requests : r.id \in Nat
           /\ \A n \in Notices : n.id \in Nat
  BY DEF TypesInv, RequestsTypeOK, Requests, Notices

\* What an answer does: it confirms an observation, ends one, or touches none; it is
\* sent under the message id of the request, or not at all.
LEMMA AckEffect ==
    ASSUME NEW r \in Requests, NEW n \in Notices, AsynAck(r, n)
    PROVE  /\ \/ observedList' = observedList
              \/ observedList' = observedList \ Observed(r.uri)
              \/ /\ r.type = "observe" /\ n.result = "content"
                 /\ observedList' = (observedList \ {GetObserved(r.uri)})
                                       \cup {[GetObserved(r.uri) EXCEPT !.msgid = r.id]}
           /\ \/ acked' = acked \/ acked' = acked \cup {r.id % Width}
<1>1. r.type \in AllKinds
  BY KindsKnown DEF Requests
<1>2. CASE r.type \in {"read", "discover"}
  <2>1. UNCHANGED observedList /\ (ReadReport(r, n) \/ DiscoverReport(r, n))
    BY <1>2 DEF AsynAck
  <2> QED BY <2>1 DEF ReadReport, DiscoverReport, AsynAckReadData, Sent
<1>3. CASE r.type \in {"write", "execute"}
  <2>1. AsynAckNodata(r)
    BY <1>3 DEF AsynAck
  <2> QED BY <2>1 DEF AsynAckNodata, Sent
<1>4. CASE r.type \in {"observe", "cancel", "params"}
  <2>1. ObserveAck(r, n.result)
    BY <1>4 DEF AsynAck
  <2>2. CASE r.type = "observe"
    BY <2>1, <2>2 DEF ObserveAck, Sent, AsynAckNodata
  <2>3. CASE r.type \in {"cancel", "params"}
    BY <2>1, <2>3 DEF ObserveAck, Sent, AsynAckNodata
  <2> QED BY <1>4, <2>2, <2>3
<1> QED BY <1>1, <1>2, <1>3, <1>4 DEF AllKinds

\* A request counts what was collected for it.
LEMMA CollectedIsNat ==
    ASSUME NEW r \in Requests, NEW n
    PROVE  Collected(r, n) \in Nat
<1>1. r.values \in Nat /\ r.values + 1 \in Nat
  BY DEF Requests
<1>2. CASE r.type = "read"
  BY <1>1, <1>2 DEF Collected
<1>3. CASE r.type = "discover"
  BY <1>1, <1>3 DEF Collected
<1>4. CASE r.type \notin {"read", "discover"}
  BY <1>1, <1>4 DEF Collected
<1> QED BY <1>2, <1>3, <1>4

\* The answer of the application goes to the request it is about, if that is there.
LEMMA ResponseEffect ==
    ASSUME ListInv, NEW n \in Notices, HandleResponse(n)
    PROVE  /\ \/ requestList' = requestList
              \/ requestList' = cis_list_remove(requestList, n.mid)
              \/ \E i \in 1 .. Len(requestList), k \in Nat :
                    requestList' = [requestList EXCEPT ![i].values = k]
           /\ \/ UNCHANGED <<observedList, acked>> /\ event'.type # "RESPONSE_SUCCESS"
              \/ \E i \in 1 .. Len(requestList) :
                    /\ i = cis_list_find(requestList, n.mid)
                    /\ requestList[i].id = n.mid
                    /\ AsynAck(requestList[i], n)
           /\ event' = event \/ \E type \in {"RESPONSE_FAILED", "RESPONSE_SUCCESS"} :
                                  event' = [type |-> type, mid |-> n.mid]
<1> DEFINE i == cis_list_find(requestList, n.mid)
<1>1. /\ requestList \in Seq(Requests) /\ \A r \in Requests : r.id \in Nat
      /\ n.mid \in Nat /\ Sorted(requestList)
  BY ListsTyped, AscendingIsSorted DEF ListInv, OrderInv, Notices
<1>2. i = 0 \/ (i \in 1 .. Len(requestList) /\ requestList[i].id = n.mid)
  BY <1>1, FindIsRight
<1> HIDE DEF i
<1>3. CASE i = 0
  BY <1>3 DEF i, HandleResponse, Event
<1>4. CASE i # 0 /\ n.result = "wronguri"
  BY <1>4 DEF i, HandleResponse, Event
<1>5. CASE i # 0 /\ n.result # "wronguri"
  <2>1. /\ AsynAck(requestList[i], n) /\ AnswerEvent(requestList[i], n)
        /\ \/ requestList' = cis_list_remove(requestList, n.mid)
           \/ requestList' = [requestList EXCEPT ![i].values = Collected(requestList[i], n)]
    BY <1>5 DEF i, HandleResponse
  <2>2. i \in 1 .. Len(requestList) /\ requestList[i].id = n.mid /\ requestList[i] \in Requests
    BY <1>1, <1>2, <1>5
  <2>3. Collected(requestList[i], n) \in Nat
    BY <2>2, CollectedIsNat
  <2>4. event' = event \/ \E type \in {"RESPONSE_FAILED", "RESPONSE_SUCCESS"} :
                              event' = [type |-> type, mid |-> n.mid]
    BY <2>1 DEF AnswerEvent, Event
  <2> QED BY <2>1, <2>2, <2>3, <2>4 DEF i
<1> QED BY <1>3, <1>4, <1>5

\* A request that is handed to the application: it joins the list unless it is there.
Pushed(id, m) ==
    /\ asked' = asked \cup {[id |-> id, kind |-> m.kind, uri |-> m.uri]}
    /\ Push(id, m.kind, m.uri)

\* What becomes of a message of the server: it is answered at once, or the application
\* is asked, under the message id, the id of the observe it repeats, or a new one.
LEMMA MessageEffect ==
    ASSUME TypesInv, ReadMessage
    PROVE  \E m \in messages :
             /\ \/ UNCHANGED <<asked, requestList>> /\ acked' = acked \cup {m.mid}
                \/ m.kind # "observe" /\ UNCHANGED acked /\ Pushed(m.mid, m)
                \/ /\ m.kind = "observe" /\ UNCHANGED <<acked, requestList>>
                   /\ \E i \in 1 .. Len(requestList) :
                         /\ requestList[i].id % Width = m.mid
                         /\ asked' = asked \cup {[id |-> requestList[i].id, kind |-> m.kind,
                                                  uri |-> m.uri]}
                \/ /\ m.kind = "observe" /\ UNCHANGED acked
                   /\ nextObserveNum' = nextObserveNum + 1
                   /\ Pushed((nextObserveNum + 1) * Width + m.mid, m)
             /\ nextObserveNum' = nextObserveNum \/ nextObserveNum' = nextObserveNum + 1
             /\ \/ observedList' = observedList
                \/ observedList' = observedList \cup {GetObserved(m.uri)}
<1>1. PICK m \in messages : ReadRequest(m) \/ ReadObserve(m) \/ ReadCancel(m) \/ ReadParams(m)
  BY DEF ReadMessage
<1>2. CASE ReadRequest(m)
  BY <1>2 DEF ReadRequest, Ask, Pushed
<1>3. CASE ReadObserve(m)
  <2> DEFINE i == cis_list_find_u16(requestList, m.mid)
  <2>1. m.mid \in Nat /\ requestList \in Seq(Requests)
    BY ListsTyped DEF TypesInv, RequestsTypeOK, Messages
  <2>2. i # 0 => i \in 1 .. Len(requestList) /\ requestList[i].id % Width = m.mid
    BY <2>1, FoundByMessageId
  <2> HIDE DEF i
  <2>3. CASE i # 0
    BY <1>3, <2>2, <2>3 DEF i, ReadObserve, Ask
  <2>4. CASE i = 0
    BY <1>3, <2>4 DEF i, ReadObserve, Ask, Pushed
  <2> QED BY <2>3, <2>4
<1>4. CASE ReadCancel(m)
  BY <1>4 DEF ReadCancel, Ask, Pushed
<1>5. CASE ReadParams(m)
  BY <1>5 DEF ReadParams, Ask, Pushed
<1> QED BY <1>1, <1>2, <1>3, <1>4, <1>5

\* A notification changes at most the report of one observation, and sends at most one.
LEMMA NotifyEffect ==
    ASSUME TypesInv, NEW n \in Notices, HandleNotify(n)
    PROVE  /\ \/ observedList' = observedList
              \/ \E o \in observedList, k \in Nat, last \in Nat :
                    /\ k <= Capacity(o.uri)
                    /\ observedList' = (observedList \ {o})
                                          \cup {[o EXCEPT !.report = k, !.lastMid = last]}
           /\ nextMid' \in Nat /\ reports' \in SUBSET Nat
           /\ \E type \in {"NOTIFY_FAILED", "NOTIFY_SUCCESS"} :
                 event' = [type |-> type, mid |-> n.mid]
<1>0. nextMid \in Nat /\ reports \in SUBSET Nat
  BY DEF TypesInv, RequestsTypeOK
<1>1. CASE UNCHANGED <<observedList, nextMid, reports>> /\ Event("NOTIFY_FAILED", n.mid)
  BY <1>0, <1>1 DEF Event
<1>2. ASSUME NEW o \in ByMsgid(n.mid), Report(o, n), Event("NOTIFY_SUCCESS", n.mid),
             n.result # "wronguri"
      PROVE  /\ \/ observedList' = observedList
                \/ \E k \in Nat, last \in Nat :
                      /\ k <= Capacity(o.uri)
                      /\ observedList' = (observedList \ {o})
                                            \cup {[o EXCEPT !.report = k, !.lastMid = last]}
             /\ nextMid' \in Nat /\ reports' \in SUBSET Nat
  <2>1. /\ o \in Observations /\ o.report \in Nat /\ o.report <= Capacity(o.uri)
        /\ Capacity(o.uri) \in Nat /\ o.lastMid \in Nat
    BY CapacityIsPositive DEF ByMsgid, TypesInv, RequestsTypeOK, Observations
  <2> DEFINE report == IF n.value = "valid" THEN o.report + 1 ELSE o.report
  <2>2. ~(n.value = "valid" /\ Full(o)) => report \in Nat /\ report <= Capacity(o.uri)
    BY <2>1 DEF Full
  <2>3. CASE UNCHANGED <<observedList, nextMid, reports>>
    BY <1>0, <2>3
  <2>4. CASE /\ ~(n.value = "valid" /\ Full(o))
             /\ observedList' = (observedList \ {o}) \cup {[o EXCEPT !.report = report]}
             /\ UNCHANGED <<nextMid, reports>>
    <3>1. [o EXCEPT !.report = report] = [o EXCEPT !.report = report, !.lastMid = o.lastMid]
      BY <2>1 DEF Observations
    <3> HIDE DEF report
    <3> QED BY <1>0, <2>1, <2>2, <2>4, <3>1
  <2>5. CASE /\ observedList' = (observedList \ {o})
                                   \cup {[o EXCEPT !.report = 0, !.lastMid = nextMid]}
             /\ nextMid' = nextMid + 1 /\ reports' = reports \cup {nextMid}
    <3>1. 0 \in Nat /\ 0 <= Capacity(o.uri)
      BY <2>1
    <3>2. nextMid' \in Nat /\ reports' \in SUBSET Nat
      BY <1>0, <2>5
    <3> QED BY <1>0, <2>5, <3>1, <3>2
  <2>6. CASE /\ observedList' = (observedList \ {o}) \cup {[o EXCEPT !.report = 0]}
             /\ UNCHANGED <<nextMid, reports>>
    <3>1. [o EXCEPT !.report = 0] = [o EXCEPT !.report = 0, !.lastMid = o.lastMid]
      BY <2>1 DEF Observations
    <3>2. 0 \in Nat /\ 0 <= Capacity(o.uri)
      BY <2>1
    <3> QED BY <1>0, <2>1, <2>6, <3>1, <3>2
  <2> QED BY <1>2, <2>3, <2>4, <2>5, <2>6 DEF Report
<1>3. CASE \E o \in ByMsgid(n.mid) :
             Report(o, n) /\ Event("NOTIFY_SUCCESS", n.mid) /\ n.result # "wronguri"
  BY <1>2, <1>3 DEF Event, ByMsgid
<1> QED BY <1>1, <1>3 DEF HandleNotify

\* The only steps that change the list of requests, and what they do with it.
LEMMA WhoChangesRequests ==
    ASSUME ListInv, [RequestsNext]_vars
    PROVE  \/ requestList' = requestList
           \/ requestList' = << >>
           \/ \E id \in Nat : requestList' = cis_list_remove(requestList, id)
           \/ \E i \in 1 .. Len(requestList), k \in Nat :
                 requestList' = [requestList EXCEPT ![i].values = k]
           \/ /\ ReadMessage
              /\ \E m \in messages :
                    \/ m.kind # "observe" /\ Push(m.mid, m.kind, m.uri)
                    \/ /\ m.kind = "observe" /\ nextObserveNum' = nextObserveNum + 1
                       /\ Push((nextObserveNum + 1) * Width + m.mid, m.kind, m.uri)
<1>1. CASE Handle
  <2>1. CASE Head(notifyList).isResponse
    <3>1. HandleResponse(Head(notifyList)) /\ Head(notifyList) \in Notices
      BY <1>1, <2>1, ListsTyped, HeadTailProperties DEF Handle, ListInv
    <3>2. Head(notifyList).mid \in Nat
      BY <3>1 DEF Notices
    <3> QED BY <3>1, <3>2, ResponseEffect
  <2>2. CASE ~Head(notifyList).isResponse
    BY <1>1, <2>2 DEF Handle
  <2> QED BY <2>1, <2>2
<1>2. CASE \E mid \in 1 .. MaxMessages : Expire(mid)
  <2>1. PICK i \in DOMAIN requestList : requestList' = cis_list_remove(requestList, requestList[i].id)
    BY <1>2 DEF Expire
  <2>2. requestList[i].id \in Nat
    BY ListsTyped DEF ListInv
  <2> QED BY <2>1, <2>2
<1>3. CASE ReadMessage
  <2>1. TypesInv
    BY DEF ListInv
  <2> QED BY <1>3, <2>1, MessageEffect DEF Pushed
<1>4. CASE HandleDone \/ ReadNothing \/ ReadReset \/ Regain \/ EndCall \/ ServerRequest
  BY <1>4 DEF HandleDone, ReadNothing, ReadReset, Regain, EndCall, ServerRequest, pumpVars
<1>5. CASE Respond \/ Notify
  BY <1>5 DEF Respond, Notify, BeginCall, pumpVars
<1>6. CASE Lose
  BY <1>6 DEF Lose
<1>7. CASE UNCHANGED vars
  BY <1>7 DEF vars, pumpVars
<1> QED BY <1>1, <1>2, <1>3, <1>4, <1>5, <1>6, <1>7 DEF RequestsNext, Pump

\* A request that was in the list, and one that has just joined it.
Kept(r) ==
    \E i \in 1 .. Len(requestList) :
        /\ r.id = requestList[i].id
        /\ r.type = requestList[i].type /\ r.uri = requestList[i].uri

Joined(r) ==
    /\ ReadMessage
    /\ \E m \in messages :
          \/ m.kind # "observe" /\ r = [id |-> m.mid, type |-> m.kind, uri |-> m.uri, values |-> 0]
          \/ /\ m.kind = "observe" /\ nextObserveNum' = nextObserveNum + 1
             /\ r = [id |-> (nextObserveNum + 1) * Width + m.mid, type |-> m.kind,
                     uri |-> m.uri, values |-> 0]

\* Push keeps the ids apart: it looks for the id first.
LEMMA PushKeeps ==
    ASSUME ListInv, NEW id \in Nat, NEW kind \in Kinds, NEW uri \in Uris, Push(id, kind, uri)
    PROVE  /\ requestList' \in Seq(Requests) /\ Ascending(requestList')
           /\ \A j \in 1 .. Len(requestList') :
                 \/ Kept(requestList'[j])
                 \/ requestList'[j] = [id |-> id, type |-> kind, uri |-> uri, values |-> 0]
<1> DEFINE r == [id |-> id, type |-> kind, uri |-> uri, values |-> 0]
<1>1. /\ requestList \in Seq(Requests) /\ Ascending(requestList) /\ Sorted(requestList)
      /\ \A x \in Requests : x.id \in Nat
  BY ListsTyped, AscendingIsSorted DEF ListInv, OrderInv
<1>2. CASE requestList' = requestList
  BY <1>1, <1>2 DEF Kept
<1>3. CASE cis_list_find(requestList, id) = 0 /\ requestList' = cis_list_add(requestList, r)
  <2>1. \A i \in 1 .. Len(requestList) : requestList[i].id # id
    BY <1>1, <1>3, FindIsRight
  <2>2. r \in Requests /\ r.id = id
    BY DEF Requests
  <2> HIDE DEF r
  <2>3. /\ cis_list_add(requestList, r) \in Seq(Requests)
        /\ Ascending(cis_list_add(requestList, r))
        /\ \A j \in 1 .. Len(cis_list_add(requestList, r)) :
              \/ cis_list_add(requestList, r)[j] = r
              \/ \E i \in 1 .. Len(requestList) : cis_list_add(requestList, r)[j] = requestList[i]
    BY <1>1, <2>1, <2>2, AddKeepsAscending
  <2> QED BY <1>3, <2>3 DEF Kept, r
<1> QED BY <1>2, <1>3 DEF Push, WithRequest

\* The ids of the requests ascend after every step, and a request in the list was there
\* or has just joined.
LEMMA RequestsStep ==
    ASSUME ListInv, [RequestsNext]_vars
    PROVE  /\ requestList' \in Seq(Requests) /\ Ascending(requestList')
           /\ \A j \in 1 .. Len(requestList') : Kept(requestList'[j]) \/ Joined(requestList'[j])
<1>1. /\ requestList \in Seq(Requests) /\ Ascending(requestList)
      /\ \A x \in Requests : x.id \in Nat
  BY ListsTyped DEF ListInv, OrderInv
<1>2. CASE requestList' = requestList
  BY <1>1, <1>2 DEF Kept
<1>3. CASE requestList' = << >>
  BY <1>3 DEF Ascending
<1>4. ASSUME NEW id \in Nat, requestList' = cis_list_remove(requestList, id)
      PROVE  /\ requestList' \in Seq(Requests) /\ Ascending(requestList')
             /\ \A j \in 1 .. Len(requestList') : Kept(requestList'[j])
  BY <1>1, <1>4, RemoveKeepsAscending DEF Kept
<1>5. ASSUME ReadMessage, NEW m \in messages, NEW id \in Nat, Push(id, m.kind, m.uri),
             \/ m.kind # "observe" /\ id = m.mid
             \/ /\ m.kind = "observe" /\ nextObserveNum' = nextObserveNum + 1
                /\ id = (nextObserveNum + 1) * Width + m.mid
      PROVE  /\ requestList' \in Seq(Requests) /\ Ascending(requestList')
             /\ \A j \in 1 .. Len(requestList') : Kept(requestList'[j]) \/ Joined(requestList'[j])
  <2>1. m.kind \in Kinds /\ m.uri \in Uris
    BY DEF ListInv, TypesInv, RequestsTypeOK, Messages
  <2>2. /\ requestList' \in Seq(Requests) /\ Ascending(requestList')
        /\ \A j \in 1 .. Len(requestList') :
              \/ Kept(requestList'[j])
              \/ requestList'[j] = [id |-> id, type |-> m.kind, uri |-> m.uri, values |-> 0]
    BY <1>5, <2>1, PushKeeps
  <2>3. \A r : r = [id |-> id, type |-> m.kind, uri |-> m.uri, values |-> 0] => Joined(r)
    BY <1>5 DEF Joined
  <2> QED BY <2>2, <2>3
<1>6. \A m \in messages : m.mid \in Nat /\ (nextObserveNum + 1) * Width + m.mid \in Nat
  BY DEF ListInv, TypesInv, RequestsTypeOK, Messages
<1>7. ASSUME NEW i \in 1 .. Len(requestList), NEW k \in Nat,
             requestList' = [requestList EXCEPT ![i].values = k]
      PROVE  /\ requestList' \in Seq(Requests) /\ Ascending(requestList')
             /\ \A j \in 1 .. Len(requestList') : Kept(requestList'[j])
  <2>1. PICK r : r = [requestList[i] EXCEPT !.values = k]
    OBVIOUS
  <2>2. /\ r \in Requests /\ r.id = requestList[i].id
        /\ r.type = requestList[i].type /\ r.uri = requestList[i].uri
    <3>1. PICK q \in Requests : q = requestList[i]
      BY <1>1
    <3>2. r = [q EXCEPT !.values = k]
      BY <2>1, <3>1
    <3>3. r \in Requests /\ r.id = q.id /\ r.type = q.type /\ r.uri = q.uri
      BY <3>2 DEF Requests
    <3> QED BY <3>1, <3>3
  <2>3. requestList' = [requestList EXCEPT ![i] = r]
    BY <1>7, <2>1
  <2>4. requestList' \in Seq(Requests) /\ Len(requestList') = Len(requestList)
    BY <1>1, <2>2, <2>3
  <2>5. \A j \in 1 .. Len(requestList) :
          /\ requestList'[j].id = requestList[j].id
          /\ requestList'[j].type = requestList[j].type
          /\ requestList'[j].uri = requestList[j].uri
    BY <1>1, <2>2, <2>3
  <2>6. Ascending(requestList')
    BY <1>1, <2>4, <2>5 DEF Ascending
  <2> QED BY <2>4, <2>5, <2>6 DEF Kept
<1> QED BY <1>2, <1>3, <1>4, <1>5, <1>6, <1>7, WhoChangesRequests

\* The list of notifications: the pump takes off the head, the application adds behind.
LEMMA NotesStep ==
    ASSUME ListInv, [RequestsNext]_vars
    PROVE  /\ notifyList' \in Seq(Notices) /\ Ascending(notifyList')
           /\ \A j \in 1 .. Len(notifyList') :
                 \/ \E i \in 1 .. Len(notifyList) : notifyList'[j] = notifyList[i]
                 \/ EndCall /\ notifyList'[j] = call[1]
<1>1. /\ notifyList \in Seq(Notices) /\ Ascending(notifyList)
      /\ \A x \in Notices : x.id \in Nat
  BY ListsTyped DEF ListInv, OrderInv
<1>2. CASE notifyList' = notifyList
  BY <1>1, <1>2
<1>3. CASE notifyList' = << >>
  BY <1>3 DEF Ascending
<1>4. CASE Handle
  <2>1. Head(notifyList) \in Notices /\ notifyList' = cis_list_remove(notifyList, Head(notifyList).id)
    BY <1>1, <1>4, HeadTailProperties DEF Handle
  <2>2. PICK id \in Nat : notifyList' = cis_list_remove(notifyList, id)
    BY <1>1, <2>1
  <2> QED BY <1>1, <2>2, RemoveKeepsAscending
<1>5. CASE EndCall
  <2>1. call[1] \in Notices /\ notifyList' = cis_list_add(notifyList, call[1])
    BY <1>5, EmptySeq DEF EndCall, ListInv, TypesInv
  <2>2. \A i \in 1 .. Len(notifyList) : notifyList[i].id # call[1].id
    BY <1>1, <1>5 DEF EndCall, ListInv, OrderInv, TypesInv, RequestsTypeOK
  <2>3. PICK e \in Notices : e = call[1]
    BY <2>1
  <2>4. /\ cis_list_add(notifyList, e) \in Seq(Notices)
        /\ Ascending(cis_list_add(notifyList, e))
        /\ \A j \in 1 .. Len(cis_list_add(notifyList, e)) :
              \/ cis_list_add(notifyList, e)[j] = e
              \/ \E i \in 1 .. Len(notifyList) : cis_list_add(notifyList, e)[j] = notifyList[i]
    BY <1>1, <2>2, <2>3, AddKeepsAscending
  <2> QED BY <1>5, <2>1, <2>3, <2>4
<1>6. CASE HandleDone \/ ReadNothing \/ ReadReset \/ ReadMessage \/ Regain \/ ServerRequest
  BY <1>2, <1>6 DEF HandleDone, ReadNothing, ReadReset, ReadMessage, Regain, ServerRequest, noteVars
<1>7. CASE Respond \/ Notify \/ \E mid \in 1 .. MaxMessages : Expire(mid)
  BY <1>2, <1>7 DEF Respond, Notify, BeginCall, Expire, noteVars
<1>8. CASE Lose
  BY <1>3, <1>8 DEF Lose
<1>9. CASE UNCHANGED vars
  BY <1>2, <1>9 DEF vars, noteVars
<1> QED BY <1>4, <1>5, <1>6, <1>7, <1>8, <1>9 DEF RequestsNext, Pump

\* The call in progress: it was there, or it is the next in number.
LEMMA CallStep ==
    ASSUME ListInv, [RequestsNext]_vars
    PROVE  /\ call' \in Seq(Notices) /\ Len(call') <= 1
           /\ nextNotifyId' \in 0 .. MaxCalls
           /\ \/ UNCHANGED <<call, nextNotifyId>> /\ ~EndCall
              \/ EndCall /\ call' = << >> /\ UNCHANGED nextNotifyId
              \/ /\ call = << >> /\ nextNotifyId' = nextNotifyId + 1 /\ ~EndCall
                 /\ call' # << >> /\ call'[1].id = nextNotifyId + 1
                 /\ UNCHANGED notifyList
<1>1. call \in Seq(Notices) /\ Len(call) <= 1 /\ nextNotifyId \in 0 .. MaxCalls
  BY DEF ListInv, TypesInv, RequestsTypeOK
<1>2. ASSUME NEW isResponse \in BOOLEAN, NEW mid \in Nat, NEW result \in AllResults,
             NEW value \in AllValues, BeginCall(isResponse, mid, result, value)
      PROVE  /\ call' \in Seq(Notices) /\ Len(call') <= 1
             /\ nextNotifyId' \in 0 .. MaxCalls
             /\ call = << >> /\ nextNotifyId' = nextNotifyId + 1
             /\ call' # << >> /\ call'[1].id = nextNotifyId + 1
             /\ UNCHANGED notifyList
  <2> DEFINE n == [id |-> nextNotifyId + 1, isResponse |-> isResponse, mid |-> mid,
                   result |-> result, value |-> value]
  <2>1. n \in Notices /\ n.id = nextNotifyId + 1
    BY <1>1 DEF Notices
  <2>2. /\ call' = <<n>> /\ nextNotifyId' = nextNotifyId + 1 /\ nextNotifyId < MaxCalls
        /\ call = << >> /\ UNCHANGED notifyList
    BY <1>2 DEF BeginCall
  <2> HIDE DEF n
  <2>3. nextNotifyId' \in 0 .. MaxCalls
    BY <1>1, <2>2
  <2> QED BY <2>1, <2>2, <2>3
<1>3. CASE Respond
  <2>1. PICK a \in asked, result \in Results, value \in AllValues :
          BeginCall(TRUE, a.id, result, value)
    BY <1>3, KindsKnown DEF Respond
  <2>2. a.id \in Nat /\ result \in AllResults
    BY KindsKnown DEF ListInv, TypesInv, RequestsTypeOK, Asked
  <2>3. call = << >>
    BY <2>1 DEF BeginCall
  <2> QED BY <1>2, <2>1, <2>2, <2>3 DEF EndCall
<1>4. CASE Notify
  <2>1. PICK a \in accepted, result \in Results, value \in AllValues :
          BeginCall(FALSE, a.id, result, value)
    BY <1>4, KindsKnown DEF Notify
  <2>2. a.id \in Nat /\ result \in AllResults
    BY KindsKnown DEF ListInv, TypesInv
  <2>3. call = << >>
    BY <2>1 DEF BeginCall
  <2> QED BY <1>2, <2>1, <2>2, <2>3 DEF EndCall
<1>5. CASE EndCall
  BY <1>1, <1>5 DEF EndCall
<1>6. CASE UNCHANGED <<call, nextNotifyId>> /\ ~EndCall
  BY <1>1, <1>6
<1>7. CASE UNCHANGED <<call, nextNotifyId>> /\ EndCall
  BY <1>5, <1>7
<1>8. CASE Handle \/ HandleDone \/ ReadNothing \/ ReadReset \/ ReadMessage \/ Regain \/ ServerRequest
  BY <1>6, <1>7, <1>8
  DEF Handle, HandleDone, ReadNothing, ReadReset, ReadMessage, Regain, ServerRequest, noteVars
<1>9. CASE Lose \/ \E mid \in 1 .. MaxMessages : Expire(mid)
  BY <1>6, <1>7, <1>9 DEF Lose, Expire, noteVars
<1>10. CASE UNCHANGED vars
  BY <1>6, <1>7, <1>10 DEF vars, noteVars
<1> QED BY <1>3, <1>4, <1>5, <1>8, <1>9, <1>10 DEF RequestsNext, Pump

\* The observations keep their type, and their reports their capacity.
LEMMA ObservedTyped ==
    ASSUME ListInv, [RequestsNext]_vars
    PROVE  /\ observedList' \in SUBSET Observations
           /\ \A o \in observedList' : o.report <= Capacity(o.uri)
<1>1. /\ observedList \in SUBSET Observations
      /\ \A o \in observedList : o.report <= Capacity(o.uri)
  BY DEF ListInv, TypesInv, RequestsTypeOK
<1>2. ASSUME NEW uri \in Uris
      PROVE  /\ GetObserved(uri) \in Observations
             /\ GetObserved(uri).report <= Capacity(GetObserved(uri).uri)
  BY <1>1, CapacityIsPositive DEF GetObserved, Observed, New, Observations
<1>3. CASE observedList' \subseteq observedList
  BY <1>1, <1>3
<1>4. CASE Handle
  <2>1. Head(notifyList) \in Notices
    BY <1>4, ListsTyped, HeadTailProperties DEF Handle, ListInv
  <2>2. CASE Head(notifyList).isResponse
    <3>1. HandleResponse(Head(notifyList))
      BY <1>4, <2>2 DEF Handle
    <3>2. CASE observedList' = observedList
      BY <1>3, <3>2
    <3>3. ASSUME NEW i \in 1 .. Len(requestList), AsynAck(requestList[i], Head(notifyList))
          PROVE  /\ observedList' \in SUBSET Observations
                 /\ \A o \in observedList' : o.report <= Capacity(o.uri)
      <4>1. requestList[i] \in Requests /\ Head(notifyList) \in Notices
        BY <2>1, ListsTyped DEF ListInv, Notices
      <4>2. requestList[i].uri \in Uris /\ requestList[i].id \in Nat
        BY <4>1 DEF Requests
      <4>3. PICK g : g = GetObserved(requestList[i].uri)
        OBVIOUS
      <4>4. [g EXCEPT !.msgid = requestList[i].id] \in Observations
            /\ [g EXCEPT !.msgid = requestList[i].id].report
                  <= Capacity([g EXCEPT !.msgid = requestList[i].id].uri)
        <5>1. PICK h, id : h = [g EXCEPT !.msgid = id] /\ id = requestList[i].id
          OBVIOUS
        <5>2. g \in Observations /\ g.report <= Capacity(g.uri) /\ id \in Nat
          BY <1>2, <4>2, <4>3, <5>1
        <5>3. h \in Observations /\ h.report = g.report /\ h.uri = g.uri
          BY <5>1, <5>2 DEF Observations
        <5> QED BY <5>1, <5>2, <5>3, Zenon
      <4>5. CASE observedList' = (observedList \ {g})
                                   \cup {[g EXCEPT !.msgid = requestList[i].id]}
        BY <1>1, <4>4, <4>5
      <4> QED BY <1>3, <3>3, <4>1, <4>3, <4>5, AckEffect
    <3> QED BY <2>1, <3>1, <3>2, <3>3, ResponseEffect
  <2>3. CASE ~Head(notifyList).isResponse
    <3>1. HandleNotify(Head(notifyList)) /\ TypesInv
      BY <1>4, <2>3 DEF Handle, ListInv
    <3>2. CASE observedList' = observedList
      BY <1>3, <3>2
    <3>3. ASSUME NEW o \in observedList, NEW k \in Nat, NEW last \in Nat, k <= Capacity(o.uri),
                 observedList' = (observedList \ {o})
                                   \cup {[o EXCEPT !.report = k, !.lastMid = last]}
          PROVE  /\ observedList' \in SUBSET Observations
                 /\ \A x \in observedList' : x.report <= Capacity(x.uri)
      BY <1>1, <3>3 DEF Observations
    <3> QED BY <2>1, <3>1, <3>2, <3>3, NotifyEffect
  <2> QED BY <2>2, <2>3
<1>5. CASE ReadMessage
  <2>1. TypesInv /\ \A m \in messages : m.uri \in Uris
    BY DEF ListInv, TypesInv, RequestsTypeOK, Messages
  <2>2. \A m \in messages : observedList' = observedList \cup {GetObserved(m.uri)} =>
          /\ observedList' \in SUBSET Observations
          /\ \A o \in observedList' : o.report <= Capacity(o.uri)
    BY <1>1, <1>2, <2>1
  <2> QED BY <1>3, <1>5, <2>1, <2>2, MessageEffect
<1>6. CASE ReadReset
  <2>1. PICK mid \in reports : Cancel(mid)
    BY <1>6 DEF ReadReset
  <2> QED BY <1>3, <2>1 DEF Cancel
<1>7. CASE Lose
  BY <1>3, <1>7 DEF Lose
<1>8. CASE HandleDone \/ ReadNothing \/ Regain \/ EndCall \/ ServerRequest
  BY <1>3, <1>8 DEF HandleDone, ReadNothing, Regain, EndCall, ServerRequest, pumpVars
<1>9. CASE Respond \/ Notify \/ \E mid \in 1 .. MaxMessages : Expire(mid)
  BY <1>3, <1>9 DEF Respond, Notify, BeginCall, Expire, pumpVars
<1>10. CASE UNCHANGED vars
  BY <1>3, <1>10 DEF vars, pumpVars
<1> QED BY <1>4, <1>5, <1>6, <1>7, <1>8, <1>9, <1>10 DEF RequestsNext, Pump

\* Events, and the message ids of reports, keep their types.
LEMMA EventTyped ==
    ASSUME ListInv, [RequestsNext]_vars
    PROVE  event' \in Events /\ nextMid' \in Nat /\ reports' \in SUBSET Nat
<1>1. event \in Events /\ nextMid \in Nat /\ reports \in SUBSET Nat
  BY DEF ListInv, TypesInv, RequestsTypeOK
<1>2. None \in Events
  BY DEF None, Events
<1>3. CASE Handle
  <2>1. Head(notifyList) \in Notices /\ TypesInv
    BY <1>3, ListsTyped, HeadTailProperties DEF Handle, ListInv
  <2>2. Head(notifyList).mid \in Nat
    BY <2>1 DEF Notices
  <2>3. CASE Head(notifyList).isResponse
    <3>1. HandleResponse(Head(notifyList)) /\ UNCHANGED <<nextMid, reports>>
      BY <1>3, <2>3 DEF Handle
    <3>2. event' = event \/ \E type \in {"RESPONSE_FAILED", "RESPONSE_SUCCESS"} :
                              event' = [type |-> type, mid |-> Head(notifyList).mid]
      BY <2>1, <3>1, ResponseEffect
    <3>3. event' \in Events
      BY <1>1, <2>2, <3>2 DEF Events
    <3> QED BY <1>1, <3>1, <3>3
  <2>4. CASE ~Head(notifyList).isResponse
    <3>1. HandleNotify(Head(notifyList))
      BY <1>3, <2>4 DEF Handle
    <3>2. /\ nextMid' \in Nat /\ reports' \in SUBSET Nat
          /\ \E type \in {"NOTIFY_FAILED", "NOTIFY_SUCCESS"} :
                event' = [type |-> type, mid |-> Head(notifyList).mid]
      BY <2>1, <3>1, NotifyEffect
    <3> QED BY <2>2, <3>2 DEF Events
  <2> QED BY <2>3, <2>4
<1>4. CASE ReadReset
  <2>1. PICK mid \in reports : Event("RESET", mid)
    BY <1>4 DEF ReadReset
  <2>2. UNCHANGED <<nextMid, reports>>
    BY <1>4 DEF ReadReset, netVars
  <2> QED BY <1>1, <2>1, <2>2 DEF Event, Events
<1>5. CASE HandleDone \/ ReadNothing \/ ReadMessage \/ \E mid \in 1 .. MaxMessages : Expire(mid)
  BY <1>1, <1>2, <1>5 DEF HandleDone, ReadNothing, ReadMessage, Expire, pumpVars, netVars
<1>6. CASE Lose \/ Regain \/ EndCall \/ ServerRequest
  BY <1>1, <1>6 DEF Lose, Regain, EndCall, ServerRequest, pumpVars, netVars
<1>7. CASE Respond \/ Notify
  BY <1>1, <1>7 DEF Respond, Notify, BeginCall, pumpVars, netVars
<1>8. CASE UNCHANGED vars
  BY <1>1, <1>8 DEF vars, pumpVars, netVars
<1> QED BY <1>3, <1>4, <1>5, <1>6, <1>7, <1>8 DEF RequestsNext, Pump

\* What the application was asked, and what it has agreed to.
LEMMA ApplicationTyped ==
    ASSUME ListInv, [RequestsNext]_vars
    PROVE  /\ asked' \in SUBSET Asked /\ accepted' \in SUBSET [id : Nat, uri : Uris]
           /\ nextObserveNum' \in Nat
<1>1. /\ asked \in SUBSET Asked /\ accepted \in SUBSET [id : Nat, uri : Uris]
      /\ nextObserveNum \in Nat
  BY DEF ListInv, TypesInv, RequestsTypeOK
<1>2. CASE ReadMessage
  <2>1. TypesInv /\ \A m \in messages : m \in [mid : Nat, kind : Kinds, uri : Uris]
    BY DEF ListInv, TypesInv, RequestsTypeOK, Messages
  <2>2. \A m \in messages, id \in Nat : [id |-> id, kind |-> m.kind, uri |-> m.uri] \in Asked
    BY <2>1 DEF Asked
  <2>3. \A m \in messages : m.mid \in Nat /\ (nextObserveNum + 1) * Width + m.mid \in Nat
    BY <1>1, <2>1
  <2>4. \A i \in 1 .. Len(requestList) : requestList[i].id \in Nat
    BY <2>1, ListsTyped
  <2>5. UNCHANGED accepted
    BY <1>2 DEF ReadMessage
  <2> QED BY <1>1, <1>2, <2>1, <2>2, <2>3, <2>4, <2>5, MessageEffect DEF Pushed
<1>3. CASE Respond
  <2>1. PICK a \in asked : /\ asked' \subseteq asked
                           /\ accepted' \subseteq accepted \cup {[id |-> a.id, uri |-> a.uri]}
                           /\ UNCHANGED nextObserveNum
    BY <1>3 DEF Respond, BeginCall, pumpVars
  <2>2. [id |-> a.id, uri |-> a.uri] \in [id : Nat, uri : Uris]
    BY <1>1 DEF Asked
  <2> QED BY <1>1, <2>1, <2>2
<1>4. CASE Notify
  BY <1>1, <1>4 DEF Notify, BeginCall, pumpVars
<1>5. CASE Handle \/ HandleDone \/ ReadNothing \/ ReadReset \/ \E mid \in 1 .. MaxMessages : Expire(mid)
  BY <1>1, <1>5 DEF Handle, HandleDone, ReadNothing, ReadReset, Expire, pumpVars, appVars
<1>6. CASE Lose \/ Regain \/ EndCall \/ ServerRequest
  BY <1>1, <1>6 DEF Lose, Regain, EndCall, ServerRequest, pumpVars, appVars
<1>7. CASE UNCHANGED vars
  BY <1>1, <1>7 DEF vars, pumpVars, appVars
<1> QED BY <1>2, <1>3, <1>4, <1>5, <1>6, <1>7 DEF RequestsNext, Pump

\* The rest of the state.
LEMMA RestTyped ==
    ASSUME ListInv, [RequestsNext]_vars
    PROVE  /\ pc' \in {"notify", "rest"} /\ ready' \in BOOLEAN /\ fault' \in BOOLEAN
           /\ losses' \in 0 .. MaxLosses
           /\ messages' \in SUBSET Messages /\ serverMid' \in 1 .. MaxMessages + 1
<1>1. /\ pc \in {"notify", "rest"} /\ ready \in BOOLEAN /\ fault \in BOOLEAN
      /\ losses \in 0 .. MaxLosses
      /\ messages \in SUBSET Messages /\ serverMid \in 1 .. MaxMessages + 1
  BY DEF ListInv, TypesInv, RequestsTypeOK
<1>2. CASE ServerRequest
  <2>1. PICK kind \in Kinds, uri \in Uris :
          messages' = messages \cup {[mid |-> serverMid, kind |-> kind, uri |-> uri]}
    BY <1>2 DEF ServerRequest
  <2>2. /\ serverMid <= MaxMessages /\ serverMid' = serverMid + 1
        /\ UNCHANGED <<pc, ready, fault, losses>>
    BY <1>2 DEF ServerRequest, pumpVars
  <2>3. [mid |-> serverMid, kind |-> kind, uri |-> uri] \in Messages
    BY <1>1, <2>2 DEF Messages
  <2>4. serverMid' \in 1 .. MaxMessages + 1
    BY <1>1, <2>2
  <2> QED BY <1>1, <2>1, <2>2, <2>3, <2>4
<1>3. CASE ReadReset
  <2>1. fault' \in BOOLEAN
    BY <1>1, <1>3 DEF ReadReset, Cancel
  <2> QED BY <1>1, <1>3, <2>1 DEF ReadReset, netVars
<1>4. CASE Lose
  <2>1. losses' \in 0 .. MaxLosses
    BY <1>1, <1>4 DEF Lose
  <2> QED BY <1>1, <1>4, <2>1 DEF Lose
<1>5. CASE Regain
  BY <1>1, <1>5 DEF Regain, netVars
<1>6. CASE Handle \/ HandleDone \/ ReadNothing \/ ReadMessage \/ \E mid \in 1 .. MaxMessages : Expire(mid)
  BY <1>1, <1>6 DEF Handle, HandleDone, ReadNothing, ReadMessage, Expire, pumpVars, netVars
<1>7. CASE Respond \/ Notify \/ EndCall
  BY <1>1, <1>7 DEF Respond, Notify, BeginCall, EndCall, pumpVars, netVars
<1>8. CASE UNCHANGED vars
  BY <1>1, <1>8 DEF vars, pumpVars, netVars
<1> QED BY <1>2, <1>3, <1>4, <1>5, <1>6, <1>7, <1>8 DEF RequestsNext, Pump

\* The order of the two lists survives every step of the two tasks.
LEMMA OrderStep ==
    ASSUME ListInv, [RequestsNext]_vars
    PROVE  OrderInv'
<1>1. /\ Ascending(requestList') /\ Ascending(notifyList')
  BY RequestsStep, NotesStep
<1>2. /\ notifyList \in Seq(Notices) /\ \A n \in Notices : n.id \in Nat
      /\ nextNotifyId \in Nat
  BY ListsTyped DEF ListInv, TypesInv, RequestsTypeOK
<1>3. /\ \A i \in 1 .. Len(notifyList) : notifyList[i].id \in Nat /\ notifyList[i].id <= nextNotifyId
      /\ call # << >> => /\ call[1].id = nextNotifyId
                         /\ \A i \in 1 .. Len(notifyList) : notifyList[i].id < nextNotifyId
  BY <1>2 DEF ListInv, OrderInv
<1>4. \A j \in 1 .. Len(notifyList') :
        \/ \E i \in 1 .. Len(notifyList) : notifyList'[j] = notifyList[i]
        \/ EndCall /\ notifyList'[j] = call[1]
  BY NotesStep
<1>5. CASE UNCHANGED <<call, nextNotifyId>> /\ ~EndCall
  BY <1>1, <1>3, <1>4, <1>5 DEF OrderInv, Ascending
<1>6. CASE EndCall /\ call' = << >> /\ UNCHANGED nextNotifyId
  <2>1. call[1].id = nextNotifyId
    BY <1>3, <1>6 DEF EndCall
  <2>2. \A j \in 1 .. Len(notifyList') : notifyList'[j].id <= nextNotifyId'
    BY <1>2, <1>3, <1>4, <1>6, <2>1
  <2> QED BY <1>1, <1>6, <2>2 DEF OrderInv, Ascending
<1>7. CASE /\ call = << >> /\ nextNotifyId' = nextNotifyId + 1
           /\ call' # << >> /\ call'[1].id = nextNotifyId + 1
           /\ UNCHANGED notifyList
  <2>1. \A j \in 1 .. Len(notifyList') :
           notifyList'[j].id < nextNotifyId' /\ notifyList'[j].id <= nextNotifyId'
    BY <1>2, <1>3, <1>7
  <2> QED BY <1>1, <1>7, <2>1 DEF OrderInv, Ascending
<1> QED BY <1>5, <1>6, <1>7, CallStep

\* Types and order together are inductive.
THEOREM ListInvariant == RequestsSpec => []ListInv
<1>1. RequestsInit => ListInv
  <2> SUFFICES ASSUME RequestsInit PROVE ListInv
    OBVIOUS
  <2>1. RequestsTypeOK
    <3>1. event \in Events
      BY DEF RequestsInit, Events, None
    <3>4. pc \in {"notify", "rest"} /\ ready \in BOOLEAN /\ fault \in BOOLEAN
      BY Zenon DEF RequestsInit
    <3>2. /\ nextObserveNum \in Nat /\ nextMid \in Nat
          /\ nextNotifyId \in 0 .. MaxCalls /\ losses \in 0 .. MaxLosses
      BY DEF RequestsInit
    <3>3. /\ requestList \in Seq(Requests) /\ notifyList \in Seq(Notices)
          /\ observedList = {} /\ call = << >> /\ asked = {} /\ messages = {}
      BY DEF RequestsInit
    <3> QED BY <3>1, <3>2, <3>3, <3>4, Zenon DEF RequestsTypeOK
  <2>2. TypesInv
    BY <2>1 DEF RequestsInit, TypesInv
  <2>3. OrderInv
    BY DEF RequestsInit, OrderInv, Ascending
  <2> QED BY <2>2, <2>3 DEF ListInv
<1>2. ListInv /\ [RequestsNext]_vars => ListInv'
  <2> SUFFICES ASSUME ListInv, [RequestsNext]_vars PROVE ListInv'
    OBVIOUS
  <2>1. call' = << >> \/ call'[1] \in Notices
    BY CallStep, EmptySeq
  <2>2. RequestsTypeOK'
    BY <2>1, RequestsStep, NotesStep, CallStep, ObservedTyped, EventTyped, ApplicationTyped, RestTyped
    DEF RequestsTypeOK
  <2>3. TypesInv'
    BY <2>2, CallStep, EventTyped, ApplicationTyped, RestTyped DEF TypesInv
  <2> QED BY <2>3, OrderStep DEF ListInv
<1> QED BY <1>1, <1>2, PTL DEF RequestsSpec

\* Every variable keeps its type, and a report never holds more values than there is
\* room for.
THEOREM RequestsTypeCorrect == RequestsSpec => []RequestsTypeOK
<1>1. ListInv => RequestsTypeOK
  BY DEF ListInv, TypesInv
<1> QED BY <1>1, ListInvariant, PTL

\* However messages are repeated and answers mixed, the ids in the two lists ascend.
THEOREM IdsStayUnique == RequestsSpec => []IdsAreUnique
<1>1. ListInv => IdsAreUnique
  <2> SUFFICES ASSUME ListInv PROVE IdsAreUnique
    OBVIOUS
  <2>1. DOMAIN requestList = 1 .. Len(requestList) /\ DOMAIN notifyList = 1 .. Len(notifyList)
    BY ListsTyped DEF ListInv
  <2> QED BY <2>1 DEF ListInv, OrderInv, Ascending, IdsAreUnique
<1> QED BY <1>1, ListInvariant, PTL
-----------------------------------------------------------------------------
\* The ids in use: an observe has a number above the message id, everything else has
\* the message id alone.
Numbered(id, kind, num, last) ==
    IF kind = "observe" THEN Width <= id /\ id < (num + 1) * Width ELSE id < last

\* Every request in the list comes from a message of this registration.
MessagesInv ==
    /\ \A m \in messages : m.mid < serverMid
    /\ \A m, n \in messages : m.mid = n.mid => m = n
    /\ \A i \in 1 .. Len(requestList) :
          /\ [mid |-> requestList[i].id % Width, kind |-> requestList[i].type,
              uri |-> requestList[i].uri] \in messages
          /\ Numbered(requestList[i].id, requestList[i].type, nextObserveNum, serverMid)

\* What the application was asked, and not only since this registration, it takes for
\* what the list and the server take it for.
AskedInv ==
    \A a \in asked :
        /\ Numbered(a.id, a.kind, nextObserveNum, serverMid)
        /\ \A i \in 1 .. Len(requestList) :
              a.id = requestList[i].id => a.kind = requestList[i].type /\ a.uri = requestList[i].uri
        /\ \A m \in messages : a.id = m.mid => a.kind = m.kind /\ a.uri = m.uri

\* The notifications on their way.
Pending == {notifyList[i] : i \in 1 .. Len(notifyList)} \cup {call[i] : i \in 1 .. Len(call)}

\* A positive answer to an observe in the list is one that the application has given
\* for its uri.
AgreedInv ==
    \A n \in Pending : n.isResponse = TRUE =>
        /\ n.mid < (nextObserveNum + 1) * Width
        /\ n.result = "content" =>
              \A i \in 1 .. Len(requestList) :
                  requestList[i].id = n.mid /\ requestList[i].type = "observe" =>
                      [id |-> n.mid, uri |-> requestList[i].uri] \in accepted

SourceInv == ListInv /\ MessagesInv /\ AskedInv /\ AgreedInv

\* The id of a new observe: above all ids in use, with the message id in its lower part.
LEMMA NewNumber ==
    ASSUME NEW n \in Nat, NEW mid \in 1 .. MaxMessages
    PROVE  /\ (n + 1) * Width + mid \in Nat
           /\ ((n + 1) * Width + mid) % Width = mid /\ mid % Width = mid
           /\ Width <= (n + 1) * Width /\ (n + 1) * Width <= (n + 1) * Width + mid
           /\ (n + 1) * Width + mid < (n + 2) * Width
<1>0. Width \in Nat /\ Width > 0 /\ mid \in Nat /\ mid < Width
  OBVIOUS
<1> DEFINE x == (n + 1) * Width
<1>1. x \in Nat /\ Width <= x /\ (n + 2) * Width = x + Width
  BY <1>0
<1>2. mid % Width = mid
  BY <1>0
<1>3. (x + mid) % Width = mid
  BY <1>0
<1> QED BY <1>0, <1>1, <1>2, <1>3

\* What the server has sent: nothing new, one more, or, with the lists, forgotten.
LEMMA MessagesStep ==
    ASSUME ListInv, [RequestsNext]_vars
    PROVE  /\ serverMid' \in Nat /\ serverMid <= serverMid'
           /\ nextObserveNum' \in Nat /\ nextObserveNum <= nextObserveNum'
           /\ accepted \subseteq accepted'
           /\ \/ messages' = messages
              \/ /\ messages' = {} /\ requestList' = << >> /\ observedList' = {} /\ acked' = {}
                 /\ UNCHANGED asked
              \/ /\ \E kind \in Kinds, uri \in Uris :
                       messages' = messages \cup {[mid |-> serverMid, kind |-> kind, uri |-> uri]}
                 /\ serverMid <= MaxMessages /\ serverMid' = serverMid + 1
                 /\ UNCHANGED <<requestList, asked, acked, observedList>>
<1>1. serverMid \in Nat /\ nextObserveNum \in Nat
  BY DEF ListInv, TypesInv, RequestsTypeOK
<1>2. CASE ServerRequest
  BY <1>1, <1>2 DEF ServerRequest, pumpVars, appVars
<1>3. CASE ReadMessage
  <2>1. nextObserveNum' = nextObserveNum \/ nextObserveNum' = nextObserveNum + 1
    BY <1>3, MessageEffect DEF ListInv
  <2>2. UNCHANGED <<messages, serverMid, accepted>>
    BY <1>3 DEF ReadMessage
  <2> QED BY <1>1, <2>1, <2>2
<1>4. CASE Lose
  BY <1>1, <1>4 DEF Lose, appVars
<1>5. CASE Respond \/ Notify
  <2>1. UNCHANGED <<messages, serverMid, nextObserveNum>> /\ accepted \subseteq accepted'
    BY <1>5 DEF Respond, Notify, BeginCall, netVars, pumpVars
  <2> QED BY <1>1, <2>1
<1>6. CASE UNCHANGED <<messages, serverMid, nextObserveNum, accepted>>
  BY <1>1, <1>6
<1>7. CASE Handle \/ HandleDone \/ ReadNothing \/ ReadReset \/ Regain \/ EndCall
  BY <1>6, <1>7
  DEF Handle, HandleDone, ReadNothing, ReadReset, Regain, EndCall, netVars, pumpVars, appVars
<1>8. CASE \E mid \in 1 .. MaxMessages : Expire(mid)
  BY <1>6, <1>8 DEF Expire, netVars, appVars
<1>9. CASE UNCHANGED vars
  BY <1>6, <1>9 DEF vars, netVars, pumpVars, appVars
<1> QED BY <1>2, <1>3, <1>4, <1>5, <1>7, <1>8, <1>9 DEF RequestsNext, Pump

\* Numbers stay in use.
LEMMA NumberedStays ==
    ASSUME NEW id \in Nat, NEW kind, NEW num \in Nat, NEW last \in Nat, Numbered(id, kind, num, last),
           NEW num2 \in Nat, NEW last2 \in Nat, num <= num2, last <= last2
    PROVE  Numbered(id, kind, num2, last2)
<1>1. (num + 1) * Width \in Nat /\ (num2 + 1) * Width \in Nat
  OBVIOUS
<1>2. (num + 1) * Width <= (num2 + 1) * Width
  <2>1. (num2 - num) * Width \in Nat
    <3>1. num2 - num \in Nat
      OBVIOUS
    <3> QED BY <3>1
  <2>2. (num2 + 1) * Width = (num + 1) * Width + (num2 - num) * Width
    OBVIOUS
  <2> QED BY <1>1, <2>1, <2>2
<1> QED BY <1>1, <1>2 DEF Numbered

\* Where a request that joins comes from, and its number.
LEMMA JoinedSource ==
    ASSUME SourceInv, NEW r, Joined(r)
    PROVE  /\ [mid |-> r.id % Width, kind |-> r.type, uri |-> r.uri] \in messages
           /\ r.id \in Nat
           /\ r.type # "observe" => r.id = r.id % Width
           /\ r.type = "observe" => /\ (nextObserveNum + 1) * Width <= r.id
                                    /\ r.id < (nextObserveNum + 2) * Width
                                    /\ nextObserveNum' = nextObserveNum + 1
<1>1. nextObserveNum \in Nat /\ \A m \in messages : m \in Messages /\ m.mid \in 1 .. MaxMessages
  BY DEF SourceInv, ListInv, TypesInv, RequestsTypeOK, Messages
<1>2. ASSUME NEW m \in messages PROVE m = [mid |-> m.mid, kind |-> m.kind, uri |-> m.uri]
  BY <1>1 DEF Messages
<1>3. PICK m \in messages :
        \/ m.kind # "observe" /\ r = [id |-> m.mid, type |-> m.kind, uri |-> m.uri, values |-> 0]
        \/ /\ m.kind = "observe" /\ nextObserveNum' = nextObserveNum + 1
           /\ r = [id |-> (nextObserveNum + 1) * Width + m.mid, type |-> m.kind,
                   uri |-> m.uri, values |-> 0]
  BY DEF Joined
<1>4. /\ (nextObserveNum + 1) * Width + m.mid \in Nat
      /\ ((nextObserveNum + 1) * Width + m.mid) % Width = m.mid /\ m.mid % Width = m.mid
      /\ (nextObserveNum + 1) * Width <= (nextObserveNum + 1) * Width + m.mid
      /\ (nextObserveNum + 1) * Width + m.mid < (nextObserveNum + 2) * Width
  BY <1>1, NewNumber
<1>5. PICK id \in Nat : id = (nextObserveNum + 1) * Width + m.mid
  BY <1>4
<1>6. CASE m.kind # "observe"
  <2>1. r.id = m.mid /\ r.type = m.kind /\ r.uri = m.uri /\ m.mid \in Nat
    BY <1>1, <1>3, <1>6
  <2> QED BY <1>2, <1>4, <1>6, <2>1
<1>7. CASE m.kind = "observe"
  <2>1. r.id = id /\ r.type = m.kind /\ r.uri = m.uri /\ nextObserveNum' = nextObserveNum + 1
    BY <1>3, <1>5, <1>7
  <2>2. id % Width = m.mid /\ (nextObserveNum + 1) * Width <= id /\ id < (nextObserveNum + 2) * Width
    BY <1>4, <1>5
  <2> QED BY <1>2, <1>7, <2>1, <2>2
<1> QED BY <1>6, <1>7

\* A request that joins comes from a message, and when the messages are forgotten so are
\* the requests.
LEMMA MessagesInvStep ==
    ASSUME SourceInv, [RequestsNext]_vars
    PROVE  MessagesInv'
<1>0. ListInv /\ MessagesInv
  BY DEF SourceInv
<1>1. /\ serverMid \in Nat /\ serverMid' \in Nat /\ nextObserveNum \in Nat
      /\ \A m \in messages : m.mid \in Nat /\ m.mid < serverMid
      /\ \A m, n \in messages : m.mid = n.mid => m = n
      /\ \A i \in 1 .. Len(requestList) : requestList[i].id \in Nat
  BY <1>0, MessagesStep, ListsTyped
  DEF ListInv, TypesInv, RequestsTypeOK, Messages, MessagesInv
<1>2. /\ \A m \in messages' : m.mid < serverMid'
      /\ \A m, n \in messages' : m.mid = n.mid => m = n
  <2>1. CASE messages' = messages
    <3>1. serverMid <= serverMid'
      BY <1>0, MessagesStep
    <3> QED BY <1>1, <2>1, <3>1
  <2>2. CASE messages' = {}
    BY <2>2
  <2>3. ASSUME NEW kind \in Kinds, NEW uri \in Uris, serverMid' = serverMid + 1,
               messages' = messages \cup {[mid |-> serverMid, kind |-> kind, uri |-> uri]}
        PROVE  /\ \A m \in messages' : m.mid < serverMid'
               /\ \A m, n \in messages' : m.mid = n.mid => m = n
    BY <1>1, <2>3
  <2> QED BY <1>0, <2>1, <2>2, <2>3, MessagesStep
<1>3. ASSUME NEW j \in 1 .. Len(requestList')
      PROVE  /\ [mid |-> requestList'[j].id % Width, kind |-> requestList'[j].type,
                 uri |-> requestList'[j].uri] \in messages'
             /\ Numbered(requestList'[j].id, requestList'[j].type, nextObserveNum', serverMid')
  <2>1. PICK r : r = requestList'[j]
    OBVIOUS
  <2>2. messages \subseteq messages'
    <3>1. requestList' # << >>
      BY <1>3
    <3> QED BY <1>0, <3>1, MessagesStep
  <2>3. CASE Kept(r)
    <3>1. PICK i \in 1 .. Len(requestList) :
            /\ r.id = requestList[i].id
            /\ r.type = requestList[i].type /\ r.uri = requestList[i].uri
      BY <2>3 DEF Kept
    <3>2. /\ [mid |-> r.id % Width, kind |-> r.type, uri |-> r.uri] \in messages
          /\ Numbered(r.id, r.type, nextObserveNum, serverMid) /\ r.id \in Nat
      BY <1>0, <1>1, <3>1 DEF MessagesInv
    <3>3. Numbered(r.id, r.type, nextObserveNum', serverMid')
      BY <1>0, <1>1, <3>2, MessagesStep, NumberedStays
    <3> QED BY <2>1, <2>2, <3>2, <3>3
  <2>4. CASE Joined(r)
    <3>1. /\ [mid |-> r.id % Width, kind |-> r.type, uri |-> r.uri] \in messages
          /\ r.id \in Nat
          /\ r.type # "observe" => r.id = r.id % Width
          /\ r.type = "observe" => /\ (nextObserveNum + 1) * Width <= r.id
                                   /\ r.id < (nextObserveNum + 2) * Width
                                   /\ nextObserveNum' = nextObserveNum + 1
      BY <2>4, JoinedSource
    <3>2. r.type = "observe" => Numbered(r.id, r.type, nextObserveNum', serverMid')
      <4>1. Width <= (nextObserveNum + 1) * Width /\ (nextObserveNum + 1) * Width \in Nat
        BY <1>1
      <4>2. (nextObserveNum + 1) + 1 = nextObserveNum + 2
        BY <1>1
      <4> QED BY <3>1, <4>1, <4>2 DEF Numbered
    <3>3. r.type # "observe" => Numbered(r.id, r.type, nextObserveNum', serverMid')
      <4>1. r.type # "observe" => r.id < serverMid
        BY <1>1, <3>1
      <4>2. serverMid <= serverMid'
        BY <1>0, MessagesStep
      <4> QED BY <1>1, <3>1, <4>1, <4>2 DEF Numbered
    <3> QED BY <2>1, <2>2, <3>1, <3>2, <3>3
  <2> QED BY <1>0, <2>1, <2>3, <2>4, RequestsStep
<1> QED BY <1>2, <1>3 DEF MessagesInv

\* What the application is newly asked comes from a message, too.
LEMMA AskedStep ==
    ASSUME SourceInv, [RequestsNext]_vars
    PROVE  \A a \in asked' :
             \/ a \in asked
             \/ /\ ReadMessage /\ a.id \in Nat
                /\ [mid |-> a.id % Width, kind |-> a.kind, uri |-> a.uri] \in messages
                /\ Numbered(a.id, a.kind, nextObserveNum', serverMid')
<1>0. ListInv /\ MessagesInv /\ TypesInv
  BY DEF SourceInv, ListInv
<1>1. CASE ReadMessage
  <2> SUFFICES ASSUME NEW a \in asked', a \notin asked
               PROVE  /\ a.id \in Nat
                      /\ [mid |-> a.id % Width, kind |-> a.kind, uri |-> a.uri] \in messages
                      /\ Numbered(a.id, a.kind, nextObserveNum', serverMid')
    BY <1>1
  <2>1. PICK m \in messages :
          \/ UNCHANGED asked
          \/ m.kind # "observe" /\ Pushed(m.mid, m)
          \/ /\ m.kind = "observe"
             /\ \E i \in 1 .. Len(requestList) :
                   /\ requestList[i].id % Width = m.mid
                   /\ asked' = asked \cup {[id |-> requestList[i].id, kind |-> m.kind, uri |-> m.uri]}
          \/ /\ m.kind = "observe" /\ nextObserveNum' = nextObserveNum + 1
             /\ Pushed((nextObserveNum + 1) * Width + m.mid, m)
    BY <1>0, <1>1, MessageEffect
  <2>2. /\ nextObserveNum \in Nat /\ m.mid \in 1 .. MaxMessages /\ m.mid \in Nat
        /\ m = [mid |-> m.mid, kind |-> m.kind, uri |-> m.uri] /\ m.mid < serverMid
        /\ serverMid \in Nat
    BY <1>0 DEF TypesInv, RequestsTypeOK, Messages, MessagesInv
  <2>3. /\ serverMid' \in Nat /\ serverMid <= serverMid'
        /\ nextObserveNum' \in Nat /\ nextObserveNum <= nextObserveNum'
    BY <1>0, MessagesStep
  <2>4. CASE m.kind # "observe" /\ Pushed(m.mid, m)
    <3>1. a = [id |-> m.mid, kind |-> m.kind, uri |-> m.uri]
      BY <2>4 DEF Pushed
    <3>2. m.mid % Width = m.mid
      BY <2>2, NewNumber
    <3>3. a.id = m.mid /\ a.kind = m.kind /\ a.uri = m.uri
      BY <3>1
    <3>4. Numbered(a.id, a.kind, nextObserveNum', serverMid')
      BY <2>2, <2>3, <2>4, <3>3 DEF Numbered
    <3> QED BY <2>2, <3>2, <3>3, <3>4
  <2>5. ASSUME NEW i \in 1 .. Len(requestList), requestList[i].id % Width = m.mid, m.kind = "observe",
               asked' = asked \cup {[id |-> requestList[i].id, kind |-> m.kind, uri |-> m.uri]}
        PROVE  /\ a.id \in Nat
               /\ [mid |-> a.id % Width, kind |-> a.kind, uri |-> a.uri] \in messages
               /\ Numbered(a.id, a.kind, nextObserveNum', serverMid')
    <3>1. a.id = requestList[i].id /\ a.kind = m.kind /\ a.uri = m.uri
      BY <2>5
    <3>2. /\ requestList[i].id \in Nat
          /\ [mid |-> requestList[i].id % Width, kind |-> requestList[i].type,
              uri |-> requestList[i].uri] \in messages
          /\ Numbered(requestList[i].id, requestList[i].type, nextObserveNum, serverMid)
      BY <1>0, ListsTyped DEF MessagesInv
    <3>3. [mid |-> requestList[i].id % Width, kind |-> requestList[i].type,
           uri |-> requestList[i].uri].mid = m.mid
      BY <2>5
    <3>4. m = [mid |-> requestList[i].id % Width, kind |-> requestList[i].type,
               uri |-> requestList[i].uri]
      BY <1>0, <3>2, <3>3 DEF MessagesInv
    <3>5. requestList[i].type = m.kind
      BY <3>4
    <3>6. Numbered(a.id, a.kind, nextObserveNum', serverMid')
      BY <2>2, <2>3, <3>1, <3>2, <3>5, NumberedStays
    <3> QED BY <2>2, <2>5, <3>1, <3>2, <3>6
  <2>6. CASE /\ m.kind = "observe" /\ nextObserveNum' = nextObserveNum + 1
             /\ Pushed((nextObserveNum + 1) * Width + m.mid, m)
    <3>1. PICK id : id = (nextObserveNum + 1) * Width + m.mid
      OBVIOUS
    <3>2. /\ id \in Nat /\ id % Width = m.mid
          /\ Width <= (nextObserveNum + 1) * Width /\ (nextObserveNum + 1) * Width <= id
          /\ id < (nextObserveNum + 2) * Width
      BY <2>2, <3>1, NewNumber
    <3>3. a = [id |-> id, kind |-> m.kind, uri |-> m.uri]
      BY <2>6, <3>1 DEF Pushed
    <3>4. a.id = id /\ a.kind = m.kind /\ a.uri = m.uri
      BY <3>3
    <3>5. Numbered(id, m.kind, nextObserveNum + 1, serverMid')
      <4>1. (nextObserveNum + 1) * Width \in Nat /\ (nextObserveNum + 1) + 1 = nextObserveNum + 2
        BY <2>2
      <4> QED BY <2>6, <3>2, <4>1 DEF Numbered
    <3> QED BY <2>2, <2>6, <3>2, <3>4, <3>5
  <2> QED BY <2>1, <2>4, <2>5, <2>6
<1>2. CASE asked' \subseteq asked
  BY <1>2
<1>3. CASE Respond \/ Notify
  BY <1>2, <1>3 DEF Respond, Notify
<1>4. CASE Handle \/ HandleDone \/ ReadNothing \/ ReadReset \/ \E mid \in 1 .. MaxMessages : Expire(mid)
  BY <1>2, <1>4 DEF Handle, HandleDone, ReadNothing, ReadReset, Expire, appVars
<1>5. CASE Lose \/ Regain \/ EndCall \/ ServerRequest
  BY <1>2, <1>5 DEF Lose, Regain, EndCall, ServerRequest, appVars
<1>6. CASE UNCHANGED vars
  BY <1>2, <1>6 DEF vars, appVars
<1> QED BY <1>1, <1>3, <1>4, <1>5, <1>6 DEF RequestsNext, Pump

\* An id in use is below the ids of observes to come.
LEMMA NumberedBelow ==
    ASSUME NEW id \in Nat, NEW kind, NEW num \in Nat, NEW last \in 1 .. MaxMessages + 1,
           Numbered(id, kind, num, last)
    PROVE  id < (num + 1) * Width
<1>1. (num + 1) * Width \in Nat /\ Width <= (num + 1) * Width
  OBVIOUS
<1>2. last <= Width
  OBVIOUS
<1> QED BY <1>1, <1>2 DEF Numbered

\* A message id is used once and a new observe has a new number: nothing the application
\* was asked before is taken for something else.
LEMMA AskedInvStep ==
    ASSUME SourceInv, [RequestsNext]_vars
    PROVE  AskedInv'
<1>0. /\ ListInv /\ MessagesInv /\ AskedInv /\ TypesInv
      /\ serverMid \in 1 .. MaxMessages + 1 /\ serverMid \in Nat /\ nextObserveNum \in Nat
      /\ \A a \in asked : a.id \in Nat
      /\ \A m \in messages : m.mid \in 1 .. MaxMessages /\ m.mid \in Nat
  BY DEF SourceInv, ListInv, TypesInv, RequestsTypeOK, Asked, Messages
<1>1. MessagesInv'
  BY MessagesInvStep
<1>2. /\ serverMid' \in Nat /\ serverMid <= serverMid'
      /\ nextObserveNum' \in Nat /\ nextObserveNum <= nextObserveNum'
  BY <1>0, MessagesStep
<1>3. ASSUME NEW a \in asked'
      PROVE  Numbered(a.id, a.kind, nextObserveNum', serverMid')
  <2>1. CASE a \in asked
    BY <1>0, <1>2, <2>1, NumberedStays DEF AskedInv
  <2> QED BY <2>1, AskedStep
<1>4. ASSUME NEW a \in asked', NEW j \in 1 .. Len(requestList'), a.id = requestList'[j].id
      PROVE  a.kind = requestList'[j].type /\ a.uri = requestList'[j].uri
  <2>1. PICK r : r = requestList'[j]
    OBVIOUS
  <2>2. [mid |-> r.id % Width, kind |-> r.type, uri |-> r.uri] \in messages'
    BY <1>1, <2>1 DEF MessagesInv
  <2>3. CASE a \notin asked
    <3>1. ReadMessage /\ [mid |-> a.id % Width, kind |-> a.kind, uri |-> a.uri] \in messages
      BY <2>3, AskedStep
    <3>2. messages' = messages
      BY <3>1 DEF ReadMessage
    <3>3. [mid |-> r.id % Width, kind |-> r.type, uri |-> r.uri]
            = [mid |-> a.id % Width, kind |-> a.kind, uri |-> a.uri]
      BY <1>0, <1>4, <2>1, <2>2, <3>1, <3>2 DEF MessagesInv
    <3> QED BY <2>1, <3>3
  <2>4. CASE a \in asked /\ Kept(r)
    BY <1>0, <1>4, <2>1, <2>4 DEF Kept, AskedInv
  <2>5. CASE a \in asked /\ Joined(r)
    <3>1. /\ [mid |-> r.id % Width, kind |-> r.type, uri |-> r.uri] \in messages
          /\ r.id \in Nat
          /\ r.type # "observe" => r.id = r.id % Width
          /\ r.type = "observe" => (nextObserveNum + 1) * Width <= r.id
      BY <2>5, JoinedSource
    <3>2. CASE r.type # "observe"
      <4>1. PICK m \in messages : m = [mid |-> r.id % Width, kind |-> r.type, uri |-> r.uri]
        BY <3>1
      <4>2. m.mid = a.id /\ m.kind = r.type /\ m.uri = r.uri
        BY <1>4, <2>1, <3>1, <3>2, <4>1
      <4> QED BY <1>0, <2>1, <2>5, <4>2 DEF AskedInv
    <3>3. CASE r.type = "observe"
      <4>1. a.id < (nextObserveNum + 1) * Width
        BY <1>0, <2>5, NumberedBelow DEF AskedInv
      <4>2. (nextObserveNum + 1) * Width \in Nat
        BY <1>0
      <4> QED BY <1>0, <1>4, <2>1, <2>5, <3>1, <3>3, <4>1, <4>2
    <3> QED BY <3>2, <3>3
  <2> QED BY <1>0, <2>1, <2>3, <2>4, <2>5, RequestsStep
<1>5. ASSUME NEW a \in asked', NEW m \in messages', a.id = m.mid
      PROVE  a.kind = m.kind /\ a.uri = m.uri
  <2>1. CASE a \notin asked
    <3>1. ReadMessage /\ [mid |-> a.id % Width, kind |-> a.kind, uri |-> a.uri] \in messages
      BY <2>1, AskedStep
    <3>2. messages' = messages
      BY <3>1 DEF ReadMessage
    <3>3. m.mid % Width = m.mid
      BY <1>0, <3>2, NewNumber
    <3>4. m = [mid |-> a.id % Width, kind |-> a.kind, uri |-> a.uri]
      BY <1>0, <1>5, <3>1, <3>2, <3>3 DEF MessagesInv
    <3> QED BY <3>4
  <2>2. CASE a \in asked /\ m \in messages
    BY <1>0, <1>5, <2>2 DEF AskedInv
  <2>3. CASE a \in asked /\ m \notin messages
    <3>1. m.mid = serverMid /\ serverMid <= MaxMessages
      BY <1>0, <2>3, MessagesStep
    <3>2. Numbered(a.id, a.kind, nextObserveNum, serverMid) /\ a.id \in Nat
      BY <1>0, <2>3 DEF AskedInv
    <3> QED BY <1>0, <1>5, <3>1, <3>2 DEF Numbered
  <2> QED BY <2>1, <2>2, <2>3
<1> QED BY <1>3, <1>4, <1>5 DEF AskedInv

\* A notification on its way was on its way, or is a value, or the application has just
\* given that answer to something it was asked.
LEMMA PendingStep ==
    ASSUME ListInv, [RequestsNext]_vars, NEW n \in Pending'
    PROVE  \/ n \in Pending
           \/ n.isResponse = FALSE
           \/ /\ UNCHANGED requestList
              /\ \E a \in asked :
                    /\ n.mid = a.id
                    /\ a.kind = "observe" /\ n.result = "content" =>
                          [id |-> a.id, uri |-> a.uri] \in accepted'
<1>1. CASE \E j \in 1 .. Len(notifyList') : n = notifyList'[j]
  <2>1. PICK j \in 1 .. Len(notifyList') : n = notifyList'[j]
    BY <1>1
  <2>2. CASE \E i \in 1 .. Len(notifyList) : n = notifyList[i]
    BY <2>2 DEF Pending
  <2>3. CASE EndCall /\ n = call[1]
    <3>1. 1 \in 1 .. Len(call)
      BY <2>3, EmptySeq DEF EndCall, ListInv, TypesInv
    <3> QED BY <2>3, <3>1 DEF Pending
  <2> QED BY <2>1, <2>2, <2>3, NotesStep
<1>2. CASE \E j \in 1 .. Len(call') : n = call'[j]
  <2>1. CASE call' = call
    BY <1>2, <2>1 DEF Pending
  <2>2. CASE call' = << >>
    BY <1>2, <2>2
  <2>3. CASE Respond
    <3>1. PICK a \in asked, result \in Results, value \in AllValues :
            /\ BeginCall(TRUE, a.id, result, value)
            /\ accepted' = (IF a.kind = "observe" /\ result = "content"
                            THEN accepted \cup {[id |-> a.id, uri |-> a.uri]} ELSE accepted)
      BY <2>3, KindsKnown DEF Respond
    <3>2. /\ call' = <<[id |-> nextNotifyId + 1, isResponse |-> TRUE, mid |-> a.id,
                        result |-> result, value |-> value]>>
          /\ UNCHANGED requestList
      BY <3>1 DEF BeginCall, pumpVars
    <3>3. n.mid = a.id /\ n.result = result
      BY <1>2, <3>2
    <3> QED BY <3>1, <3>2, <3>3
  <2>4. CASE Notify
    <3>1. PICK a \in accepted, result \in Results, value \in AllValues :
            BeginCall(FALSE, a.id, result, value)
      BY <2>4, KindsKnown DEF Notify
    <3>2. call' = <<[id |-> nextNotifyId + 1, isResponse |-> FALSE, mid |-> a.id,
                     result |-> result, value |-> value]>>
      BY <3>1, Zenon DEF BeginCall
    <3>3. PICK x : x = [id |-> nextNotifyId + 1, isResponse |-> FALSE, mid |-> a.id,
                        result |-> result, value |-> value]
      OBVIOUS
    <3>4. x.isResponse = FALSE
      BY <3>3, Zenon
    <3>5. call' = <<x>>
      BY <3>2, <3>3, Zenon
    <3>6. n = x
      BY <1>2, <3>5
    <3> QED BY <3>4, <3>6
  <2>5. CASE Handle \/ HandleDone \/ ReadNothing \/ ReadReset \/ ReadMessage
             \/ \E mid \in 1 .. MaxMessages : Expire(mid)
    BY <2>1, <2>5 DEF Handle, HandleDone, ReadNothing, ReadReset, ReadMessage, Expire, noteVars
  <2>6. CASE Lose \/ Regain \/ ServerRequest
    BY <2>1, <2>6 DEF Lose, Regain, ServerRequest, noteVars
  <2>7. CASE EndCall
    BY <2>2, <2>7 DEF EndCall
  <2>8. CASE UNCHANGED vars
    BY <2>1, <2>8 DEF vars, noteVars
  <2> QED BY <2>3, <2>4, <2>5, <2>6, <2>7, <2>8 DEF RequestsNext, Pump
<1> QED BY <1>1, <1>2 DEF Pending

\* An answer on its way stays an answer to what it was given to, whatever joins the list.
LEMMA AgreedInvStep ==
    ASSUME SourceInv, [RequestsNext]_vars
    PROVE  AgreedInv'
<1>0. /\ ListInv /\ MessagesInv /\ AskedInv /\ AgreedInv /\ TypesInv
      /\ serverMid \in 1 .. MaxMessages + 1 /\ nextObserveNum \in Nat
      /\ \A a \in asked : a.id \in Nat
      /\ \A n \in Pending : n.mid \in Nat
  <2>1. /\ ListInv /\ MessagesInv /\ AskedInv /\ AgreedInv /\ TypesInv
        /\ serverMid \in 1 .. MaxMessages + 1 /\ nextObserveNum \in Nat
        /\ \A a \in asked : a.id \in Nat
    BY DEF SourceInv, ListInv, TypesInv, RequestsTypeOK, Asked
  <2>2. notifyList \in Seq(Notices) /\ call \in Seq(Notices)
    BY <2>1, ListsTyped DEF TypesInv
  <2>3. \A n \in Pending : n \in Notices
    BY <2>2 DEF Pending
  <2> QED BY <2>1, <2>3 DEF Notices
<1>1. /\ nextObserveNum' \in Nat /\ nextObserveNum <= nextObserveNum' /\ accepted \subseteq accepted'
  BY <1>0, MessagesStep
<1>2. /\ (nextObserveNum + 1) * Width \in Nat /\ (nextObserveNum' + 1) * Width \in Nat
      /\ (nextObserveNum + 1) * Width <= (nextObserveNum' + 1) * Width
  <2>1. ASSUME NEW x \in Nat, NEW y \in Nat, x <= y
        PROVE  (x + 1) * Width \in Nat /\ (y + 1) * Width \in Nat /\ (x + 1) * Width <= (y + 1) * Width
    <3>1. y - x \in Nat
      BY <2>1
    <3>2. (y - x) * Width \in Nat /\ (y + 1) * Width = (x + 1) * Width + (y - x) * Width
      BY <3>1
    <3>3. (x + 1) * Width \in Nat /\ (y + 1) * Width \in Nat
      OBVIOUS
    <3> QED BY <3>2, <3>3
  <2> QED BY <1>0, <1>1, <2>1
<1>3. ASSUME NEW n \in Pending', n.isResponse = TRUE
      PROVE  /\ n.mid < (nextObserveNum' + 1) * Width
             /\ n.result = "content" =>
                   \A j \in 1 .. Len(requestList') :
                       requestList'[j].id = n.mid /\ requestList'[j].type = "observe" =>
                           [id |-> n.mid, uri |-> requestList'[j].uri] \in accepted'
  <2>1. CASE n \in Pending
    <3>1. /\ n.mid \in Nat /\ n.mid < (nextObserveNum + 1) * Width
          /\ n.result = "content" =>
                \A i \in 1 .. Len(requestList) :
                    requestList[i].id = n.mid /\ requestList[i].type = "observe" =>
                        [id |-> n.mid, uri |-> requestList[i].uri] \in accepted
      BY <1>0, <1>3, <2>1 DEF AgreedInv
    <3>2. n.mid < (nextObserveNum' + 1) * Width
      BY <1>2, <3>1
    <3>3. ASSUME n.result = "content", NEW j \in 1 .. Len(requestList'),
                 requestList'[j].id = n.mid, requestList'[j].type = "observe"
          PROVE  [id |-> n.mid, uri |-> requestList'[j].uri] \in accepted'
      <4>1. PICK r : r = requestList'[j]
        OBVIOUS
      <4>2. CASE Kept(r)
        BY <1>1, <3>1, <3>3, <4>1, <4>2 DEF Kept
      <4>3. CASE Joined(r)
        <5>1. (nextObserveNum + 1) * Width <= r.id /\ r.id \in Nat
          BY <3>3, <4>1, <4>3, JoinedSource
        <5> QED BY <1>2, <3>1, <3>3, <4>1, <5>1
      <4> QED BY <1>0, <4>1, <4>2, <4>3, RequestsStep
    <3> QED BY <3>2, <3>3
  <2>2. CASE /\ UNCHANGED requestList
             /\ \E a \in asked :
                   /\ n.mid = a.id
                   /\ a.kind = "observe" /\ n.result = "content" =>
                         [id |-> a.id, uri |-> a.uri] \in accepted'
    <3>1. PICK a \in asked :
            /\ n.mid = a.id
            /\ a.kind = "observe" /\ n.result = "content" => [id |-> a.id, uri |-> a.uri] \in accepted'
      BY <2>2
    <3>2. a.id < (nextObserveNum + 1) * Width /\ a.id \in Nat
      BY <1>0, NumberedBelow DEF AskedInv
    <3>3. n.mid < (nextObserveNum' + 1) * Width
      BY <1>2, <3>1, <3>2
    <3>4. ASSUME n.result = "content", NEW j \in 1 .. Len(requestList),
                 requestList[j].id = n.mid, requestList[j].type = "observe"
          PROVE  [id |-> n.mid, uri |-> requestList[j].uri] \in accepted'
      <4>1. a.kind = "observe" /\ a.uri = requestList[j].uri
        BY <1>0, <3>1, <3>4 DEF AskedInv
      <4> QED BY <3>1, <3>4, <4>1
    <3> QED BY <2>2, <3>3, <3>4
  <2>3. n.isResponse # FALSE
    BY <1>3, Zenon
  <2> QED BY <1>0, <2>1, <2>2, <2>3, PendingStep
<1> QED BY <1>3 DEF AgreedInv

\* Requests, questions and answers belong together in every state.
THEOREM SourceInvariant == RequestsSpec => []SourceInv
<1>1. RequestsInit => MessagesInv /\ AskedInv /\ AgreedInv
  BY DEF RequestsInit, MessagesInv, AskedInv, AgreedInv, Pending
<1>2. SourceInv /\ [RequestsNext]_vars /\ ListInv' => SourceInv'
  BY MessagesInvStep, AskedInvStep, AgreedInvStep DEF SourceInv
<1>3. ListInv /\ MessagesInv /\ AskedInv /\ AgreedInv => SourceInv
  BY DEF SourceInv
<1> QED BY <1>1, <1>2, <1>3, ListInvariant, PTL DEF RequestsSpec
-----------------------------------------------------------------------------
\* An uri has one observation, and that is agreed.
Single == \A o, p \in observedList : o.uri = p.uri => o = p

Agreed(o) ==
    o.msgid # 0 => /\ [id |-> o.msgid, uri |-> o.uri] \in accepted
                   /\ [mid |-> o.msgid % Width, kind |-> "observe", uri |-> o.uri] \in messages

ObservedInv == Single /\ \A o \in observedList : Agreed(o)

\* prv_getObserved: the one there is, or a new one.
LEMMA GetObservedIs ==
    ASSUME TypesInv, NEW uri
    PROVE  /\ GetObserved(uri).uri = uri
           /\ \/ GetObserved(uri) \in observedList
              \/ GetObserved(uri) = New(uri) /\ \A o \in observedList : o.uri # uri
<1>1. CASE Observed(uri) = {}
  BY <1>1 DEF Observed, GetObserved, New
<1>2. CASE Observed(uri) # {}
  <2>1. GetObserved(uri) \in Observed(uri)
    BY <1>2 DEF GetObserved
  <2> QED BY <2>1 DEF Observed
<1> QED BY <1>1, <1>2

\* The observation of g's uri is replaced by one of that uri.
LEMMA ReplaceKeepsSingle ==
    ASSUME TypesInv, Single, NEW g, NEW x, x.uri = g.uri,
           g \in observedList \/ \A o \in observedList : o.uri # g.uri,
           observedList' = (observedList \ {g}) \cup {x}
    PROVE  Single'
<1>1. ASSUME NEW o \in observedList', NEW p \in observedList', o.uri = p.uri PROVE o = p
  <2>1. CASE o = x /\ p = x
    BY <2>1
  <2>2. CASE o = x /\ p \in observedList \ {g}
    BY <1>1, <2>2 DEF Single
  <2>3. CASE p = x /\ o \in observedList \ {g}
    BY <1>1, <2>3 DEF Single
  <2>4. CASE p \in observedList /\ o \in observedList
    BY <1>1, <2>4 DEF Single
  <2> QED BY <2>1, <2>2, <2>3, <2>4
<1> QED BY <1>1 DEF Single

\* An observation is made for an uri that has none, and gets its id from a positive answer.
LEMMA ObservedInvStep ==
    ASSUME SourceInv, ObservedInv, [RequestsNext]_vars
    PROVE  ObservedInv'
<1>0. /\ ListInv /\ MessagesInv /\ AgreedInv /\ TypesInv /\ Single
      /\ observedList \in SUBSET Observations
      /\ \A o \in observedList : Agreed(o)
  BY DEF SourceInv, ListInv, TypesInv, RequestsTypeOK, ObservedInv
<1>1. observedList' # {} => messages \subseteq messages' /\ accepted \subseteq accepted'
  BY <1>0, MessagesStep
<1>2. CASE observedList' \subseteq observedList
  BY <1>0, <1>1, <1>2 DEF ObservedInv, Single, Agreed
<1>3. CASE Handle
  <2>1. Head(notifyList) \in Notices /\ Head(notifyList) \in Pending
    <3>1. notifyList # << >> /\ notifyList \in Seq(Notices)
      BY <1>0, <1>3, ListsTyped DEF Handle
    <3>2. Head(notifyList) = notifyList[1] /\ 1 \in 1 .. Len(notifyList) /\ Head(notifyList) \in Notices
      BY <3>1, EmptySeq, HeadTailProperties
    <3> QED BY <3>2 DEF Pending
  <2>2. UNCHANGED <<messages, accepted>>
    BY <1>3 DEF Handle, appVars
  <2>3. CASE Head(notifyList).isResponse
    <3>1. HandleResponse(Head(notifyList))
      BY <1>3, <2>3 DEF Handle
    <3>2. ASSUME NEW i \in 1 .. Len(requestList), requestList[i].id = Head(notifyList).mid,
                 AsynAck(requestList[i], Head(notifyList))
          PROVE  ObservedInv'
      <4>1. requestList[i] \in Requests /\ Head(notifyList) \in Notices
        BY <1>0, <2>1, ListsTyped DEF Notices
      <4>2. PICK g : g = GetObserved(requestList[i].uri)
        OBVIOUS
      <4>3. CASE /\ requestList[i].type = "observe" /\ Head(notifyList).result = "content"
                 /\ observedList' = (observedList \ {g}) \cup {[g EXCEPT !.msgid = requestList[i].id]}
        <5>1. /\ g.uri = requestList[i].uri
              /\ \/ g \in observedList
                 \/ g = New(g.uri) /\ \A o \in observedList : o.uri # g.uri
          BY <1>0, <4>2, GetObservedIs
        <5>2. PICK x : x = [g EXCEPT !.msgid = requestList[i].id]
          OBVIOUS
        <5>3. x.uri = g.uri /\ x.msgid = requestList[i].id
          BY <1>0, <5>1, <5>2 DEF Observations, New
        <5>4. Single'
          BY <1>0, <4>3, <5>1, <5>2, <5>3, ReplaceKeepsSingle
        <5>5. Head(notifyList).isResponse = TRUE
          BY <2>1, <2>3 DEF Notices
        <5>6. [id |-> requestList[i].id, uri |-> requestList[i].uri] \in accepted
          BY <1>0, <2>1, <3>2, <4>3, <5>5 DEF AgreedInv
        <5>7. [mid |-> requestList[i].id % Width, kind |-> "observe", uri |-> requestList[i].uri]
                \in messages
          BY <1>0, <4>3 DEF MessagesInv
        <5>8. Agreed(x)'
          BY <2>2, <5>1, <5>3, <5>6, <5>7 DEF Agreed
        <5>9. \A o \in observedList : Agreed(o)'
          BY <1>0, <2>2 DEF Agreed
        <5> QED BY <4>3, <5>2, <5>4, <5>8, <5>9 DEF ObservedInv
      <4> QED BY <1>2, <3>2, <4>1, <4>2, <4>3, AckEffect
    <3> QED BY <1>0, <1>2, <2>1, <3>1, <3>2, ResponseEffect
  <2>4. CASE ~Head(notifyList).isResponse
    <3>1. HandleNotify(Head(notifyList))
      BY <1>3, <2>4 DEF Handle
    <3>2. ASSUME NEW o \in observedList, NEW k \in Nat, NEW last \in Nat,
                 observedList' = (observedList \ {o})
                                   \cup {[o EXCEPT !.report = k, !.lastMid = last]}
          PROVE  ObservedInv'
      <4>1. PICK x : x = [o EXCEPT !.report = k, !.lastMid = last]
        OBVIOUS
      <4>2. x.uri = o.uri /\ x.msgid = o.msgid
        BY <1>0, <4>1 DEF Observations
      <4>3. Single'
        BY <1>0, <3>2, <4>1, <4>2, ReplaceKeepsSingle
      <4>4. Agreed(x)'
        BY <1>0, <2>2, <4>2 DEF Agreed
      <4>5. \A p \in observedList : Agreed(p)'
        BY <1>0, <2>2 DEF Agreed
      <4> QED BY <3>2, <4>1, <4>3, <4>4, <4>5 DEF ObservedInv
    <3> QED BY <1>0, <1>2, <2>1, <3>1, <3>2, NotifyEffect
  <2> QED BY <2>3, <2>4
<1>4. CASE ReadMessage
  <2>1. UNCHANGED <<messages, accepted>>
    BY <1>4 DEF ReadMessage
  <2>2. ASSUME NEW m \in messages, observedList' = observedList \cup {GetObserved(m.uri)}
        PROVE  ObservedInv'
    <3>1. PICK g : g = GetObserved(m.uri)
      OBVIOUS
    <3>2. g.uri = m.uri /\ (g \in observedList \/ (g = New(m.uri) /\ \A o \in observedList : o.uri # m.uri))
      BY <1>0, <3>1, GetObservedIs
    <3>3. Single'
      BY <1>0, <2>2, <3>1, <3>2 DEF Single
    <3>4. \A o \in observedList : Agreed(o)'
      BY <1>0, <2>1 DEF Agreed
    <3>5. Agreed(g)'
      BY <3>2, <3>4 DEF Agreed, New
    <3> QED BY <2>2, <3>1, <3>3, <3>4, <3>5 DEF ObservedInv
  <2> QED BY <1>0, <1>2, <1>4, <2>2, MessageEffect
<1>5. CASE ReadReset
  <2>1. PICK mid \in reports : Cancel(mid)
    BY <1>5 DEF ReadReset
  <2> QED BY <1>2, <2>1 DEF Cancel
<1>6. CASE Lose
  BY <1>2, <1>6 DEF Lose
<1>7. CASE HandleDone \/ ReadNothing \/ Regain \/ EndCall \/ ServerRequest
  BY <1>2, <1>7 DEF HandleDone, ReadNothing, Regain, EndCall, ServerRequest, pumpVars
<1>8. CASE Respond \/ Notify \/ \E mid \in 1 .. MaxMessages : Expire(mid)
  BY <1>2, <1>8 DEF Respond, Notify, BeginCall, Expire, pumpVars
<1>9. CASE UNCHANGED vars
  BY <1>2, <1>9 DEF vars, pumpVars
<1> QED BY <1>3, <1>4, <1>5, <1>6, <1>7, <1>8, <1>9 DEF RequestsNext, Pump

\* Whatever is repeated, reordered or mixed, an uri has one observation, under the id
\* that the application has agreed to.
THEOREM ObservationsStayAgreed == RequestsSpec => []ObservationsAreAgreed
<1>1. RequestsInit => ObservedInv
  BY DEF RequestsInit, ObservedInv, Single
<1>2. SourceInv /\ ObservedInv /\ [RequestsNext]_vars => ObservedInv'
  BY ObservedInvStep
<1>3. ObservedInv => ObservationsAreAgreed
  BY DEF ObservedInv, Single, Agreed, ObservationsAreAgreed, Observed
<1> QED BY <1>1, <1>2, <1>3, SourceInvariant, PTL DEF RequestsSpec

\* Answers only go to messages of this registration.
THEOREM AnswersStayFresh == RequestsSpec => []AnswersAreFresh
<1>1. RequestsInit => AnswersAreFresh
  BY DEF RequestsInit, AnswersAreFresh
<1>2. SourceInv /\ AnswersAreFresh /\ [RequestsNext]_vars => AnswersAreFresh'
  <2> SUFFICES ASSUME SourceInv, AnswersAreFresh, [RequestsNext]_vars PROVE AnswersAreFresh'
    OBVIOUS
  <2>0. ListInv /\ MessagesInv /\ TypesInv
    BY DEF SourceInv, ListInv
  <2>1. CASE acked' = acked /\ messages \subseteq messages'
    BY <2>1 DEF AnswersAreFresh
  <2>2. CASE Handle
    <3>1. Head(notifyList) \in Notices
      BY <2>0, <2>2, ListsTyped, HeadTailProperties DEF Handle
    <3>2. UNCHANGED messages
      BY <2>2 DEF Handle
    <3>3. CASE Head(notifyList).isResponse
      <4>1. HandleResponse(Head(notifyList))
        BY <2>2, <3>3 DEF Handle
      <4>2. ASSUME NEW i \in 1 .. Len(requestList), AsynAck(requestList[i], Head(notifyList))
            PROVE  AnswersAreFresh'
        <5>1. requestList[i] \in Requests /\ Head(notifyList) \in Notices
          BY <2>0, <3>1, ListsTyped DEF Notices
        <5>2. acked' = acked \/ acked' = acked \cup {requestList[i].id % Width}
          BY <4>2, <5>1, AckEffect
        <5>3. PICK m \in messages : m.mid = requestList[i].id % Width
          BY <2>0 DEF MessagesInv
        <5> QED BY <3>2, <5>2, <5>3 DEF AnswersAreFresh
      <4> QED BY <2>0, <2>1, <3>1, <3>2, <4>1, <4>2, ResponseEffect
    <3>4. CASE ~Head(notifyList).isResponse
      BY <2>1, <2>2, <3>2, <3>4 DEF Handle
    <3> QED BY <3>3, <3>4
  <2>3. CASE ReadMessage
    <3>1. UNCHANGED messages
      BY <2>3 DEF ReadMessage
    <3>2. PICK m \in messages : acked' = acked \/ acked' = acked \cup {m.mid}
      BY <2>0, <2>3, MessageEffect
    <3> QED BY <3>1, <3>2 DEF AnswersAreFresh
  <2>4. CASE Lose
    BY <2>4 DEF Lose, AnswersAreFresh
  <2>5. CASE HandleDone \/ ReadNothing \/ ReadReset \/ Regain \/ EndCall \/ ServerRequest
    BY <2>1, <2>5 DEF HandleDone, ReadNothing, ReadReset, Regain, EndCall, ServerRequest, netVars
  <2>6. CASE Respond \/ Notify \/ \E mid \in 1 .. MaxMessages : Expire(mid)
    BY <2>1, <2>6 DEF Respond, Notify, BeginCall, Expire, netVars
  <2>7. CASE UNCHANGED vars
    BY <2>1, <2>7 DEF vars, netVars
  <2> QED BY <2>2, <2>3, <2>4, <2>5, <2>6, <2>7 DEF RequestsNext, Pump
<1> QED BY <1>1, <1>2, SourceInvariant, PTL DEF RequestsSpec
=============================================================================
