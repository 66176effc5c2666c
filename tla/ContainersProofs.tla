-------------------------- MODULE ContainersProofs --------------------------
(***************************************************************************)
(* The containers below the protocols: the linked queues of genccont,      *)
(* which implement sequences, for any number of queues and nodes; the      *)
(* memory pool of the CMSIS-RTOS layer and the mail queue that allocates   *)
(* from it, for every pool size, block size and set of clients.            *)
(***************************************************************************)
EXTENDS SlistQueue, OsMail, SequenceTheorems, FiniteSetTheorems, WellFoundedInduction, TLAPS

(* The linked queues. *)

\* A node that is in no queue points to nothing.
FreeIsUnlinked == \A n \in Nodes : owner[n] = Null => link[n] = Null

QueueInv == QueueTypeOK /\ TailIsLast /\ LinksAreOwn /\ FreeIsUnlinked

\* Initially every queue is empty.
LEMMA InitInv == QueueInit => QueueInv
  BY QueueAssumption
  DEF QueueInit, QueueInv, QueueTypeOK, TailIsLast, LinksAreOwn, FreeIsUnlinked, Holder, Refs

\* An insertion at an address of the queue, with the tail moved if that was the tail.
LEMMA InsertInv ==
    ASSUME QueueInv, NEW q \in Queues, NEW n \in Nodes, NEW at \in Refs,
           Holder(at) = q, InsertAt(q, n, at),
           tail' = IF link[at] = Null THEN [tail EXCEPT ![q] = n] ELSE tail,
           removed' = removed
    PROVE  QueueInv'
  <1> USE QueueAssumption
  <1>1. QueueTypeOK'
    BY DEF QueueInv, QueueTypeOK, InsertAt, Refs
  <1>2. n # at /\ \A r \in Refs : link[r] # n
    BY DEF QueueInv, QueueTypeOK, LinksAreOwn, InsertAt, Holder, Refs
  <1>3. /\ \A r \in Refs : link'[r] = IF r = n THEN link[at] ELSE IF r = at THEN n ELSE link[r]
        /\ \A m \in Nodes : owner'[m] = IF m = n THEN q ELSE owner[m]
        /\ \A p \in Queues : tail'[p] = IF link[at] = Null /\ p = q THEN n ELSE tail[p]
    BY <1>2 DEF QueueInv, QueueTypeOK, InsertAt, Refs
  <1>4. TailIsLast'
    <2>1. ASSUME NEW p \in Queues PROVE (Holder(tail[p]) = p)'
      BY <1>2, <1>3 DEF QueueInv, QueueTypeOK, TailIsLast, Holder, Refs, InsertAt
    <2>2. ASSUME NEW r \in Refs, Holder(r)' # Null
          PROVE  (link[r] = Null <=> tail[Holder(r)] = r)'
      <3>1. CASE r = n
        BY <1>2, <1>3, <2>2, <3>1 DEF QueueInv, QueueTypeOK, TailIsLast, Holder, Refs, InsertAt
      <3>2. CASE r = at
        BY <1>2, <1>3, <2>2, <3>2 DEF QueueInv, QueueTypeOK, TailIsLast, Holder, Refs, InsertAt
      <3>3. CASE r # n /\ r # at
        BY <1>2, <1>3, <2>2, <3>3 DEF QueueInv, QueueTypeOK, TailIsLast, Holder, Refs, InsertAt
      <3> QED  BY <3>1, <3>2, <3>3
    <2> QED  BY <2>1, <2>2 DEF TailIsLast
  <1>5. LinksAreOwn'
    <2>1. ASSUME NEW r \in Refs, link'[r] # Null
          PROVE  Holder(r)' # Null /\ owner'[link'[r]] = Holder(r)'
      BY <1>2, <1>3, <2>1 DEF QueueInv, QueueTypeOK, LinksAreOwn, Holder, Refs
    <2>2. ASSUME NEW r \in Refs, NEW s \in Refs, link'[r] # Null, link'[r] = link'[s]
          PROVE  r = s
      BY <1>2, <1>3, <2>2 DEF QueueInv, QueueTypeOK, LinksAreOwn, FreeIsUnlinked, Refs, InsertAt
    <2>3. ASSUME NEW m \in Nodes, owner'[m] # Null
          PROVE  \E r \in Refs : link'[r] = m
      <3>1. CASE m = n
        BY <1>2, <1>3, <3>1
      <3>2. CASE m # n
        <4>1. PICK r \in Refs : link[r] = m
          BY <1>3, <2>3, <3>2 DEF QueueInv, LinksAreOwn
        <4>2. r # n
          BY <4>1 DEF QueueInv, FreeIsUnlinked, InsertAt
        <4> QED  BY <1>3, <4>1, <4>2 DEF Refs
      <3> QED  BY <3>1, <3>2
    <2> QED  BY <2>1, <2>2, <2>3 DEF LinksAreOwn
  <1>6. FreeIsUnlinked'
    BY <1>2, <1>3 DEF QueueInv, QueueTypeOK, FreeIsUnlinked, LinksAreOwn, Holder, Refs
  <1> QED  BY <1>1, <1>4, <1>5, <1>6 DEF QueueInv

\* A removal: the node behind ref is x, wherever in the queue that is.
LEMMA RemoveInv ==
    ASSUME QueueInv, NEW q \in Queues, NEW ref \in Refs, RemoveItemAt(q, ref), link[ref] # Null
    PROVE  QueueInv'
  <1> USE QueueAssumption
  <1> DEFINE x == link[ref]
  <1>1. QueueTypeOK'
    BY DEF QueueInv, QueueTypeOK, RemoveItemAt, NewTail, Refs
  <1>2. x \in Nodes /\ owner[x] = q /\ (link[x] = Null => ref # x)
    BY DEF QueueInv, QueueTypeOK, LinksAreOwn, RemoveItemAt, Refs
  <1>3. /\ \A r \in Refs : link'[r] = IF r = x THEN Null ELSE IF r = ref THEN link[x] ELSE link[r]
        /\ \A m \in Nodes : owner'[m] = IF m = x THEN Null ELSE owner[m]
        /\ \A p \in Queues : tail'[p] = IF p = q /\ link[x] = Null THEN ref ELSE tail[p]
    BY <1>2 DEF QueueInv, QueueTypeOK, RemoveItemAt, NewTail, Refs
  <1>4. Holder(ref) = q
    BY DEF RemoveItemAt
  <1>0. x \in Refs /\ link[ref] = x
    BY <1>2 DEF Refs
  <1> HIDE DEF x
  <1>5. TailIsLast'
    <2>1. ASSUME NEW p \in Queues PROVE (Holder(tail[p]) = p)'
      BY <1>0, <1>2, <1>3, <1>4 DEF QueueInv, QueueTypeOK, TailIsLast, Holder, Refs
    <2>2. ASSUME NEW r \in Refs, Holder(r)' # Null
          PROVE  (link[r] = Null <=> tail[Holder(r)] = r)'
      <3>0. r # x
        BY <1>2, <1>3, <2>2 DEF Holder
      <3>1. CASE r = ref
        BY <1>0, <1>2, <1>3, <1>4, <2>2, <3>0, <3>1
        DEF QueueInv, QueueTypeOK, TailIsLast, Holder, Refs
      <3>2. CASE r # ref
        BY <1>0, <1>2, <1>3, <1>4, <2>2, <3>0, <3>2
        DEF QueueInv, QueueTypeOK, TailIsLast, Holder, Refs
      <3> QED  BY <3>1, <3>2
    <2> QED  BY <2>1, <2>2 DEF TailIsLast
  <1>6. LinksAreOwn'
    <2>1. ASSUME NEW r \in Refs, link'[r] # Null
          PROVE  Holder(r)' # Null /\ owner'[link'[r]] = Holder(r)'
      <3>1. r # x
        BY <1>3, <2>1
      <3>2. link'[r] # x /\ link'[r] \in Nodes
        BY <1>0, <1>2, <1>3, <2>1, <3>1 DEF QueueInv, QueueTypeOK, LinksAreOwn
      <3>3. owner[link'[r]] = Holder(r)
        BY <1>0, <1>2, <1>3, <1>4, <2>1, <3>1, <3>2 DEF QueueInv, LinksAreOwn, Holder
      <3> QED
        BY <1>0, <1>2, <1>3, <1>4, <2>1, <3>1, <3>2, <3>3 DEF QueueInv, LinksAreOwn, Holder, Refs
    <2>2. ASSUME NEW r \in Refs, NEW s \in Refs, link'[r] # Null, link'[r] = link'[s]
          PROVE  r = s
      BY <1>0, <1>2, <1>3, <2>2 DEF QueueInv, LinksAreOwn
    <2>3. ASSUME NEW m \in Nodes, owner'[m] # Null
          PROVE  \E r \in Refs : link'[r] = m
      <3>1. m # x
        BY <1>3, <2>3
      <3>2. PICK r \in Refs : link[r] = m
        BY <1>3, <2>3, <3>1 DEF QueueInv, LinksAreOwn
      <3> QED  BY <1>0, <1>3, <3>1, <3>2
    <2> QED  BY <2>1, <2>2, <2>3 DEF LinksAreOwn
  <1>7. FreeIsUnlinked'
    BY <1>0, <1>2, <1>3, <1>4 DEF QueueInv, FreeIsUnlinked, Holder, Refs
  <1> QED  BY <1>1, <1>5, <1>6, <1>7 DEF QueueInv

\* A swap renames the two queues in links, tails and owners alike.
LEMMA SwapInv ==
    ASSUME QueueInv, NEW q \in Queues, NEW r \in Queues, Swap(q, r)
    PROVE  QueueInv'
  <1> USE QueueAssumption
  <1> DEFINE other(p) == IF p = q THEN r ELSE IF p = r THEN q ELSE p
  <1>1. QueueTypeOK'
    BY DEF QueueInv, QueueTypeOK, Swap, SwappedTail, Refs
  <1>2. /\ \A p \in Queues : link'[p] = link[other(p)]
        /\ \A n \in Nodes : link'[n] = link[n]
        /\ \A n \in Nodes : owner'[n] = other(owner[n])
        /\ \A p \in Queues : tail'[p] = IF tail[other(p)] \in Queues THEN p ELSE tail[other(p)]
    BY DEF QueueInv, QueueTypeOK, TailIsLast, Holder, Swap, SwappedTail, Refs
  <1>3. /\ \A p \in Queues : other(p) \in Queues
        /\ other(Null) = Null
        /\ \A p \in Queues \cup {Null} : other(other(p)) = p
    OBVIOUS
  <1> HIDE DEF other
  <1>5. TailIsLast'
    <2>1. ASSUME NEW p \in Queues PROVE (Holder(tail[p]) = p)'
      BY <1>2, <1>3 DEF QueueInv, QueueTypeOK, TailIsLast, Holder, Refs
    <2>2. ASSUME NEW t \in Refs, Holder(t)' # Null
          PROVE  (link[t] = Null <=> tail[Holder(t)] = t)'
      <3>1. CASE t \in Queues
        BY <1>2, <1>3, <3>1 DEF QueueInv, QueueTypeOK, TailIsLast, Holder, Refs
      <3>2. CASE t \in Nodes
        BY <1>2, <1>3, <2>2, <3>2 DEF QueueInv, QueueTypeOK, TailIsLast, Holder, Refs
      <3> QED  BY <3>1, <3>2 DEF Refs
    <2> QED  BY <2>1, <2>2 DEF TailIsLast
  <1>6. LinksAreOwn'
    <2>1. ASSUME NEW t \in Refs, link'[t] # Null
          PROVE  Holder(t)' # Null /\ owner'[link'[t]] = Holder(t)'
      <3>1. CASE t \in Queues
        BY <1>2, <1>3, <2>1, <3>1 DEF QueueInv, QueueTypeOK, LinksAreOwn, Holder, Refs
      <3>2. CASE t \in Nodes
        BY <1>2, <1>3, <2>1, <3>2 DEF QueueInv, QueueTypeOK, LinksAreOwn, Holder, Refs
      <3> QED  BY <3>1, <3>2 DEF Refs
    <2>2. ASSUME NEW t \in Refs, NEW s \in Refs, link'[t] # Null, link'[t] = link'[s]
          PROVE  t = s
      BY <1>2, <1>3, <2>2 DEF QueueInv, LinksAreOwn, Refs
    <2>3. ASSUME NEW m \in Nodes, owner'[m] # Null
          PROVE  \E t \in Refs : link'[t] = m
      <3>1. PICK t \in Refs : link[t] = m
        BY <1>2, <1>3, <2>3 DEF QueueInv, LinksAreOwn
      <3>2. CASE t \in Queues
        BY <1>2, <1>3, <3>1, <3>2 DEF Refs
      <3>3. CASE t \in Nodes
        BY <1>2, <3>1, <3>3
      <3> QED  BY <3>2, <3>3 DEF Refs
    <2> QED  BY <2>1, <2>2, <2>3 DEF LinksAreOwn
  <1>7. FreeIsUnlinked'
    BY <1>2, <1>3 DEF QueueInv, QueueTypeOK, FreeIsUnlinked
  <1> QED  BY <1>1, <1>5, <1>6, <1>7 DEF QueueInv

\* A splice hangs the nodes of one queue behind the last link of another.
LEMMA SpliceInv ==
    ASSUME QueueInv, NEW onto \in Queues, NEW from \in Queues,
           SpliceOntoEnd(onto, from), link[from] # Null
    PROVE  QueueInv'
  <1> USE QueueAssumption
  <1> DEFINE t == tail[onto]
  <1>1. QueueTypeOK'
    BY DEF QueueInv, QueueTypeOK, SpliceOntoEnd, Refs
  <1>2. /\ t \in Refs /\ Holder(t) = onto /\ link[t] = Null /\ t # from /\ onto # from
        /\ tail[from] \in Nodes /\ owner[tail[from]] = from
    BY DEF QueueInv, QueueTypeOK, TailIsLast, SpliceOntoEnd, Holder, Refs
  <1>3. /\ \A r \in Refs : link'[r] = IF r = t THEN link[from] ELSE IF r = from THEN Null ELSE link[r]
        /\ \A n \in Nodes : owner'[n] = IF owner[n] = from THEN onto ELSE owner[n]
        /\ \A p \in Queues : tail'[p] =
                IF p = onto THEN tail[from] ELSE IF p = from THEN from ELSE tail[p]
    BY <1>2 DEF QueueInv, QueueTypeOK, SpliceOntoEnd, Refs
  <1>4. tail[onto] = t
    OBVIOUS
  <1> HIDE DEF t
  <1>5. TailIsLast'
    <2>1. ASSUME NEW p \in Queues PROVE (Holder(tail[p]) = p)'
      BY <1>2, <1>3 DEF QueueInv, QueueTypeOK, TailIsLast, Holder, Refs
    <2>2. ASSUME NEW r \in Refs, Holder(r)' # Null
          PROVE  (link[r] = Null <=> tail[Holder(r)] = r)'
      <3>1. CASE r \in Queues
        BY <1>2, <1>3, <1>4, <3>1 DEF QueueInv, QueueTypeOK, TailIsLast, Holder, Refs
      <3>2. CASE r \in Nodes
        BY <1>2, <1>3, <1>4, <2>2, <3>2 DEF QueueInv, QueueTypeOK, TailIsLast, Holder, Refs
      <3> QED  BY <3>1, <3>2 DEF Refs
    <2> QED  BY <2>1, <2>2 DEF TailIsLast
  <1>6. LinksAreOwn'
    <2>1. ASSUME NEW r \in Refs, link'[r] # Null
          PROVE  Holder(r)' # Null /\ owner'[link'[r]] = Holder(r)'
      BY <1>2, <1>3, <2>1 DEF QueueInv, QueueTypeOK, LinksAreOwn, Holder, Refs
    <2>2. ASSUME NEW r \in Refs, NEW s \in Refs, link'[r] # Null, link'[r] = link'[s]
          PROVE  r = s
      BY <1>2, <1>3, <2>2 DEF QueueInv, LinksAreOwn, Refs
    <2>3. ASSUME NEW m \in Nodes, owner'[m] # Null
          PROVE  \E r \in Refs : link'[r] = m
      <3>1. PICK r \in Refs : link[r] = m
        BY <1>2, <1>3, <2>3 DEF QueueInv, LinksAreOwn
      <3> QED  BY <1>2, <1>3, <3>1
    <2> QED  BY <2>1, <2>2, <2>3 DEF LinksAreOwn
  <1>7. FreeIsUnlinked'
    BY <1>2, <1>3 DEF QueueInv, QueueTypeOK, FreeIsUnlinked, Holder, Refs
  <1> QED  BY <1>1, <1>5, <1>6, <1>7 DEF QueueInv
-----------------------------------------------------------------------------
\* Every operation of slist_queue.c keeps the shape of the queues.
LEMMA NextInv == QueueInv /\ [QueueNext]_queueVars => QueueInv'
  <1> SUFFICES ASSUME QueueInv, [QueueNext]_queueVars PROVE QueueInv'
    OBVIOUS
  <1>1. ASSUME NEW q \in Queues, NEW n \in Nodes, PushBack(q, n) PROVE QueueInv'
    <2>1. tail[q] \in Refs /\ Holder(tail[q]) = q /\ link[tail[q]] = Null
      BY QueueAssumption DEF QueueInv, QueueTypeOK, TailIsLast
    <2> QED  BY <1>1, <2>1, InsertInv DEF PushBack
  <1>2. ASSUME NEW q \in Queues, NEW n \in Nodes, PushFront(q, n) PROVE QueueInv'
    <2>1. CASE link[q] = Null
      BY <1>1, <1>2, <2>1 DEF PushFront
    <2>2. CASE link[q] # Null
      <3>1. q \in Refs /\ Holder(q) = q
        BY DEF Refs, Holder
      <3> QED  BY <1>2, <2>2, <3>1, InsertInv DEF PushFront
    <2> QED  BY <2>1, <2>2
  <1>3. ASSUME NEW q \in Queues, NEW ref \in Refs, RemoveItemAt(q, ref) PROVE QueueInv'
    <2>1. CASE link[ref] # Null
      BY <1>3, <2>1, RemoveInv
    <2>2. CASE link[ref] = Null
      BY <1>3, <2>2
      DEF RemoveItemAt, QueueInv, QueueTypeOK, TailIsLast, LinksAreOwn, FreeIsUnlinked, Holder
    <2> QED  BY <2>1, <2>2
  <1>4. ASSUME NEW q \in Queues, NEW r \in Queues, Swap(q, r) PROVE QueueInv'
    BY <1>4, SwapInv
  <1>5. ASSUME NEW onto \in Queues, NEW from \in Queues, SpliceOntoEnd(onto, from) PROVE QueueInv'
    <2>1. CASE link[from] # Null
      BY <1>5, <2>1, SpliceInv
    <2>2. CASE link[from] = Null
      BY <1>5, <2>2
      DEF SpliceOntoEnd, QueueInv, QueueTypeOK, TailIsLast, LinksAreOwn, FreeIsUnlinked, Holder
    <2> QED  BY <2>1, <2>2
  <1>6. CASE UNCHANGED queueVars
    BY <1>6 DEF queueVars, QueueInv, QueueTypeOK, TailIsLast, LinksAreOwn, FreeIsUnlinked, Holder
  <1> QED  BY <1>1, <1>2, <1>3, <1>4, <1>5, <1>6 DEF QueueNext

\* The inductive invariant holds of every behaviour.
LEMMA QueueShape == QueueSpec => []QueueInv
  BY InitInv, NextInv, PTL DEF QueueSpec

\* genc_slq_push_back always writes behind the last node of its own queue, after
\* any sequence of the operations of slist_queue.c.
THEOREM TailCorrect == QueueSpec => []TailIsLast
  <1>1. QueueInv => TailIsLast
    BY DEF QueueInv
  <1> QED  BY <1>1, QueueShape, PTL

\* No node is in two places or lost by the operations of slist_queue.c.
THEOREM LinksCorrect == QueueSpec => []LinksAreOwn
  <1>1. QueueInv => LinksAreOwn
    BY DEF QueueInv
  <1> QED  BY <1>1, QueueShape, PTL

\* The assertion of genc_slq_remove_item_at never fails.
THEOREM RemovalAssertion == QueueSpec => []RemovedIsNotTail
  <1>1. QueueInv => RemovedIsNotTail
    BY QueueAssumption DEF QueueInv, QueueTypeOK, TailIsLast, RemovedIsNotTail, Holder
  <1> QED  BY <1>1, QueueShape, PTL
-----------------------------------------------------------------------------
(* The nodes of a linked queue, as a sequence. *)

\* Every set of numbers that is not empty has a least one.
LEMMA LeastNumber ==
    ASSUME NEW S \in SUBSET Nat, S # {}
    PROVE  \E i \in S : \A j \in S : i <= j
<1> DEFINE Less == {ss \in Nat \X Nat : ss[1] < ss[2]}
<1>1. IsWellFoundedOn(Less, Nat)
  BY NatLessThanWellFounded DEF OpToRel
<1>2. \A j \in S, i \in S : j < i => <<j, i>> \in Less
  OBVIOUS
<1> HIDE DEF Less
<1>3. PICK i \in S : \A j \in S : ~(<<j, i>> \in Less)
  BY <1>1, WFMin
<1>4. \A j \in S : ~(j < i)
  BY <1>2, <1>3
<1>5. \A j \in S : i <= j
  BY <1>4
<1> QED BY <1>5

Distinct(s) == \A i, j \in 1 .. Len(s) : s[i] = s[j] => i = j

\* The links f lead from the head of q along the nodes s to Null.
Leads(f, q, s) ==
    /\ Len(s) = 0 => f[q] = Null
    /\ Len(s) > 0 => f[q] = s[1] /\ f[s[Len(s)]] = Null
    /\ \A i \in 1 .. Len(s) - 1 : f[s[i]] = s[i + 1]

\* One step of the walk g.
WalkStep(f, q, g, k) ==
    IF k = 0 THEN q ELSE IF g[k - 1] = Null THEN Null ELSE f[g[k - 1]]

\* The recursion of WalkFrom, if there is a function that solves it.
LEMMA UnfoldWalk ==
    ASSUME NEW f, NEW q, \E g : g = [k \in 0 .. Cardinality(Nodes) + 1 |-> WalkStep(f, q, g, k)]
    PROVE  WalkFrom(f, q) = [k \in 0 .. Cardinality(Nodes) + 1 |-> WalkStep(f, q, WalkFrom(f, q), k)]
  BY Zenon DEF WalkFrom, WalkStep

\* No more nodes than there are.
LEMMA DistinctBound ==
    ASSUME NEW s \in Seq(Nodes), Distinct(s)
    PROVE  Len(s) <= Cardinality(Nodes) /\ Cardinality(Nodes) \in Nat
<1>1. IsFiniteSet(Nodes)
  BY QueueAssumption
<1>2. s \in [1 .. Len(s) -> Nodes] /\ Len(s) \in Nat
  OBVIOUS
<1>3. s \in Injection(1 .. Len(s), Nodes)
  BY <1>2 DEF Injection, IsInjective, Distinct
<1>4. Cardinality(1 .. Len(s)) <= Cardinality(Nodes)
  BY <1>1, <1>3, FS_Injection
<1>5. Cardinality(1 .. Len(s)) = Len(s)
  <2>1. 1 \in Int /\ Len(s) \in Int
    BY <1>2
  <2>2. Cardinality(1 .. Len(s)) = IF 1 > Len(s) THEN 0 ELSE Len(s) - 1 + 1
    BY <2>1, FS_Interval, Zenon
  <2> QED BY <1>2, <2>2
<1>6. Cardinality(Nodes) \in Nat
  BY <1>1, FS_CardinalityType
<1> QED BY <1>4, <1>5, <1>6

\* The walk meets the nodes the links lead along.
LEMMA WalkMeets ==
    ASSUME NEW q \in Queues, NEW f, NEW s \in Seq(Nodes), Distinct(s), Leads(f, q, s)
    PROVE  /\ \A k \in 1 .. Len(s) : WalkFrom(f, q)[k] = s[k]
           /\ \A k \in Len(s) + 1 .. Cardinality(Nodes) + 1 : WalkFrom(f, q)[k] = Null
<1> DEFINE N == Cardinality(Nodes)
           h == [k \in 0 .. N + 1 |-> IF k = 0 THEN q ELSE IF k <= Len(s) THEN s[k] ELSE Null]
<1>1. N \in Nat /\ Len(s) \in Nat /\ Len(s) <= N
  BY DistinctBound
<1>2. q # Null /\ \A k \in 1 .. Len(s) : s[k] # Null
  BY QueueAssumption
<1> HIDE DEF N
<1>3. ASSUME NEW k \in 0 .. N + 1 PROVE h[k] = WalkStep(f, q, h, k)
  <2>1. CASE k = 0
    BY <2>1 DEF WalkStep
  <2>2. CASE k = 1
    <3>1. h[0] = q /\ h[1] = f[q]
      BY <1>1 DEF Leads
    <3> QED BY <1>1, <1>2, <2>2, <3>1 DEF WalkStep
  <2>3. CASE k > 1 /\ k <= Len(s)
    <3>1. k - 1 \in 1 .. Len(s) - 1 /\ k - 1 \in 0 .. N + 1 /\ k - 1 \in 1 .. Len(s) /\ k - 1 + 1 = k /\ k # 0
      BY <1>1, <2>3
    <3>2. h[k - 1] = s[k - 1] /\ h[k] = s[k]
      BY <1>1, <2>3, <3>1
    <3>3. f[s[k - 1]] = s[k] /\ s[k - 1] # Null
      BY <1>2, <3>1 DEF Leads
    <3> HIDE DEF h
    <3> QED BY <3>1, <3>2, <3>3 DEF WalkStep
  <2>4. CASE k > 1 /\ k > Len(s)
    <3>1. k - 1 \in 0 .. N + 1 /\ k # 0 /\ k - 1 # 0 /\ h[k] = Null
      BY <1>1, <2>4
    <3>2. CASE k - 1 > Len(s)
      <4>1. h[k - 1] = Null
        BY <1>1, <2>4, <3>1, <3>2
      <4> HIDE DEF h
      <4> QED BY <3>1, <4>1 DEF WalkStep
    <3>3. CASE k - 1 = Len(s)
      <4>1. h[k - 1] = s[Len(s)] /\ f[s[Len(s)]] = Null /\ s[Len(s)] # Null
        BY <1>1, <1>2, <2>4, <3>1, <3>3 DEF Leads
      <4> HIDE DEF h
      <4> QED BY <3>1, <4>1 DEF WalkStep
    <3> QED BY <1>1, <2>4, <3>2, <3>3
  <2>5. k = 0 \/ k = 1 \/ (k > 1 /\ k <= Len(s)) \/ (k > 1 /\ k > Len(s))
    BY <1>1
  <2> HIDE DEF h
  <2> QED BY <2>1, <2>2, <2>3, <2>4, <2>5
<1>4. h = [k \in 0 .. N + 1 |-> h[k]]
  OBVIOUS
<1>5. \A k \in 1 .. Len(s) : h[k] = s[k]
  BY <1>1
<1>6. \A k \in Len(s) + 1 .. N + 1 : h[k] = Null
  BY <1>1
<1>7. h[0] = q
  BY <1>1
<1> HIDE DEF h
<1>8. h = [k \in 0 .. N + 1 |-> WalkStep(f, q, h, k)]
  BY <1>3, <1>4, Zenon
<1>9. PICK w : w = WalkFrom(f, q)
  OBVIOUS
<1>10. w = [k \in 0 .. N + 1 |-> WalkStep(f, q, w, k)]
  <2>1. \E g : g = [k \in 0 .. Cardinality(Nodes) + 1 |-> WalkStep(f, q, g, k)]
    BY <1>8, Zenon DEF N
  <2>2. WalkFrom(f, q) = [k \in 0 .. Cardinality(Nodes) + 1 |-> WalkStep(f, q, WalkFrom(f, q), k)]
    BY <2>1, UnfoldWalk
  <2> QED BY <1>9, <2>2 DEF N
<1>11. ASSUME NEW k \in 0 .. N + 1 PROVE w[k] = WalkStep(f, q, w, k)
  BY <1>10, Zenon
<1> DEFINE B == {k \in 0 .. N + 1 : w[k] # h[k]}
<1>12. ASSUME B # {} PROVE FALSE
  <2>1. B \in SUBSET Nat
    OBVIOUS
  <2>2. PICK k \in B : \A j \in B : k <= j
    BY <1>12, <2>1, LeastNumber
  <2>3. k \in 0 .. N + 1 /\ w[k] # h[k]
    OBVIOUS
  <2>4. k # 0
    <3>1. w[0] = q
      BY <1>1, <1>11 DEF WalkStep
    <3> QED BY <1>7, <2>3, <3>1
  <2>5. k - 1 \in 0 .. N + 1 /\ ~(k <= k - 1)
    BY <1>1, <2>3, <2>4
  <2>6. w[k - 1] = h[k - 1]
    BY <2>2, <2>5
  <2>7. WalkStep(f, q, w, k) = WalkStep(f, q, h, k)
    BY <2>6 DEF WalkStep
  <2> QED BY <1>3, <1>11, <2>3, <2>7
<1>13. \A k \in 0 .. N + 1 : w[k] = h[k]
  BY <1>12
<1>14. ASSUME NEW k \in 1 .. Len(s) PROVE w[k] = s[k]
  <2>1. k \in 0 .. N + 1
    BY <1>1
  <2> QED BY <1>5, <1>13, <2>1
<1>15. ASSUME NEW k \in Len(s) + 1 .. N + 1 PROVE w[k] = Null
  <2>1. k \in 0 .. N + 1
    BY <1>1
  <2> QED BY <1>6, <1>13, <2>1
<1> QED BY <1>9, <1>14, <1>15 DEF N

\* Those are the nodes of the queue.
LEMMA NodesMet ==
    ASSUME NEW q \in Queues, NEW f, NEW s \in Seq(Nodes), Distinct(s), Leads(f, q, s)
    PROVE  NodesFrom(f, q) = s
<1>1. Cardinality(Nodes) \in Nat /\ Len(s) \in Nat /\ Len(s) <= Cardinality(Nodes)
  BY DistinctBound
<1>2. PICK w, N : w = WalkFrom(f, q) /\ N = Cardinality(Nodes)
  OBVIOUS
<1>3. /\ \A k \in 1 .. Len(s) : w[k] = s[k]
      /\ \A k \in Len(s) + 1 .. N + 1 : w[k] = Null
  BY <1>2, WalkMeets
<1>4. \A k \in 1 .. Len(s) : s[k] # Null
  BY QueueAssumption
<1>5. {k \in 1 .. N + 1 : w[k] # Null} = 1 .. Len(s)
  <2>1. ASSUME NEW k \in 1 .. N + 1, w[k] # Null PROVE k \in 1 .. Len(s)
    BY <1>1, <1>2, <1>3, <2>1
  <2>2. ASSUME NEW k \in 1 .. Len(s) PROVE k \in 1 .. N + 1 /\ w[k] # Null
    BY <1>1, <1>2, <1>3, <1>4
  <2> QED BY <2>1, <2>2
<1>6. Cardinality(1 .. Len(s)) = Len(s)
  <2>1. 1 \in Int /\ Len(s) \in Int
    BY <1>1
  <2>2. Cardinality(1 .. Len(s)) = IF 1 > Len(s) THEN 0 ELSE Len(s) - 1 + 1
    BY <2>1, FS_Interval, Zenon
  <2> QED BY <1>1, <2>2
<1>7. NodesFrom(f, q) = [k \in 1 .. Len(s) |-> w[k]]
  <2>1. NodesFrom(f, q) = [k \in 1 .. Cardinality({j \in 1 .. N + 1 : w[j] # Null}) |-> w[k]]
    BY <1>2, Zenon DEF NodesFrom
  <2> QED BY <1>5, <1>6, <2>1
<1>8. s = [k \in 1 .. Len(s) |-> s[k]]
  OBVIOUS
<1> QED BY <1>3, <1>7, <1>8, Zenon

\* With the links f and the owners o, queue q has the nodes s.
Holds(f, o, q, s) ==
    /\ s \in Seq(Nodes) /\ Distinct(s) /\ Leads(f, q, s)
    /\ \A n \in Nodes : o[n] = q <=> \E i \in 1 .. Len(s) : s[i] = n

\* The address of the last link.
LastLink(q, s) == IF Len(s) = 0 THEN q ELSE s[Len(s)]

\* A queue is handed over, or left alone (r = q).
LEMMA HandOver ==
    ASSUME NEW f, NEW g, NEW o, NEW p, NEW q, NEW r, NEW s, Holds(f, o, r, s),
           g[q] = f[r], \A n \in Nodes : o[n] = r => g[n] = f[n],
           \A n \in Nodes : p[n] = q <=> o[n] = r
    PROVE  Holds(g, p, q, s)
<1>1. s \in Seq(Nodes) /\ Distinct(s) /\ Leads(f, r, s) /\ Len(s) \in Nat
      /\ \A n \in Nodes : o[n] = r <=> \E i \in 1 .. Len(s) : s[i] = n
  BY DEF Holds
<1>2. \A i \in 1 .. Len(s) : s[i] \in Nodes /\ o[s[i]] = r
  BY <1>1
<1>3. \A i \in 1 .. Len(s) : g[s[i]] = f[s[i]]
  BY <1>2
<1>4. Leads(g, q, s)
  BY <1>1, <1>3 DEF Leads
<1>5. \A n \in Nodes : p[n] = q <=> \E i \in 1 .. Len(s) : s[i] = n
  BY <1>1
<1> QED BY <1>1, <1>4, <1>5 DEF Holds

\* A node is linked in at the end.
LEMMA AppendHolds ==
    ASSUME NEW f, NEW g, NEW o, NEW p, NEW q \in Queues, NEW s, NEW n \in Nodes, Holds(f, o, q, s),
           o[n] # q, g[LastLink(q, s)] = n, g[n] = Null,
           \A r \in Refs : r # n /\ r # LastLink(q, s) => g[r] = f[r],
           \A m \in Nodes : p[m] = q <=> o[m] = q \/ m = n
    PROVE  Holds(g, p, q, Append(s, n))
<1>1. s \in Seq(Nodes) /\ Distinct(s) /\ Leads(f, q, s) /\ Len(s) \in Nat
      /\ \A m \in Nodes : o[m] = q <=> \E i \in 1 .. Len(s) : s[i] = m
  BY DEF Holds
<1>2. PICK t \in Seq(Nodes) : /\ t = Append(s, n) /\ Len(t) = Len(s) + 1 /\ t[Len(s) + 1] = n
                              /\ \A i \in 1 .. Len(s) : t[i] = s[i]
  <2>1. /\ Append(s, n) \in Seq(Nodes) /\ Len(Append(s, n)) = Len(s) + 1
        /\ \A i \in 1 .. Len(s) : Append(s, n)[i] = s[i]
        /\ Append(s, n)[Len(s) + 1] = n
    BY <1>1, AppendProperties
  <2> QED BY <2>1, Zenon
<1>3. \A i \in 1 .. Len(s) : s[i] \in Nodes /\ s[i] # n /\ s[i] # q /\ s[i] \in Refs
  BY <1>1, QueueAssumption DEF Refs
<1>4. q # n /\ q \in Refs
  BY QueueAssumption DEF Refs
<1>5. Distinct(t)
  BY <1>1, <1>2, <1>3 DEF Distinct
<1>6. CASE Len(s) = 0
  <2>1. g[q] = n /\ Len(t) = 1 /\ t[1] = n
    BY <1>2, <1>6 DEF LastLink
  <2> QED BY <1>1, <1>2, <1>5, <2>1 DEF Holds, Leads
<1>7. CASE Len(s) > 0
  <2>1. LastLink(q, s) = s[Len(s)] /\ Len(s) \in 1 .. Len(s) /\ 1 \in 1 .. Len(s)
    BY <1>1, <1>7 DEF LastLink
  <2>2. g[q] = t[1]
    BY <1>1, <1>2, <1>3, <1>4, <1>7, <2>1 DEF Leads
  <2>3. g[t[Len(t)]] = Null
    BY <1>2
  <2>4. ASSUME NEW i \in 1 .. Len(t) - 1 PROVE g[t[i]] = t[i + 1]
    <3>1. CASE i = Len(s)
      BY <1>2, <2>1, <3>1
    <3>2. CASE i # Len(s)
      <4>1. i \in 1 .. Len(s) - 1 /\ i \in 1 .. Len(s) /\ i + 1 \in 1 .. Len(s)
        BY <1>1, <1>2, <3>2
      <4>2. s[i] # s[Len(s)]
        BY <1>1, <2>1, <3>2, <4>1 DEF Distinct
      <4>3. g[s[i]] = f[s[i]] /\ f[s[i]] = s[i + 1]
        BY <1>1, <1>3, <2>1, <4>1, <4>2 DEF Leads
      <4> QED BY <1>2, <4>1, <4>3
    <3> QED BY <3>1, <3>2
  <2>5. Leads(g, q, t)
    <3>1. Len(t) \in Nat /\ Len(t) > 0
      BY <1>1, <1>2
    <3> QED BY <2>2, <2>3, <2>4, <3>1 DEF Leads
  <2>6. ASSUME NEW m \in Nodes PROVE p[m] = q <=> \E i \in 1 .. Len(t) : t[i] = m
    BY <1>1, <1>2
  <2> QED BY <1>2, <1>5, <2>5, <2>6 DEF Holds
<1> QED BY <1>1, <1>6, <1>7

\* A node is linked in at the head.
LEMMA PrependHolds ==
    ASSUME NEW f, NEW g, NEW o, NEW p, NEW q \in Queues, NEW s, NEW n \in Nodes, Holds(f, o, q, s),
           o[n] # q, g[q] = n, g[n] = f[q],
           \A r \in Refs : r # n /\ r # q => g[r] = f[r],
           \A m \in Nodes : p[m] = q <=> o[m] = q \/ m = n
    PROVE  Holds(g, p, q, <<n>> \o s)
<1>1. s \in Seq(Nodes) /\ Distinct(s) /\ Leads(f, q, s) /\ Len(s) \in Nat
      /\ \A m \in Nodes : o[m] = q <=> \E i \in 1 .. Len(s) : s[i] = m
  BY DEF Holds
<1>2. PICK t \in Seq(Nodes) : /\ t = <<n>> \o s /\ Len(t) = Len(s) + 1 /\ t[1] = n
                              /\ \A i \in 1 .. Len(s) : t[i + 1] = s[i]
  <2>1. <<n>> \in Seq(Nodes) /\ Len(<<n>>) = 1 /\ <<n>>[1] = n
    OBVIOUS
  <2>2. PICK u \in Seq(Nodes) : u = <<n>> /\ Len(u) = 1 /\ u[1] = n
    BY <2>1, Zenon
  <2>3. /\ u \o s \in Seq(Nodes) /\ Len(u \o s) = Len(u) + Len(s)
        /\ \A i \in 1 .. Len(u) + Len(s) : (u \o s)[i] = IF i <= Len(u) THEN u[i] ELSE s[i - Len(u)]
    BY <1>1, ConcatProperties
  <2>4. (u \o s)[1] = n
    BY <1>1, <2>2, <2>3
  <2>5. \A i \in 1 .. Len(s) : (u \o s)[i + 1] = s[i]
    BY <1>1, <2>2, <2>3
  <2>6. Len(u \o s) = Len(s) + 1
    BY <1>1, <2>2, <2>3
  <2> QED BY <2>2, <2>3, <2>4, <2>5, <2>6
<1>3. \A i \in 1 .. Len(s) : s[i] \in Nodes /\ s[i] # n /\ s[i] # q /\ s[i] \in Refs
  BY <1>1, QueueAssumption DEF Refs
<1>4. \A i \in 1 .. Len(s) : g[s[i]] = f[s[i]]
  BY <1>3
<1>5. \A i \in 1 .. Len(t) : i = 1 \/ (i - 1 \in 1 .. Len(s) /\ t[i] = s[i - 1])
  <2>1. ASSUME NEW i \in 1 .. Len(t), i # 1 PROVE i - 1 \in 1 .. Len(s) /\ i - 1 + 1 = i
    BY <1>1, <1>2, <2>1
  <2> QED BY <1>2, <2>1
<1>6. Distinct(t)
  <2>1. ASSUME NEW i \in 1 .. Len(t), NEW j \in 1 .. Len(t), t[i] = t[j], i # 1, j # 1 PROVE i = j
    <3>1. i - 1 \in 1 .. Len(s) /\ j - 1 \in 1 .. Len(s) /\ s[i - 1] = s[j - 1]
      BY <1>5, <2>1
    <3>2. i - 1 = j - 1
      BY <1>1, <3>1 DEF Distinct
    <3> QED BY <1>2, <3>2
  <2>2. ASSUME NEW i \in 1 .. Len(t), i # 1 PROVE t[i] # t[1]
    BY <1>2, <1>3, <1>5, <2>2
  <2> QED BY <2>1, <2>2 DEF Distinct
<1>7. CASE Len(s) = 0
  <2>1. f[q] = Null /\ Len(t) = 1
    BY <1>1, <1>2, <1>7 DEF Leads
  <2>2. Leads(g, q, t)
    BY <1>2, <2>1 DEF Leads
  <2>3. \A m \in Nodes : p[m] = q <=> \E i \in 1 .. Len(t) : t[i] = m
    BY <1>1, <1>2, <1>7, <2>1
  <2> QED BY <1>2, <1>6, <2>2, <2>3 DEF Holds
<1>8. CASE Len(s) > 0
  <2>1. f[q] = s[1] /\ f[s[Len(s)]] = Null /\ 1 \in 1 .. Len(s) /\ Len(s) \in 1 .. Len(s)
    BY <1>1, <1>8 DEF Leads
  <2>2. g[q] = t[1] /\ g[t[1]] = t[2]
    <3>1. t[1 + 1] = s[1]
      BY <1>2, <2>1
    <3> QED BY <1>2, <2>1, <3>1
  <2>3. g[t[Len(t)]] = Null
    BY <1>2, <1>4, <2>1
  <2>4. ASSUME NEW i \in 1 .. Len(t) - 1 PROVE g[t[i]] = t[i + 1]
    <3>1. CASE i = 1
      BY <2>2, <3>1
    <3>2. CASE i # 1
      <4>1. i - 1 \in 1 .. Len(s) - 1 /\ i - 1 \in 1 .. Len(s) /\ i - 1 + 1 = i /\ i \in 1 .. Len(s)
        BY <1>1, <1>2, <3>2
      <4>2. t[i] = s[i - 1] /\ t[i + 1] = s[i]
        BY <1>2, <4>1
      <4>3. f[s[i - 1]] = s[i]
        BY <1>1, <4>1 DEF Leads
      <4> QED BY <1>4, <4>1, <4>2, <4>3
    <3> QED BY <3>1, <3>2
  <2>5. Leads(g, q, t)
    BY <1>1, <1>2, <2>2, <2>3, <2>4 DEF Leads
  <2>6. ASSUME NEW m \in Nodes PROVE p[m] = q <=> \E i \in 1 .. Len(t) : t[i] = m
    <3>1. ASSUME NEW i \in 1 .. Len(s), s[i] = m PROVE \E j \in 1 .. Len(t) : t[j] = m
      <4>1. i + 1 \in 1 .. Len(t) /\ t[i + 1] = m
        BY <1>1, <1>2, <3>1
      <4> QED BY <4>1
    <3>2. ASSUME NEW i \in 1 .. Len(t), t[i] = m PROVE m = n \/ \E j \in 1 .. Len(s) : s[j] = m
      BY <1>2, <1>5, <3>2
    <3>3. 1 \in 1 .. Len(t) /\ t[1] = n
      BY <1>1, <1>2
    <3> QED BY <1>1, <3>1, <3>2, <3>3
  <2> QED BY <1>2, <1>6, <2>5, <2>6 DEF Holds
<1> QED BY <1>1, <1>7, <1>8

\* The sequence s without its element i.
Without(s, i) == SubSeq(s, 1, i - 1) \o SubSeq(s, i + 1, Len(s))

\* Its elements.
LEMMA WithoutFacts ==
    ASSUME NEW s \in Seq(Nodes), NEW i \in 1 .. Len(s)
    PROVE  /\ Without(s, i) \in Seq(Nodes) /\ Len(Without(s, i)) = Len(s) - 1
           /\ \A j \in 1 .. i - 1 : Without(s, i)[j] = s[j]
           /\ \A j \in i .. Len(s) - 1 : Without(s, i)[j] = s[j + 1]
<1>1. Len(s) \in Nat /\ i \in Nat /\ i >= 1 /\ i <= Len(s)
  OBVIOUS
<1>2. PICK u \in Seq(Nodes) : /\ u = SubSeq(s, 1, i - 1) /\ Len(u) = i - 1
                              /\ \A j \in 1 .. i - 1 : u[j] = s[j]
  <2>1. \A j \in 1 .. i - 1 : s[j] \in Nodes
    BY <1>1, ElementOfSeq
  <2>2. /\ SubSeq(s, 1, i - 1) \in Seq(Nodes)
        /\ Len(SubSeq(s, 1, i - 1)) = IF 1 <= i - 1 THEN i - 1 - 1 + 1 ELSE 0
        /\ \A j \in 1 .. i - 1 - 1 + 1 : SubSeq(s, 1, i - 1)[j] = s[1 + j - 1]
    BY <1>1, <2>1, SubSeqProperties
  <2>3. Len(SubSeq(s, 1, i - 1)) = i - 1
    BY <1>1, <2>2
  <2>4. \A j \in 1 .. i - 1 : SubSeq(s, 1, i - 1)[j] = s[j]
    BY <1>1, <2>2
  <2> QED BY <2>2, <2>3, <2>4, Zenon
<1>3. PICK v \in Seq(Nodes) : /\ v = SubSeq(s, i + 1, Len(s)) /\ Len(v) = Len(s) - i
                              /\ \A j \in 1 .. Len(s) - i : v[j] = s[i + j]
  <2>1. \A j \in i + 1 .. Len(s) : s[j] \in Nodes
    BY <1>1, ElementOfSeq
  <2>2. /\ SubSeq(s, i + 1, Len(s)) \in Seq(Nodes)
        /\ Len(SubSeq(s, i + 1, Len(s))) = IF i + 1 <= Len(s) THEN Len(s) - (i + 1) + 1 ELSE 0
        /\ \A j \in 1 .. Len(s) - (i + 1) + 1 : SubSeq(s, i + 1, Len(s))[j] = s[i + 1 + j - 1]
    BY <1>1, <2>1, SubSeqProperties
  <2>3. Len(SubSeq(s, i + 1, Len(s))) = Len(s) - i
    BY <1>1, <2>2
  <2>4. ASSUME NEW j \in 1 .. Len(s) - i PROVE SubSeq(s, i + 1, Len(s))[j] = s[i + j]
    <3>1. i + 1 + j - 1 = i + j /\ j \in 1 .. Len(s) - (i + 1) + 1
      BY <1>1
    <3> QED BY <2>2, <3>1
  <2> QED BY <2>2, <2>3, <2>4, Zenon
<1>4. /\ u \o v \in Seq(Nodes) /\ Len(u \o v) = Len(u) + Len(v)
      /\ \A j \in 1 .. Len(u) + Len(v) : (u \o v)[j] = IF j <= Len(u) THEN u[j] ELSE v[j - Len(u)]
  BY ConcatProperties
<1>5. Len(u \o v) = Len(s) - 1 /\ Len(u) + Len(v) = Len(s) - 1
  <2>1. Len(u) = i - 1 /\ Len(v) = Len(s) - i
    BY <1>2, <1>3
  <2>2. (i - 1) + (Len(s) - i) = Len(s) - 1
    BY <1>1
  <2>3. Len(u) + Len(v) = Len(s) - 1
    BY <2>1, <2>2
  <2> QED BY <1>4, <2>3
<1>6. ASSUME NEW j \in 1 .. i - 1 PROVE (u \o v)[j] = s[j]
  BY <1>1, <1>2, <1>4, <1>5
<1>7. ASSUME NEW j \in i .. Len(s) - 1 PROVE (u \o v)[j] = s[j + 1]
  <2>1. /\ j \in 1 .. Len(u) + Len(v) /\ ~(j <= Len(u))
        /\ j - Len(u) \in 1 .. Len(s) - i /\ i + (j - Len(u)) = j + 1
    BY <1>1, <1>2, <1>5
  <2>2. (u \o v)[j] = v[j - Len(u)]
    BY <1>4, <2>1
  <2>3. v[j - Len(u)] = s[i + (j - Len(u))]
    BY <1>3, <2>1
  <2> QED BY <2>1, <2>2, <2>3
<1> QED BY <1>2, <1>3, <1>4, <1>5, <1>6, <1>7 DEF Without

\* The node behind an address is taken out.
LEMMA RemoveHolds ==
    ASSUME NEW f, NEW g, NEW o, NEW p, NEW q \in Queues, NEW s, Holds(f, o, q, s),
           NEW i \in 1 .. Len(s), NEW at, i = 1 => at = q, i # 1 => at = s[i - 1],
           g[at] = f[s[i]],
           \A r \in Refs : r # s[i] /\ r # at => g[r] = f[r],
           \A m \in Nodes : p[m] = q <=> o[m] = q /\ m # s[i]
    PROVE  Holds(g, p, q, Without(s, i))
<1>1. s \in Seq(Nodes) /\ Distinct(s) /\ Leads(f, q, s) /\ Len(s) \in Nat
      /\ \A m \in Nodes : o[m] = q <=> \E j \in 1 .. Len(s) : s[j] = m
  BY DEF Holds
<1>2. PICK t \in Seq(Nodes) : /\ t = Without(s, i) /\ Len(t) = Len(s) - 1
                              /\ \A j \in 1 .. i - 1 : t[j] = s[j]
                              /\ \A j \in i .. Len(s) - 1 : t[j] = s[j + 1]
  BY <1>1, WithoutFacts
<1>3. i \in Nat /\ i >= 1 /\ i <= Len(s) /\ Len(t) \in Nat
  BY <1>1, <1>2
<1>4. \A j \in 1 .. Len(s) : s[j] \in Nodes /\ s[j] # q /\ s[j] \in Refs
  BY <1>1, QueueAssumption DEF Refs
<1>5. \A j, k \in 1 .. Len(s) : s[j] = s[k] => j = k
  BY <1>1 DEF Distinct
<1>6. \A j \in 1 .. Len(s) : j # i /\ j # i - 1 => g[s[j]] = f[s[j]]
  <2>1. ASSUME NEW j \in 1 .. Len(s), j # i, j # i - 1 PROVE s[j] # s[i] /\ s[j] # at
    <3>1. s[j] # s[i]
      BY <1>5, <2>1
    <3>2. CASE i = 1
      BY <1>4, <3>1, <3>2
    <3>3. CASE i # 1
      <4>1. i - 1 \in 1 .. Len(s)
        BY <1>1, <1>3, <3>3
      <4> QED BY <1>5, <2>1, <3>1, <3>3, <4>1
    <3> QED BY <3>2, <3>3
  <2> QED BY <1>4, <2>1
<1>7. \A j \in 1 .. Len(t) :
        \/ j <= i - 1 /\ j \in 1 .. Len(s) /\ t[j] = s[j]
        \/ j >= i /\ j + 1 \in 1 .. Len(s) /\ t[j] = s[j + 1]
  <2>1. ASSUME NEW j \in 1 .. Len(t), j <= i - 1 PROVE j \in 1 .. Len(s) /\ t[j] = s[j]
    BY <1>1, <1>2, <1>3, <2>1
  <2>2. ASSUME NEW j \in 1 .. Len(t), j >= i PROVE j + 1 \in 1 .. Len(s) /\ t[j] = s[j + 1]
    BY <1>1, <1>2, <1>3, <2>2
  <2>3. \A j \in 1 .. Len(t) : j <= i - 1 \/ j >= i
    BY <1>3
  <2> QED BY <2>1, <2>2, <2>3
<1>8. Distinct(t)
  <2>1. ASSUME NEW j \in 1 .. Len(t), NEW k \in 1 .. Len(t), t[j] = t[k] PROVE j = k
    <3>1. CASE j <= i - 1 /\ k <= i - 1
      BY <1>3, <1>5, <1>7, <2>1, <3>1
    <3>2. CASE j >= i /\ k >= i
      <4>1. j + 1 \in 1 .. Len(s) /\ k + 1 \in 1 .. Len(s) /\ s[j + 1] = s[k + 1]
        BY <1>3, <1>7, <2>1, <3>2
      <4>2. j + 1 = k + 1
        BY <1>5, <4>1
      <4> QED BY <1>3, <4>2
    <3>3. CASE j <= i - 1 /\ k >= i
      <4>1. j \in 1 .. Len(s) /\ k + 1 \in 1 .. Len(s) /\ s[j] = s[k + 1]
        BY <1>3, <1>7, <2>1, <3>3
      <4>2. j = k + 1
        BY <1>5, <4>1
      <4> QED BY <1>3, <3>3, <4>2
    <3>4. CASE k <= i - 1 /\ j >= i
      <4>1. k \in 1 .. Len(s) /\ j + 1 \in 1 .. Len(s) /\ s[k] = s[j + 1]
        BY <1>3, <1>7, <2>1, <3>4
      <4>2. k = j + 1
        BY <1>5, <4>1
      <4> QED BY <1>3, <3>4, <4>2
    <3>5. (j <= i - 1 \/ j >= i) /\ (k <= i - 1 \/ k >= i)
      BY <1>3
    <3> QED BY <3>1, <3>2, <3>3, <3>4, <3>5, Zenon
  <2> QED BY <2>1 DEF Distinct
<1>9. /\ f[q] = s[1] /\ f[s[Len(s)]] = Null
      /\ \A j \in 1 .. Len(s) - 1 : f[s[j]] = s[j + 1]
  BY <1>1, <1>3 DEF Leads
<1>10. Len(t) = 0 => g[q] = Null
  <2>1. ASSUME Len(t) = 0 PROVE g[q] = Null
    <3>0. Len(s) - 1 = 0
      BY <1>2, <2>1
    <3>1. Len(s) = 1 /\ i = 1
      <4>1. Len(s) \in Nat /\ i \in Nat /\ i >= 1 /\ i <= Len(s)
        BY <1>1, <1>3
      <4>2. \A a, b \in Nat : a - 1 = 0 /\ b >= 1 /\ b <= a => a = 1 /\ b = 1
        OBVIOUS
      <4> QED BY <3>0, <4>1, <4>2, Zenon
    <3> QED BY <1>9, <3>1
  <2> QED BY <2>1
<1>11. ASSUME Len(t) > 0 PROVE g[q] = t[1]
  <2>1. Len(s) >= 2
    BY <1>1, <1>2, <1>11
  <2>2. CASE i = 1
    <3>1. 1 \in 1 .. Len(s) - 1 /\ 1 \in i .. Len(s) - 1
      BY <1>1, <2>1, <2>2
    <3>2. f[s[1]] = s[1 + 1] /\ t[1] = s[1 + 1]
      BY <1>2, <1>9, <3>1
    <3> QED BY <2>2, <3>2
  <2>3. CASE i # 1
    <3>1. 1 \in 1 .. i - 1 /\ i - 1 \in 1 .. Len(s) /\ i \in 1 .. Len(s)
      BY <1>1, <1>3, <2>3
    <3>2. t[1] = s[1]
      BY <1>2, <3>1
    <3>3. q # s[i] /\ q # at /\ q \in Refs
      BY <1>4, <2>3, <3>1 DEF Refs
    <3> QED BY <1>9, <3>2, <3>3
  <2> QED BY <2>2, <2>3
<1>12. ASSUME Len(t) > 0 PROVE g[t[Len(t)]] = Null
  <2>1. CASE i = Len(s)
    <3>1. i # 1 /\ Len(t) = i - 1 /\ Len(t) \in 1 .. i - 1
      BY <1>1, <1>2, <1>3, <1>12, <2>1
    <3>2. t[Len(t)] = at
      BY <1>2, <3>1
    <3> QED BY <1>9, <2>1, <3>2
  <2>2. CASE i # Len(s)
    <3>1. Len(t) \in i .. Len(s) - 1 /\ Len(t) + 1 = Len(s) /\ Len(s) \in 1 .. Len(s) /\ Len(s) # i - 1
      BY <1>1, <1>2, <1>3, <2>2
    <3>2. t[Len(t)] = s[Len(s)]
      BY <1>2, <3>1
    <3>3. g[s[Len(s)]] = f[s[Len(s)]]
      BY <1>6, <2>2, <3>1
    <3> QED BY <1>9, <3>2, <3>3
  <2> QED BY <2>1, <2>2
<1>13. ASSUME NEW j \in 1 .. Len(t) - 1 PROVE g[t[j]] = t[j + 1]
  <2>0. j \in 1 .. Len(t) /\ j + 1 \in 1 .. Len(t) /\ j \in Nat
    BY <1>3
  <2>1. CASE j < i - 1
    <3>1. /\ j \in 1 .. i - 1 /\ j + 1 \in 1 .. i - 1 /\ j \in 1 .. Len(s) - 1
          /\ j \in 1 .. Len(s) /\ j # i /\ j # i - 1
      BY <1>1, <1>3, <2>0, <2>1
    <3>2. t[j] = s[j] /\ t[j + 1] = s[j + 1] /\ f[s[j]] = s[j + 1]
      BY <1>2, <1>9, <3>1
    <3> QED BY <1>6, <3>1, <3>2
  <2>2. CASE j = i - 1
    <3>1. i # 1 /\ j \in 1 .. i - 1 /\ j + 1 = i /\ i \in i .. Len(s) - 1 /\ i \in 1 .. Len(s) - 1
      BY <1>1, <1>2, <1>3, <2>0, <2>2
    <3>2. t[j] = s[j] /\ t[i] = s[i + 1] /\ f[s[i]] = s[i + 1]
      BY <1>2, <1>9, <3>1
    <3> QED BY <2>2, <3>1, <3>2
  <2>3. CASE j > i - 1
    <3>1. /\ j \in i .. Len(s) - 1 /\ j + 1 \in i .. Len(s) - 1 /\ j + 1 \in 1 .. Len(s) - 1
          /\ j + 1 \in 1 .. Len(s) /\ j + 1 # i /\ j + 1 # i - 1
      BY <1>1, <1>2, <1>3, <2>0, <2>3
    <3>2. t[j] = s[j + 1] /\ t[j + 1] = s[j + 1 + 1] /\ f[s[j + 1]] = s[j + 1 + 1]
      BY <1>2, <1>9, <3>1
    <3> QED BY <1>6, <3>1, <3>2
  <2>4. j < i - 1 \/ j = i - 1 \/ j > i - 1
    BY <1>3, <2>0
  <2> QED BY <2>1, <2>2, <2>3, <2>4, Zenon
<1>14. Leads(g, q, t)
  BY <1>10, <1>11, <1>12, <1>13 DEF Leads
<1>15. ASSUME NEW m \in Nodes PROVE p[m] = q <=> \E j \in 1 .. Len(t) : t[j] = m
  <2>1. ASSUME NEW j \in 1 .. Len(t), t[j] = m PROVE o[m] = q /\ m # s[i]
    <3>1. PICK k \in 1 .. Len(s) : k # i /\ s[k] = m
      <4>1. CASE j <= i - 1 /\ j \in 1 .. Len(s) /\ t[j] = s[j]
        BY <1>3, <2>1, <4>1
      <4>2. CASE j >= i /\ j + 1 \in 1 .. Len(s) /\ t[j] = s[j + 1]
        BY <1>3, <2>1, <4>2
      <4> QED BY <1>7, <4>1, <4>2, Zenon
    <3> QED BY <1>1, <1>5, <3>1
  <2>2. ASSUME o[m] = q, m # s[i] PROVE \E j \in 1 .. Len(t) : t[j] = m
    <3>1. PICK k \in 1 .. Len(s) : s[k] = m
      BY <1>1, <2>2
    <3>2. k # i
      BY <2>2, <3>1
    <3>3. CASE k < i
      <4>1. k \in 1 .. i - 1 /\ k \in 1 .. Len(t)
        BY <1>1, <1>2, <1>3, <3>3
      <4> QED BY <1>2, <3>1, <4>1
    <3>4. CASE k > i
      <4>1. k - 1 \in i .. Len(s) - 1 /\ k - 1 \in 1 .. Len(t) /\ k - 1 + 1 = k
        BY <1>1, <1>2, <1>3, <3>4
      <4>2. t[k - 1] = s[k - 1 + 1]
        BY <1>2, <4>1
      <4>3. t[k - 1] = m
        BY <3>1, <4>1, <4>2
      <4> QED BY <4>1, <4>3
    <3>5. k < i \/ k > i
      BY <1>3, <3>2
    <3> QED BY <3>3, <3>4, <3>5, Zenon
  <2> QED BY <2>1, <2>2
<1> QED BY <1>2, <1>8, <1>14, <1>15 DEF Holds

\* One queue is linked behind another.
LEMMA SpliceHolds ==
    ASSUME NEW f, NEW g, NEW o, NEW p, NEW q \in Queues, NEW r \in Queues, q # r, NEW s, NEW t,
           Holds(f, o, q, s), Holds(f, o, r, t), Len(t) > 0,
           g[LastLink(q, s)] = f[r],
           \A x \in Refs : x # LastLink(q, s) /\ x # r => g[x] = f[x],
           \A m \in Nodes : p[m] = q <=> o[m] = q \/ o[m] = r
    PROVE  Holds(g, p, q, s \o t)
<1>1. s \in Seq(Nodes) /\ Distinct(s) /\ Leads(f, q, s) /\ Len(s) \in Nat
      /\ \A m \in Nodes : o[m] = q <=> \E i \in 1 .. Len(s) : s[i] = m
  BY DEF Holds
<1>2. t \in Seq(Nodes) /\ Distinct(t) /\ Leads(f, r, t) /\ Len(t) \in Nat
      /\ \A m \in Nodes : o[m] = r <=> \E i \in 1 .. Len(t) : t[i] = m
  BY DEF Holds
<1>3. PICK u \in Seq(Nodes) : /\ u = s \o t /\ Len(u) = Len(s) + Len(t)
                              /\ \A i \in 1 .. Len(s) : u[i] = s[i]
                              /\ \A i \in 1 .. Len(t) : u[Len(s) + i] = t[i]
  <2>1. /\ s \o t \in Seq(Nodes) /\ Len(s \o t) = Len(s) + Len(t)
        /\ \A i \in 1 .. Len(s) + Len(t) : (s \o t)[i] = IF i <= Len(s) THEN s[i] ELSE t[i - Len(s)]
    BY <1>1, <1>2, ConcatProperties
  <2>2. ASSUME NEW i \in 1 .. Len(s) PROVE (s \o t)[i] = s[i]
    BY <1>1, <1>2, <2>1
  <2>3. ASSUME NEW i \in 1 .. Len(t) PROVE (s \o t)[Len(s) + i] = t[i]
    <3>1. Len(s) + i \in 1 .. Len(s) + Len(t) /\ ~(Len(s) + i <= Len(s)) /\ Len(s) + i - Len(s) = i
      BY <1>1, <1>2
    <3> QED BY <2>1, <3>1
  <2> QED BY <2>1, <2>2, <2>3, Zenon
<1>4. \A i \in 1 .. Len(s) : s[i] \in Nodes /\ s[i] \in Refs /\ s[i] # q /\ s[i] # r /\ o[s[i]] = q
  BY <1>1, QueueAssumption DEF Refs
<1>5. \A i \in 1 .. Len(t) : t[i] \in Nodes /\ t[i] \in Refs /\ t[i] # q /\ t[i] # r /\ o[t[i]] = r
  BY <1>2, QueueAssumption DEF Refs
<1>6. \A i \in 1 .. Len(s), j \in 1 .. Len(t) : s[i] # t[j]
  BY <1>4, <1>5
<1>7. \A i \in 1 .. Len(u) :
        \/ i <= Len(s) /\ i \in 1 .. Len(s) /\ u[i] = s[i]
        \/ i > Len(s) /\ i - Len(s) \in 1 .. Len(t) /\ u[i] = t[i - Len(s)]
  <2>1. ASSUME NEW i \in 1 .. Len(u), i <= Len(s) PROVE i \in 1 .. Len(s) /\ u[i] = s[i]
    BY <1>1, <1>3, <2>1
  <2>2. ASSUME NEW i \in 1 .. Len(u), i > Len(s) PROVE i - Len(s) \in 1 .. Len(t) /\ u[i] = t[i - Len(s)]
    <3>1. i - Len(s) \in 1 .. Len(t) /\ Len(s) + (i - Len(s)) = i
      BY <1>1, <1>2, <1>3, <2>2
    <3>2. u[Len(s) + (i - Len(s))] = t[i - Len(s)]
      BY <1>3, <3>1
    <3> QED BY <3>1, <3>2
  <2>3. \A i \in 1 .. Len(u) : i <= Len(s) \/ i > Len(s)
    BY <1>1
  <2> QED BY <2>1, <2>2, <2>3
<1>8. Distinct(u)
  <2>1. ASSUME NEW i \in 1 .. Len(u), NEW j \in 1 .. Len(u), u[i] = u[j] PROVE i = j
    <3>1. CASE i <= Len(s) /\ j <= Len(s)
      BY <1>1, <1>7, <2>1, <3>1 DEF Distinct
    <3>2. CASE i > Len(s) /\ j > Len(s)
      <4>1. i - Len(s) \in 1 .. Len(t) /\ j - Len(s) \in 1 .. Len(t) /\ t[i - Len(s)] = t[j - Len(s)]
        BY <1>1, <1>7, <2>1, <3>2
      <4>2. i - Len(s) = j - Len(s)
        BY <1>2, <4>1 DEF Distinct
      <4> QED BY <1>1, <4>2
    <3>3. CASE i <= Len(s) /\ j > Len(s)
      <4>1. i \in 1 .. Len(s) /\ j - Len(s) \in 1 .. Len(t) /\ s[i] = t[j - Len(s)]
        BY <1>1, <1>7, <2>1, <3>3
      <4> QED BY <1>6, <4>1
    <3>4. CASE j <= Len(s) /\ i > Len(s)
      <4>1. j \in 1 .. Len(s) /\ i - Len(s) \in 1 .. Len(t) /\ s[j] = t[i - Len(s)]
        BY <1>1, <1>7, <2>1, <3>4
      <4> QED BY <1>6, <4>1
    <3>5. (i <= Len(s) \/ i > Len(s)) /\ (j <= Len(s) \/ j > Len(s))
      BY <1>1
    <3> QED BY <3>1, <3>2, <3>3, <3>4, <3>5, Zenon
  <2> QED BY <2>1 DEF Distinct
<1>9. /\ f[r] = t[1] /\ f[t[Len(t)]] = Null /\ 1 \in 1 .. Len(t) /\ Len(t) \in 1 .. Len(t)
      /\ \A j \in 1 .. Len(t) - 1 : f[t[j]] = t[j + 1]
  BY <1>2 DEF Leads
<1>10. \A j \in 1 .. Len(t) : g[t[j]] = f[t[j]]
  <2>1. ASSUME NEW j \in 1 .. Len(t) PROVE t[j] # LastLink(q, s)
    <3>1. CASE Len(s) = 0
      BY <1>5, <3>1 DEF LastLink
    <3>2. CASE Len(s) # 0
      <4>1. Len(s) \in 1 .. Len(s)
        BY <1>1, <3>2
      <4> QED BY <1>6, <3>2, <4>1 DEF LastLink
    <3> QED BY <3>1, <3>2
  <2> QED BY <1>5, <2>1
<1>11. g[u[Len(u)]] = Null
  <2>1. u[Len(s) + Len(t)] = t[Len(t)]
    BY <1>3, <1>9
  <2> QED BY <1>3, <1>9, <1>10, <2>1
<1>12. u[Len(s) + 1] = t[1]
  BY <1>3, <1>9
<1>13. g[q] = u[1]
  <2>1. CASE Len(s) = 0
    <3>1. g[q] = t[1]
      BY <1>9, <2>1 DEF LastLink
    <3>2. Len(s) + 1 = 1
      BY <2>1
    <3> QED BY <1>12, <3>1, <3>2
  <2>2. CASE Len(s) # 0
    <3>1. Len(s) \in 1 .. Len(s) /\ 1 \in 1 .. Len(s) /\ Len(s) > 0
      BY <1>1, <2>2
    <3>2. q # LastLink(q, s) /\ q \in Refs
      BY <1>4, <2>2, <3>1 DEF LastLink, Refs
    <3>3. f[q] = s[1]
      BY <1>1, <3>1 DEF Leads
    <3> QED BY <1>3, <3>1, <3>2, <3>3
  <2> QED BY <2>1, <2>2
<1>14. ASSUME NEW j \in 1 .. Len(u) - 1 PROVE g[u[j]] = u[j + 1]
  <2>0. j \in Nat /\ j >= 1 /\ Len(u) = Len(s) + Len(t) /\ j <= Len(s) + Len(t) - 1
    BY <1>1, <1>2, <1>3
  <2>1. CASE j < Len(s)
    <3>1. /\ j \in 1 .. Len(s) - 1 /\ j \in 1 .. Len(s) /\ j + 1 \in 1 .. Len(s)
          /\ Len(s) \in 1 .. Len(s) /\ Len(s) # 0 /\ j # Len(s)
      BY <1>1, <2>0, <2>1
    <3>2. s[j] # LastLink(q, s)
      BY <1>1, <3>1 DEF LastLink, Distinct
    <3>3. g[s[j]] = s[j + 1]
      BY <1>1, <1>4, <3>1, <3>2 DEF Leads
    <3> QED BY <1>3, <3>1, <3>3
  <2>2. CASE j = Len(s)
    <3>1. Len(s) \in 1 .. Len(s) /\ Len(s) # 0
      BY <1>1, <2>0, <2>2
    <3>2. u[Len(s)] = LastLink(q, s)
      BY <1>3, <3>1 DEF LastLink
    <3> QED BY <1>9, <1>12, <2>2, <3>2
  <2>3. CASE j > Len(s)
    <3>1. /\ j - Len(s) \in 1 .. Len(t) - 1 /\ j - Len(s) \in 1 .. Len(t) /\ j - Len(s) + 1 \in 1 .. Len(t)
          /\ Len(s) + (j - Len(s)) = j /\ Len(s) + (j - Len(s) + 1) = j + 1
      BY <1>1, <1>2, <2>0, <2>3
    <3>2. PICK k : k = j - Len(s)
      OBVIOUS
    <3>3. u[Len(s) + k] = t[k] /\ u[Len(s) + (k + 1)] = t[k + 1]
      BY <1>3, <3>1, <3>2
    <3>4. g[t[k]] = t[k + 1]
      BY <1>9, <1>10, <3>1, <3>2
    <3> QED BY <3>1, <3>2, <3>3, <3>4
  <2>4. j < Len(s) \/ j = Len(s) \/ j > Len(s)
    BY <1>1, <2>0
  <2> QED BY <2>1, <2>2, <2>3, <2>4, Zenon
<1>15. Leads(g, q, u)
  <2>1. Len(u) > 0
    BY <1>1, <1>2, <1>3
  <2> QED BY <1>11, <1>13, <1>14, <2>1 DEF Leads
<1>16. ASSUME NEW m \in Nodes PROVE p[m] = q <=> \E j \in 1 .. Len(u) : u[j] = m
  <2>1. ASSUME NEW j \in 1 .. Len(u), u[j] = m PROVE o[m] = q \/ o[m] = r
    BY <1>4, <1>5, <1>7, <2>1
  <2>2. ASSUME o[m] = q PROVE \E j \in 1 .. Len(u) : u[j] = m
    <3>1. PICK i \in 1 .. Len(s) : s[i] = m
      BY <1>1, <2>2
    <3>2. i \in 1 .. Len(u)
      BY <1>1, <1>2, <1>3
    <3> QED BY <1>3, <3>1, <3>2
  <2>3. ASSUME o[m] = r PROVE \E j \in 1 .. Len(u) : u[j] = m
    <3>1. PICK i \in 1 .. Len(t) : t[i] = m
      BY <1>2, <2>3
    <3>2. Len(s) + i \in 1 .. Len(u)
      BY <1>1, <1>2, <1>3
    <3> QED BY <1>3, <3>1, <3>2
  <2> QED BY <2>1, <2>2, <2>3
<1> QED BY <1>3, <1>8, <1>15, <1>16 DEF Holds
-----------------------------------------------------------------------------
(* Every step of the linked queues is a step of the sequences. *)

\* Every queue has the nodes the walk along its links meets.
ItemsInv == \A q \in Queues : Holds(link, owner, q, Items(q))

\* The queues as sequences.
AllItems == [q \in Queues |-> Items(q)]

\* What the queues have after a step.
LEMMA NewItems ==
    ASSUME NEW new, DOMAIN new = Queues, new = [q \in Queues |-> new[q]],
           \A q \in Queues : Holds(link', owner', q, new[q])
    PROVE  ItemsInv' /\ AllItems' = new
<1>1. ASSUME NEW q \in Queues PROVE NodesFrom(link', q) = new[q]
  <2>1. new[q] \in Seq(Nodes) /\ Distinct(new[q]) /\ Leads(link', q, new[q])
    BY DEF Holds
  <2> QED BY <2>1, NodesMet
<1>2. ItemsInv'
  BY <1>1 DEF ItemsInv, Items
<1>3. AllItems' = [q \in Queues |-> NodesFrom(link', q)]
  BY DEF AllItems, Items
<1> QED BY <1>1, <1>2, <1>3, Zenon

\* The tail is the last link.
LEMMA TailFact ==
    ASSUME QueueInv, NEW q \in Queues, NEW s, Holds(link, owner, q, s)
    PROVE  tail[q] = LastLink(q, s) /\ LastLink(q, s) \in Refs /\ Holder(LastLink(q, s)) = q
           /\ link[LastLink(q, s)] = Null
<1>1. s \in Seq(Nodes) /\ Leads(link, q, s) /\ Len(s) \in Nat
      /\ \A m \in Nodes : owner[m] = q <=> \E i \in 1 .. Len(s) : s[i] = m
  BY DEF Holds
<1>2. \A r \in Refs : Holder(r) # Null => (link[r] = Null <=> tail[Holder(r)] = r)
  BY DEF QueueInv, TailIsLast
<1>3. CASE Len(s) = 0
  <2>1. link[q] = Null /\ Holder(q) = q /\ q # Null /\ q \in Refs
    BY <1>1, <1>3, QueueAssumption DEF Leads, Holder, Refs
  <2> QED BY <1>2, <1>3, <2>1 DEF LastLink
<1>4. CASE Len(s) # 0
  <2>1. Len(s) \in 1 .. Len(s) /\ Len(s) > 0
    BY <1>1, <1>4
  <2>2. s[Len(s)] \in Nodes /\ link[s[Len(s)]] = Null
    BY <1>1, <2>1 DEF Leads
  <2>3. owner[s[Len(s)]] = q
    BY <1>1, <2>1, <2>2
  <2>4. Holder(s[Len(s)]) = q /\ q # Null /\ s[Len(s)] \in Refs
    BY <2>2, <2>3, QueueAssumption DEF Holder, Refs
  <2> QED BY <1>2, <1>4, <2>2, <2>4 DEF LastLink
<1> QED BY <1>3, <1>4

\* A node without an owner is in no sequence.
LEMMA FreeFact ==
    ASSUME ItemsInv, NEW n \in Nodes, owner[n] = Null
    PROVE  Fifo!Free(n)
<1>1. ASSUME NEW q \in Queues, NEW i \in DOMAIN Items(q) PROVE Items(q)[i] # n
  <2>1. Items(q) \in Seq(Nodes) /\ (owner[n] = q <=> \E j \in 1 .. Len(Items(q)) : Items(q)[j] = n)
    BY DEF ItemsInv, Holds
  <2>2. owner[n] # q /\ i \in 1 .. Len(Items(q))
    BY <2>1, QueueAssumption
  <2> QED BY <2>1, <2>2
<1> QED BY <1>1 DEF Fifo!Free

\* A push at the back is one.
LEMMA PushBackStep ==
    ASSUME QueueInv, ItemsInv, NEW q \in Queues, NEW n \in Nodes, PushBack(q, n)
    PROVE  ItemsInv' /\ Fifo!PushBack(q, n)
<1>1. PICK s : s = Items(q) /\ Holds(link, owner, q, s)
  BY DEF ItemsInv
<1>2. /\ tail[q] = LastLink(q, s) /\ LastLink(q, s) \in Refs /\ Holder(LastLink(q, s)) = q
      /\ link[LastLink(q, s)] = Null
  BY <1>1, TailFact
<1>3. PICK at \in Refs : at = LastLink(q, s) /\ link[at] = Null /\ tail[q] = at /\ Holder(at) = q
  BY <1>2
<1>4. owner[n] = Null /\ removed' = removed /\ n \in Refs /\ q # Null
  BY QueueAssumption DEF PushBack, InsertAt, Refs
<1>5. n # at
  BY <1>3, <1>4, QueueAssumption DEF Holder
<1>6. /\ link' = [link EXCEPT ![n] = Null, ![at] = n]
      /\ owner' = [owner EXCEPT ![n] = q]
      /\ link \in [Refs -> Nodes \cup {Null}] /\ owner \in [Nodes -> Queues \cup {Null}]
  BY <1>3 DEF PushBack, InsertAt, QueueInv, QueueTypeOK
<1>7. /\ link'[at] = n /\ link'[n] = Null /\ \A r \in Refs : r # n /\ r # at => link'[r] = link[r]
      /\ \A m \in Nodes : owner'[m] = IF m = n THEN q ELSE owner[m]
  BY <1>4, <1>5, <1>6
<1>8. Holds(link', owner', q, Append(s, n))
  <2>1. owner[n] # q /\ \A m \in Nodes : owner'[m] = q <=> owner[m] = q \/ m = n
    BY <1>4, <1>7
  <2> QED BY <1>1, <1>3, <1>7, <2>1, AppendHolds
<1>9. ASSUME NEW p \in Queues, p # q PROVE Holds(link', owner', p, Items(p))
  <2>1. p # n /\ p # at /\ p \in Refs
    BY <1>3, <1>9, QueueAssumption DEF Holder, Refs
  <2>2. \A m \in Nodes : owner[m] = p => m # n /\ m # at /\ m \in Refs
    BY <1>3, <1>4, <1>9, QueueAssumption DEF Holder, Refs
  <2>3. \A m \in Nodes : owner'[m] = p <=> owner[m] = p
    BY <1>4, <1>7, <1>9, QueueAssumption
  <2>4. link'[p] = link[p] /\ \A m \in Nodes : owner[m] = p => link'[m] = link[m]
    BY <1>7, <2>1, <2>2
  <2>5. Holds(link, owner, p, Items(p))
    BY DEF ItemsInv
  <2> QED BY <2>3, <2>4, <2>5, HandOver
<1> DEFINE new == [AllItems EXCEPT ![q] = Append(AllItems[q], n)]
<1>10. /\ DOMAIN new = Queues /\ new = [p \in Queues |-> new[p]]
       /\ new[q] = Append(s, n) /\ \A p \in Queues : p # q => new[p] = Items(p)
  BY <1>1 DEF AllItems
<1> HIDE DEF new
<1>11. \A p \in Queues : Holds(link', owner', p, new[p])
  BY <1>8, <1>9, <1>10
<1>12. ItemsInv' /\ AllItems' = new
  BY <1>10, <1>11, NewItems
<1>13. Fifo!Free(n)
  BY <1>4, FreeFact
<1> QED BY <1>4, <1>12, <1>13 DEF Fifo!PushBack, AllItems, new

\* A push at the front is one, or a push at the back of an empty queue.
LEMMA PushFrontStep ==
    ASSUME QueueInv, ItemsInv, NEW q \in Queues, NEW n \in Nodes, PushFront(q, n)
    PROVE  ItemsInv' /\ (Fifo!PushBack(q, n) \/ Fifo!PushFront(q, n))
<1>1. CASE link[q] = Null
  BY <1>1, PushBackStep DEF PushFront
<1>2. CASE link[q] # Null
  <2>1. PICK s : s = Items(q) /\ Holds(link, owner, q, s)
    BY DEF ItemsInv
  <2>2. owner[n] = Null /\ removed' = removed /\ n \in Refs /\ q \in Refs /\ q # Null /\ q # n
    BY <1>2, QueueAssumption DEF PushFront, InsertAt, Refs
  <2>3. /\ link' = [link EXCEPT ![n] = link[q], ![q] = n]
        /\ owner' = [owner EXCEPT ![n] = q]
        /\ link \in [Refs -> Nodes \cup {Null}] /\ owner \in [Nodes -> Queues \cup {Null}]
    BY <1>2 DEF PushFront, InsertAt, QueueInv, QueueTypeOK
  <2>4. /\ link'[q] = n /\ link'[n] = link[q] /\ \A r \in Refs : r # n /\ r # q => link'[r] = link[r]
        /\ \A m \in Nodes : owner'[m] = IF m = n THEN q ELSE owner[m]
    BY <2>2, <2>3
  <2>5. Holds(link', owner', q, <<n>> \o s)
    <3>1. owner[n] # q /\ \A m \in Nodes : owner'[m] = q <=> owner[m] = q \/ m = n
      BY <2>2, <2>4
    <3>2. PICK f, g, o, p : f = link /\ g = link' /\ o = owner /\ p = owner'
      OBVIOUS
    <3>3. /\ Holds(f, o, q, s) /\ o[n] # q /\ g[q] = n /\ g[n] = f[q]
          /\ \A r \in Refs : r # n /\ r # q => g[r] = f[r]
          /\ \A m \in Nodes : p[m] = q <=> o[m] = q \/ m = n
      BY <2>1, <2>4, <3>1, <3>2
    <3>4. Holds(g, p, q, <<n>> \o s)
      BY <3>3, PrependHolds
    <3> QED BY <3>2, <3>4
  <2>6. ASSUME NEW p \in Queues, p # q PROVE Holds(link', owner', p, Items(p))
    <3>1. p # n /\ p \in Refs
      BY QueueAssumption DEF Refs
    <3>2. \A m \in Nodes : owner[m] = p => m # n /\ m # q /\ m \in Refs
      BY <2>2, QueueAssumption DEF Refs
    <3>3. \A m \in Nodes : owner'[m] = p <=> owner[m] = p
      BY <2>2, <2>4, <2>6, QueueAssumption
    <3>4. link'[p] = link[p] /\ \A m \in Nodes : owner[m] = p => link'[m] = link[m]
      BY <2>4, <2>6, <3>1, <3>2
    <3>5. Holds(link, owner, p, Items(p))
      BY DEF ItemsInv
    <3> QED BY <3>3, <3>4, <3>5, HandOver
  <2> DEFINE new == [AllItems EXCEPT ![q] = <<n>> \o AllItems[q]]
  <2>7. /\ DOMAIN new = Queues /\ new = [p \in Queues |-> new[p]]
        /\ new[q] = <<n>> \o s /\ \A p \in Queues : p # q => new[p] = Items(p)
    BY <2>1 DEF AllItems
  <2> HIDE DEF new
  <2>8. \A p \in Queues : Holds(link', owner', p, new[p])
    BY <2>5, <2>6, <2>7
  <2>9. ItemsInv' /\ AllItems' = new
    BY <2>7, <2>8, NewItems
  <2>10. Fifo!Free(n)
    BY <2>2, FreeFact
  <2> QED BY <2>2, <2>9, <2>10 DEF Fifo!PushFront, AllItems, new
<1> QED BY <1>1, <1>2

\* A removal behind an address of the queue is the removal of the node there.
LEMMA RemoveStep ==
    ASSUME QueueInv, ItemsInv, NEW q \in Queues, NEW ref \in Refs, RemoveItemAt(q, ref)
    PROVE  ItemsInv' /\ \E i \in 1 .. Len(AllItems[q]) + 1 : Fifo!RemoveItem(q, i)
<1>1. PICK s : s = Items(q) /\ Holds(link, owner, q, s) /\ s = AllItems[q]
  BY DEF ItemsInv, AllItems
<1>2. /\ s \in Seq(Nodes) /\ Distinct(s) /\ Leads(link, q, s) /\ Len(s) \in Nat
      /\ \A m \in Nodes : owner[m] = q <=> \E i \in 1 .. Len(s) : s[i] = m
  BY <1>1 DEF Holds
<1>3. Holder(ref) = q /\ removed' = link[ref]
  BY DEF RemoveItemAt
<1>4. PICK i \in 1 .. Len(s) + 1 : (i = 1 => ref = q) /\ (i # 1 => i - 1 \in 1 .. Len(s) /\ ref = s[i - 1])
  <2>1. CASE ref = q
    BY <1>2, <2>1
  <2>2. CASE ref # q
    <3>1. ref \in Nodes /\ owner[ref] = q
      BY <1>3, <2>2 DEF Holder, Refs
    <3>2. PICK j \in 1 .. Len(s) : s[j] = ref
      BY <1>2, <3>1
    <3>3. j + 1 \in 1 .. Len(s) + 1 /\ j + 1 # 1 /\ j + 1 - 1 = j
      BY <1>2
    <3> QED BY <3>2, <3>3
  <2> QED BY <2>1, <2>2
<1>5. CASE i = Len(s) + 1
  <2>1. link[ref] = Null
    <3>1. CASE Len(s) = 0
      BY <1>2, <1>4, <1>5, <3>1 DEF Leads
    <3>2. CASE Len(s) # 0
      <4>1. i # 1 /\ i - 1 = Len(s) /\ Len(s) > 0
        BY <1>2, <1>5, <3>2
      <4> QED BY <1>2, <1>4, <4>1 DEF Leads
    <3> QED BY <3>1, <3>2
  <2>2. UNCHANGED <<link, owner>> /\ removed' = Null
    BY <1>3, <2>1 DEF RemoveItemAt
  <2>3. ItemsInv' /\ AllItems' = AllItems
    BY <2>2 DEF ItemsInv, AllItems, Items
  <2>4. Fifo!RemoveItem(q, i)
    BY <1>1, <1>5, <2>2, <2>3 DEF Fifo!RemoveItem, AllItems
  <2> QED BY <1>1, <2>3, <2>4
<1>6. CASE i # Len(s) + 1
  <2>1. i \in 1 .. Len(s)
    BY <1>2, <1>6
  <2>2. link[ref] = s[i]
    <3>1. CASE i = 1
      <4>1. Len(s) > 0
        BY <1>2, <2>1
      <4> QED BY <1>2, <1>4, <3>1, <4>1 DEF Leads
    <3>2. CASE i # 1
      <4>1. i - 1 \in 1 .. Len(s) - 1 /\ i - 1 + 1 = i
        BY <1>2, <2>1, <3>2
      <4> QED BY <1>2, <1>4, <3>2, <4>1 DEF Leads
    <3> QED BY <3>1, <3>2
  <2>3. PICK x \in Nodes : x = s[i] /\ owner[x] = q /\ x \in Refs /\ x # Null
    BY <1>2, <2>1, QueueAssumption DEF Refs
  <2>4. ref # x
    <3>1. CASE i = 1
      BY <1>4, <2>3, <3>1, QueueAssumption
    <3>2. CASE i # 1
      <4>1. i - 1 # i
        BY <1>2
      <4> QED BY <1>2, <1>4, <2>1, <2>3, <3>2, <4>1 DEF Distinct
    <3> QED BY <3>1, <3>2
  <2>5. /\ link' = [link EXCEPT ![ref] = link[x], ![x] = Null]
        /\ owner' = [owner EXCEPT ![x] = Null]
        /\ link \in [Refs -> Nodes \cup {Null}] /\ owner \in [Nodes -> Queues \cup {Null}]
    BY <2>2, <2>3 DEF RemoveItemAt, QueueInv, QueueTypeOK
  <2>6. /\ link'[ref] = link[x] /\ \A r \in Refs : r # x /\ r # ref => link'[r] = link[r]
        /\ \A m \in Nodes : owner'[m] = IF m = x THEN Null ELSE owner[m]
    BY <2>3, <2>4, <2>5
  <2>7. Holds(link', owner', q, Without(s, i))
    <3>1. \A m \in Nodes : owner'[m] = q <=> owner[m] = q /\ m # x
      BY <2>6, QueueAssumption
    <3>2. link'[ref] = link[s[i]] /\ \A r \in Refs : r # s[i] /\ r # ref => link'[r] = link[r]
      BY <2>3, <2>6
    <3>3. \A m \in Nodes : owner'[m] = q <=> owner[m] = q /\ m # s[i]
      BY <2>3, <3>1
    <3>4. (i = 1 => ref = q) /\ (i # 1 => ref = s[i - 1])
      BY <1>4
    <3>5. PICK f, g, o, p : f = link /\ g = link' /\ o = owner /\ p = owner'
      OBVIOUS
    <3>6. /\ Holds(f, o, q, s) /\ g[ref] = f[s[i]]
          /\ \A r \in Refs : r # s[i] /\ r # ref => g[r] = f[r]
          /\ \A m \in Nodes : p[m] = q <=> o[m] = q /\ m # s[i]
      BY <1>1, <3>2, <3>3, <3>5
    <3>7. Holds(g, p, q, Without(s, i))
      BY <2>1, <3>4, <3>6, RemoveHolds
    <3> QED BY <3>5, <3>7
  <2>8. ASSUME NEW p \in Queues, p # q PROVE Holds(link', owner', p, Items(p))
    <3>1. p # x /\ p # ref /\ p \in Refs
      BY <1>3, <2>3, <2>8, QueueAssumption DEF Refs, Holder
    <3>2. \A m \in Nodes : owner[m] = p => m # x /\ m # ref /\ m \in Refs
      BY <1>3, <2>3, <2>8, QueueAssumption DEF Refs, Holder
    <3>3. \A m \in Nodes : owner'[m] = p <=> owner[m] = p
      BY <2>3, <2>6, <2>8, QueueAssumption
    <3>4. link'[p] = link[p] /\ \A m \in Nodes : owner[m] = p => link'[m] = link[m]
      BY <2>6, <3>1, <3>2
    <3>5. Holds(link, owner, p, Items(p))
      BY DEF ItemsInv
    <3> QED BY <3>3, <3>4, <3>5, HandOver
  <2> DEFINE new == [AllItems EXCEPT ![q] = Without(AllItems[q], i)]
  <2>9. /\ DOMAIN new = Queues /\ new = [p \in Queues |-> new[p]]
        /\ new[q] = Without(s, i) /\ \A p \in Queues : p # q => new[p] = Items(p)
    BY <1>1 DEF AllItems
  <2> HIDE DEF new
  <2>10. \A p \in Queues : Holds(link', owner', p, new[p])
    BY <2>7, <2>8, <2>9
  <2>11. ItemsInv' /\ AllItems' = new
    BY <2>9, <2>10, NewItems
  <2>12. removed' = s[i] /\ i <= Len(s)
    BY <1>3, <2>1, <2>2
  <2>13. Fifo!RemoveItem(q, i)
    BY <1>1, <2>11, <2>12 DEF Fifo!RemoveItem, Fifo!RemoveAt, AllItems, new, Without
  <2> QED BY <1>1, <2>11, <2>13
<1> QED BY <1>5, <1>6

\* A swap exchanges the sequences.
LEMMA SwapStep ==
    ASSUME QueueInv, ItemsInv, NEW q \in Queues, NEW r \in Queues, Swap(q, r)
    PROVE  ItemsInv' /\ Fifo!Swap(q, r)
<1>1. /\ link' = [link EXCEPT ![q] = link[r], ![r] = link[q]] /\ removed' = removed
      /\ owner' = [n \in Nodes |-> CASE owner[n] = q -> r [] owner[n] = r -> q [] OTHER -> owner[n]]
      /\ link \in [Refs -> Nodes \cup {Null}] /\ q \in Refs /\ r \in Refs
      /\ owner \in [Nodes -> Queues \cup {Null}]
  BY DEF Swap, QueueInv, QueueTypeOK, Refs
<1>2. /\ link'[q] = link[r] /\ link'[r] = link[q]
      /\ \A x \in Refs : x # q /\ x # r => link'[x] = link[x]
  BY <1>1
<1>3. \A n \in Nodes : n \in Refs /\ n # q /\ n # r
  BY QueueAssumption DEF Refs
<1>4. \A n \in Nodes : link'[n] = link[n]
  BY <1>2, <1>3
<1>5. ASSUME NEW n \in Nodes
      PROVE  (owner'[n] = q <=> owner[n] = r) /\ (owner'[n] = r <=> owner[n] = q)
  <2>1. owner'[n] = CASE owner[n] = q -> r [] owner[n] = r -> q [] OTHER -> owner[n]
    BY <1>1
  <2>2. CASE owner[n] = q
    <3>1. owner'[n] = r
      <4>1. CASE q = r
        BY <2>1, <2>2, <4>1
      <4>2. CASE q # r
        BY <2>1, <2>2, <4>2
      <4> QED BY <4>1, <4>2
    <3> QED BY <2>2, <3>1
  <2>3. CASE owner[n] # q /\ owner[n] = r
    BY <2>1, <2>3
  <2>4. CASE owner[n] # q /\ owner[n] # r
    BY <2>1, <2>4
  <2> QED BY <2>2, <2>3, <2>4
<1>6. ASSUME NEW n \in Nodes, NEW p, p # q, p # r PROVE owner'[n] = p <=> owner[n] = p
  <2>1. owner'[n] = CASE owner[n] = q -> r [] owner[n] = r -> q [] OTHER -> owner[n]
    BY <1>1
  <2>2. CASE owner[n] = q
    BY <1>5, <1>6, <2>2
  <2>3. CASE owner[n] # q /\ owner[n] = r
    BY <1>5, <1>6, <2>3
  <2>4. CASE owner[n] # q /\ owner[n] # r
    BY <2>1, <2>4
  <2> QED BY <2>2, <2>3, <2>4
<1>7. \A p \in Queues : Holds(link, owner, p, Items(p))
  BY DEF ItemsInv
<1>8. Holds(link', owner', q, Items(r))
  BY <1>2, <1>4, <1>5, <1>7, HandOver
<1>9. Holds(link', owner', r, Items(q))
  BY <1>2, <1>4, <1>5, <1>7, HandOver
<1>10. ASSUME NEW p \in Queues, p # q, p # r PROVE Holds(link', owner', p, Items(p))
  <2>1. link'[p] = link[p]
    BY <1>2, <1>10 DEF Refs
  <2>2. \A n \in Nodes : owner'[n] = p <=> owner[n] = p
    BY <1>6, <1>10
  <2> QED BY <1>4, <1>7, <2>1, <2>2, HandOver
<1> DEFINE new == [AllItems EXCEPT ![q] = AllItems[r], ![r] = AllItems[q]]
<1>11. /\ DOMAIN new = Queues /\ new = [p \in Queues |-> new[p]]
       /\ new[q] = Items(r) /\ new[r] = Items(q) /\ \A p \in Queues : p # q /\ p # r => new[p] = Items(p)
  BY DEF AllItems
<1> HIDE DEF new
<1>12. \A p \in Queues : Holds(link', owner', p, new[p])
  BY <1>8, <1>9, <1>10, <1>11
<1>13. ItemsInv' /\ AllItems' = new
  BY <1>11, <1>12, NewItems
<1> QED BY <1>1, <1>13 DEF Fifo!Swap, AllItems, new

\* A splice appends one sequence to the other, or does nothing.
LEMMA SpliceStep ==
    ASSUME QueueInv, ItemsInv, NEW q \in Queues, NEW r \in Queues, SpliceOntoEnd(q, r)
    PROVE  ItemsInv' /\ (Fifo!Splice(q, r) \/ UNCHANGED <<AllItems, removed>>)
<1>1. q # r /\ removed' = removed
  BY DEF SpliceOntoEnd
<1>2. CASE link[r] = Null
  <2>1. UNCHANGED <<link, owner>>
    BY <1>2 DEF SpliceOntoEnd
  <2>2. ItemsInv' /\ AllItems' = AllItems
    BY <2>1 DEF ItemsInv, AllItems, Items
  <2> QED BY <1>1, <2>2
<1>3. CASE link[r] # Null
  <2>1. PICK s, t : s = Items(q) /\ Holds(link, owner, q, s) /\ t = Items(r) /\ Holds(link, owner, r, t)
    BY DEF ItemsInv
  <2>2. PICK at \in Refs : at = LastLink(q, s) /\ tail[q] = at /\ Holder(at) = q
    BY <2>1, TailFact
  <2>3. at # r /\ r \in Refs /\ q \in Refs /\ q # Null
    BY <1>1, <2>2, QueueAssumption DEF Holder, Refs
  <2>4. Len(t) > 0 /\ Len(t) \in Nat
    <3>1. Len(t) \in Nat /\ Leads(link, r, t)
      BY <2>1 DEF Holds
    <3> QED BY <1>3, <3>1 DEF Leads
  <2>5. /\ link' = [link EXCEPT ![at] = link[r], ![r] = Null]
        /\ owner' = [n \in Nodes |-> IF owner[n] = r THEN q ELSE owner[n]]
        /\ link \in [Refs -> Nodes \cup {Null}] /\ owner \in [Nodes -> Queues \cup {Null}]
    BY <1>3, <2>2 DEF SpliceOntoEnd, QueueInv, QueueTypeOK
  <2>6. /\ link'[at] = link[r] /\ link'[r] = Null
        /\ \A x \in Refs : x # at /\ x # r => link'[x] = link[x]
        /\ \A m \in Nodes : owner'[m] = IF owner[m] = r THEN q ELSE owner[m]
    BY <2>3, <2>5
  <2>7. Holds(link', owner', q, s \o t)
    <3>1. \A m \in Nodes : owner'[m] = q <=> owner[m] = q \/ owner[m] = r
      BY <2>6
    <3>2. PICK f, g, o, p : f = link /\ g = link' /\ o = owner /\ p = owner'
      OBVIOUS
    <3>3. /\ Holds(f, o, q, s) /\ Holds(f, o, r, t)
          /\ g[LastLink(q, s)] = f[r]
          /\ \A x \in Refs : x # LastLink(q, s) /\ x # r => g[x] = f[x]
          /\ \A m \in Nodes : p[m] = q <=> o[m] = q \/ o[m] = r
      BY <2>1, <2>2, <2>6, <3>1, <3>2
    <3>4. Holds(g, p, q, s \o t)
      BY <1>1, <2>4, <3>3, SpliceHolds
    <3> QED BY <3>2, <3>4
  <2>8. Holds(link', owner', r, << >>)
    <3>1. << >> \in Seq(Nodes) /\ Len(<< >>) = 0
      OBVIOUS
    <3>2. Distinct(<< >>) /\ Leads(link', r, << >>)
      BY <2>6, <3>1 DEF Distinct, Leads
    <3>3. \A m \in Nodes : owner'[m] # r
      BY <1>1, <2>6
    <3>4. \A m \in Nodes : owner'[m] = r <=> \E i \in 1 .. Len(<< >>) : << >>[i] = m
      BY <3>1, <3>3
    <3> QED BY <3>1, <3>2, <3>4 DEF Holds
  <2>9. ASSUME NEW p \in Queues, p # q, p # r PROVE Holds(link', owner', p, Items(p))
    <3>1. p # at /\ p \in Refs
      BY <2>2, <2>9, QueueAssumption DEF Refs, Holder
    <3>2. \A m \in Nodes : owner[m] = p => m # at /\ m # r /\ m \in Refs
      BY <2>2, <2>9, QueueAssumption DEF Refs, Holder
    <3>3. \A m \in Nodes : owner'[m] = p <=> owner[m] = p
      BY <2>6, <2>9
    <3>4. link'[p] = link[p] /\ \A m \in Nodes : owner[m] = p => link'[m] = link[m]
      BY <2>6, <2>9, <3>1, <3>2
    <3>5. Holds(link, owner, p, Items(p))
      BY DEF ItemsInv
    <3> QED BY <3>3, <3>4, <3>5, HandOver
  <2> DEFINE new == [AllItems EXCEPT ![q] = AllItems[q] \o AllItems[r], ![r] = << >>]
  <2>10. /\ DOMAIN new = Queues /\ new = [p \in Queues |-> new[p]]
         /\ new[q] = s \o t /\ new[r] = << >> /\ \A p \in Queues : p # q /\ p # r => new[p] = Items(p)
    BY <1>1, <2>1 DEF AllItems
  <2> HIDE DEF new
  <2>11. \A p \in Queues : Holds(link', owner', p, new[p])
    BY <2>7, <2>8, <2>9, <2>10
  <2>12. ItemsInv' /\ AllItems' = new
    BY <2>10, <2>11, NewItems
  <2>13. Fifo!Splice(q, r)
    BY <1>1, <2>12 DEF Fifo!Splice, AllItems, new
  <2> QED BY <2>12, <2>13
<1> QED BY <1>2, <1>3

\* Initially all sequences are empty.
LEMMA InitItems == QueueInit => ItemsInv /\ Fifo!FifoInit
<1> SUFFICES ASSUME QueueInit PROVE ItemsInv /\ Fifo!FifoInit
  OBVIOUS
<1>1. << >> \in Seq(Nodes) /\ Len(<< >>) = 0
  OBVIOUS
<1>2. ASSUME NEW q \in Queues PROVE Holds(link, owner, q, << >>)
  <2>1. link[q] = Null /\ \A m \in Nodes : owner[m] # q
    BY QueueAssumption DEF QueueInit, Refs
  <2>2. Distinct(<< >>) /\ Leads(link, q, << >>)
    BY <1>1, <2>1 DEF Distinct, Leads
  <2>3. \A m \in Nodes : owner[m] = q <=> \E i \in 1 .. Len(<< >>) : << >>[i] = m
    BY <1>1, <2>1
  <2> QED BY <1>1, <2>2, <2>3 DEF Holds
<1>3. ASSUME NEW q \in Queues PROVE Items(q) = << >>
  <2>1. << >> \in Seq(Nodes) /\ Distinct(<< >>) /\ Leads(link, q, << >>)
    BY <1>2 DEF Holds
  <2> QED BY <2>1, NodesMet DEF Items
<1>4. ItemsInv
  BY <1>2, <1>3 DEF ItemsInv
<1>5. [q \in Queues |-> Items(q)] = [q \in Queues |-> << >>] /\ removed = Null
  BY <1>3 DEF QueueInit
<1> QED BY <1>4, <1>5 DEF Fifo!FifoInit

\* Every step of the linked queues is one of the sequences, or leaves them alone.
LEMMA StepItems ==
    ASSUME QueueInv, ItemsInv, [QueueNext]_queueVars
    PROVE  ItemsInv' /\ [Fifo!FifoNext]_(Fifo!fifoVars)
<1>0. AllItems' = AllItems /\ removed' = removed => UNCHANGED Fifo!fifoVars
  BY DEF Fifo!fifoVars, AllItems
<1>1. ASSUME NEW q \in Queues, NEW n \in Nodes, PushBack(q, n) \/ PushFront(q, n)
      PROVE  ItemsInv' /\ Fifo!FifoNext
  BY <1>1, PushBackStep, PushFrontStep DEF Fifo!FifoNext
<1>2. ASSUME NEW q \in Queues, NEW ref \in Refs, RemoveItemAt(q, ref)
      PROVE  ItemsInv' /\ Fifo!FifoNext
  BY <1>2, RemoveStep DEF Fifo!FifoNext, AllItems
<1>3. ASSUME NEW q \in Queues, NEW r \in Queues, Swap(q, r)
      PROVE  ItemsInv' /\ Fifo!FifoNext
  BY <1>3, SwapStep DEF Fifo!FifoNext
<1>4. ASSUME NEW q \in Queues, NEW r \in Queues, SpliceOntoEnd(q, r)
      PROVE  ItemsInv' /\ (Fifo!FifoNext \/ (AllItems' = AllItems /\ removed' = removed))
  BY <1>4, SpliceStep DEF Fifo!FifoNext
<1>5. CASE UNCHANGED queueVars
  <2>1. link' = link /\ owner' = owner /\ removed' = removed
    BY <1>5 DEF queueVars
  <2>2. ItemsInv' /\ AllItems' = AllItems
    BY <2>1 DEF ItemsInv, AllItems, Items
  <2> QED BY <1>0, <2>1, <2>2
<1>6. CASE QueueNext
  <2>1. ItemsInv' /\ (Fifo!FifoNext \/ (AllItems' = AllItems /\ removed' = removed))
    BY <1>1, <1>2, <1>3, <1>4, <1>6, Zenon DEF QueueNext
  <2> QED BY <1>0, <2>1
<1> QED BY <1>5, <1>6

\* The linked queues implement sequences of nodes: genc_slq_push_back appends,
\* genc_slq_push_front prepends, genc_slq_remove_item_at takes one node out and returns it,
\* genc_slq_swap exchanges two sequences and genc_slq_splice_onto_end joins them, for any
\* number of queues and nodes and after any sequence of these calls.
THEOREM QueuesAreSequences == QueueSpec => ImplementsFifo
<1>1. QueueInit => QueueInv /\ ItemsInv /\ Fifo!FifoInit
  BY InitInv, InitItems
<1>2. QueueInv /\ ItemsInv /\ [QueueNext]_queueVars
      => QueueInv' /\ ItemsInv' /\ [Fifo!FifoNext]_(Fifo!fifoVars)
  BY NextInv, StepItems
<1> QED BY <1>1, <1>2, PTL DEF QueueSpec, ImplementsFifo, Fifo!FifoSpec
-----------------------------------------------------------------------------
(* The pool and the mail queue. *)

USE PoolSzAssumption, ItemWordsAssumption, NullAssumption

\* A pointer that passes osPoolFree's checks is the address of the block the
\* division yields, and that block is one of the pool's.
LEMMA ValidIsAddress ==
    ASSUME NEW p \in Pointer, ValidPointer(p)
    PROVE  BlockOf(p) \in Block /\ p = Address(BlockOf(p))
<1>1. p \in Nat
  BY DEF Pointer, ValidPointer
<1>2. p \div ItemWords \in Nat
  <2>1. p \div ItemWords \in Int
    BY <1>1
  <2>2. /\ p = ItemWords * (p \div ItemWords) + (p % ItemWords)
        /\ p % ItemWords \in 0..ItemWords-1
    BY <1>1, SMT
  <2> DEFINE q == p \div ItemWords
  <2>3. p % ItemWords = 0
    BY DEF ValidPointer
  <2>4. ASSUME q <= -1 PROVE FALSE
    <3>1. ItemWords * q <= -ItemWords
      BY <2>1, <2>4, SMT
    <3> QED BY <1>1, <2>1, <2>2, <2>3, <3>1
  <2> QED BY <2>1, <2>4
<1>3. p = ItemWords * (p \div ItemWords) + (p % ItemWords)
  BY <1>1, SMT
<1>4. p = (p \div ItemWords) * ItemWords
  BY <1>1, <1>2, <1>3 DEF ValidPointer
<1> QED BY <1>2, <1>4 DEF ValidPointer, BlockOf, Address, Block

\* The search returns blocks of the pool that are free, ...
LEMMA FirstFreeIsFree ==
    ASSUME PoolTypeOK, NEW b \in FirstFree
    PROVE  b \in Block /\ markers[b] = 0
<1>1. PICK k \in Block : b = Probe(k) /\ markers[Probe(k)] = 0
  BY DEF FirstFree
<1>2. Probe(k) \in Block
  BY DEF PoolTypeOK, Probe, Block
<1> QED BY <1>1, <1>2

\* Each operation keeps the types of the pool.
LEMMA AllocateTyped ==
    ASSUME PoolTypeOK, NEW c \in Clients, NEW op \in Op, NEW cleared,
           Allocate(c, op, cleared)
    PROVE  PoolTypeOK'
<1> USE DEF PoolTypeOK
<1>1. CASE NoneFree /\ UNCHANGED <<markers, currentIndex, mem, held, freeing>>
           /\ result' = [op |-> op, block |-> NULL]
  BY <1>1
<1>2. ASSUME NEW b \in FirstFree,
             markers' = Marked(b), currentIndex' = b,
             held' = [held EXCEPT ![c] = @ \cup {b}],
             mem' = [mem EXCEPT ![b] = [w \in Words |->
                        IF w \in cleared THEN "zero" ELSE @[w]]],
             result' = [op |-> op, block |-> b], freeing' = freeing
      PROVE  PoolTypeOK'
  <2>1. b \in Block
    BY FirstFreeIsFree
  <2>2. mem' \in [Block -> Content]
    BY <1>2, <2>1 DEF Content
  <2> QED BY <1>2, <2>1, <2>2 DEF Marked
<1> QED BY <1>1, <1>2 DEF Allocate

LEMMA FreeTyped ==
    ASSUME PoolTypeOK, NEW c \in Clients,
           \/ \E p \in Argument(c) : PoolFree(c, p) \/ PoolFreeRefused(p)
           \/ ClearMarker(c)
    PROVE  PoolTypeOK'
<1>1. ASSUME NEW p \in Argument(c), PoolFree(c, p) PROVE PoolTypeOK'
  <2>1. BlockOf(p) \in Block
    BY <1>1, ValidIsAddress DEF PoolFree, Argument
  <2> QED BY <1>1, <2>1 DEF PoolFree, PoolTypeOK
<1>2. ASSUME NEW p \in Argument(c), PoolFreeRefused(p) PROVE PoolTypeOK'
  BY <1>2 DEF PoolFreeRefused, PoolTypeOK, Op
<1>3. CASE ClearMarker(c)
  BY <1>3 DEF ClearMarker, PoolTypeOK, Op
<1> QED BY <1>1, <1>2, <1>3

\* A client frees what it holds, and holds it until the store.
LEMMA FreeingStep ==
    ASSUME PoolTypeOK, FreeingIsHeld, NEW c \in Clients,
           \/ \E op, cleared : Allocate(c, op, cleared)
           \/ \E p \in Argument(c) : PoolFree(c, p) \/ PoolFreeRefused(p)
           \/ ClearMarker(c) \/ Fill(c)
    PROVE  FreeingIsHeld'
<1> USE DEF FreeingIsHeld, PoolTypeOK
<1>1. ASSUME NEW op, NEW cleared, Allocate(c, op, cleared) PROVE FreeingIsHeld'
  BY <1>1 DEF Allocate
<1>2. ASSUME NEW p \in Argument(c), PoolFree(c, p) PROVE FreeingIsHeld'
  <2>1. BlockOf(p) \in held[c]
    BY <1>2, ValidIsAddress DEF PoolFree, Argument
  <2> QED BY <1>2, <2>1 DEF PoolFree
<1>3. ASSUME NEW p \in Argument(c), PoolFreeRefused(p) PROVE FreeingIsHeld'
  BY <1>3 DEF PoolFreeRefused
<1>4. CASE ClearMarker(c)
  BY <1>4 DEF ClearMarker
<1>5. CASE Fill(c)
  BY <1>5 DEF Fill
<1> QED BY <1>1, <1>2, <1>3, <1>4, <1>5

LEMMA FillTyped ==
    ASSUME PoolTypeOK, NEW c \in Clients, Fill(c)
    PROVE  PoolTypeOK'
BY DEF Fill, Content, PoolTypeOK, Op

LEMMA PoolInitTyped == PoolInit => PoolTypeOK
BY DEF PoolInit, PoolTypeOK, Block, Content, Words, Op

\* Types and index bounds: currentIndex never leaves the array of markers.
THEOREM PoolTypeCorrect == PoolSpec => []PoolTypeOK
<1>1. PoolTypeOK /\ [PoolNext]_poolVars => PoolTypeOK'
  <2> SUFFICES ASSUME PoolTypeOK, [PoolNext]_poolVars PROVE PoolTypeOK'
    OBVIOUS
  <2>1. CASE UNCHANGED poolVars
    BY <2>1 DEF poolVars, PoolTypeOK
  <2> QED BY <2>1, AllocateTyped, FreeTyped, FillTyped
          DEF PoolNext, PoolAlloc, PoolCAlloc, Op
<1> QED BY <1>1, PoolInitTyped, PTL DEF PoolSpec

\* The pool never hands a block to two clients and never loses one, whatever
\* pointers are passed to osPoolFree and whatever runs between its checks and
\* its store.
THEOREM PoolOwnership == PoolSpec => []MarkersAreOwners
<1>0. PoolSpec => []FreeingIsHeld
  <2>1. PoolInit => FreeingIsHeld
    BY DEF PoolInit, FreeingIsHeld
  <2>2. PoolTypeOK /\ FreeingIsHeld /\ [PoolNext]_poolVars => FreeingIsHeld'
    <3> SUFFICES ASSUME PoolTypeOK, FreeingIsHeld, [PoolNext]_poolVars
                 PROVE  FreeingIsHeld'
      OBVIOUS
    <3>1. CASE UNCHANGED poolVars
      BY <3>1 DEF poolVars, FreeingIsHeld
    <3> QED BY <3>1, FreeingStep DEF PoolNext, PoolAlloc, PoolCAlloc
  <2> QED BY <2>1, <2>2, PoolTypeCorrect, PTL DEF PoolSpec
<1>1. PoolInit => MarkersAreOwners
  BY DEF PoolInit, MarkersAreOwners
<1>2. PoolTypeOK /\ FreeingIsHeld /\ MarkersAreOwners /\ [PoolNext]_poolVars
        => MarkersAreOwners'
  <2> SUFFICES ASSUME PoolTypeOK, FreeingIsHeld, MarkersAreOwners,
                      [PoolNext]_poolVars
               PROVE  MarkersAreOwners'
    OBVIOUS
  <2>1. ASSUME NEW c \in Clients, NEW op, NEW cleared, Allocate(c, op, cleared)
        PROVE  MarkersAreOwners'
    <3>1. CASE UNCHANGED <<markers, held>>
      BY <3>1 DEF MarkersAreOwners
    <3>2. ASSUME NEW b \in FirstFree,
                 markers' = Marked(b), held' = [held EXCEPT ![c] = @ \cup {b}]
          PROVE  MarkersAreOwners'
      <4>1. b \in Block /\ markers[b] = 0
        BY FirstFreeIsFree
      <4>2. \A d \in Clients : b \notin held[d]
        BY <4>1 DEF MarkersAreOwners
      <4> QED BY <3>2, <4>1, <4>2 DEF Marked, MarkersAreOwners, PoolTypeOK
    <3> QED BY <2>1, <3>1, <3>2 DEF Allocate
  <2>2. ASSUME NEW c \in Clients, ClearMarker(c) PROVE MarkersAreOwners'
    <3>1. PICK b \in Block : b = freeing[c] /\ b \in held[c]
      BY <2>2 DEF ClearMarker, FreeingIsHeld, PoolTypeOK
    <3>2. markers' = [markers EXCEPT ![b] = 0] /\ held' = [held EXCEPT ![c] = @ \ {b}]
      BY <2>2, <3>1 DEF ClearMarker
    <3> QED BY <3>1, <3>2 DEF MarkersAreOwners, PoolTypeOK
  <2>3. CASE UNCHANGED <<markers, held>>
    BY <2>3 DEF MarkersAreOwners
  <2> QED BY <2>1, <2>2, <2>3
          DEF PoolNext, PoolAlloc, PoolCAlloc, PoolFree, PoolFreeRefused, Fill, poolVars
<1> QED BY <1>0, <1>1, <1>2, PoolTypeCorrect, PTL DEF PoolSpec

\* osPoolAlloc returns NULL only when block 0 and all blocks from currentIndex
\* on are in use (not, as its comment says, only when every block is).
THEOREM PoolAllocGuarantee == PoolSpec => []NullMeansSuffixInUse
<1>1. PoolInit => NullMeansSuffixInUse
  BY DEF PoolInit, NullMeansSuffixInUse
<1>2. PoolTypeOK /\ NullMeansSuffixInUse /\ [PoolNext]_poolVars
        => NullMeansSuffixInUse'
  <2> SUFFICES ASSUME PoolTypeOK, NullMeansSuffixInUse, [PoolNext]_poolVars
               PROVE  NullMeansSuffixInUse'
    OBVIOUS
  <2>1. ASSUME NEW c \in Clients, NEW op, NEW cleared, Allocate(c, op, cleared)
        PROVE  NullMeansSuffixInUse'
    <3>1. CASE NoneFree /\ UNCHANGED <<markers, currentIndex>>
      <4>1. ASSUME NEW b \in Block, b >= currentIndex PROVE markers[b] = 1
        <5>1. b - currentIndex \in Block /\ Probe(b - currentIndex) = b
          BY <4>1 DEF PoolTypeOK, Probe, Block
        <5> QED BY <3>1, <5>1 DEF NoneFree, PoolTypeOK
      <4>2. markers[0] = 1
        <5>1. CASE currentIndex = 0
          BY <4>1, <5>1 DEF Block
        <5>2. CASE currentIndex # 0
          <6>1. PoolSz - currentIndex \in Block /\ Probe(PoolSz - currentIndex) = 0
            BY <5>2 DEF PoolTypeOK, Probe, Block
          <6>2. 0 \in Block
            BY DEF Block
          <6> QED BY <3>1, <6>1, <6>2 DEF NoneFree, PoolTypeOK
        <5> QED BY <5>1, <5>2
      <4> QED BY <3>1, <4>1, <4>2 DEF NullMeansSuffixInUse
    <3>2. ASSUME NEW b \in FirstFree, result' = [op |-> op, block |-> b]
          PROVE  NullMeansSuffixInUse'
      <4>1. b # NULL
        BY FirstFreeIsFree DEF Block
      <4> QED BY <3>2, <4>1 DEF NullMeansSuffixInUse
    <3> QED BY <2>1, <3>1, <3>2 DEF Allocate
  <2>2. ASSUME NEW c, NEW p, PoolFree(c, p) PROVE NullMeansSuffixInUse'
    BY <2>2 DEF PoolFree, NullMeansSuffixInUse
  <2>3. ASSUME NEW p, PoolFreeRefused(p) PROVE NullMeansSuffixInUse'
    BY <2>3 DEF PoolFreeRefused, NullMeansSuffixInUse
  <2>4. ASSUME NEW c, Fill(c) PROVE NullMeansSuffixInUse'
    BY <2>4 DEF Fill, NullMeansSuffixInUse
  <2>5. CASE UNCHANGED poolVars
    BY <2>5 DEF poolVars, NullMeansSuffixInUse
  <2>6. ASSUME NEW c, ClearMarker(c) PROVE NullMeansSuffixInUse'
    BY <2>6 DEF ClearMarker, NullMeansSuffixInUse
  <2> QED BY <2>1, <2>2, <2>3, <2>4, <2>5, <2>6 DEF PoolNext, PoolAlloc, PoolCAlloc
<1> QED BY <1>1, <1>2, PoolTypeCorrect, PTL DEF PoolSpec
-----------------------------------------------------------------------------
\* The mail queue and its pool keep their types.
THEOREM MailTypeCorrect == MailSpec => []MailTypeOK
<1>1. MailInit => MailTypeOK
  BY PoolInitTyped DEF MailInit, MailTypeOK
<1>2. MailTypeOK /\ [MailNext]_mailVars => MailTypeOK'
  <2> SUFFICES ASSUME MailTypeOK, [MailNext]_mailVars PROVE MailTypeOK'
    OBVIOUS
  <2> USE DEF MailTypeOK
  <2>1. ASSUME NEW c \in Clients, MailAlloc(c) \/ MailCAlloc(c) PROVE MailTypeOK'
    BY <2>1, AllocateTyped DEF MailAlloc, MailCAlloc, PoolAlloc, Op
  <2>2. ASSUME NEW c \in Clients, MailGet(c) PROVE MailTypeOK'
    BY <2>2, HeadTailProperties DEF MailGet, PoolTypeOK, Op
  <2>3. ASSUME NEW c \in Clients, NEW b \in Block, MailPut(c, b) PROVE MailTypeOK'
    <3>1. Append(queue, b) \in Seq(Block)
      BY <2>3, AppendProperties
    <3>2. CASE HasRoom
      <4>1. /\ queue' = Append(queue, b) /\ result' = [op |-> "put", block |-> b]
            /\ held' = [held EXCEPT ![c] = @ \ {b}]
            /\ UNCHANGED <<markers, currentIndex, mem, freeing>>
        BY <2>3, <3>2 DEF MailPut
      <4>2. result' \in [op : Op, block : Block \cup {NULL}]
        BY <4>1 DEF Op
      <4> QED BY <3>1, <4>1, <4>2 DEF PoolTypeOK
    <3>3. CASE ~HasRoom
      BY <2>3, <3>3 DEF MailPut, PoolTypeOK, Op
    <3> QED BY <3>2, <3>3
  <2>4. ASSUME NEW c \in Clients, NEW p \in Argument(c), MailFree(c, p)
        PROVE  MailTypeOK'
    BY <2>4, FreeTyped DEF MailFree
  <2>8. ASSUME NEW c \in Clients, MailFreed(c) PROVE MailTypeOK'
    BY <2>8, FreeTyped DEF MailFreed
  <2>5. ASSUME NEW c \in Clients, Fill(c), UNCHANGED queue PROVE MailTypeOK'
    BY <2>5, FillTyped
  <2>6. CASE MailGetNothing
    BY <2>6 DEF MailGetNothing, PoolTypeOK, Op
  <2>7. CASE UNCHANGED mailVars
    BY <2>7 DEF mailVars, PoolTypeOK
  <2> QED BY <2>1, <2>2, <2>3, <2>4, <2>5, <2>6, <2>7, <2>8 DEF MailNext
<1> QED BY <1>1, <1>2, PTL DEF MailSpec

-----------------------------------------------------------------------------
\* What sending and receiving do to the set of queued blocks.
LEMMA QueuedAppend ==
    ASSUME MailTypeOK, NEW b \in Block, queue' = Append(queue, b)
    PROVE  /\ Queued' = Queued \cup {b}
           /\ b \notin Queued /\ (\A i, j \in DOMAIN queue : queue[i] = queue[j] => i = j)
                => (\A i, j \in DOMAIN queue : queue[i] = queue[j] => i = j)'
<1>1. /\ Len(queue') = Len(queue) + 1 /\ Len(queue) \in Nat
      /\ DOMAIN queue = 1..Len(queue) /\ DOMAIN queue' = 1..Len(queue')
      /\ \A i \in 1..Len(queue) : queue'[i] = queue[i]
      /\ queue'[Len(queue) + 1] = b
  BY AppendProperties, LenProperties DEF MailTypeOK
<1>2. DOMAIN queue' = DOMAIN queue \cup {Len(queue) + 1}
  BY <1>1
<1>3. Queued' = Queued \cup {b}
  BY <1>1, <1>2 DEF Queued
<1>4. ASSUME b \notin Queued, \A i, j \in DOMAIN queue : queue[i] = queue[j] => i = j
      PROVE  (\A i, j \in DOMAIN queue : queue[i] = queue[j] => i = j)'
  BY <1>1, <1>2, <1>4 DEF Queued
<1> QED BY <1>3, <1>4

LEMMA QueuedTail ==
    ASSUME MailTypeOK, queue # << >>, queue' = Tail(queue),
           \A i, j \in DOMAIN queue : queue[i] = queue[j] => i = j
    PROVE  /\ Head(queue) \in Queued
           /\ Queued' = Queued \ {Head(queue)}
           /\ (\A i, j \in DOMAIN queue : queue[i] = queue[j] => i = j)'
<1>1. /\ Len(queue') = Len(queue) - 1 /\ Len(queue) \in Nat \ {0}
      /\ DOMAIN queue = 1..Len(queue) /\ DOMAIN queue' = 1..Len(queue')
      /\ \A i \in 1..Len(queue') : queue'[i] = queue[i + 1]
      /\ Head(queue) = queue[1]
  BY HeadTailProperties, LenProperties, EmptySeq DEF MailTypeOK
<1>2. Head(queue) \in Queued
  BY <1>1 DEF Queued
<1>3. Queued' = Queued \ {Head(queue)}
  <2>1. ASSUME NEW i \in DOMAIN queue' PROVE queue'[i] \in Queued \ {Head(queue)}
    <3>1. i + 1 \in DOMAIN queue /\ i + 1 # 1 /\ 1 \in DOMAIN queue
      BY <1>1
    <3> QED BY <1>1, <3>1 DEF Queued
  <2>2. ASSUME NEW i \in DOMAIN queue, queue[i] # Head(queue)
        PROVE  i - 1 \in DOMAIN queue' /\ queue'[i - 1] = queue[i]
    BY <1>1, <2>2
  <2>3. Queued' \subseteq Queued \ {Head(queue)}
    BY <2>1 DEF Queued
  <2>4. Queued \ {Head(queue)} \subseteq Queued'
    BY <2>2 DEF Queued
  <2> QED BY <2>3, <2>4
<1>4. ASSUME NEW i \in DOMAIN queue', NEW j \in DOMAIN queue', queue'[i] = queue'[j]
      PROVE  i = j
  <2>1. i + 1 \in DOMAIN queue /\ j + 1 \in DOMAIN queue /\ queue[i + 1] = queue[j + 1]
    BY <1>1, <1>4
  <2> QED BY <1>1, <2>1
<1> QED BY <1>2, <1>3, <1>4

\* A mail is neither lost nor shared between its allocation and its release.
THEOREM MailOwnership == MailSpec => []MailInOnePlace
<1>0. MailSpec => []FreeingIsHeld
  <2>1. MailInit => FreeingIsHeld
    BY DEF MailInit, PoolInit, FreeingIsHeld
  <2>2. MailTypeOK /\ FreeingIsHeld /\ [MailNext]_mailVars => FreeingIsHeld'
    <3> SUFFICES ASSUME MailTypeOK, FreeingIsHeld, [MailNext]_mailVars
                 PROVE  FreeingIsHeld'
      OBVIOUS
    <3> USE DEF MailTypeOK
    <3>1. ASSUME NEW c \in Clients, MailGet(c) PROVE FreeingIsHeld'
      BY <3>1 DEF MailGet, FreeingIsHeld, PoolTypeOK
    <3>2. ASSUME NEW c \in Clients, NEW b \in Block, MailPut(c, b), freeing[c] = NULL
          PROVE  FreeingIsHeld'
      BY <3>2 DEF MailPut, FreeingIsHeld, PoolTypeOK
    <3>3. CASE MailGetNothing \/ UNCHANGED mailVars
      BY <3>3 DEF MailGetNothing, mailVars, FreeingIsHeld
    <3> QED BY <3>1, <3>2, <3>3, FreeingStep
            DEF MailNext, MailAlloc, MailCAlloc, PoolAlloc, MailFree, MailFreed
  <2> QED BY <2>1, <2>2, MailTypeCorrect, PTL DEF MailSpec
<1>1. MailInit => MailInOnePlace
  BY DEF MailInit, PoolInit, MailInOnePlace, Queued
<1>2. MailTypeOK /\ FreeingIsHeld /\ MailInOnePlace /\ [MailNext]_mailVars
        => MailInOnePlace'
  <2> SUFFICES ASSUME MailTypeOK, FreeingIsHeld, MailInOnePlace, [MailNext]_mailVars
               PROVE  MailInOnePlace'
    OBVIOUS
  <2>1. ASSUME NEW c \in Clients, NEW op, NEW cleared, Allocate(c, op, cleared),
               UNCHANGED queue
        PROVE  MailInOnePlace'
    <3>0. Queued' = Queued
      BY <2>1 DEF Queued
    <3>1. CASE UNCHANGED <<markers, held>>
      BY <2>1, <3>0, <3>1 DEF MailInOnePlace
    <3>2. ASSUME NEW b \in FirstFree,
                 markers' = Marked(b), held' = [held EXCEPT ![c] = @ \cup {b}]
          PROVE  MailInOnePlace'
      <4>1. b \in Block /\ markers[b] = 0
        BY FirstFreeIsFree DEF MailTypeOK
      <4>2. b \notin Queued /\ \A d \in Clients : b \notin held[d]
        BY <4>1 DEF MailInOnePlace
      <4> QED BY <2>1, <3>0, <3>2, <4>1, <4>2
              DEF Marked, MailInOnePlace, PoolTypeOK, MailTypeOK
    <3> QED BY <2>1, <3>1, <3>2 DEF Allocate
  <2>2. ASSUME NEW c \in Clients, MailGet(c) PROVE MailInOnePlace'
    <3>1. /\ Head(queue) \in Queued /\ Queued' = Queued \ {Head(queue)}
          /\ (\A i, j \in DOMAIN queue : queue[i] = queue[j] => i = j)'
      BY <2>2, QueuedTail DEF MailGet, MailInOnePlace
    <3> QED BY <2>2, <3>1 DEF MailGet, MailInOnePlace, MailTypeOK, PoolTypeOK
  <2>3. ASSUME NEW c \in Clients, NEW b \in Block, MailPut(c, b)
        PROVE  MailInOnePlace'
    <3>1. CASE HasRoom
      <4>1. b \notin Queued
        BY <2>3 DEF MailPut, MailInOnePlace
      <4>2. /\ Queued' = Queued \cup {b}
            /\ (\A i, j \in DOMAIN queue : queue[i] = queue[j] => i = j)'
        BY <2>3, <3>1, <4>1, QueuedAppend DEF MailPut, MailInOnePlace
      <4>3. /\ b \in held[c] /\ markers' = markers
            /\ \A d \in Clients : held'[d] = IF d = c THEN held[c] \ {b} ELSE held[d]
        BY <2>3, <3>1 DEF MailPut, MailTypeOK, PoolTypeOK
      <4>4. ASSUME NEW x \in Block
            PROVE  x \in Queued' \/ (\E d \in Clients : x \in held'[d])
                     <=> x \in Queued \/ (\E d \in Clients : x \in held[d])
        BY <4>2, <4>3
      <4>5. \A d \in Clients : held'[d] \cap Queued' = {}
        BY <4>2, <4>3 DEF MailInOnePlace
      <4>6. \A d, e \in Clients : d # e => held'[d] \cap held'[e] = {}
        BY <4>3 DEF MailInOnePlace
      <4> QED BY <4>2, <4>3, <4>4, <4>5, <4>6 DEF MailInOnePlace
    <3>2. CASE ~HasRoom
      BY <2>3, <3>2 DEF MailPut, MailInOnePlace, Queued
    <3> QED BY <3>1, <3>2
  <2>4. ASSUME NEW c \in Clients, MailFreed(c) PROVE MailInOnePlace'
    <3>1. PICK b \in Block : b = freeing[c] /\ b \in held[c]
      BY <2>4 DEF MailFreed, ClearMarker, FreeingIsHeld, MailTypeOK, PoolTypeOK
    <3>2. markers' = [markers EXCEPT ![b] = 0] /\ held' = [held EXCEPT ![c] = @ \ {b}]
      BY <2>4, <3>1 DEF MailFreed, ClearMarker
    <3>3. Queued' = Queued
      BY <2>4 DEF MailFreed, Queued
    <3> QED BY <2>4, <3>1, <3>2, <3>3
            DEF MailFreed, MailInOnePlace, MailTypeOK, PoolTypeOK
  <2>5. CASE UNCHANGED <<markers, held, queue>>
    BY <2>5 DEF MailInOnePlace, Queued
  <2> QED BY <2>1, <2>2, <2>3, <2>4, <2>5
          DEF MailNext, MailAlloc, MailCAlloc, PoolAlloc, MailFree, PoolFree,
              PoolFreeRefused, Fill, MailGetNothing, mailVars
<1> QED BY <1>0, <1>1, <1>2, MailTypeCorrect, PTL DEF MailSpec

-----------------------------------------------------------------------------
\* The queued mails are distinct blocks other than the one being put, so there
\* are fewer of them than blocks, and as many places as blocks.
LEMMA HolderFindsRoom ==
    ASSUME MailTypeOK, MailInOnePlace, NEW c \in Clients, NEW b \in held[c]
    PROVE  HasRoom
<1> DEFINE Others == Block \ {b}
<1>1. b \in Block /\ b \notin Queued
  BY DEF MailTypeOK, PoolTypeOK, MailInOnePlace
<1>2. IsFiniteSet(Block) /\ Cardinality(Block) = PoolSz
  <2>1. 0 \in Int /\ PoolSz-1 \in Int /\ ~(0 > PoolSz-1) /\ (PoolSz-1) - 0 + 1 = PoolSz
    OBVIOUS
  <2>2. IsFiniteSet(0..PoolSz-1) /\ Cardinality(0..PoolSz-1) = (PoolSz-1) - 0 + 1
    BY <2>1, FS_Interval
  <2> QED BY <2>1, <2>2 DEF Block
<1>3. IsFiniteSet(Others) /\ Cardinality(Others) = PoolSz - 1
  BY <1>1, <1>2, FS_RemoveElement
<1>4. Len(queue) \in Nat /\ queue \in [1..Len(queue) -> Others]
  BY <1>1, LenProperties DEF MailTypeOK, Queued
<1>5. IsFiniteSet(1..Len(queue)) /\ Cardinality(1..Len(queue)) = Len(queue)
  BY <1>4, FS_Interval
<1>6. CASE PoolSz - 1 < Len(queue)
  <2>1. \E x, y \in 1..Len(queue) : x # y /\ queue[x] = queue[y]
    BY <1>3, <1>4, <1>5, <1>6, FS_PigeonHole
  <2> QED BY <1>4, <2>1 DEF MailInOnePlace
<1>7. CASE ~(PoolSz - 1 < Len(queue))
  BY <1>4, <1>7 DEF HasRoom, QueueSz
<1> QED BY <1>6, <1>7

\* osMailPut never fails for a mail that osMailAlloc returned.
THEOREM PutAlwaysSucceeds == MailSpec => []PutNeverFails
<1>1. MailInit => PutNeverFails
  BY DEF MailInit, PoolInit, PutNeverFails
<1>2. /\ MailTypeOK /\ MailInOnePlace /\ PutNeverFails
      /\ [MailNext]_mailVars
      => PutNeverFails'
  <2> SUFFICES ASSUME MailTypeOK, MailInOnePlace, PutNeverFails,
                      [MailNext]_mailVars
               PROVE  PutNeverFails'
    OBVIOUS
  <2> USE DEF PutNeverFails
  <2>1. ASSUME NEW c \in Clients, NEW b \in Block, MailPut(c, b) PROVE PutNeverFails'
    <3>1. HasRoom
      BY <2>1, HolderFindsRoom DEF MailPut
    <3> QED BY <2>1, <3>1 DEF MailPut
  <2>2. ASSUME NEW c \in Clients, MailAlloc(c) \/ MailCAlloc(c) PROVE PutNeverFails'
    BY <2>2 DEF MailAlloc, MailCAlloc, PoolAlloc, Allocate
  <2>3. ASSUME NEW c, NEW p, MailFree(c, p) \/ MailFreed(c) PROVE PutNeverFails'
    BY <2>3 DEF MailFree, PoolFree, PoolFreeRefused, MailFreed, ClearMarker
  <2>4. ASSUME NEW c, MailGet(c) \/ Fill(c) \/ MailGetNothing PROVE PutNeverFails'
    BY <2>4 DEF MailGet, Fill, MailGetNothing
  <2>5. CASE UNCHANGED mailVars
    BY <2>5 DEF mailVars
  <2> QED BY <2>1, <2>2, <2>3, <2>4, <2>5 DEF MailNext
<1> QED BY <1>1, <1>2, MailTypeCorrect, MailOwnership, PTL DEF MailSpec
=============================================================================
