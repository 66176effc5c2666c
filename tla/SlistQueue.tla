---------------------------- MODULE SlistQueue ----------------------------
(***************************************************************************)
(* The queue of genccont (src/src/demo/libmqttsn/src/                      *)
(* paho.mqtt-sn.embedded-c/genccont/src/slist_queue.c and slist.c), in     *)
(* which the MQTT client keeps its pending requests.                       *)
(*                                                                         *)
(* A link is a struct slist_head*: the head of a queue, or the next field  *)
(* of a node.  The address of the link is named after the queue or the     *)
(* node that holds it, so that a struct slist_head** is a member of Refs.  *)
(***************************************************************************)
EXTENDS Naturals, Sequences, FiniteSets

CONSTANTS Queues, Nodes, Null

\* The nodes are those of a finite heap.
ASSUME QueueAssumption ==
    Queues \cap Nodes = {} /\ Null \notin Queues \cup Nodes /\ IsFiniteSet(Nodes)

Refs == Queues \cup Nodes

VARIABLES
    link,     \* what each link points to
    tail,     \* of each queue: the address of its last link
    removed,  \* what the last removal has returned
    owner     \* history: the queue the callers have put a node in

queueVars == <<link, tail, removed, owner>>

\* The address &queue->head is q, &node->next is n.
Holder(r) == IF r \in Queues THEN r ELSE owner[r]

\* genc_slq_init of every queue; nodes are cleared when they are allocated.
QueueInit ==
    /\ link = [r \in Refs |-> Null]
    /\ tail = [q \in Queues |-> q]
    /\ removed = Null
    /\ owner = [n \in Nodes |-> Null]
-----------------------------------------------------------------------------
\* genc_slist_insert_at, and the caller's view of it.
InsertAt(q, n, at) ==
    /\ owner[n] = Null
    /\ link' = [link EXCEPT ![n] = link[at], ![at] = n]
    /\ owner' = [owner EXCEPT ![n] = q]

\* genc_slq_push_back.
PushBack(q, n) ==
    /\ InsertAt(q, n, tail[q])
    /\ tail' = [tail EXCEPT ![q] = n]
    /\ UNCHANGED removed

\* Mutant: the tail of an empty queue is left where it is.
PushFrontNoTail(q, n) == InsertAt(q, n, q) /\ UNCHANGED <<tail, removed>>

\* genc_slq_push_front: into an empty queue it is a push at the back.
PushFront(q, n) ==
    IF link[q] = Null THEN PushBack(q, n)
    ELSE InsertAt(q, n, q) /\ UNCHANGED <<tail, removed>>

\* The tail after the node behind ref is removed.
NewTail(q, ref) == IF link[link[ref]] = Null THEN ref ELSE tail[q]

\* genc_slq_remove_item_at, for an address in the queue; genc_slq_pop_front is
\* the removal at its head.
RemoveItemAt(q, ref) ==
    /\ Holder(ref) = q
    /\ removed' = link[ref]
    /\ IF link[ref] = Null THEN UNCHANGED <<link, tail, owner>>
       ELSE /\ link' = [link EXCEPT ![ref] = link[link[ref]], ![link[ref]] = Null]
            /\ tail' = [tail EXCEPT ![q] = NewTail(q, ref)]
            /\ owner' = [owner EXCEPT ![link[ref]] = Null]

\* Mutant: the tails are swapped and not fixed up.
SwappedTailPlain(q, r) == tail[r]

\* The tail queue q has after the swap with r: that of an empty queue is the
\* address of its own head.
SwappedTail(q, r) == IF tail[r] = r THEN q ELSE tail[r]

\* genc_slq_swap.
Swap(q, r) ==
    /\ link' = [link EXCEPT ![q] = link[r], ![r] = link[q]]
    /\ tail' = [tail EXCEPT ![q] = SwappedTail(q, r), ![r] = SwappedTail(r, q)]
    /\ owner' = [n \in Nodes |-> CASE owner[n] = q -> r [] owner[n] = r -> q [] OTHER -> owner[n]]
    /\ UNCHANGED removed

\* genc_slq_splice_onto_end, of two queues.
SpliceOntoEnd(onto, from) ==
    /\ onto # from
    /\ IF link[from] = Null THEN UNCHANGED <<link, tail, owner>>
       ELSE /\ link' = [link EXCEPT ![tail[onto]] = link[from], ![from] = Null]
            /\ tail' = [tail EXCEPT ![onto] = tail[from], ![from] = from]
            /\ owner' = [n \in Nodes |-> IF owner[n] = from THEN onto ELSE owner[n]]
    /\ UNCHANGED removed

QueueNext ==
    \/ \E q \in Queues, n \in Nodes : PushBack(q, n) \/ PushFront(q, n)
    \/ \E q \in Queues, ref \in Refs : RemoveItemAt(q, ref)
    \/ \E q, r \in Queues : Swap(q, r) \/ SpliceOntoEnd(q, r)

QueueSpec == QueueInit /\ [][QueueNext]_queueVars
-----------------------------------------------------------------------------
\* The links and tails of the queues.
QueueTypeOK ==
    /\ link \in [Refs -> Nodes \cup {Null}]
    /\ tail \in [Queues -> Refs]
    /\ removed \in Nodes \cup {Null}
    /\ owner \in [Nodes -> Queues \cup {Null}]

\* The tail of a queue is the address of its one link that is Null: wherever nodes
\* were inserted, removed, swapped or spliced, the next push at the back goes
\* behind the last node of its own queue.
TailIsLast ==
    /\ \A q \in Queues : Holder(tail[q]) = q
    /\ \A r \in Refs : Holder(r) # Null => (link[r] = Null <=> tail[Holder(r)] = r)

\* A link points into its own queue, no two links point to the same node, and a
\* node that is in a queue is pointed to: nothing is shared and nothing lost.
LinksAreOwn ==
    /\ \A r \in Refs : link[r] # Null => Holder(r) # Null /\ owner[link[r]] = Holder(r)
    /\ \A r, s \in Refs : link[r] # Null /\ link[r] = link[s] => r = s
    /\ \A n \in Nodes : owner[n] # Null => \E r \in Refs : link[r] = n

\* assert(queue->tail != &removed->next) in genc_slq_remove_item_at.
RemovedIsNotTail == removed # Null /\ owner[removed] = Null => \A q \in Queues : tail[q] # removed

\* A walk from the head of q along the links f, until it meets Null; one step longer than
\* there are nodes, so that one that never ends is seen.
WalkFrom(f, q) ==
    LET walk[k \in 0 .. Cardinality(Nodes) + 1] ==
            IF k = 0 THEN q ELSE IF walk[k - 1] = Null THEN Null ELSE f[walk[k - 1]]
    IN  walk

\* The nodes it meets.
NodesFrom(f, q) ==
    LET walk == WalkFrom(f, q)
        len == Cardinality({k \in 1 .. Cardinality(Nodes) + 1 : walk[k] # Null})
    IN  [k \in 1 .. len |-> walk[k]]

\* The nodes of a queue, from its head on.
Items(q) == NodesFrom(link, q)

Fifo == INSTANCE FifoQueues WITH items <- [q \in Queues |-> Items(q)]

\* The linked queues implement sequences.
ImplementsFifo == Fifo!FifoSpec
=============================================================================
