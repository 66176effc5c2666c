---------------------------- MODULE FifoQueues ----------------------------
(***************************************************************************)
(* What slist_queue.h promises: queues of nodes, each node in one queue at *)
(* most.                                                                   *)
(***************************************************************************)
EXTENDS Naturals, Sequences, SequencesExt

CONSTANTS Queues, Nodes, Null

VARIABLES
    items,    \* the nodes of each queue, from the front on
    removed   \* what the last removal has returned

fifoVars == <<items, removed>>

FifoInit == items = [q \in Queues |-> << >>] /\ removed = Null

Free(n) == \A q \in Queues : \A i \in DOMAIN items[q] : items[q][i] # n

PushBack(q, n) ==
    Free(n) /\ items' = [items EXCEPT ![q] = Append(@, n)] /\ UNCHANGED removed

PushFront(q, n) ==
    Free(n) /\ items' = [items EXCEPT ![q] = <<n>> \o @] /\ UNCHANGED removed

\* Removes the node at position i, or nothing behind the last one.
RemoveItem(q, i) ==
    \/ i <= Len(items[q]) /\ removed' = items[q][i] /\ items' = [items EXCEPT ![q] = RemoveAt(@, i)]
    \/ i = Len(items[q]) + 1 /\ removed' = Null /\ UNCHANGED items

Swap(q, r) == items' = [items EXCEPT ![q] = items[r], ![r] = items[q]] /\ UNCHANGED removed

Splice(onto, from) ==
    /\ onto # from
    /\ items' = [items EXCEPT ![onto] = @ \o items[from], ![from] = << >>]
    /\ UNCHANGED removed

FifoNext ==
    \/ \E q, r \in Queues : Swap(q, r) \/ Splice(q, r)
    \/ \E q \in Queues : \E i \in 1 .. Len(items[q]) + 1 : RemoveItem(q, i)
    \/ \E q \in Queues, n \in Nodes : PushBack(q, n) \/ PushFront(q, n)

FifoSpec == FifoInit /\ [][FifoNext]_fifoVars
=============================================================================
