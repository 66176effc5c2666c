------------------------------ MODULE CisList ------------------------------
(***************************************************************************)
(* The sorted linked list of src/src/demo/dm/ciscore/cis_list.c, in which  *)
(* the LwM2M client keeps its requests, notifications, transactions and    *)
(* received packets.                                                       *)
(*                                                                         *)
(* A list is the sequence of its nodes from the head on; a node is a       *)
(* record with an id.  Position 0 stands for NULL.                         *)
(***************************************************************************)
EXTENDS Naturals, Sequences

Ext == INSTANCE SequencesExt

CONSTANT Width   \* 2^16: an id is a number and, below it, a CoAP message id

ASSUME WidthAssumption == Width \in Nat \ {0}
-----------------------------------------------------------------------------
\* The first position from k on at which P holds, Len(l) + 1 if there is none.
FirstFrom(l, k, P(_)) ==
    CHOOSE i \in k .. Len(l) + 1 :
        /\ i <= Len(l) => P(i)
        /\ \A j \in k .. i - 1 : ~P(j)

\* The loop the operations share: from position k on to the first id that is not smaller.
NotSmallerFrom(l, k, id) == FirstFrom(l, k, LAMBDA i : l[i].id >= id)

\* Where cis_list_add puts a node: in front, or behind the head before the
\* first node that is not smaller.
AddPosition(l, id) ==
    IF l = << >> \/ l[1].id > id THEN 1 ELSE NotSmallerFrom(l, 2, id)

\* The list with node linked in at that place.
cis_list_add(l, node) == Ext!InsertAt(l, AddPosition(l, node.id), node)

\* Mutant: the search goes on until the ids are greater, past the node it wants.
FindPastEqual(l, id) ==
    LET i == FirstFrom(l, 1, LAMBDA j : l[j].id > id)
    IN  IF i <= Len(l) /\ l[i].id = id THEN i ELSE 0

\* cis_list_find: the search stops at the first id that is not smaller.
cis_list_find(l, id) ==
    LET i == NotSmallerFrom(l, 1, id)
    IN  IF i <= Len(l) /\ l[i].id = id THEN i ELSE 0

\* The same search with the lower 16 bits of the ids.
cis_list_find_u16(l, id) ==
    LET i == FirstFrom(l, 1, LAMBDA j : l[j].id % Width >= id)
    IN  IF i <= Len(l) /\ l[i].id % Width = id THEN i ELSE 0

\* The node cis_list_remove unlinks: the head, or the first node behind it that
\* is not smaller, if that has the id.
RemovePosition(l, id) ==
    IF l = << >> THEN 0
    ELSE IF l[1].id = id THEN 1
    ELSE LET i == NotSmallerFrom(l, 2, id)
         IN  IF i <= Len(l) /\ l[i].id = id THEN i ELSE 0

\* The list with that node unlinked, if there is one.
cis_list_remove(l, id) ==
    IF RemovePosition(l, id) = 0 THEN l ELSE Ext!RemoveAt(l, RemovePosition(l, id))

=============================================================================
