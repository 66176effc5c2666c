---------------------------- MODULE CisListUse ----------------------------
(***************************************************************************)
(* A client of the list of CisList: it adds nodes of any id, equal ones    *)
(* too, and removes them by id.                                            *)
(***************************************************************************)
EXTENDS CisList

CONSTANTS
    Ids,       \* the ids in use, of 32 bits
    Elements   \* the nodes (their addresses)

ASSUME ListAssumption == Ids \subseteq Nat

VARIABLE list

listVars == <<list>>
-----------------------------------------------------------------------------
ListInit == list = << >>

Linked == {list[i].node : i \in DOMAIN list}

ListAdd ==
    \E n \in Elements \ Linked, id \in Ids : list' = cis_list_add(list, [node |-> n, id |-> id])

ListRemove == \E id \in Ids : list' = cis_list_remove(list, id)

ListNext == ListAdd \/ ListRemove

ListSpec == ListInit /\ [][ListNext]_listVars
-----------------------------------------------------------------------------
ListTypeOK == list \in Seq([node : Elements, id : Ids])

\* "Return the node with ID 'id' from the list 'head' or NULL if not found": the
\* search, which stops early, finds a node of that id whenever there is one, and
\* so does the removal, which starts behind the head.
FindFinds ==
    \A id \in Ids :
        LET i == cis_list_find(list, id)
            k == RemovePosition(list, id)
            present == \E j \in DOMAIN list : list[j].id = id
        IN  IF present THEN /\ i \in DOMAIN list /\ list[i].id = id
                            /\ k \in DOMAIN list /\ list[k].id = id
            ELSE i = 0 /\ k = 0

\* The header has one sentence for both searches: "Return the node with ID 'id'
\* from the list 'head' or NULL if not found".  For a message id the code does not
\* keep it: the list is sorted by the whole ids, and the search ends too early.
FindU16Finds ==
    \A i \in DOMAIN list : cis_list_find_u16(list, list[i].id % Width) # 0
=============================================================================
