---------------------------- MODULE MCContainers ----------------------------
(***************************************************************************)
(* The data structures below the protocols, in one instance for TLC: the   *)
(* memory pool of the CMSIS-RTOS layer, used directly or by a mail queue,  *)
(* the queue of the MQTT client, the sorted list of the LwM2M client and   *)
(* the buffer of its block-wise transfers.  They share no state, so that   *)
(* it is enough to let one of them move in each behaviour.                 *)
(***************************************************************************)
EXTENDS OsMail, SlistQueue, CisListUse, CisBlock1

VARIABLE subject   \* the one that moves

containerVars == <<subject, mailVars, queueVars, listVars, blockVars>>

ContainersInit ==
    /\ subject \in {"pool", "mail", "queue", "list", "block1"}
    /\ MailInit /\ QueueInit /\ ListInit /\ BlockInit
    /\ subject # "block1" => \A n \in Totals : total <= n   \* of no use to the others

ContainersNext ==
    /\ \/ subject = "pool" /\ PoolNext /\ UNCHANGED <<queue, queueVars, listVars, blockVars>>
       \/ subject = "mail" /\ MailNext /\ UNCHANGED <<queueVars, listVars, blockVars>>
       \/ subject = "queue" /\ QueueNext /\ UNCHANGED <<mailVars, listVars, blockVars>>
       \/ subject = "list" /\ ListNext /\ UNCHANGED <<mailVars, queueVars, blockVars>>
       \/ subject = "block1" /\ BlockNext /\ UNCHANGED <<mailVars, queueVars, listVars>>
    /\ UNCHANGED subject

ContainersSpec == ContainersInit /\ [][ContainersNext]_containerVars
=============================================================================
