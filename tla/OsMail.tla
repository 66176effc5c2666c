------------------------------- MODULE OsMail -------------------------------
(***************************************************************************)
(* The mail queue of the CMSIS-RTOS layer (src/src/cmsis_os.c, lines       *)
(* 1200-1398): a FreeRTOS queue of pointers and a memory pool with as many *)
(* blocks as the queue has places.  A mail is allocated from the pool,     *)
(* filled, put (without waiting), received by another task and freed.      *)
(***************************************************************************)
EXTENDS OsPool, Sequences

VARIABLE queue  \* the blocks in the FreeRTOS queue (external), oldest first

mailVars == <<markers, currentIndex, mem, held, freeing, result, queue>>

\* osMailCreate: a queue of queue_sz places and a pool of queue_sz blocks.
QueueSz == PoolSz
MailInit == PoolInit /\ queue = << >>

\* osMailAlloc ignores its timeout.
MailAlloc(c) == PoolAlloc(c) /\ UNCHANGED queue

\* osMailCAlloc clears item_sz bytes, the whole block.
MailCAlloc(c) == Allocate(c, "calloc", Words) /\ UNCHANGED queue

\* Mutant: the queue holds one mail fewer than the pool.
HasRoomOneLess == Len(queue) < QueueSz - 1

HasRoom == Len(queue) < QueueSz

\* xQueueSend without waiting: the block changes hands, or osErrorOS.
MailPut(c, b) ==
    /\ b \in held[c]
    /\ IF HasRoom
       THEN /\ queue' = Append(queue, b)
            /\ held' = [held EXCEPT ![c] = @ \ {b}]
            /\ result' = [op |-> "put", block |-> b]
       ELSE /\ result' = [op |-> "puterror", block |-> b]
            /\ UNCHANGED <<queue, held>>
    /\ UNCHANGED <<markers, currentIndex, mem, freeing>>

\* Mutant: the mail is freed in the pool as it is taken from the queue.
MailGetFreeing(c) ==
    /\ queue # << >>
    /\ queue' = Tail(queue)
    /\ held' = [held EXCEPT ![c] = @ \cup {Head(queue)}]
    /\ markers' = [markers EXCEPT ![Head(queue)] = 0]
    /\ result' = [op |-> "get", block |-> Head(queue)]
    /\ UNCHANGED <<currentIndex, mem, freeing>>

\* osMailGet: the oldest mail passes to the receiver.
MailGet(c) ==
    /\ queue # << >>
    /\ queue' = Tail(queue)
    /\ held' = [held EXCEPT ![c] = @ \cup {Head(queue)}]
    /\ result' = [op |-> "get", block |-> Head(queue)]
    /\ UNCHANGED <<markers, currentIndex, mem, freeing>>

\* No mail, or none within the timeout: osOK or osEventTimeout.
MailGetNothing ==
    /\ queue = << >>
    /\ result' = [op |-> "get", block |-> NULL]
    /\ UNCHANGED <<markers, currentIndex, mem, held, freeing, queue>>

\* osMailFree: osPoolFree on the queue's pool, in its two steps.
MailFree(c, p) == (PoolFree(c, p) \/ PoolFreeRefused(p)) /\ UNCHANGED queue
MailFreed(c) == ClearMarker(c) /\ UNCHANGED queue

MailNext ==
    \E c \in Clients :
        \/ /\ freeing[c] = NULL
           /\ \/ MailAlloc(c) \/ MailCAlloc(c) \/ MailGet(c) \/ MailGetNothing
              \/ \E b \in Block : MailPut(c, b)
              \/ \E p \in Argument(c) : MailFree(c, p)
              \/ Fill(c) /\ UNCHANGED queue
        \/ MailFreed(c)

MailSpec == MailInit /\ [][MailNext]_mailVars

-----------------------------------------------------------------------------
\* The values of the pool's variables and of the queue of pointers to blocks.
MailTypeOK == PoolTypeOK /\ queue \in Seq(Block)

Queued == {queue[i] : i \in DOMAIN queue}

\* Every allocated block is in exactly one place, held by one client or queued
\* once: between osMailAlloc and the store of osMailFree a mail is neither
\* lost nor shared, whatever runs between the checks and that store.
MailInOnePlace ==
    /\ \A b \in Block :
         markers[b] = 1 <=> b \in Queued \/ \E c \in Clients : b \in held[c]
    /\ \A c, d \in Clients : c # d => held[c] \cap held[d] = {}
    /\ \A c \in Clients : held[c] \cap Queued = {}
    /\ \A i, j \in DOMAIN queue : queue[i] = queue[j] => i = j

\* osMailPut passes no waiting time to xQueueSend and its callers free nothing
\* when it fails: it never fails for a block that came from osMailAlloc.
PutNeverFails == result.op # "puterror"
=============================================================================
