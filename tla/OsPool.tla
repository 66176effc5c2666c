------------------------------- MODULE OsPool -------------------------------
(***************************************************************************)
(* The memory pool of the CMSIS-RTOS layer (src/src/cmsis_os.c, lines      *)
(* 910-1069).  A pool is an array of markers, one per block, and the index *)
(* of the block allocated last, where the next search begins.  The search  *)
(* runs inside a critical section; osPoolFree does not: other clients run  *)
(* between its checks on the pointer and its store of one byte.            *)
(*                                                                         *)
(* A block is its index, its contents are ItemWords words of four bytes,   *)
(* and a pointer is a word offset from the start of the pool, or NULL.     *)
(* Clients are tasks (or handlers) that use a block only while they hold   *)
(* it, which is what held records: from the allocation to the store of     *)
(* osPoolFree.                                                             *)
(***************************************************************************)
EXTENDS Integers

CONSTANTS PoolSz,     \* pool_sz, the number of blocks
          ItemWords,  \* item_sz / 4
          Clients,    \* the tasks that share the pool
          NULL

ASSUME PoolSzAssumption    == PoolSz \in Nat \ {0}
ASSUME ItemWordsAssumption == ItemWords \in Nat \ {0}
ASSUME NullAssumption      == NULL \notin Int

VARIABLES markers,       \* markers[b] = 1 while block b is allocated
          currentIndex,  \* where the next search begins
          mem,           \* the contents of each block, word by word
          held,          \* the blocks each client answers for
          freeing,       \* the block a client in osPoolFree is about to free
          result         \* the last call and the block it returned

poolVars == <<markers, currentIndex, mem, held, freeing, result>>

Block   == 0..PoolSz-1
Words   == 1..ItemWords
Content == [Words -> {"zero", "data"}]
Op == {"create", "alloc", "calloc", "free", "badfree", "fill",  \* this module's
       "put", "puterror", "get"}                                \* OsMail's

\* osPoolCreate: all markers cleared; the memory comes from the heap as it is.
PoolInit ==
    /\ markers = [b \in Block |-> 0]
    /\ currentIndex = 0
    /\ mem = [b \in Block |-> [w \in Words |-> "data"]]
    /\ held = [c \in Clients |-> {}]
    /\ freeing = [c \in Clients |-> NULL]
    /\ result = [op |-> "create", block |-> NULL]

\* Mutant: the search begins after the block allocated last.
ProbeFromNext(i) ==
    IF currentIndex + i + 1 >= PoolSz THEN 0 ELSE currentIndex + i + 1

\* The i-th index the search looks at: past the end it is 0 each time.
Probe(i) == IF currentIndex + i >= PoolSz THEN 0 ELSE currentIndex + i

\* The search stops at the first free block, or has met none.
FirstFree ==
    {Probe(i) : i \in {k \in Block : /\ markers[Probe(k)] = 0
                                     /\ \A j \in 0..k-1 : markers[Probe(j)] # 0}}
NoneFree == \A i \in Block : markers[Probe(i)] # 0

Marked(b) == [markers EXCEPT ![b] = 1]

\* The allocation proper, with what the caller then writes into the block.
Allocate(c, op, cleared) ==
    \/ \E b \in FirstFree :
         /\ markers' = Marked(b)
         /\ currentIndex' = b
         /\ held' = [held EXCEPT ![c] = @ \cup {b}]
         /\ mem' = [mem EXCEPT ![b] = [w \in Words |->
                        IF w \in cleared THEN "zero" ELSE @[w]]]
         /\ result' = [op |-> op, block |-> b]
         /\ UNCHANGED freeing
    \/ /\ NoneFree
       /\ result' = [op |-> op, block |-> NULL]
       /\ UNCHANGED <<markers, currentIndex, mem, held, freeing>>

PoolAlloc(c) == Allocate(c, "alloc", {})

\* osPoolCAlloc clears sizeof(pool_id->pool_sz) bytes: one word.
PoolCAlloc(c) == Allocate(c, "calloc", {1})

\* osPoolFree's checks on the pointer, and the block it denotes.
ValidPointer(p) ==
    /\ p # NULL
    /\ p >= 0
    /\ p % ItemWords = 0
    /\ p \div ItemWords < PoolSz
BlockOf(p) == p \div ItemWords

\* The pointer is accepted: osPoolFree knows the index and is about to store.
PoolFree(c, p) ==
    /\ ValidPointer(p)
    /\ freeing' = [freeing EXCEPT ![c] = BlockOf(p)]
    /\ UNCHANGED <<markers, currentIndex, mem, held, result>>

\* The store, outside the critical section of osPoolAlloc.
ClearMarker(c) ==
    /\ freeing[c] # NULL
    /\ markers' = [markers EXCEPT ![freeing[c]] = 0]
    /\ held' = [held EXCEPT ![c] = @ \ {freeing[c]}]
    /\ freeing' = [freeing EXCEPT ![c] = NULL]
    /\ result' = [op |-> "free", block |-> freeing[c]]
    /\ UNCHANGED <<currentIndex, mem>>

\* osErrorParameter: nothing is changed.
PoolFreeRefused(p) ==
    /\ ~ValidPointer(p)
    /\ result' = [op |-> "badfree", block |-> NULL]
    /\ UNCHANGED <<markers, currentIndex, mem, held, freeing>>

\* What a client may pass: the address of a block it holds, or anything that
\* is the address of no block at all.
Address(b) == b * ItemWords
Pointer == {NULL} \cup (-1..PoolSz * ItemWords + 1)
Argument(c) ==
    {p \in Pointer : \A b \in Block : p = Address(b) => b \in held[c]}

\* A client writes into a block it holds.
Fill(c) ==
    \E b \in held[c] :
        /\ mem' = [mem EXCEPT ![b] = [w \in Words |-> "data"]]
        /\ result' = [op |-> "fill", block |-> b]
        /\ UNCHANGED <<markers, currentIndex, held, freeing>>

PoolNext ==
    \E c \in Clients :
        \/ /\ freeing[c] = NULL
           /\ \/ PoolAlloc(c)
              \/ PoolCAlloc(c)
              \/ \E p \in Argument(c) : PoolFree(c, p) \/ PoolFreeRefused(p)
              \/ Fill(c)
        \/ ClearMarker(c)

PoolSpec == PoolInit /\ [][PoolNext]_poolVars

-----------------------------------------------------------------------------
\* The values of the variables; in particular the search of osPoolAlloc never
\* leaves currentIndex outside the pool.
PoolTypeOK ==
    /\ markers \in [Block -> {0, 1}]
    /\ currentIndex \in Block
    /\ mem \in [Block -> Content]
    /\ held \in [Clients -> SUBSET Block]
    /\ freeing \in [Clients -> Block \cup {NULL}]
    /\ result \in [op : Op, block : Block \cup {NULL}]

\* What a client is freeing it still answers for.
FreeingIsHeld == \A c \in Clients : freeing[c] # NULL => freeing[c] \in held[c]

\* A block is marked exactly while some client holds it, and two clients
\* never hold the same block: no block is handed out twice or lost, whatever
\* the other clients do between the checks and the store of osPoolFree.
MarkersAreOwners ==
    /\ \A b \in Block : markers[b] = 1 <=> \E c \in Clients : b \in held[c]
    /\ \A c, d \in Clients : c # d => held[c] \cap held[d] = {}

\* cmsis_os.c lines 975 and 1019: "address of the allocated memory block or
\* NULL in case of no memory available".
NullMeansExhausted ==
    result.op \in {"alloc", "calloc"} /\ result.block = NULL
        => \A b \in Block : markers[b] = 1

\* What the search does guarantee: it fails only when block 0 and every block
\* from currentIndex on are in use.
NullMeansSuffixInUse ==
    result.op \in {"alloc", "calloc"} /\ result.block = NULL
        => markers[0] = 1 /\ \A b \in Block : b >= currentIndex => markers[b] = 1

\* cmsis_os.c line 1017: osPoolCAlloc will "Allocate a memory block from a
\* memory pool and set memory block to zero"; line 1275 says the same of
\* osMailCAlloc.
CAllocIsZeroed ==
    result.op = "calloc" /\ result.block # NULL
        => \A w \in Words : mem[result.block][w] = "zero"
=============================================================================
