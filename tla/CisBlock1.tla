----------------------------- MODULE CisBlock1 -----------------------------
(***************************************************************************)
(* Block-wise requests to the LwM2M client: coap_block1_handler of         *)
(* src/src/demo/dm/ciscore/cis_block1.c, as packet_handler of cis_packet.c *)
(* calls it, and a server that sends its transfers block by block.         *)
(*                                                                         *)
(* A payload is a sequence of units <<transfer, position>>.  Packets are   *)
(* lost, delayed and repeated (by the network, or by the server that has   *)
(* seen no answer); a retransmission has the message id of the original.   *)
(* There is always memory.                                                 *)
(***************************************************************************)
EXTENDS Naturals, Sequences

CONSTANTS
    Totals,        \* the lengths of the transfers, in units
    Sizes,         \* the block sizes the server uses; it may change them
    SizeMax,       \* CIS_CONFIG_BLOCK1_SIZE_MAX
    MaxTransfers,  \* bound: transfers the server begins
    Late           \* whether packets of an earlier transfer still arrive

ASSUME Block1Assumption ==
    /\ Totals \subseteq Nat \ {0} /\ Sizes \subseteq Nat \ {0}
    /\ \A size \in Sizes : size < SizeMax
    /\ SizeMax \in Nat /\ MaxTransfers \in Nat \ {0} /\ Late \in BOOLEAN

VARIABLES
    block1Data,  \* of the server: << >> for NULL, else <<[buffer, lastmid]>>
    handed,      \* the payloads handed to prv_handleRequest
    transfer, total, offset,  \* the server's transfer, its length, what is confirmed
    mid,         \* message id of its last packet
    waiting,     \* the block size of that packet, 0 when it was answered
    flight,      \* the packets that may still arrive
    answers      \* what was answered to which message id

clientVars == <<block1Data, handed>>
serverVars == <<transfer, total, offset, mid, waiting>>
blockVars == <<clientVars, serverVars, flight, answers>>

BlockInit ==
    /\ block1Data = << >> /\ handed = {}
    /\ transfer = 1 /\ total \in Totals /\ offset = 0 /\ mid = 0 /\ waiting = 0
    /\ flight = {} /\ answers = {}
-----------------------------------------------------------------------------
\* Units o + 1 to o + n of transfer t, as far as it goes.
Units(t, tot, o, n) ==
    [i \in 1 .. (IF o + n > tot THEN tot - o ELSE n) |-> <<t, o + i>>]

Buffer == block1Data[1].buffer

\* "is it too large?"
TooLarge(p) == Len(Buffer) + Len(p.payload) >= SizeMax

\* The block is the one that comes next.
InOrder(p) == Len(Buffer) = p.size * p.num

\* Answer code to packet p.
Answer(p, code) ==
    /\ answers' = answers \cup {[mid |-> p.mid, code |-> code]}
    /\ UNCHANGED <<serverVars, flight>>

\* Mutant: a last block that is shorter than the block size hands nothing over.
StoredIfFull(p, data) ==
    /\ block1Data' = <<data>>
    /\ IF p.more
       THEN Answer(p, "231") /\ UNCHANGED handed
       ELSE /\ Answer(p, "OK")
            /\ handed' = (IF Len(p.payload) = p.size THEN handed \cup {data.buffer} ELSE handed)

\* The end of the handler, with the data that is then stored: the last block
\* hands over the payload.
Stored(p, data) ==
    /\ block1Data' = <<data>>
    /\ IF p.more
       THEN Answer(p, "231") /\ UNCHANGED handed
       ELSE Answer(p, "OK") /\ handed' = handed \cup {data.buffer}

\* Block 0 begins a new transfer.
FirstBlock(p) ==
    /\ p.num = 0
    /\ Stored(p, [buffer |-> p.payload, lastmid |-> p.mid])

\* A block of which nothing is kept: there was no block 0, it is not the next
\* one, or it is too much.
RefusedBlock(p) ==
    /\ p.num # 0
    /\ \/ block1Data = << >> /\ Answer(p, "408")
       \/ block1Data # << >> /\ block1Data[1].lastmid # p.mid /\ ~InOrder(p) /\ Answer(p, "408")
       \/ /\ block1Data # << >> /\ block1Data[1].lastmid # p.mid /\ InOrder(p)
          /\ TooLarge(p) /\ Answer(p, "413")
    /\ UNCHANGED clientVars

\* Mutant: a retransmission is added once more.
RepeatedAgain(p) ==
    /\ p.num # 0 /\ block1Data # << >> /\ block1Data[1].lastmid = p.mid
    /\ Stored(p, [buffer |-> Buffer \o p.payload, lastmid |-> p.mid])

\* "If this is a retransmission, we already did that."
RepeatedBlock(p) ==
    /\ p.num # 0 /\ block1Data # << >> /\ block1Data[1].lastmid = p.mid
    /\ Stored(p, block1Data[1])

\* The next block is added to the buffer.
NextBlock(p) ==
    /\ p.num # 0 /\ block1Data # << >> /\ block1Data[1].lastmid # p.mid
    /\ InOrder(p) /\ ~TooLarge(p)
    /\ Stored(p, [buffer |-> Buffer \o p.payload, lastmid |-> p.mid])

Receive ==
    \E p \in flight :
        FirstBlock(p) \/ RefusedBlock(p) \/ RepeatedBlock(p) \/ NextBlock(p)
-----------------------------------------------------------------------------
\* The server sends the next block, of any size that fits what was confirmed.
Send ==
    /\ waiting = 0
    /\ \E size \in Sizes :
          /\ offset % size = 0
          /\ flight' = flight \cup {[mid |-> mid + 1, num |-> offset \div size, size |-> size,
                                     more |-> offset + size < total,
                                     payload |-> Units(transfer, total, offset, size)]}
          /\ waiting' = size
    /\ mid' = mid + 1
    /\ UNCHANGED <<clientVars, transfer, total, offset, answers>>

\* The block was confirmed: the next one, or the end of the transfer.
Confirmed ==
    /\ waiting # 0 /\ [mid |-> mid, code |-> "231"] \in answers
    /\ offset' = offset + waiting /\ waiting' = 0
    /\ UNCHANGED <<clientVars, transfer, total, mid, flight, answers>>

\* After the end, an error, or no answer at all, the server begins another transfer.
Begin ==
    /\ transfer < MaxTransfers
    /\ transfer' = transfer + 1 /\ total' \in Totals
    /\ offset' = 0 /\ waiting' = 0
    /\ flight' = (IF Late THEN flight ELSE {})
    /\ UNCHANGED <<clientVars, mid, answers>>

BlockNext == Receive \/ Send \/ Confirmed \/ Begin

BlockSpec == BlockInit /\ [][BlockNext]_blockVars
-----------------------------------------------------------------------------
\* What is handed to prv_handleRequest is a whole transfer, every unit once and in
\* order, whatever was repeated, delayed or refused, and whatever block sizes it came in.
HandedIsWhole ==
    \A b \in handed : \E t \in 1 .. MaxTransfers, n \in Totals : b = Units(t, n, 0, n)

\* The server is told "OK" only for a transfer that was handed over whole.
OkMeansHanded ==
    waiting # 0 /\ [mid |-> mid, code |-> "OK"] \in answers =>
        Units(transfer, total, 0, total) \in handed

\* The buffer stays below CIS_CONFIG_BLOCK1_SIZE_MAX.
BufferIsBounded == block1Data # << >> => Len(Buffer) < SizeMax
=============================================================================
