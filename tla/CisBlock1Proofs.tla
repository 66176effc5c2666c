-------------------------- MODULE CisBlock1Proofs --------------------------
(***************************************************************************)
(* Proofs about block-wise requests, for any number and length of          *)
(* transfers and any block sizes: what is handed over is a whole transfer, *)
(* provided that no packet of an earlier transfer arrives any more.  That  *)
(* the buffer is bounded does not depend on it.                            *)
(***************************************************************************)
EXTENDS CisBlock1, SequenceTheorems, TLAPS

\* What is assumed of the sizes.
LEMMA Constants ==
    /\ Totals \subseteq Nat \ {0} /\ Sizes \subseteq Nat \ {0}
    /\ \A size \in Sizes : size < SizeMax
    /\ SizeMax \in Nat /\ MaxTransfers \in Nat \ {0}
  BY Block1Assumption, Zenon

USE Constants

\* The first k units of transfer t.
Prefix(t, k) == [i \in 1 .. k |-> <<t, i>>]

\* Where block p ends.
EndOf(p) == IF p.size * p.num + p.size > total THEN total ELSE p.size * p.num + p.size

\* The buffer holds the beginning of the server's transfer.
FromCurrent ==
    /\ block1Data # << >> /\ Len(Buffer) <= total
    /\ Buffer = Prefix(transfer, Len(Buffer))

Data == [buffer : Seq(Nat \X Nat), lastmid : Nat]

TypesInv ==
    /\ block1Data = << >> \/ block1Data[1] \in Data
    /\ transfer \in 1 .. MaxTransfers /\ total \in Totals
    /\ offset \in Nat /\ mid \in Nat /\ waiting \in Nat

\* A packet that may arrive is a block of the server's transfer, and only block 0 may
\* find the buffer of an earlier one.
PacketInv ==
    /\ \A p \in flight :
          /\ p.mid \in 1 .. mid /\ p.size \in Sizes /\ p.num \in Nat
          /\ p.size * p.num < total
          /\ p.more <=> p.size * p.num + p.size < total
          /\ p.payload = Units(transfer, total, p.size * p.num, p.size)
          /\ p.num # 0 => FromCurrent
    /\ \A p, q \in flight : p.mid = q.mid => p = q

\* A block that is taken for a repetition is the last one that was stored.
BufferInv ==
    block1Data # << >> =>
        /\ block1Data[1].lastmid <= mid
        /\ \A p \in flight : p.mid = block1Data[1].lastmid => FromCurrent /\ Len(Buffer) = EndOf(p)

\* What the server has sent and what it makes of the answer.
ServerInv ==
    /\ offset < total
    /\ offset # 0 => FromCurrent
    /\ \A a \in answers : a.mid \in 1 .. mid
    /\ waiting # 0 =>
          /\ \E p \in flight : p.mid = mid /\ p.size = waiting /\ p.size * p.num = offset
          /\ [mid |-> mid, code |-> "231"] \in answers => offset + waiting < total /\ FromCurrent
          /\ [mid |-> mid, code |-> "OK"] \in answers => Prefix(transfer, total) \in handed

\* What was handed over.
HandedInv == \A b \in handed : \E t \in 1 .. MaxTransfers, n \in Totals : b = Prefix(t, n)

BlockInv == TypesInv /\ PacketInv /\ BufferInv /\ ServerInv /\ HandedInv
-----------------------------------------------------------------------------
\* The beginning of a transfer, as the server cuts it.
LEMMA UnitsIsPrefix ==
    ASSUME NEW t, NEW tot \in Nat, NEW n \in Nat
    PROVE  Units(t, tot, 0, n) = Prefix(t, IF n > tot THEN tot ELSE n)
<1>1. 0 + n > tot <=> n > tot
  OBVIOUS
<1>2. (IF 0 + n > tot THEN tot - 0 ELSE n) = (IF n > tot THEN tot ELSE n)
  OBVIOUS
<1>3. \A i \in Nat : 0 + i = i
  OBVIOUS
<1> QED BY <1>1, <1>2, <1>3 DEF Units, Prefix

\* The beginning of a transfer is a sequence of units.
LEMMA PrefixIsSeq ==
    ASSUME NEW t \in Nat, NEW k \in Nat
    PROVE  Prefix(t, k) \in Seq(Nat \X Nat) /\ Len(Prefix(t, k)) = k
  BY DEF Prefix

\* A block that follows what is there makes it longer.
LEMMA PrefixGrows ==
    \A t, tot, o, n \in Nat : \A e :
        o <= tot /\ e = (IF o + n > tot THEN tot ELSE o + n) =>
            Prefix(t, o) \o Units(t, tot, o, n) = Prefix(t, e)
<1> TAKE t, tot, o, n \in Nat
<1> TAKE e
<1> HAVE o <= tot /\ e = (IF o + n > tot THEN tot ELSE o + n)
<1> DEFINE k == IF o + n > tot THEN tot - o ELSE n
           a == Prefix(t, o)
           b == [i \in 1 .. k |-> <<t, o + i>>]
           c == Prefix(t, o + k)
<1>1. k \in Nat /\ o + k = e
  OBVIOUS
<1>2. Units(t, tot, o, n) = b
  BY DEF Units
<1> HIDE DEF k
<1>3. b \in Seq(Nat \X Nat) /\ Len(b) = k /\ \A i \in 1 .. k : b[i] = <<t, o + i>>
  BY <1>1
<1>4. a \in Seq(Nat \X Nat) /\ Len(a) = o /\ \A i \in 1 .. o : a[i] = <<t, i>>
  BY DEF Prefix
<1>5. c \in Seq(Nat \X Nat) /\ Len(c) = o + k /\ \A i \in 1 .. o + k : c[i] = <<t, i>>
  BY <1>1 DEF Prefix
<1> HIDE DEF a, b, c
<1>6. /\ a \o b \in Seq(Nat \X Nat) /\ Len(a \o b) = Len(a) + Len(b)
      /\ \A i \in 1 .. Len(a) + Len(b) : (a \o b)[i] = IF i <= Len(a) THEN a[i] ELSE b[i - Len(a)]
  BY <1>3, <1>4, ConcatProperties, Zenon
<1>7. ASSUME NEW i \in 1 .. o + k PROVE (a \o b)[i] = c[i]
  <2>0. i \in Nat /\ i \in 1 .. Len(a) + Len(b)
    BY <1>1, <1>3, <1>4
  <2>1. CASE i <= o
    <3>1. i \in 1 .. o /\ i <= Len(a)
      BY <1>1, <1>4, <2>0, <2>1
    <3>2. (a \o b)[i] = a[i]
      BY <1>6, <2>0, <3>1, Zenon
    <3> QED BY <1>4, <1>5, <3>1, <3>2
  <2>2. CASE i > o
    <3>1. i - o \in 1 .. k /\ o + (i - o) = i
      BY <1>1, <2>2
    <3>2. (a \o b)[i] = b[i - o]
      BY <1>1, <1>3, <1>4, <1>6, <2>2
    <3> QED BY <1>3, <1>5, <3>1, <3>2
  <2> QED BY <2>0, <2>1, <2>2
<1>8. a \o b = c
  BY <1>1, <1>3, <1>4, <1>5, <1>6, <1>7, SeqEqual
<1> QED BY <1>1, <1>2, <1>8 DEF a, b, c

\* A block's end lies in the transfer.
LEMMA BlockEnds ==
    ASSUME TypesInv, PacketInv, NEW p \in flight
    PROVE  /\ total \in Nat \ {0} /\ p.size \in Nat \ {0} /\ p.size * p.num \in Nat
           /\ EndOf(p) \in Nat /\ EndOf(p) <= total
           /\ transfer \in Nat
<1>0. p.size \in Sizes /\ p.num \in Nat
  BY DEF PacketInv
<1>a. total \in Totals /\ transfer \in 1 .. MaxTransfers
  BY DEF TypesInv
<1>1. total \in Nat \ {0} /\ p.size \in Nat \ {0} /\ p.num \in Nat /\ transfer \in Nat
  <2>1. total \in Nat \ {0} /\ p.size \in Nat \ {0}
    BY <1>0, <1>a, Zenon
  <2>2. transfer \in Nat
    BY <1>a
  <2> QED BY <1>0, <2>1, <2>2
<1>2. p.size * p.num \in Nat
  BY <1>1
<1> QED BY <1>1, <1>2 DEF EndOf

\* A step of the handler that stores the transfer up to the end of block p keeps
\* everything: the answer is true, and what the last block hands over is whole.
LEMMA StoredStep ==
    ASSUME BlockInv, NEW p \in flight, NEW data \in Data, Stored(p, data),
           data.buffer = Prefix(transfer, EndOf(p)), data.lastmid = p.mid
    PROVE  BlockInv'
<1>0. TypesInv /\ PacketInv /\ BufferInv /\ ServerInv /\ HandedInv
  BY DEF BlockInv
<1>1. /\ total \in Nat \ {0} /\ p.size * p.num \in Nat /\ p.size \in Nat
      /\ EndOf(p) \in Nat /\ EndOf(p) <= total /\ transfer \in Nat
      /\ p.mid \in 1 .. mid /\ mid \in Nat
  BY <1>0, BlockEnds DEF TypesInv, PacketInv
<1>2. /\ block1Data' = <<data>> /\ UNCHANGED <<transfer, total, offset, mid, waiting, flight>>
      /\ \/ p.more /\ answers' = answers \cup {[mid |-> p.mid, code |-> "231"]} /\ handed' = handed
         \/ /\ ~p.more /\ answers' = answers \cup {[mid |-> p.mid, code |-> "OK"]}
            /\ handed' = handed \cup {data.buffer}
  BY DEF Stored, Answer, serverVars
<1>3. block1Data' # << >> /\ block1Data'[1] = data
  BY <1>2
<1>4. FromCurrent' /\ Len(Buffer)' = EndOf(p)
  <2>1. Len(data.buffer) = EndOf(p)
    BY <1>1, PrefixIsSeq
  <2>2. Buffer' = data.buffer
    BY <1>3 DEF Buffer
  <2> QED BY <1>1, <1>2, <1>3, <2>1, <2>2 DEF FromCurrent
<1>5. TypesInv'
  BY <1>0, <1>2, <1>3 DEF TypesInv
<1>6. PacketInv'
  BY <1>0, <1>2, <1>4 DEF PacketInv
<1>7. BufferInv'
  <2>1. block1Data'[1].lastmid = p.mid /\ p.mid <= mid'
    BY <1>1, <1>2, <1>3
  <2>2. \A q \in flight' : q.mid = p.mid => q = p
    BY <1>0, <1>2 DEF PacketInv
  <2>3. EndOf(p)' = EndOf(p)
    BY <1>2 DEF EndOf
  <2> QED BY <1>4, <2>1, <2>2, <2>3 DEF BufferInv
<1>8. ~p.more => EndOf(p) = total
  <2>1. ~p.more => ~(p.size * p.num + p.size < total)
    BY <1>0 DEF PacketInv
  <2> QED BY <1>1, <2>1 DEF EndOf
<1>9. ServerInv'
  <2>1. (offset < total)' /\ (offset # 0 => FromCurrent)'
    BY <1>0, <1>2, <1>4 DEF ServerInv
  <2>2. \A a \in answers' : a.mid \in 1 .. mid'
    BY <1>0, <1>1, <1>2 DEF ServerInv
  <2>3. ASSUME waiting # 0 PROVE \E q \in flight : q.mid = mid /\ q.size = waiting /\ q.size * q.num = offset
    BY <1>0, <2>3 DEF ServerInv
  <2>4. ASSUME waiting # 0, [mid |-> mid, code |-> "231"] \in answers'
        PROVE  offset + waiting < total
    <3>1. CASE [mid |-> mid, code |-> "231"] \in answers
      BY <1>0, <2>4, <3>1 DEF ServerInv
    <3>2. CASE [mid |-> mid, code |-> "231"] \notin answers
      <4>1. p.more /\ p.mid = mid
        BY <1>2, <2>4, <3>2
      <4>2. p.size = waiting /\ p.size * p.num = offset
        BY <1>0, <2>3, <2>4, <4>1 DEF PacketInv
      <4> QED BY <1>0, <4>1, <4>2 DEF PacketInv
    <3> QED BY <3>1, <3>2
  <2>5. ASSUME waiting # 0, [mid |-> mid, code |-> "OK"] \in answers'
        PROVE  Prefix(transfer, total) \in handed'
    <3>1. CASE [mid |-> mid, code |-> "OK"] \in answers
      BY <1>0, <1>2, <2>5, <3>1 DEF ServerInv
    <3>2. CASE [mid |-> mid, code |-> "OK"] \notin answers
      <4>1. ~p.more /\ handed' = handed \cup {data.buffer}
        BY <1>2, <2>5, <3>2
      <4> QED BY <1>8, <4>1
    <3> QED BY <3>1, <3>2
  <2> QED BY <1>2, <1>4, <2>1, <2>2, <2>3, <2>4, <2>5 DEF ServerInv
<1>10. HandedInv'
  <2>1. CASE handed' = handed
    BY <1>0, <2>1 DEF HandedInv
  <2>2. CASE ~p.more /\ handed' = handed \cup {data.buffer}
    <3>1. data.buffer = Prefix(transfer, total) /\ transfer \in 1 .. MaxTransfers /\ total \in Totals
      BY <1>0, <1>8, <2>2 DEF TypesInv
    <3> QED BY <1>0, <2>2, <3>1 DEF HandedInv
  <2> QED BY <1>2, <2>1, <2>2
<1> QED BY <1>5, <1>6, <1>7, <1>9, <1>10 DEF BlockInv

\* Everything coap_block1_handler does with a packet that arrives.
LEMMA ReceiveStep ==
    ASSUME BlockInv, Receive
    PROVE  BlockInv'
<1>0. TypesInv /\ PacketInv /\ BufferInv /\ ServerInv /\ HandedInv
  BY DEF BlockInv
<1>1. PICK p \in flight : FirstBlock(p) \/ RefusedBlock(p) \/ RepeatedBlock(p) \/ NextBlock(p)
  BY DEF Receive
<1>2. /\ total \in Nat \ {0} /\ p.size \in Nat \ {0} /\ p.size * p.num \in Nat
      /\ EndOf(p) \in Nat /\ EndOf(p) <= total /\ transfer \in Nat
  BY <1>0, BlockEnds
<1>3. /\ p.mid \in Nat /\ p.mid \in 1 .. mid /\ p.num \in Nat /\ p.size * p.num < total
      /\ p.payload = Units(transfer, total, p.size * p.num, p.size)
  BY <1>0 DEF PacketInv, TypesInv
<1>4. CASE FirstBlock(p)
  <2>1. p.num = 0 /\ p.size * p.num = 0
    BY <1>2, <1>4 DEF FirstBlock
  <2>2. p.payload = Prefix(transfer, EndOf(p))
    <3>1. p.payload = Units(transfer, total, 0, p.size)
      BY <1>3, <2>1
    <3>0. p.size * p.num + p.size = p.size
      BY <1>2, <2>1
    <3>2. EndOf(p) = IF p.size > total THEN total ELSE p.size
      BY <3>0, Zenon DEF EndOf
    <3> QED BY <1>2, <3>1, <3>2, UnitsIsPrefix
  <2>3. PICK data : data = [buffer |-> p.payload, lastmid |-> p.mid]
    OBVIOUS
  <2>4. data \in Data
    BY <1>2, <1>3, <2>2, <2>3, PrefixIsSeq DEF Data
  <2> QED BY <1>4, <2>2, <2>3, <2>4, StoredStep DEF FirstBlock
<1>5. CASE RefusedBlock(p)
  <2>1. PICK code \in {"408", "413"} : answers' = answers \cup {[mid |-> p.mid, code |-> code]}
    BY <1>5 DEF RefusedBlock, Answer
  <2>2. UNCHANGED <<block1Data, handed, transfer, total, offset, mid, waiting, flight>>
    BY <1>5 DEF RefusedBlock, Answer, clientVars, serverVars
  <2>3. FromCurrent' = FromCurrent /\ Buffer' = Buffer /\ \A q : EndOf(q)' = EndOf(q)
    BY <2>2 DEF FromCurrent, Buffer, EndOf
  <2>4. TypesInv' /\ HandedInv'
    BY <1>0, <2>2 DEF TypesInv, HandedInv
  <2>5. PacketInv'
    BY <1>0, <2>2, <2>3 DEF PacketInv
  <2>6. BufferInv'
    BY <1>0, <2>2, <2>3 DEF BufferInv
  <2>7. \A m : /\ [mid |-> m, code |-> "231"] \in answers' => [mid |-> m, code |-> "231"] \in answers
               /\ [mid |-> m, code |-> "OK"] \in answers' => [mid |-> m, code |-> "OK"] \in answers
    BY <2>1
  <2>8. \A a \in answers' : a.mid \in 1 .. mid
    BY <1>0, <1>3, <2>1 DEF ServerInv
  <2>9. ServerInv'
    BY <1>0, <2>2, <2>3, <2>7, <2>8 DEF ServerInv
  <2> QED BY <2>4, <2>5, <2>6, <2>9 DEF BlockInv
<1>6. CASE RepeatedBlock(p)
  <2>1. block1Data # << >> /\ block1Data[1].lastmid = p.mid /\ Stored(p, block1Data[1])
    BY <1>6 DEF RepeatedBlock
  <2>2. block1Data[1] \in Data /\ block1Data[1].buffer = Prefix(transfer, EndOf(p))
    BY <1>0, <2>1 DEF TypesInv, BufferInv, FromCurrent, Buffer
  <2> QED BY <2>1, <2>2, StoredStep
<1>7. CASE NextBlock(p)
  <2>1. /\ p.num # 0 /\ Len(Buffer) = p.size * p.num
        /\ Stored(p, [buffer |-> Buffer \o p.payload, lastmid |-> p.mid])
    BY <1>7 DEF NextBlock, InOrder
  <2>2. Buffer = Prefix(transfer, p.size * p.num)
    BY <1>0, <2>1 DEF PacketInv, FromCurrent
  <2>3. Buffer \o p.payload = Prefix(transfer, EndOf(p))
    <3>1. PICK o \in Nat : o = p.size * p.num
      BY <1>2
    <3>2. o <= total /\ total \in Nat /\ p.size \in Nat
      BY <1>2, <1>3, <3>1
    <3>3. EndOf(p) = IF o + p.size > total THEN total ELSE o + p.size
      BY <3>1, Zenon DEF EndOf
    <3>4. Prefix(transfer, o) \o Units(transfer, total, o, p.size) = Prefix(transfer, EndOf(p))
      BY <1>2, <3>2, <3>3, PrefixGrows, Zenon
    <3> QED BY <1>3, <2>2, <3>1, <3>3, <3>4, Zenon
  <2>4. PICK data : data = [buffer |-> Buffer \o p.payload, lastmid |-> p.mid]
    OBVIOUS
  <2>5. data \in Data
    BY <1>2, <1>3, <2>3, <2>4, PrefixIsSeq DEF Data
  <2> QED BY <2>1, <2>3, <2>4, <2>5, StoredStep
<1> QED BY <1>1, <1>4, <1>5, <1>6, <1>7

\* A new packet is the next block of the transfer.
LEMMA SendStep ==
    ASSUME BlockInv, Send
    PROVE  BlockInv'
<1>0. /\ TypesInv /\ PacketInv /\ BufferInv /\ ServerInv /\ HandedInv
      /\ mid \in Nat /\ offset \in Nat /\ total \in Nat \ {0} /\ offset < total
  BY DEF BlockInv, TypesInv, ServerInv
<1>1. PICK size \in Sizes :
        /\ offset % size = 0
        /\ flight' = flight \cup {[mid |-> mid + 1, num |-> offset \div size, size |-> size,
                                   more |-> offset + size < total,
                                   payload |-> Units(transfer, total, offset, size)]}
        /\ waiting' = size
  BY DEF Send
<1>2. /\ waiting = 0 /\ mid' = mid + 1
      /\ UNCHANGED <<block1Data, handed, transfer, total, offset, answers>>
  BY DEF Send, clientVars
<1>3. FromCurrent' = FromCurrent /\ Buffer' = Buffer /\ \A q : EndOf(q)' = EndOf(q)
  BY <1>2 DEF FromCurrent, Buffer, EndOf
<1>4. size \in Nat \ {0} /\ offset \div size \in Nat /\ size * (offset \div size) = offset
  <2>1. size \in Nat \ {0}
    OBVIOUS
  <2>2. offset = size * (offset \div size) + (offset % size)
    BY <1>0, <2>1
  <2>3. offset \div size \in Nat
    BY <1>0, <2>1
  <2>4. size * (offset \div size) \in Nat
    BY <2>1, <2>3
  <2> QED BY <1>0, <1>1, <2>1, <2>2, <2>3, <2>4
<1>5. PICK p : p = [mid |-> mid + 1, num |-> offset \div size, size |-> size,
                    more |-> offset + size < total,
                    payload |-> Units(transfer, total, offset, size)]
  OBVIOUS
<1>6. /\ p.mid = mid + 1 /\ p.num = offset \div size /\ p.size = size
      /\ p.payload = Units(transfer, total, offset, size)
  BY <1>5
<1>7. p.more <=> offset + size < total
  BY <1>5, Zenon
<1>8. /\ p.num \in Nat /\ p.size * p.num = offset
      /\ p.num # 0 => offset # 0
  BY <1>4, <1>6
<1>9. /\ flight' = flight \cup {p} /\ \A q \in flight : q.mid \in 1 .. mid /\ q.mid # p.mid
  BY <1>0, <1>1, <1>5, <1>6 DEF PacketInv
<1>10. TypesInv' /\ HandedInv'
  BY <1>0, <1>1, <1>2, <1>4 DEF TypesInv, HandedInv
<1>11. PacketInv'
  <2>1. ASSUME NEW q \in flight
        PROVE  /\ q.mid \in 1 .. mid' /\ q.size \in Sizes /\ q.num \in Nat
               /\ q.size * q.num < total'
               /\ q.more <=> q.size * q.num + q.size < total'
               /\ q.payload = Units(transfer', total', q.size * q.num, q.size)
               /\ q.num # 0 => FromCurrent'
    <3>1. q.mid \in 1 .. mid'
      BY <1>0, <1>2, <1>9
    <3> QED BY <1>0, <1>2, <1>3, <3>1 DEF PacketInv
  <2>2. /\ p.mid \in 1 .. mid' /\ p.size \in Sizes /\ p.num \in Nat
        /\ p.size * p.num < total'
        /\ p.payload = Units(transfer', total', p.size * p.num, p.size)
    BY <1>0, <1>2, <1>6, <1>8
  <2>3. /\ p.more <=> p.size * p.num + p.size < total'
        /\ p.num # 0 => FromCurrent'
    BY <1>0, <1>2, <1>3, <1>6, <1>7, <1>8 DEF ServerInv
  <2>4. \A q, r \in flight' : q.mid = r.mid => q = r
    BY <1>0, <1>9 DEF PacketInv
  <2> QED BY <1>9, <2>1, <2>2, <2>3, <2>4 DEF PacketInv
<1>12. BufferInv'
  <2>1. ASSUME block1Data # << >> PROVE block1Data[1].lastmid <= mid' /\ block1Data[1].lastmid # p.mid
    <3>1. block1Data[1].lastmid \in Nat /\ block1Data[1].lastmid <= mid
      BY <1>0, <2>1 DEF TypesInv, BufferInv, Data
    <3> QED BY <1>0, <1>2, <1>6, <3>1
  <2> QED BY <1>0, <1>2, <1>3, <1>9, <2>1 DEF BufferInv
<1>13. ServerInv'
  <2>1. \A a \in answers : a.mid \in 1 .. mid' /\ a.mid # mid'
    BY <1>0, <1>2 DEF ServerInv
  <2>2. \A c : [mid |-> mid', code |-> c] \notin answers'
    BY <1>2, <2>1
  <2>3. p \in flight' /\ p.mid = mid' /\ p.size = waiting' /\ p.size * p.num = offset'
    BY <1>1, <1>2, <1>6, <1>8, <1>9
  <2> QED BY <1>0, <1>2, <1>3, <2>1, <2>2, <2>3 DEF ServerInv
<1> QED BY <1>10, <1>11, <1>12, <1>13 DEF BlockInv

\* The server goes on only with what is in the buffer.
LEMMA ConfirmedStep ==
    ASSUME BlockInv, Confirmed
    PROVE  BlockInv'
<1>0. TypesInv /\ PacketInv /\ BufferInv /\ ServerInv /\ HandedInv
  BY DEF BlockInv
<1>1. /\ waiting # 0 /\ [mid |-> mid, code |-> "231"] \in answers
      /\ offset' = offset + waiting /\ waiting' = 0
      /\ UNCHANGED <<block1Data, handed, transfer, total, mid, flight, answers>>
  BY DEF Confirmed, clientVars
<1>2. FromCurrent' = FromCurrent /\ Buffer' = Buffer /\ \A q : EndOf(q)' = EndOf(q)
  BY <1>1 DEF FromCurrent, Buffer, EndOf
<1>3. offset + waiting < total /\ FromCurrent
  BY <1>0, <1>1 DEF ServerInv
<1>4. TypesInv' /\ HandedInv'
  BY <1>0, <1>1 DEF TypesInv, HandedInv
<1>5. PacketInv'
  BY <1>0, <1>1, <1>2 DEF PacketInv
<1>6. BufferInv'
  BY <1>0, <1>1, <1>2 DEF BufferInv
<1>7. ServerInv'
  BY <1>0, <1>1, <1>2, <1>3 DEF ServerInv
<1> QED BY <1>4, <1>5, <1>6, <1>7 DEF BlockInv

\* With the packets of the transfer before gone, a new transfer begins with nothing
\* but a buffer that only block 0 can touch.
LEMMA BeginStep ==
    ASSUME BlockInv, Begin, ~Late
    PROVE  BlockInv'
<1>0. TypesInv /\ PacketInv /\ BufferInv /\ ServerInv /\ HandedInv
  BY DEF BlockInv
<1>1. /\ transfer < MaxTransfers /\ transfer' = transfer + 1 /\ total' \in Totals
      /\ offset' = 0 /\ waiting' = 0 /\ flight' = {}
      /\ UNCHANGED <<block1Data, handed, mid, answers>>
  BY DEF Begin, clientVars
<1>2. TypesInv' /\ HandedInv'
  BY <1>0, <1>1 DEF TypesInv, HandedInv
<1>3. PacketInv'
  BY <1>1 DEF PacketInv
<1>4. BufferInv'
  BY <1>0, <1>1 DEF BufferInv
<1>5. ServerInv'
  BY <1>0, <1>1 DEF ServerInv
<1> QED BY <1>2, <1>3, <1>4, <1>5 DEF BlockInv

\* The invariant of the transfers.
THEOREM BlockInvariant == ~Late => (BlockSpec => []BlockInv)
<1> SUFFICES ASSUME ~Late PROVE BlockSpec => []BlockInv
  OBVIOUS
<1>1. BlockInit => BlockInv
  <2> SUFFICES ASSUME BlockInit PROVE BlockInv
    OBVIOUS
  <2>1. TypesInv /\ HandedInv
    BY DEF BlockInit, TypesInv, HandedInv
  <2>2. PacketInv /\ BufferInv
    BY DEF BlockInit, PacketInv, BufferInv
  <2>3. ServerInv
    BY DEF BlockInit, ServerInv
  <2> QED BY <2>1, <2>2, <2>3 DEF BlockInv
<1>2. BlockInv /\ [BlockNext]_blockVars => BlockInv'
  <2> SUFFICES ASSUME BlockInv, [BlockNext]_blockVars PROVE BlockInv'
    OBVIOUS
  <2>1. CASE UNCHANGED blockVars
    <3>1. UNCHANGED <<block1Data, handed, transfer, total, offset, mid, waiting, flight, answers>>
      BY <2>1 DEF blockVars, clientVars, serverVars
    <3>2. FromCurrent' = FromCurrent /\ Buffer' = Buffer /\ \A q : EndOf(q)' = EndOf(q)
      BY <3>1 DEF FromCurrent, Buffer, EndOf
    <3>3. TypesInv' /\ HandedInv' /\ PacketInv' /\ BufferInv' /\ ServerInv'
      BY <3>1, <3>2 DEF BlockInv, TypesInv, HandedInv, PacketInv, BufferInv, ServerInv
    <3> QED BY <3>3 DEF BlockInv
  <2> QED BY <2>1, ReceiveStep, SendStep, ConfirmedStep, BeginStep DEF BlockNext
<1> QED BY <1>1, <1>2, PTL DEF BlockSpec

\* Whatever is lost, repeated or refused and whatever block sizes are used, what
\* coap_block1_handler hands over is a whole transfer.
THEOREM HandedOverWhole == ~Late => (BlockSpec => []HandedIsWhole)
<1>1. BlockInv => HandedIsWhole
  <2>1. ASSUME NEW t, NEW n \in Totals PROVE Units(t, n, 0, n) = Prefix(t, n)
    BY UnitsIsPrefix
  <2> QED BY <2>1 DEF BlockInv, HandedInv, HandedIsWhole
<1>2. CASE Late
  BY <1>2
<1>3. CASE ~Late
  BY <1>1, <1>3, BlockInvariant, PTL
<1> QED BY <1>2, <1>3

\* The server is told "OK" for its last block only when the transfer was handed over.
THEOREM OkIsHanded == ~Late => (BlockSpec => []OkMeansHanded)
<1>1. BlockInv => OkMeansHanded
  <2>1. ASSUME BlockInv PROVE Units(transfer, total, 0, total) = Prefix(transfer, total)
    BY <2>1, UnitsIsPrefix DEF BlockInv, TypesInv
  <2> QED BY <2>1 DEF BlockInv, ServerInv, OkMeansHanded
<1>2. CASE Late
  BY <1>2
<1>3. CASE ~Late
  BY <1>1, <1>3, BlockInvariant, PTL
<1> QED BY <1>2, <1>3
-----------------------------------------------------------------------------
\* What the size limit needs: the payload of a packet is no longer than its block.
BoundInv ==
    /\ \A p \in flight : p.payload \in Seq(Nat \X Nat) /\ Len(p.payload) < SizeMax
    /\ block1Data # << >> => Buffer \in Seq(Nat \X Nat) /\ Len(Buffer) < SizeMax
    /\ transfer \in Nat /\ offset \in Nat /\ waiting \in Nat /\ total \in Nat

\* However a block is cut, it is no longer than the block size.
LEMMA UnitsAreFew ==
    ASSUME NEW t \in Nat, NEW tot \in Nat, NEW o \in Nat, NEW n \in Nat
    PROVE  Units(t, tot, o, n) \in Seq(Nat \X Nat) /\ Len(Units(t, tot, o, n)) <= n
<1> DEFINE d == IF o + n > tot THEN tot - o ELSE n
           k == IF d < 0 THEN 0 ELSE d
           u == [i \in 1 .. k |-> <<t, o + i>>]
<1>1. d \in Int /\ k \in Nat /\ k <= n
  OBVIOUS
<1>2. 1 .. d = 1 .. k
  BY <1>1
<1>3. Units(t, tot, o, n) = u
  BY <1>2 DEF Units
<1> HIDE DEF d, k
<1>4. u \in Seq(Nat \X Nat) /\ Len(u) = k
  BY <1>1
<1> QED BY <1>1, <1>3, <1>4

\* The handler stores what is below the limit, or leaves the buffer alone.
LEMMA BoundedReceive ==
    ASSUME BoundInv, Receive
    PROVE  BoundInv'
<1>1. PICK p \in flight : FirstBlock(p) \/ RefusedBlock(p) \/ RepeatedBlock(p) \/ NextBlock(p)
  BY DEF Receive
<1>2. p.payload \in Seq(Nat \X Nat) /\ Len(p.payload) < SizeMax
  BY DEF BoundInv
<1>3. UNCHANGED <<transfer, total, offset, waiting, flight>>
  BY <1>1 DEF FirstBlock, RefusedBlock, RepeatedBlock, NextBlock, Stored, Answer, serverVars
<1>4. ASSUME NEW data, Stored(p, data), data.buffer \in Seq(Nat \X Nat), Len(data.buffer) < SizeMax
      PROVE  BoundInv'
  <2>1. block1Data' = <<data>>
    BY <1>4 DEF Stored
  <2>2. Buffer' = data.buffer
    BY <2>1 DEF Buffer
  <2> QED BY <1>3, <1>4, <2>2 DEF BoundInv
<1>5. CASE FirstBlock(p)
  BY <1>2, <1>4, <1>5 DEF FirstBlock
<1>6. CASE RefusedBlock(p)
  <2>1. block1Data' = block1Data /\ Buffer' = Buffer
    BY <1>6 DEF RefusedBlock, clientVars, Buffer
  <2> QED BY <1>3, <2>1 DEF BoundInv
<1>7. CASE RepeatedBlock(p)
  BY <1>4, <1>7 DEF RepeatedBlock, BoundInv, Buffer
<1>8. CASE NextBlock(p)
  <2>1. Buffer \in Seq(Nat \X Nat) /\ Stored(p, [buffer |-> Buffer \o p.payload, lastmid |-> p.mid])
    BY <1>8 DEF NextBlock, BoundInv
  <2>2. ~(Len(Buffer) + Len(p.payload) >= SizeMax)
    BY <1>8 DEF NextBlock, TooLarge
  <2>3. Buffer \o p.payload \in Seq(Nat \X Nat) /\ Len(Buffer \o p.payload) = Len(Buffer) + Len(p.payload)
    BY <1>2, <2>1, ConcatProperties, Zenon
  <2>4. Len(Buffer) \in Nat /\ Len(p.payload) \in Nat
    BY <1>2, <2>1, LenProperties
  <2>5. Len(Buffer \o p.payload) < SizeMax
    BY <2>2, <2>3, <2>4
  <2> QED BY <1>4, <2>1, <2>3, <2>5
<1> QED BY <1>1, <1>5, <1>6, <1>7, <1>8

\* Late packets or not, the buffer of coap_block1_handler stays below
\* CIS_CONFIG_BLOCK1_SIZE_MAX.
THEOREM BufferStaysBounded == BlockSpec => []BufferIsBounded
<1>1. BlockInit => BoundInv
  BY DEF BlockInit, BoundInv
<1>2. BoundInv /\ [BlockNext]_blockVars => BoundInv'
  <2> SUFFICES ASSUME BoundInv, [BlockNext]_blockVars PROVE BoundInv'
    OBVIOUS
  <2>1. CASE Send
    <3>1. PICK size \in Sizes :
            /\ flight' = flight \cup {[mid |-> mid + 1, num |-> offset \div size, size |-> size,
                                       more |-> offset + size < total,
                                       payload |-> Units(transfer, total, offset, size)]}
            /\ waiting' = size
      BY <2>1 DEF Send
    <3>2. UNCHANGED <<block1Data, transfer, total, offset>> /\ Buffer' = Buffer
      BY <2>1 DEF Send, clientVars, Buffer
    <3>3. size \in Nat /\ size < SizeMax
      OBVIOUS
    <3>4. /\ Units(transfer, total, offset, size) \in Seq(Nat \X Nat)
          /\ Len(Units(transfer, total, offset, size)) <= size
      BY <3>3, UnitsAreFew DEF BoundInv
    <3>5. Len(Units(transfer, total, offset, size)) < SizeMax
      BY <3>3, <3>4, LenProperties
    <3>6. \A p \in flight' : p.payload \in Seq(Nat \X Nat) /\ Len(p.payload) < SizeMax
      BY <3>1, <3>4, <3>5 DEF BoundInv
    <3> QED BY <3>1, <3>2, <3>3, <3>6 DEF BoundInv
  <2>2. CASE Confirmed
    <3>1. Buffer' = Buffer /\ UNCHANGED <<block1Data, transfer, total, flight>> /\ offset' = offset + waiting /\ waiting' = 0
      BY <2>2 DEF Confirmed, clientVars, Buffer
    <3> QED BY <3>1 DEF BoundInv
  <2>3. CASE Begin
    <3>1. Buffer' = Buffer /\ block1Data' = block1Data
      BY <2>3 DEF Begin, clientVars, Buffer
    <3>2. transfer' = transfer + 1 /\ total' \in Totals /\ offset' = 0 /\ waiting' = 0 /\ flight' \subseteq flight
      BY <2>3 DEF Begin
    <3> QED BY <3>1, <3>2 DEF BoundInv
  <2>4. CASE UNCHANGED blockVars
    BY <2>4 DEF blockVars, clientVars, serverVars, BoundInv, Buffer
  <2> QED BY <2>1, <2>2, <2>3, <2>4, BoundedReceive DEF BlockNext
<1>3. BoundInv => BufferIsBounded
  BY DEF BoundInv, BufferIsBounded
<1> QED BY <1>1, <1>2, <1>3, PTL DEF BlockSpec
=============================================================================
