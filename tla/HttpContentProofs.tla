------------------------- MODULE HttpContentProofs -------------------------
(***************************************************************************)
(* The blocks a caller is given are the body of the response, for buffers  *)
(* and bodies of any size.                                                 *)
(*                                                                         *)
(* What the client has still to read is the stream: what is in data or in  *)
(* remain_buf, and what the server has still to deliver.  The invariant    *)
(* places the stream on what was sent, behind the bytes the caller has     *)
(* been given and those in response_buf.                                   *)
(***************************************************************************)
EXTENDS HttpContent, SequenceTheorems, WellFoundedInduction, TLAPS

\* What goes over the wire.
Byte == {CR, LF} \cup {Digit(n) : n \in Nat} \cup {<<"body", r, k>> : r \in Nat, k \in Nat}

\* A digit is no CR, and tells its value.
LEMMA ByteFacts ==
    /\ CR \in Byte /\ LF \in Byte
    /\ \A n \in Nat : Digit(n) \in Byte /\ Digit(n) # CR /\ Digit(n)[1] = "size" /\ Digit(n)[2] = n
    /\ \A m, n \in Nat : Digit(m) = Digit(n) => m = n
<1>1. CR \in Byte /\ LF \in Byte
  BY DEF Byte
<1>2. \A n \in Nat : Digit(n) \in Byte
  BY DEF Byte
<1>3. \A n \in Nat : Digit(n)[1] = "size" /\ Digit(n)[2] = n
  BY DEF Digit
<1>4. CR[1] = "cr"
  BY DEF CR
<1>5. \A n \in Nat : Digit(n) # CR
  BY <1>3, <1>4
<1>6. \A m, n \in Nat : Digit(m) = Digit(n) => m = n
  BY <1>3
<1> QED BY <1>1, <1>2, <1>3, <1>5, <1>6

-----------------------------------------------------------------------------
(* Sequences of bytes. *)

\* The bytes of a concatenation.
LEMMA JoinFacts ==
    ASSUME NEW s \in Seq(Byte), NEW t \in Seq(Byte)
    PROVE  /\ s \o t \in Seq(Byte) /\ Len(s \o t) = Len(s) + Len(t)
           /\ \A i \in 1 .. Len(s) : (s \o t)[i] = s[i]
           /\ \A i \in 1 .. Len(t) : (s \o t)[Len(s) + i] = t[i]
<1>1. /\ s \o t \in Seq(Byte) /\ Len(s \o t) = Len(s) + Len(t)
      /\ \A i \in 1 .. Len(s) + Len(t) : (s \o t)[i] = IF i <= Len(s) THEN s[i] ELSE t[i - Len(s)]
  BY ConcatProperties
<1>2. ASSUME NEW i \in 1 .. Len(s) PROVE (s \o t)[i] = s[i]
  BY <1>1
<1>3. ASSUME NEW i \in 1 .. Len(t) PROVE (s \o t)[Len(s) + i] = t[i]
  <2>1. Len(s) + i \in 1 .. Len(s) + Len(t) /\ ~(Len(s) + i <= Len(s)) /\ Len(s) + i - Len(s) = i
    OBVIOUS
  <2> QED BY <1>1, <2>1
<1> QED BY <1>1, <1>2, <1>3

\* The beginning of a sequence.
LEMMA TakeFacts ==
    ASSUME NEW s \in Seq(Byte), NEW n \in Nat, n <= Len(s)
    PROVE  /\ SubSeq(s, 1, n) \in Seq(Byte) /\ Len(SubSeq(s, 1, n)) = n
           /\ \A i \in 1 .. n : SubSeq(s, 1, n)[i] = s[i]
<1>1. \A i \in 1 .. n : s[i] \in Byte
  BY ElementOfSeq
<1> QED BY <1>1, SubSeqProperties

\* What is behind the first n bytes.
LEMMA DropFacts ==
    ASSUME NEW s \in Seq(Byte), NEW n \in Nat, n <= Len(s)
    PROVE  /\ Drop(s, n) \in Seq(Byte) /\ Len(Drop(s, n)) = Len(s) - n
           /\ \A i \in 1 .. Len(s) - n : Drop(s, n)[i] = s[n + i]
<1>1. \A i \in n + 1 .. Len(s) : s[i] \in Byte
  BY ElementOfSeq
<1>2. /\ SubSeq(s, n + 1, Len(s)) \in Seq(Byte)
      /\ Len(SubSeq(s, n + 1, Len(s))) = IF n + 1 <= Len(s) THEN Len(s) - (n + 1) + 1 ELSE 0
      /\ \A i \in 1 .. Len(s) - (n + 1) + 1 : SubSeq(s, n + 1, Len(s))[i] = s[n + 1 + i - 1]
  BY <1>1, SubSeqProperties
<1>3. Len(s) - (n + 1) + 1 = Len(s) - n
  OBVIOUS
<1>4. \A i \in 1 .. Len(s) - n : n + 1 + i - 1 = n + i
  OBVIOUS
<1>5. (IF n + 1 <= Len(s) THEN Len(s) - (n + 1) + 1 ELSE 0) = Len(s) - n
  OBVIOUS
<1> HIDE DEF Drop
<1>6. Drop(s, n) = SubSeq(s, n + 1, Len(s))
  BY DEF Drop
<1>7. Len(Drop(s, n)) = Len(s) - n
  BY <1>2, <1>5, <1>6
<1>8. ASSUME NEW i \in 1 .. Len(s) - n PROVE Drop(s, n)[i] = s[n + i]
  <2>1. SubSeq(s, n + 1, Len(s))[i] = s[n + 1 + i - 1]
    BY <1>2, <1>3
  <2> QED BY <2>1, <1>4, <1>6
<1> QED BY <1>2, <1>6, <1>7, <1>8

\* A sequence is its beginning and what is behind it.
LEMMA TakeDrop ==
    ASSUME NEW s \in Seq(Byte), NEW n \in Nat, n <= Len(s)
    PROVE  SubSeq(s, 1, n) \o Drop(s, n) = s
<1>0. 1 \in 1 .. Len(s) + 1 /\ n \in 1 - 1 .. Len(s) /\ Len(s) \in n .. Len(s)
  OBVIOUS
<1>1. SubSeq(s, 1, n) \o SubSeq(s, n + 1, Len(s)) = SubSeq(s, 1, Len(s))
  BY <1>0, ConcatAdjacentSubSeq, Zenon
<1> QED BY <1>1, SubSeqFull DEF Drop

\* Bytes move from the network to the end of what was read: the stream is the same.
LEMMA ReadMore ==
    ASSUME NEW d \in Seq(Byte), NEW t \in Seq(Byte), NEW n \in Nat, n <= Len(t)
    PROVE  (d \o SubSeq(t, 1, n)) \o Drop(t, n) = d \o t
<1> DEFINE u == SubSeq(t, 1, n)
           v == Drop(t, n)
<1>1. u \in Seq(Byte) /\ v \in Seq(Byte)
  BY TakeFacts, DropFacts
<1>2. u \o v = t
  BY TakeDrop
<1> HIDE DEF u, v
<1>3. (d \o u) \o v = d \o (u \o v)
  BY <1>1, ConcatAssociative
<1> QED BY <1>2, <1>3 DEF u, v

\* What is taken out of the data is taken out of the stream.
LEMMA TakeOut ==
    ASSUME NEW d \in Seq(Byte), NEW t \in Seq(Byte), NEW n \in Nat, n <= Len(d)
    PROVE  /\ Drop(d, n) \o t = Drop(d \o t, n)
           /\ SubSeq(d, 1, n) = SubSeq(d \o t, 1, n)
<1> DEFINE s == d \o t
<1>1. s \in Seq(Byte) /\ Len(s) = Len(d) + Len(t)
  BY ConcatProperties
<1>2. \A i \in 1 .. Len(d) : s[i] = d[i]
  BY ConcatProperties
<1>3. \A i \in 1 .. Len(t) : s[Len(d) + i] = t[i]
  <2> TAKE i \in 1 .. Len(t)
  <2>1. Len(d) + i \in 1 .. Len(d) + Len(t) /\ ~(Len(d) + i <= Len(d)) /\ Len(d) + i - Len(d) = i
    OBVIOUS
  <2> QED BY <2>1, ConcatProperties
<1> HIDE DEF s
<1>4. SubSeq(d, 1, n) = SubSeq(s, 1, n)
  <2>1. n <= Len(s)
    BY <1>1
  <2>2. /\ SubSeq(d, 1, n) \in Seq(Byte) /\ Len(SubSeq(d, 1, n)) = n
        /\ \A i \in 1 .. n : SubSeq(d, 1, n)[i] = d[i]
    BY TakeFacts
  <2>3. /\ SubSeq(s, 1, n) \in Seq(Byte) /\ Len(SubSeq(s, 1, n)) = n
        /\ \A i \in 1 .. n : SubSeq(s, 1, n)[i] = s[i]
    BY <1>1, <2>1, TakeFacts
  <2>4. \A i \in 1 .. n : SubSeq(d, 1, n)[i] = SubSeq(s, 1, n)[i]
    BY <2>2, <2>3, <1>2
  <2> QED BY <2>2, <2>3, <2>4, SeqEqual
<1>5. Drop(d, n) \o t = Drop(s, n)
  <2> DEFINE x == Drop(d, n)
             y == Drop(s, n)
  <2>1. /\ x \in Seq(Byte) /\ Len(x) = Len(d) - n
        /\ \A i \in 1 .. Len(d) - n : x[i] = d[n + i]
    BY DropFacts
  <2>2. /\ y \in Seq(Byte) /\ Len(y) = Len(s) - n
        /\ \A i \in 1 .. Len(s) - n : y[i] = s[n + i]
    <3>1. n <= Len(s)
      BY <1>1
    <3> QED BY <1>1, <3>1, DropFacts
  <2> HIDE DEF x, y
  <2>3. /\ x \o t \in Seq(Byte) /\ Len(x \o t) = Len(x) + Len(t)
        /\ \A i \in 1 .. Len(x) + Len(t) : (x \o t)[i] = IF i <= Len(x) THEN x[i] ELSE t[i - Len(x)]
    BY <2>1, ConcatProperties
  <2>4. ASSUME NEW i \in 1 .. Len(x \o t) PROVE (x \o t)[i] = y[i]
    <3>1. CASE i <= Len(x)
      <4>1. n + i \in 1 .. Len(d) /\ i \in 1 .. Len(d) - n /\ i \in 1 .. Len(s) - n /\ i \in 1 .. Len(x) + Len(t)
        BY <1>1, <2>1, <2>3, <3>1
      <4> QED BY <4>1, <2>1, <2>2, <2>3, <3>1, <1>2
    <3>2. CASE ~(i <= Len(x))
      <4>1. i - Len(x) \in 1 .. Len(t) /\ n + i = Len(d) + (i - Len(x)) /\ i \in 1 .. Len(s) - n
            /\ i \in 1 .. Len(x) + Len(t)
        BY <1>1, <2>1, <2>3, <3>2
      <4> QED BY <4>1, <2>2, <2>3, <3>2, <1>3
    <3> QED BY <3>1, <3>2
  <2>5. Len(x \o t) = Len(y)
    BY <1>1, <2>1, <2>2, <2>3
  <2> QED BY <2>2, <2>3, <2>4, <2>5, SeqEqual DEF x, y
<1> QED BY <1>4, <1>5 DEF s
-----------------------------------------------------------------------------
(* The stream and what was sent. *)

\* The caller was given g, the beginning of body b.
Begins(g, b) == Len(g) <= Len(b) /\ \A i \in 1 .. Len(g) : g[i] = b[i]

\* Behind the first k bytes of body b, stream s holds the next r and then c, or a
\* beginning of that; all of it, if the server does not stop.
OnWire(s, b, k, r, c, full) ==
    /\ k + r <= Len(b)
    /\ Len(s) <= r + Len(c)
    /\ full => Len(s) = r + Len(c)
    /\ \A i \in 1 .. Len(s) : (i <= r => s[i] = b[k + i]) /\ (i > r => s[i] = c[i - r])

\* w is a chunk, the bytes j to e of b, and then v.
IsChunk(w, b, j, e, v) ==
    /\ Len(w) = (e - j + 6) + Len(v)
    /\ w[1] = Digit(e - j + 1) /\ w[2] = CR /\ w[3] = LF
    /\ \A i \in 1 .. e - j + 1 : w[3 + i] = b[j - 1 + i]
    /\ w[e - j + 5] = CR /\ w[e - j + 6] = LF
    /\ \A i \in 1 .. Len(v) : w[e - j + 6 + i] = v[i]

LastChunk == <<Digit(0), CR, LF, CR, LF>>

\* W[j] is what is sent of b in chunks from its byte j on.
Framing(b, W) ==
    /\ W \in [1 .. Len(b) + 1 -> Seq(Byte)]
    /\ W[Len(b) + 1] = LastChunk
    /\ \A j \in 1 .. Len(b) : \E e \in j .. Len(b) : IsChunk(W[j], b, j, e, W[e + 1])

\* The stream before a chunk header, and inside of a chunk with r bytes to come.
HeaderWire(s, b, k, W, full) == OnWire(s, b, k, 0, W[k + 1], full)
ChunkWire(s, b, k, r, W, full) == OnWire(s, b, k, r, <<CR, LF>> \o W[k + r + 1], full)

\* m bytes are delivered.
LEMMA Deliver ==
    ASSUME NEW s \in Seq(Byte), NEW b \in Seq(Byte), NEW c \in Seq(Byte),
           NEW k \in Nat, NEW r \in Nat, NEW full \in BOOLEAN,
           OnWire(s, b, k, r, c, full), NEW m \in Nat, m <= r, m <= Len(s)
    PROVE  /\ OnWire(Drop(s, m), b, k + m, r - m, c, full)
           /\ \A i \in 1 .. m : s[i] = b[k + i]
<1> DEFINE t == Drop(s, m)
<1>1. /\ t \in Seq(Byte) /\ Len(t) = Len(s) - m
      /\ \A i \in 1 .. Len(s) - m : t[i] = s[m + i]
  BY DropFacts
<1> HIDE DEF t
<1>2. ASSUME NEW i \in 1 .. Len(t)
      PROVE  (i <= r - m => t[i] = b[k + m + i]) /\ (i > r - m => t[i] = c[i - (r - m)])
  <2>1. m + i \in 1 .. Len(s) /\ k + m + i = k + (m + i) /\ i - (r - m) = (m + i) - r
        /\ (i <= r - m <=> m + i <= r) /\ (i > r - m <=> m + i > r) /\ i \in 1 .. Len(s) - m
    BY <1>1
  <2>2. (m + i <= r => s[m + i] = b[k + (m + i)]) /\ (m + i > r => s[m + i] = c[(m + i) - r])
    BY <2>1 DEF OnWire
  <2> QED BY <1>1, <2>1, <2>2
<1>3. (k + m) + (r - m) <= Len(b) /\ Len(t) <= (r - m) + Len(c) /\ (full => Len(t) = (r - m) + Len(c))
  BY <1>1 DEF OnWire
<1>4. \A i \in 1 .. m : s[i] = b[k + i]
  BY DEF OnWire
<1> QED BY <1>2, <1>3, <1>4 DEF t, OnWire

\* What the caller was given grows by the bytes that are delivered.
LEMMA BeginsGrows ==
    ASSUME NEW g \in Seq(Byte), NEW b \in Seq(Byte), Begins(g, b), NEW x \in Seq(Byte),
           Len(g) + Len(x) <= Len(b), \A i \in 1 .. Len(x) : x[i] = b[Len(g) + i]
    PROVE  g \o x \in Seq(Byte) /\ Len(g \o x) = Len(g) + Len(x) /\ Begins(g \o x, b)
<1>1. /\ g \o x \in Seq(Byte) /\ Len(g \o x) = Len(g) + Len(x)
      /\ \A i \in 1 .. Len(g) + Len(x) : (g \o x)[i] = IF i <= Len(g) THEN g[i] ELSE x[i - Len(g)]
  BY ConcatProperties
<1>2. ASSUME NEW i \in 1 .. Len(g \o x) PROVE (g \o x)[i] = b[i]
  <2>1. CASE i <= Len(g)
    <3>1. i \in 1 .. Len(g) /\ i \in 1 .. Len(g) + Len(x)
      BY <1>1, <2>1
    <3> QED BY <1>1, <2>1, <3>1 DEF Begins
  <2>2. CASE ~(i <= Len(g))
    <3>1. i - Len(g) \in 1 .. Len(x) /\ i \in 1 .. Len(g) + Len(x) /\ Len(g) + (i - Len(g)) = i
      BY <1>1, <2>2
    <3>2. (g \o x)[i] = x[i - Len(g)]
      BY <1>1, <2>2, <3>1
    <3> QED BY <3>1, <3>2
  <2> QED BY <2>1, <2>2
<1> QED BY <1>1, <1>2 DEF Begins

\* Two bytes and then w.
LEMMA CrLfFacts ==
    ASSUME NEW w \in Seq(Byte)
    PROVE  /\ <<CR, LF>> \o w \in Seq(Byte) /\ Len(<<CR, LF>> \o w) = 2 + Len(w)
           /\ (<<CR, LF>> \o w)[1] = CR /\ (<<CR, LF>> \o w)[2] = LF
           /\ \A i \in 1 .. Len(w) : (<<CR, LF>> \o w)[2 + i] = w[i]
<1> DEFINE x == <<CR, LF>>
<1>1. x \in Seq(Byte) /\ Len(x) = 2 /\ x[1] = CR /\ x[2] = LF
  BY ByteFacts
<1> HIDE DEF x
<1>2. /\ x \o w \in Seq(Byte) /\ Len(x \o w) = Len(x) + Len(w)
      /\ \A i \in 1 .. Len(x) + Len(w) : (x \o w)[i] = IF i <= Len(x) THEN x[i] ELSE w[i - Len(x)]
  BY <1>1, ConcatProperties
<1>3. (x \o w)[1] = CR /\ (x \o w)[2] = LF
  <2>1. 1 \in 1 .. Len(x) + Len(w) /\ 2 \in 1 .. Len(x) + Len(w) /\ 1 <= Len(x) /\ 2 <= Len(x)
    BY <1>1
  <2> QED BY <1>1, <1>2, <2>1
<1>4. ASSUME NEW i \in 1 .. Len(w) PROVE (x \o w)[2 + i] = w[i]
  <2>1. 2 + i \in 1 .. Len(x) + Len(w) /\ ~(2 + i <= Len(x)) /\ 2 + i - Len(x) = i
    BY <1>1
  <2> QED BY <1>2, <2>1
<1> QED BY <1>1, <1>2, <1>3, <1>4 DEF x

\* The CR LF behind a chunk.
LEMMA SkipCrLf ==
    ASSUME NEW s \in Seq(Byte), NEW b \in Seq(Byte), NEW W, Framing(b, W), NEW k \in Nat,
           NEW full \in BOOLEAN, ChunkWire(s, b, k, 0, W, full)
    PROVE  /\ Len(s) >= 1 => s[1] = CR
           /\ Len(s) >= 2 => s[2] = LF /\ HeaderWire(Drop(s, 2), b, k, W, full)
           /\ full => Len(s) >= 2
<1>0. k + 0 <= Len(b) /\ k + 0 + 1 = k + 1 /\ k + 1 \in 1 .. Len(b) + 1
  BY DEF ChunkWire, OnWire
<1>1. PICK w \in Seq(Byte) : w = W[k + 1]
  BY <1>0 DEF Framing
<1>2. OnWire(s, b, k, 0, <<CR, LF>> \o w, full)
  BY <1>0, <1>1 DEF ChunkWire
<1>3. PICK c \in Seq(Byte) : c = <<CR, LF>> \o w
  BY CrLfFacts
<1>4. Len(c) = 2 + Len(w) /\ c[1] = CR /\ c[2] = LF /\ \A i \in 1 .. Len(w) : c[2 + i] = w[i]
  BY <1>3, CrLfFacts
<1>5. /\ Len(s) <= 0 + Len(c) /\ (full => Len(s) = 0 + Len(c))
      /\ \A i \in 1 .. Len(s) : (i > 0 => s[i] = c[i - 0])
  BY <1>2, <1>3 DEF OnWire
<1>6. \A i \in 1 .. Len(s) : s[i] = c[i]
  BY <1>5
<1>7. /\ Len(s) >= 1 => s[1] = CR
      /\ Len(s) >= 2 => s[2] = LF
      /\ full => Len(s) >= 2
  BY <1>4, <1>5, <1>6
<1>8. ASSUME Len(s) >= 2 PROVE HeaderWire(Drop(s, 2), b, k, W, full)
  <2>1. /\ Drop(s, 2) \in Seq(Byte) /\ Len(Drop(s, 2)) = Len(s) - 2
        /\ \A i \in 1 .. Len(s) - 2 : Drop(s, 2)[i] = s[2 + i]
    BY <1>8, DropFacts
  <2>2. ASSUME NEW i \in 1 .. Len(Drop(s, 2)) PROVE Drop(s, 2)[i] = w[i - 0]
    <3>1. 2 + i \in 1 .. Len(s) /\ i \in 1 .. Len(s) - 2 /\ i \in 1 .. Len(w) /\ i - 0 = i
      BY <1>4, <1>5, <2>1
    <3> QED BY <1>4, <1>6, <2>1, <3>1
  <2>3. Len(Drop(s, 2)) <= 0 + Len(w) /\ (full => Len(Drop(s, 2)) = 0 + Len(w))
    BY <1>4, <1>5, <2>1
  <2>4. \A i \in 1 .. Len(Drop(s, 2)) : ~(i <= 0)
    BY <2>1
  <2> QED BY <1>0, <1>1, <2>2, <2>3, <2>4 DEF HeaderWire, OnWire
<1> QED BY <1>7, <1>8

\* The header of a chunk tells how many bytes of the body follow; a 0 is behind all.
HeaderTells(s, b, k, W, full) ==
    \/ k = Len(b) /\ s[1] = Digit(0)
    \/ \E r \in 1 .. Len(b) - k : s[1] = Digit(r) /\ (Len(s) >= 3 => ChunkWire(Drop(s, 3), b, k, r, W, full))

\* A chunk header.
LEMMA ReadsHeader ==
    ASSUME NEW s \in Seq(Byte), NEW b \in Seq(Byte), NEW W, Framing(b, W), NEW k \in Nat,
           NEW full \in BOOLEAN, HeaderWire(s, b, k, W, full)
    PROVE  /\ Len(s) >= 1 => HeaderTells(s, b, k, W, full)
           /\ Len(s) >= 2 => s[2] = CR
           /\ Len(s) >= 3 => s[3] = LF
           /\ full => Len(s) >= 5
<1>0. k + 0 <= Len(b) /\ k <= Len(b) /\ k + 1 \in 1 .. Len(b) + 1
  BY DEF HeaderWire, OnWire
<1>1. PICK w \in Seq(Byte) : w = W[k + 1]
  BY <1>0 DEF Framing
<1>2. /\ Len(s) <= 0 + Len(w) /\ (full => Len(s) = 0 + Len(w))
      /\ \A i \in 1 .. Len(s) : (i > 0 => s[i] = w[i - 0])
  BY <1>1 DEF HeaderWire, OnWire
<1>3. \A i \in 1 .. Len(s) : s[i] = w[i]
  BY <1>2
<1>4. CASE k = Len(b)
  <2>1. w = LastChunk
    BY <1>1, <1>4 DEF Framing
  <2>2. Len(w) = 5 /\ w[1] = Digit(0) /\ w[2] = CR /\ w[3] = LF
    BY <2>1 DEF LastChunk
  <2>3a. Len(s) >= 1 => s[1] = Digit(0)
    BY <2>2, <1>2, <1>3
  <2>3b. Len(s) >= 2 => s[2] = CR
    BY <2>2, <1>2, <1>3
  <2>3c. Len(s) >= 3 => s[3] = LF
    BY <2>2, <1>2, <1>3
  <2>3d. ASSUME full PROVE Len(s) >= 5
    <3>1. Len(s) = 0 + Len(w)
      BY <1>2, <2>3d, Zenon
    <3> QED BY <3>1, <2>2
  <2>3. /\ Len(s) >= 1 => s[1] = Digit(0)
        /\ Len(s) >= 2 => s[2] = CR
        /\ Len(s) >= 3 => s[3] = LF
        /\ full => Len(s) >= 5
    BY <2>3a, <2>3b, <2>3c, <2>3d
  <2> QED BY <2>3, <1>4 DEF HeaderTells
<1>5. CASE k # Len(b)
  <2>1. k + 1 \in 1 .. Len(b)
    BY <1>0, <1>5
  <2>2. PICK e \in k + 1 .. Len(b) : IsChunk(w, b, k + 1, e, W[e + 1])
    BY <2>1, <1>1 DEF Framing
  <2>3. PICK v \in Seq(Byte) : v = W[e + 1]
    <3>1. e + 1 \in 1 .. Len(b) + 1
      BY <2>1
    <3> QED BY <3>1 DEF Framing
  <2>4. PICK r \in 1 .. Len(b) - k : r = e - k
    BY <2>1
  <2>5. e - (k + 1) + 1 = r /\ e - (k + 1) + 5 = r + 4 /\ e - (k + 1) + 6 = r + 5 /\ (k + 1) - 1 = k
        /\ e + 1 = k + r + 1
    BY <2>4
  <2>6. /\ Len(w) = (r + 5) + Len(v)
        /\ w[1] = Digit(r) /\ w[2] = CR /\ w[3] = LF
        /\ \A i \in 1 .. r : w[3 + i] = b[k + i]
        /\ w[r + 4] = CR /\ w[r + 5] = LF
        /\ \A i \in 1 .. Len(v) : w[r + 5 + i] = v[i]
    BY <2>2, <2>3, <2>5 DEF IsChunk
  <2>7a. Len(s) >= 1 => s[1] = Digit(r)
    BY <2>6, <1>2, <1>3
  <2>7b. Len(s) >= 2 => s[2] = CR
    BY <2>6, <1>2, <1>3
  <2>7c. Len(s) >= 3 => s[3] = LF
    BY <2>6, <1>2, <1>3
  <2>7d. ASSUME full PROVE Len(s) >= 5
    <3>1. Len(s) = 0 + Len(w)
      BY <1>2, <2>7d, Zenon
    <3> QED BY <3>1, <2>6
  <2>7. /\ Len(s) >= 1 => s[1] = Digit(r)
        /\ Len(s) >= 2 => s[2] = CR
        /\ Len(s) >= 3 => s[3] = LF
        /\ full => Len(s) >= 5
    BY <2>7a, <2>7b, <2>7c, <2>7d
  <2>8. ASSUME Len(s) >= 3 PROVE ChunkWire(Drop(s, 3), b, k, r, W, full)
    <3>1. /\ Drop(s, 3) \in Seq(Byte) /\ Len(Drop(s, 3)) = Len(s) - 3
          /\ \A i \in 1 .. Len(s) - 3 : Drop(s, 3)[i] = s[3 + i]
      BY <2>8, DropFacts
    <3>2. PICK t \in Seq(Byte) : t = Drop(s, 3)
      BY <3>1
    <3>3. PICK c \in Seq(Byte) : c = <<CR, LF>> \o v
      BY CrLfFacts
    <3>4. Len(c) = 2 + Len(v) /\ c[1] = CR /\ c[2] = LF /\ \A i \in 1 .. Len(v) : c[2 + i] = v[i]
      BY <3>3, CrLfFacts
    <3>5. ASSUME NEW i \in 1 .. Len(t) PROVE t[i] = w[3 + i] /\ 3 + i <= Len(w)
      <4>1. i \in 1 .. Len(s) - 3 /\ 3 + i \in 1 .. Len(s)
        BY <3>1, <3>2
      <4> QED BY <4>1, <3>1, <3>2, <1>2, <1>3
    <3>6. ASSUME NEW i \in 1 .. Len(t), i <= r PROVE t[i] = b[k + i]
      BY <3>5, <3>6, <2>6
    <3>7. ASSUME NEW i \in 1 .. Len(t), i > r PROVE t[i] = c[i - r]
      <4>1. CASE i = r + 1
        BY <4>1, <3>5, <3>4, <2>6
      <4>2. CASE i = r + 2
        BY <4>2, <3>5, <3>4, <2>6
      <4>3. CASE i > r + 2
        <5>1. PICK j \in 1 .. Len(v) : i = r + 2 + j
          <6>1. 3 + i <= (r + 5) + Len(v)
            BY <3>5, <2>6
          <6>2. i - (r + 2) \in 1 .. Len(v) /\ i = r + 2 + (i - (r + 2))
            BY <4>3, <6>1
          <6> QED BY <6>2
        <5>2. 3 + i = r + 5 + j /\ i - r = 2 + j
          BY <5>1
        <5>3. t[i] = v[j]
          BY <5>2, <3>5, <2>6
        <5>4. c[2 + j] = v[j]
          BY <3>4
        <5> QED BY <5>2, <5>3, <5>4, Zenon
      <4>4. i = r + 1 \/ i = r + 2 \/ i > r + 2
        BY <3>7
      <4> QED BY <4>1, <4>2, <4>3, <4>4, Zenon
    <3>8. k + r <= Len(b) /\ Len(t) <= r + Len(c) /\ (full => Len(t) = r + Len(c))
      BY <1>2, <2>6, <3>1, <3>2, <3>4
    <3>9. OnWire(t, b, k, r, c, full)
      BY <3>6, <3>7, <3>8 DEF OnWire
    <3> QED BY <3>9, <3>2, <3>3, <2>3, <2>5 DEF ChunkWire
  <2> QED BY <2>7, <2>8 DEF HeaderTells
<1> QED BY <1>4, <1>5
-----------------------------------------------------------------------------
(* What Chunks computes. *)

\* Every set of numbers that is not empty has a least one.
LEMMA LeastNumber ==
    ASSUME NEW S \in SUBSET Nat, S # {}
    PROVE  \E i \in S : \A j \in S : i <= j
<1> DEFINE Less == {ss \in Nat \X Nat : ss[1] < ss[2]}
<1>1. IsWellFoundedOn(Less, Nat)
  BY NatLessThanWellFounded DEF OpToRel
<1>2. \A j \in S, i \in S : j < i => <<j, i>> \in Less
  OBVIOUS
<1> HIDE DEF Less
<1>3. PICK i \in S : \A j \in S : ~(<<j, i>> \in Less)
  BY <1>1, WFMin
<1>4. \A j \in S : ~(j < i)
  BY <1>2, <1>3
<1>5. \A j \in S : i <= j
  BY <1>4
<1> QED BY <1>5

\* What holds at the end of 1 .. n + 1 and comes down from the numbers above holds everywhere.
LEMMA Downward ==
    ASSUME NEW n \in Nat, NEW S, n + 1 \in S,
           \A k \in 1 .. n : (\A l \in k + 1 .. n + 1 : l \in S) => k \in S
    PROVE  1 .. n + 1 \subseteq S
<1> DEFINE B == {d \in 0 .. n : n + 1 - d \notin S}
<1>1. ASSUME B # {} PROVE FALSE
  <2>1. B \in SUBSET Nat
    OBVIOUS
  <2>2. PICK d \in B : \A j \in B : d <= j
    BY <1>1, <2>1, LeastNumber
  <2>3. d \in 0 .. n /\ n + 1 - d \notin S
    OBVIOUS
  <2>4. d # 0
    BY <2>3
  <2>5. n + 1 - d \in 1 .. n
    BY <2>3, <2>4
  <2>6. ASSUME NEW l \in (n + 1 - d) + 1 .. n + 1, l \notin S PROVE FALSE
    <3>1. n + 1 - l \in 0 .. n /\ n + 1 - (n + 1 - l) = l /\ n + 1 - l < d
      BY <2>3, <2>4
    <3>2. n + 1 - l \in B
      BY <3>1, <2>6
    <3> QED BY <2>2, <2>3, <3>1, <3>2
  <2> QED BY <2>3, <2>5, <2>6
<1>2. ASSUME NEW k \in 1 .. n + 1, k \notin S PROVE FALSE
  <2>1. n + 1 - k \in 0 .. n /\ n + 1 - (n + 1 - k) = k
    OBVIOUS
  <2>2. n + 1 - k \in B
    BY <2>1, <1>2
  <2> QED BY <2>2, <1>1
<1> QED BY <1>2

\* The end of the chunk that begins at byte k.
NextEnd(ends, k) == Min({x \in ends : x >= k})

\* There is one.
LEMMA NextEndThere ==
    ASSUME NEW n \in Nat, NEW ends \in Cuts(n), NEW k \in 1 .. n
    PROVE  NextEnd(ends, k) \in k .. n
<1> DEFINE S == {x \in ends : x >= k}
<1>1. ends \subseteq 1 .. n /\ \E e \in ends : k <= e /\ e < k + 15
  BY DEF Cuts
<1>2. S \in SUBSET Nat /\ S # {} /\ S \subseteq k .. n
  <2>1. \A x \in S : x \in Nat /\ x \in k .. n
    BY <1>1
  <2>2. PICK e \in ends : k <= e
    BY <1>1
  <2>3. e \in S
    BY <1>1, <2>2
  <2> QED BY <2>1, <2>3, Zenon
<1> HIDE DEF S
<1>3. \E i \in S : \A j \in S : i <= j
  BY <1>2, LeastNumber
<1>4. Min(S) \in S
  BY <1>3 DEF Min
<1> QED BY <1>2, <1>4 DEF S, NextEnd

\* What is sent from byte k on, if f tells what is sent from later bytes on.
FromByte(b, ends, f, k) ==
    IF k > Len(b) THEN LastChunk
    ELSE <<Digit(NextEnd(ends, k) - k + 1), CR, LF>> \o SubSeq(b, k, NextEnd(ends, k))
         \o <<CR, LF>> \o f[NextEnd(ends, k) + 1]

\* The recursion of Chunks, if there is a function that solves it.
LEMMA Unfold ==
    ASSUME NEW b, NEW ends,
           \E f : f = [k \in 1 .. Len(b) + 1 |-> FromByte(b, ends, f, k)]
    PROVE  Chunks(b, ends) = [k \in 1 .. Len(b) + 1 |-> FromByte(b, ends, Chunks(b, ends), k)]
  BY Zenon DEF Chunks, FromByte, NextEnd, LastChunk

\* There is one.
LEMMA Solvable ==
    ASSUME NEW b \in Seq(Byte), NEW ends \in Cuts(Len(b))
    PROVE  \E f : f = [k \in 1 .. Len(b) + 1 |-> FromByte(b, ends, f, k)]
<1> DEFINE n == Len(b)
           Solved(j, f) == f = [k \in j .. n + 1 |-> FromByte(b, ends, f, k)]
           S == {j \in 1 .. n + 1 : \E f : Solved(j, f)}
<1>0. n \in Nat
  BY LenProperties
<1>1. n + 1 \in S
  <2> DEFINE f == [k \in n + 1 .. n + 1 |-> LastChunk]
  <2>1. \A k \in n + 1 .. n + 1 : FromByte(b, ends, f, k) = LastChunk
    BY <1>0 DEF FromByte
  <2>2. Solved(n + 1, f)
    BY <2>1, Zenon
  <2>3. n + 1 \in 1 .. n + 1
    BY <1>0
  <2> HIDE DEF Solved
  <2> QED BY <2>2, <2>3, Zenon
<1>2. ASSUME NEW k \in 1 .. n, \A l \in k + 1 .. n + 1 : l \in S PROVE k \in S
  <2>1. k + 1 \in S
    BY <1>0, <1>2
  <2>2. PICK g : Solved(k + 1, g)
    BY <2>1
  <2> DEFINE f == [i \in k .. n + 1 |-> IF i = k THEN FromByte(b, ends, g, k) ELSE g[i]]
  <2>3. ASSUME NEW i \in k .. n + 1 PROVE FromByte(b, ends, f, i) = FromByte(b, ends, g, i)
    <3>1. CASE i > Len(b)
      BY <3>1 DEF FromByte
    <3>2. CASE ~(i > Len(b))
      <4>1. i \in 1 .. n
        BY <3>2, <1>0
      <4>2. NextEnd(ends, i) \in i .. n
        BY <1>0, <4>1, NextEndThere
      <4>3. PICK e \in Int : e = NextEnd(ends, i) + 1
        BY <4>2
      <4>4. e \in k .. n + 1 /\ e # k
        BY <1>0, <4>2, <4>3
      <4>5. f[e] = g[e]
        BY <4>4
      <4> HIDE DEF f
      <4> QED BY <3>2, <4>3, <4>5 DEF FromByte
    <3> QED BY <3>1, <3>2
  <2>4. ASSUME NEW i \in k .. n + 1 PROVE f[i] = FromByte(b, ends, f, i)
    <3>1. CASE i = k
      BY <3>1, <2>3
    <3>2. CASE i # k
      <4>1. i \in k + 1 .. n + 1
        BY <1>0, <3>2
      <4>2. g[i] = FromByte(b, ends, g, i)
        BY <4>1, <2>2
      <4>3. f[i] = g[i]
        BY <3>2
      <4> QED BY <4>2, <4>3, <2>3
    <3> QED BY <3>1, <3>2
  <2>5. f = [i \in k .. n + 1 |-> f[i]]
    OBVIOUS
  <2> HIDE DEF f
  <2>6. Solved(k, f)
    BY <2>4, <2>5, Zenon
  <2> QED BY <2>6, <1>0
<1> HIDE DEF S
<1>3. 1 .. n + 1 \subseteq S
  BY <1>0, <1>1, <1>2, Downward
<1>4. 1 \in S
  BY <1>0, <1>3
<1> QED BY <1>4 DEF S

\* w is three, or four, sequences one behind the other.
IsThree(w, s, t, u) ==
    /\ w \in Seq(Byte) /\ Len(w) = Len(s) + Len(t) + Len(u)
    /\ \A i \in 1 .. Len(s) : w[i] = s[i]
    /\ \A i \in 1 .. Len(t) : w[Len(s) + i] = t[i]
    /\ \A i \in 1 .. Len(u) : w[Len(s) + Len(t) + i] = u[i]

IsFour(w, s, t, u, v) ==
    /\ w \in Seq(Byte) /\ Len(w) = Len(s) + Len(t) + Len(u) + Len(v)
    /\ \A i \in 1 .. Len(s) : w[i] = s[i]
    /\ \A i \in 1 .. Len(t) : w[Len(s) + i] = t[i]
    /\ \A i \in 1 .. Len(u) : w[Len(s) + Len(t) + i] = u[i]
    /\ \A i \in 1 .. Len(v) : w[Len(s) + Len(t) + Len(u) + i] = v[i]

\* The concatenation of three sequences.
LEMMA JoinThree ==
    ASSUME NEW s \in Seq(Byte), NEW t \in Seq(Byte), NEW u \in Seq(Byte)
    PROVE  IsThree((s \o t) \o u, s, t, u)
<1>1. PICK p \in Seq(Byte) :
         /\ p = s \o t /\ Len(p) = Len(s) + Len(t)
         /\ \A i \in 1 .. Len(s) : p[i] = s[i]
         /\ \A i \in 1 .. Len(t) : p[Len(s) + i] = t[i]
  BY JoinFacts
<1>2. PICK q \in Seq(Byte) :
         /\ q = p \o u /\ Len(q) = Len(p) + Len(u)
         /\ \A i \in 1 .. Len(p) : q[i] = p[i]
         /\ \A i \in 1 .. Len(u) : q[Len(p) + i] = u[i]
  BY JoinFacts
<1>3. q = (s \o t) \o u
  BY <1>1, <1>2
<1>4. \A i \in 1 .. Len(s) : q[i] = s[i]
  BY <1>1, <1>2
<1>5. \A i \in 1 .. Len(t) : q[Len(s) + i] = t[i]
  <2> TAKE i \in 1 .. Len(t)
  <2>1. Len(s) + i \in 1 .. Len(p)
    BY <1>1
  <2> QED BY <2>1, <1>1, <1>2
<1>6. \A i \in 1 .. Len(u) : q[Len(s) + Len(t) + i] = u[i]
  BY <1>1, <1>2
<1>7. Len(q) = Len(s) + Len(t) + Len(u)
  BY <1>1, <1>2
<1>8. IsThree(q, s, t, u)
  BY <1>4, <1>5, <1>6, <1>7, Zenon DEF IsThree
<1> QED BY <1>3, <1>8

\* And of four.
LEMMA JoinFour ==
    ASSUME NEW s \in Seq(Byte), NEW t \in Seq(Byte), NEW u \in Seq(Byte), NEW v \in Seq(Byte)
    PROVE  IsFour(((s \o t) \o u) \o v, s, t, u, v)
<1>0. PICK p : p = (s \o t) \o u /\ IsThree(p, s, t, u)
  BY JoinThree
<1>1. /\ p \in Seq(Byte) /\ Len(p) = Len(s) + Len(t) + Len(u)
      /\ \A i \in 1 .. Len(s) : p[i] = s[i]
      /\ \A i \in 1 .. Len(t) : p[Len(s) + i] = t[i]
      /\ \A i \in 1 .. Len(u) : p[Len(s) + Len(t) + i] = u[i]
  BY <1>0 DEF IsThree
<1>2. PICK q \in Seq(Byte) :
         /\ q = p \o v /\ Len(q) = Len(p) + Len(v)
         /\ \A i \in 1 .. Len(p) : q[i] = p[i]
         /\ \A i \in 1 .. Len(v) : q[Len(p) + i] = v[i]
  <2>1. p \in Seq(Byte)
    BY <1>1
  <2> QED BY <2>1, JoinFacts
<1>3. q = ((s \o t) \o u) \o v
  BY <1>0, <1>2
<1>4. \A i \in 1 .. Len(s) : q[i] = s[i]
  <2> TAKE i \in 1 .. Len(s)
  <2>1. i \in 1 .. Len(p)
    BY <1>1
  <2> QED BY <2>1, <1>1, <1>2
<1>5. \A i \in 1 .. Len(t) : q[Len(s) + i] = t[i]
  <2> TAKE i \in 1 .. Len(t)
  <2>1. Len(s) + i \in 1 .. Len(p)
    BY <1>1
  <2> QED BY <2>1, <1>1, <1>2
<1>6. \A i \in 1 .. Len(u) : q[Len(s) + Len(t) + i] = u[i]
  <2> TAKE i \in 1 .. Len(u)
  <2>1. Len(s) + Len(t) + i \in 1 .. Len(p)
    BY <1>1
  <2> QED BY <2>1, <1>1, <1>2
<1>7. \A i \in 1 .. Len(v) : q[Len(s) + Len(t) + Len(u) + i] = v[i]
  BY <1>1, <1>2
<1>8. Len(q) = Len(s) + Len(t) + Len(u) + Len(v)
  BY <1>1, <1>2
<1>9. IsFour(q, s, t, u, v)
  BY <1>4, <1>5, <1>6, <1>7, <1>8, Zenon DEF IsFour
<1> QED BY <1>3, <1>9

\* The concatenation of a chunk.
LEMMA ChunkBytes ==
    ASSUME NEW b \in Seq(Byte), NEW j \in 1 .. Len(b), NEW e \in j .. Len(b), NEW v \in Seq(Byte)
    PROVE  /\ <<Digit(e - j + 1), CR, LF>> \o SubSeq(b, j, e) \o <<CR, LF>> \o v \in Seq(Byte)
           /\ IsChunk(<<Digit(e - j + 1), CR, LF>> \o SubSeq(b, j, e) \o <<CR, LF>> \o v, b, j, e, v)
<1> DEFINE h == <<Digit(e - j + 1), CR, LF>>
           x == SubSeq(b, j, e)
           c == <<CR, LF>>
           w == ((h \o x) \o c) \o v
<1>0. PICK r \in Nat : r = e - j + 1 /\ e - j + 5 = r + 4 /\ e - j + 6 = r + 5
  <2>1. e - j + 1 \in Nat /\ e - j + 5 = (e - j + 1) + 4 /\ e - j + 6 = (e - j + 1) + 5
    OBVIOUS
  <2> QED BY <2>1
<1>1. h \in Seq(Byte) /\ Len(h) = 3 /\ h[1] = Digit(r) /\ h[2] = CR /\ h[3] = LF
  <2>1. Digit(r) \in Byte /\ CR \in Byte /\ LF \in Byte
    BY ByteFacts
  <2>2. h = <<Digit(r), CR, LF>>
    BY <1>0
  <2> HIDE DEF h
  <2> QED BY <2>1, <2>2
<1>2. x \in Seq(Byte) /\ Len(x) = r /\ \A i \in 1 .. r : x[i] = b[j - 1 + i]
  <2>1. \A i \in j .. e : b[i] \in Byte
    BY ElementOfSeq
  <2>2. /\ SubSeq(b, j, e) \in Seq(Byte)
        /\ Len(SubSeq(b, j, e)) = IF j <= e THEN e - j + 1 ELSE 0
        /\ \A i \in 1 .. e - j + 1 : SubSeq(b, j, e)[i] = b[j + i - 1]
    BY <2>1, SubSeqProperties
  <2>3. \A i \in 1 .. r : j + i - 1 = j - 1 + i
    OBVIOUS
  <2>4. Len(x) = r
    BY <1>0, <2>2
  <2> HIDE DEF x
  <2>5. x = SubSeq(b, j, e)
    BY DEF x
  <2>6. \A i \in 1 .. r : x[i] = b[j - 1 + i]
    BY <1>0, <2>2, <2>3, <2>5
  <2> QED BY <2>2, <2>4, <2>5, <2>6
<1>3. c \in Seq(Byte) /\ Len(c) = 2 /\ c[1] = CR /\ c[2] = LF
  BY ByteFacts
<1> HIDE DEF h, x, c
<1>4. h \in Seq(Byte) /\ x \in Seq(Byte) /\ c \in Seq(Byte)
  BY <1>1, <1>2, <1>3
<1>5. /\ w \in Seq(Byte)
      /\ Len(w) = Len(h) + Len(x) + Len(c) + Len(v)
      /\ \A i \in 1 .. Len(h) : w[i] = h[i]
      /\ \A i \in 1 .. Len(x) : w[Len(h) + i] = x[i]
      /\ \A i \in 1 .. Len(c) : w[Len(h) + Len(x) + i] = c[i]
      /\ \A i \in 1 .. Len(v) : w[Len(h) + Len(x) + Len(c) + i] = v[i]
  <2>1. IsFour(w, h, x, c, v)
    BY <1>4, JoinFour
  <2> HIDE DEF w
  <2> QED BY <2>1 DEF IsFour
<1> HIDE DEF w
<1>6. Len(h) = 3 /\ Len(x) = r /\ Len(c) = 2 /\ Len(v) \in Nat
  BY <1>1, <1>2, <1>3, LenProperties
<1>7. Len(w) = (r + 5) + Len(v)
  BY <1>5, <1>6
<1>8. w[1] = Digit(r) /\ w[2] = CR /\ w[3] = LF
  <2>1. w[1] = h[1] /\ w[2] = h[2] /\ w[3] = h[3]
    BY <1>5, <1>6
  <2> QED BY <2>1, <1>1
<1>9. ASSUME NEW i \in 1 .. r PROVE w[3 + i] = b[j - 1 + i]
  <2>1. w[3 + i] = x[i]
    BY <1>5, <1>6
  <2> QED BY <2>1, <1>2
<1>10. w[r + 4] = CR /\ w[r + 5] = LF
  <2>1. 3 + r + 1 = r + 4 /\ 3 + r + 2 = r + 5
    OBVIOUS
  <2>2. w[3 + r + 1] = c[1] /\ w[3 + r + 2] = c[2]
    BY <1>5, <1>6
  <2> QED BY <2>1, <2>2, <1>3
<1>11. ASSUME NEW i \in 1 .. Len(v) PROVE w[r + 5 + i] = v[i]
  <2>1. 3 + r + 2 + i = r + 5 + i
    OBVIOUS
  <2>2. w[3 + r + 2 + i] = v[i]
    BY <1>5, <1>6
  <2> QED BY <2>1, <2>2
<1>12. IsChunk(w, b, j, e, v)
  BY <1>0, <1>7, <1>8, <1>9, <1>10, <1>11 DEF IsChunk
<1> QED BY <1>5, <1>12 DEF w, h, x, c

\* Chunks frames the body.
LEMMA ChunksFrame ==
    ASSUME NEW b \in Seq(Byte), NEW ends \in Cuts(Len(b))
    PROVE  Framing(b, Chunks(b, ends))
<1> DEFINE n == Len(b)
<1>0. n \in Nat
  BY LenProperties
<1>1. PICK W : W = Chunks(b, ends)
  OBVIOUS
<1>2. W = [k \in 1 .. n + 1 |-> FromByte(b, ends, W, k)]
  BY <1>1, Unfold, Solvable
<1>3. DOMAIN W = 1 .. n + 1 /\ \A k \in 1 .. n + 1 : W[k] = FromByte(b, ends, W, k)
  BY <1>2, Zenon
<1>4. W[n + 1] = LastChunk
  <2>1. n + 1 \in 1 .. n + 1 /\ n + 1 > Len(b)
    BY <1>0
  <2> QED BY <1>3, <2>1 DEF FromByte
<1>5. ASSUME NEW k \in 1 .. n, NEW e, e = NextEnd(ends, k)
      PROVE  W[k] = <<Digit(e - k + 1), CR, LF>> \o SubSeq(b, k, e) \o <<CR, LF>> \o W[e + 1]
  <2>1. k \in 1 .. n + 1 /\ ~(k > Len(b))
    BY <1>0
  <2>2. W[k] = FromByte(b, ends, W, k)
    BY <1>3, <2>1
  <2> QED BY <1>5, <2>1, <2>2 DEF FromByte
<1> DEFINE S == {k \in 1 .. n + 1 : W[k] \in Seq(Byte)}
<1>6. n + 1 \in S
  <2>1. LastChunk \in Seq(Byte)
    BY ByteFacts DEF LastChunk
  <2> QED BY <1>0, <1>4, <2>1
<1>7. ASSUME NEW k \in 1 .. n, \A l \in k + 1 .. n + 1 : l \in S PROVE k \in S
  <2>1. PICK e \in k .. n : e = NextEnd(ends, k)
    BY <1>0, NextEndThere
  <2>2. e + 1 \in k + 1 .. n + 1
    BY <1>0
  <2>3. W[e + 1] \in Seq(Byte)
    BY <1>7, <2>2
  <2>4. W[k] = <<Digit(e - k + 1), CR, LF>> \o SubSeq(b, k, e) \o <<CR, LF>> \o W[e + 1]
    BY <1>5, <2>1, Zenon
  <2>5. W[k] \in Seq(Byte)
    BY <2>4, <2>3, ChunkBytes
  <2> QED BY <1>0, <2>5
<1> HIDE DEF S
<1>8. 1 .. n + 1 \subseteq S
  BY <1>0, <1>6, <1>7, Downward
<1>9. \A k \in 1 .. n + 1 : W[k] \in Seq(Byte)
  BY <1>8 DEF S
<1>10. ASSUME NEW j \in 1 .. n PROVE \E e \in j .. n : IsChunk(W[j], b, j, e, W[e + 1])
  <2>1. PICK e \in j .. n : e = NextEnd(ends, j)
    BY <1>0, NextEndThere
  <2>2. e + 1 \in 1 .. n + 1
    BY <1>0
  <2>3. W[e + 1] \in Seq(Byte)
    BY <1>9, <2>2
  <2>4. IsChunk(W[j], b, j, e, W[e + 1])
    BY <1>5, <2>1, <2>3, ChunkBytes
  <2> QED BY <2>4
<1>11. W \in [1 .. n + 1 -> Seq(Byte)]
  BY <1>2, <1>3, <1>9
<1> QED BY <1>1, <1>4, <1>10, <1>11 DEF Framing
-----------------------------------------------------------------------------
(* Where a reader of the stream is. *)

\* The stream of a chunked response.
ChunkStream(b, k, s, r, place, full) ==
    \E W : /\ Framing(b, W)
          /\ IF place = "inside" THEN ChunkWire(s, b, k, r, W, full) ELSE HeaderWire(s, b, k, W, full)

\* Of body b, sent in mode m, the caller has been given g and s is the stream: before a
\* chunk header, or with r bytes to come of the chunk or of the body.
Reading(m, b, g, s, r, place, full) ==
    /\ Begins(g, b)
    /\ m = "length" =>
        /\ OnWire(s, b, Len(g), Len(b) - Len(g), << >>, full)
        /\ place # "fresh" => r = Len(b) - Len(g)
    /\ m = "close" => OnWire(s, b, Len(g), Len(b) - Len(g), << >>, TRUE)
    /\ m = "chunked" => ChunkStream(b, Len(g), s, r, place, full)

\* Bytes of a chunk, or of a body with a length.
LEMMA ReadingDelivers ==
    ASSUME NEW b \in Seq(Byte), NEW g \in Seq(Byte), NEW s \in Seq(Byte), NEW r \in Nat,
           NEW full \in BOOLEAN, NEW m, m = "length" \/ m = "chunked",
           Reading(m, b, g, s, r, "inside", full), NEW n \in Nat, n <= r, n <= Len(s)
    PROVE  Reading(m, b, g \o SubSeq(s, 1, n), Drop(s, n), r - n, "inside", full)
<1>1. PICK x \in Seq(Byte) : x = SubSeq(s, 1, n) /\ Len(x) = n /\ \A i \in 1 .. n : x[i] = s[i]
  BY TakeFacts
<1>2. Begins(g, b)
  BY DEF Reading
<1>3. CASE m = "length"
  <2>1. OnWire(s, b, Len(g), Len(b) - Len(g), << >>, full) /\ r = Len(b) - Len(g)
    BY <1>3 DEF Reading
  <2>2. PICK z \in Seq(Byte), k \in Nat : z = << >> /\ k = Len(g)
    <3>1. << >> \in Seq(Byte) /\ Len(g) \in Nat
      OBVIOUS
    <3> QED BY <3>1, Zenon
  <2>3. OnWire(s, b, k, r, z, full)
    BY <2>1, <2>2
  <2>4. /\ OnWire(Drop(s, n), b, k + n, r - n, z, full)
        /\ \A i \in 1 .. n : s[i] = b[k + i]
    BY <2>3, Deliver, SMTT(40)
  <2>5. Len(g) + Len(x) <= Len(b) /\ \A i \in 1 .. Len(x) : x[i] = b[Len(g) + i]
    BY <1>1, <2>1, <2>2, <2>4
  <2>6. g \o x \in Seq(Byte) /\ Len(g \o x) = Len(g) + Len(x) /\ Begins(g \o x, b)
    BY <1>2, <2>5, BeginsGrows
  <2>7. Len(g \o x) = Len(g) + n /\ r - n = Len(b) - (Len(g) + n)
    <3>1. r = Len(b) - Len(g) /\ Len(b) \in Nat /\ Len(g) \in Nat
      BY <2>1
    <3>2. Len(g \o x) = Len(g) + n
      BY <1>1, <2>6
    <3> QED BY <3>1, <3>2
  <2>8. Reading(m, b, g \o x, Drop(s, n), r - n, "inside", full)
    BY <1>3, <2>2, <2>4, <2>6, <2>7 DEF Reading
  <2> QED BY <2>8, <1>1
<1>4. CASE m = "chunked"
  <2>1. PICK W : Framing(b, W) /\ ChunkWire(s, b, Len(g), r, W, full)
    <3>1. ChunkStream(b, Len(g), s, r, "inside", full)
      BY <1>4 DEF Reading
    <3> QED BY <3>1 DEF ChunkStream
  <2>2. Len(g) \in Nat /\ Len(g) + r <= Len(b)
    BY <2>1 DEF ChunkWire, OnWire
  <2>3. Len(g) + r + 1 \in 1 .. Len(b) + 1
    BY <2>2
  <2>4. PICK w \in Seq(Byte) : w = W[Len(g) + r + 1]
    BY <2>1, <2>3 DEF Framing
  <2>5. PICK c \in Seq(Byte) : c = <<CR, LF>> \o w
    BY CrLfFacts
  <2>6. OnWire(s, b, Len(g), r, c, full)
    BY <2>1, <2>4, <2>5 DEF ChunkWire
  <2>7. /\ OnWire(Drop(s, n), b, Len(g) + n, r - n, c, full)
        /\ \A i \in 1 .. n : s[i] = b[Len(g) + i]
    BY <2>2, <2>6, Deliver, SMTT(40)
  <2>8. Len(g) + Len(x) <= Len(b) /\ \A i \in 1 .. Len(x) : x[i] = b[Len(g) + i]
    BY <1>1, <2>2, <2>7, SMTT(40)
  <2>9. g \o x \in Seq(Byte) /\ Len(g \o x) = Len(g) + Len(x) /\ Begins(g \o x, b)
    BY <1>2, <2>8, BeginsGrows
  <2>10. Len(g \o x) = Len(g) + n /\ (Len(g) + n) + (r - n) + 1 = Len(g) + r + 1
    BY <1>1, <2>2, <2>9
  <2>11. ChunkWire(Drop(s, n), b, Len(g \o x), r - n, W, full)
    BY <2>4, <2>5, <2>7, <2>10 DEF ChunkWire
  <2>12. Reading(m, b, g \o x, Drop(s, n), r - n, "inside", full)
    <3>1. ChunkStream(b, Len(g \o x), Drop(s, n), r - n, "inside", full)
      BY <2>1, <2>11 DEF ChunkStream
    <3> QED BY <1>4, <2>9, <3>1 DEF Reading
  <2> QED BY <2>12, <1>1
<1> QED BY <1>3, <1>4

\* Bytes of a body that ends with the connection.
LEMMA ReadingUntilClose ==
    ASSUME NEW b \in Seq(Byte), NEW g \in Seq(Byte), NEW s \in Seq(Byte), NEW r, NEW p, NEW full,
           Reading("close", b, g, s, r, p, full), NEW n \in Nat, n <= Len(s), NEW q, NEW o
    PROVE  Reading("close", b, g \o SubSeq(s, 1, n), Drop(s, n), q, o, full)
<1>1. PICK x \in Seq(Byte) : x = SubSeq(s, 1, n) /\ Len(x) = n /\ \A i \in 1 .. n : x[i] = s[i]
  BY TakeFacts
<1>2. Begins(g, b) /\ OnWire(s, b, Len(g), Len(b) - Len(g), << >>, TRUE)
  BY DEF Reading
<1>3. PICK k \in Nat : k = Len(b) - Len(g)
  <2>1. Len(b) - Len(g) \in Nat
    BY <1>2 DEF Begins
  <2> QED BY <2>1, Zenon
<1>4. Len(s) = k + Len(<< >>) /\ Len(<< >>) = 0 /\ << >> \in Seq(Byte) /\ Len(g) \in Nat
  BY <1>2, <1>3 DEF OnWire
<1>5. OnWire(s, b, Len(g), k, << >>, TRUE) /\ n <= k
  <2>1. Len(s) = k
    BY <1>4
  <2>2. OnWire(s, b, Len(g), k, << >>, TRUE)
    BY <1>2, <1>3, Zenon
  <2> QED BY <2>1, <2>2
<1>6. /\ OnWire(Drop(s, n), b, Len(g) + n, k - n, << >>, TRUE)
      /\ \A i \in 1 .. n : s[i] = b[Len(g) + i]
  <2>1. PICK z \in Seq(Byte), l \in Nat, f \in BOOLEAN : z = << >> /\ l = Len(g) /\ f = TRUE
    <3>1. << >> \in Seq(Byte) /\ Len(g) \in Nat /\ TRUE \in BOOLEAN
      OBVIOUS
    <3> QED BY <3>1, Zenon
  <2>2. OnWire(s, b, l, k, z, f)
    BY <1>5, <2>1
  <2>3. OnWire(Drop(s, n), b, l + n, k - n, z, f) /\ \A i \in 1 .. n : s[i] = b[l + i]
    BY <1>5, <2>2, Deliver
  <2> QED BY <2>1, <2>3
<1>7. Len(g) + Len(x) <= Len(b) /\ \A i \in 1 .. Len(x) : x[i] = b[Len(g) + i]
  BY <1>1, <1>3, <1>5, <1>6
<1>8. g \o x \in Seq(Byte) /\ Len(g \o x) = Len(g) + Len(x) /\ Begins(g \o x, b)
  BY <1>2, <1>7, BeginsGrows
<1>9. Len(g \o x) = Len(g) + n /\ k - n = Len(b) - (Len(g) + n)
  <2>1. Len(b) \in Nat /\ Len(g) \in Nat
    OBVIOUS
  <2> QED BY <1>1, <1>3, <1>8, <2>1
<1>10. Reading("close", b, g \o x, Drop(s, n), q, o, full)
  BY <1>6, <1>8, <1>9 DEF Reading
<1> QED BY <1>10, <1>1

\* n bytes of data d, before the rest t of the stream, are copied behind u.
Delivers(m, b, h, u, d, t, r, n, full) ==
    /\ u \o SubSeq(d, 1, n) \in Seq(Byte) /\ Len(u \o SubSeq(d, 1, n)) = Len(u) + n
    /\ Drop(d, n) \in Seq(Byte) /\ Len(Drop(d, n)) = Len(d) - n
    /\ Reading(m, b, h \o (u \o SubSeq(d, 1, n)), Drop(d, n) \o t, r - n, "inside", full)

\* The buffer after the copy, and what was given.
Copied(h, u, d, t, n) ==
    /\ u \o SubSeq(d, 1, n) \in Seq(Byte) /\ Len(u \o SubSeq(d, 1, n)) = Len(u) + n
    /\ h \o (u \o SubSeq(d, 1, n)) = (h \o u) \o SubSeq(d \o t, 1, n)
    /\ Drop(d, n) \in Seq(Byte) /\ Len(Drop(d, n)) = Len(d) - n
    /\ Drop(d, n) \o t = Drop(d \o t, n)
    /\ h \o u \in Seq(Byte) /\ d \o t \in Seq(Byte) /\ n <= Len(d \o t)

\* The concatenations a copy is made of.
LEMMA CopyFacts ==
    ASSUME NEW h \in Seq(Byte), NEW u \in Seq(Byte), NEW d \in Seq(Byte), NEW t \in Seq(Byte),
           NEW n \in Nat, n <= Len(d)
    PROVE  Copied(h, u, d, t, n)
<1>1. PICK x \in Seq(Byte) : x = SubSeq(d, 1, n) /\ Len(x) = n
  BY TakeFacts
<1>2. Drop(d, n) \in Seq(Byte) /\ Len(Drop(d, n)) = Len(d) - n
  BY DropFacts
<1>3. Drop(d, n) \o t = Drop(d \o t, n) /\ SubSeq(d, 1, n) = SubSeq(d \o t, 1, n)
  BY TakeOut
<1>4. (h \o u) \o x = h \o (u \o x)
  <2>1. \A y \in Seq(Byte) : (h \o u) \o y = h \o (u \o y)
    BY ConcatAssociative, SMTT(40)
  <2> QED BY <2>1
<1>5. u \o x \in Seq(Byte) /\ Len(u \o x) = Len(u) + Len(x)
  <2>1. \A y \in Seq(Byte) : u \o y \in Seq(Byte) /\ Len(u \o y) = Len(u) + Len(y)
    BY JoinFacts
  <2> QED BY <2>1
<1>6. h \o u \in Seq(Byte)
  BY JoinFacts
<1>7. d \o t \in Seq(Byte) /\ Len(d \o t) = Len(d) + Len(t)
  BY JoinFacts
<1>8. n <= Len(d \o t)
  <2>1. Len(d) \in Nat /\ Len(t) \in Nat
    OBVIOUS
  <2> QED BY <1>7, <2>1
<1> QED BY <1>1, <1>2, <1>3, <1>4, <1>5, <1>6, <1>7, <1>8, Zenon DEF Copied

\* What a copy delivers of a chunk, or of a body with a length.
LEMMA DataDelivers ==
    ASSUME NEW b \in Seq(Byte), NEW h \in Seq(Byte), NEW u \in Seq(Byte), NEW d \in Seq(Byte),
           NEW t \in Seq(Byte), NEW r \in Nat, NEW full \in BOOLEAN, NEW m, m = "length" \/ m = "chunked",
           Reading(m, b, h \o u, d \o t, r, "inside", full), NEW n \in Nat, n <= r, n <= Len(d)
    PROVE  Delivers(m, b, h, u, d, t, r, n, full)
<1>0. Copied(h, u, d, t, n)
  BY CopyFacts
<1>1. /\ u \o SubSeq(d, 1, n) \in Seq(Byte) /\ Len(u \o SubSeq(d, 1, n)) = Len(u) + n
      /\ h \o (u \o SubSeq(d, 1, n)) = (h \o u) \o SubSeq(d \o t, 1, n)
      /\ Drop(d, n) \in Seq(Byte) /\ Len(Drop(d, n)) = Len(d) - n
      /\ Drop(d, n) \o t = Drop(d \o t, n)
      /\ h \o u \in Seq(Byte) /\ d \o t \in Seq(Byte) /\ n <= Len(d \o t)
  BY <1>0 DEF Copied
<1>2. PICK g \in Seq(Byte), s \in Seq(Byte) : g = h \o u /\ s = d \o t
  BY <1>1, Zenon
<1>3. Reading(m, b, g, s, r, "inside", full) /\ n <= Len(s)
  BY <1>1, <1>2
<1>4. Reading(m, b, g \o SubSeq(s, 1, n), Drop(s, n), r - n, "inside", full)
  BY <1>3, ReadingDelivers
<1> QED BY <1>1, <1>2, <1>4 DEF Delivers

\* What the loop until the close delivers.
LEMMA DataUntilClose ==
    ASSUME NEW b \in Seq(Byte), NEW h \in Seq(Byte), NEW u \in Seq(Byte), NEW d \in Seq(Byte),
           NEW t \in Seq(Byte), NEW r, NEW p, NEW full,
           Reading("close", b, h \o u, d \o t, r, p, full), NEW n \in Nat, n <= Len(d), NEW q, NEW o
    PROVE  /\ u \o SubSeq(d, 1, n) \in Seq(Byte) /\ Len(u \o SubSeq(d, 1, n)) = Len(u) + n
           /\ Reading("close", b, h \o (u \o SubSeq(d, 1, n)), Drop(d, n) \o t, q, o, full)
<1>0. Copied(h, u, d, t, n)
  BY CopyFacts
<1>1. /\ u \o SubSeq(d, 1, n) \in Seq(Byte) /\ Len(u \o SubSeq(d, 1, n)) = Len(u) + n
      /\ h \o (u \o SubSeq(d, 1, n)) = (h \o u) \o SubSeq(d \o t, 1, n)
      /\ Drop(d, n) \in Seq(Byte) /\ Len(Drop(d, n)) = Len(d) - n
      /\ Drop(d, n) \o t = Drop(d \o t, n)
      /\ h \o u \in Seq(Byte) /\ d \o t \in Seq(Byte) /\ n <= Len(d \o t)
  BY <1>0 DEF Copied
<1>2. PICK g \in Seq(Byte), s \in Seq(Byte) : g = h \o u /\ s = d \o t
  BY <1>1, Zenon
<1>3. Reading("close", b, g, s, r, p, full) /\ n <= Len(s)
  BY <1>1, <1>2
<1>4. Reading("close", b, g \o SubSeq(s, 1, n), Drop(s, n), q, o, full)
  BY <1>3, ReadingUntilClose
<1> QED BY <1>1, <1>2, <1>4

\* All of the data is copied, and more is read in its place.
LEMMA AllOfData ==
    ASSUME NEW d \in Seq(Byte), NEW t \in Seq(Byte)
    PROVE  /\ SubSeq(d, 1, Len(d)) = d /\ Drop(d, Len(d)) \o t = t
           /\ \A n \in Nat : n <= Len(t) => SubSeq(t, 1, n) \o Drop(t, n) = t
<1>1. SubSeq(d, 1, Len(d)) = d
  BY SubSeqFull
<1>2. Drop(d, Len(d)) = << >>
  BY SubSeqEmpty DEF Drop
<1>3. << >> \o t = t
  BY ConcatEmptySeq
<1> QED BY <1>1, <1>2, <1>3, TakeDrop

\* What was given is the body, when as many bytes were given.
LEMMA AllGiven ==
    ASSUME NEW b \in Seq(Byte), NEW g \in Seq(Byte), Begins(g, b), Len(g) = Len(b)
    PROVE  g = b
<1>1. \A i \in 1 .. Len(g) : g[i] = b[i]
  BY DEF Begins
<1> QED BY <1>1, SeqEqual

\* The end of a body with a length, and of one that ends with the connection.
LEMMA ReadingEnds ==
    ASSUME NEW b \in Seq(Byte), NEW g \in Seq(Byte), NEW s \in Seq(Byte), NEW r, NEW m, NEW full,
           Reading(m, b, g, s, r, "inside", full),
           (m = "length" /\ r = 0) \/ (m = "close" /\ Len(s) = 0)
    PROVE  g = b
<1>1. Begins(g, b) /\ Len(g) \in Nat /\ Len(b) \in Nat
  BY DEF Reading
<1>2. CASE m = "length" /\ r = 0
  <2>1. r = Len(b) - Len(g)
    BY <1>2 DEF Reading
  <2>2. Len(g) = Len(b)
    BY <1>1, <1>2, <2>1
  <2> QED BY <1>1, <2>2, AllGiven
<1>3. CASE m = "close" /\ Len(s) = 0
  <2>1. OnWire(s, b, Len(g), Len(b) - Len(g), << >>, TRUE)
    BY <1>3 DEF Reading
  <2>2. Len(s) = Len(b) - Len(g) + Len(<< >>) /\ Len(<< >>) = 0
    BY <2>1 DEF OnWire
  <2>3. Len(g) = Len(b)
    BY <1>1, <1>3, <2>2
  <2> QED BY <1>1, <2>3, AllGiven
<1> QED BY <1>2, <1>3

\* The CR LF behind a chunk.
LEMMA ReadingCrLf ==
    ASSUME NEW b \in Seq(Byte), NEW g \in Seq(Byte), NEW s \in Seq(Byte), NEW full \in BOOLEAN,
           Reading("chunked", b, g, s, 0, "inside", full)
    PROVE  /\ Len(s) >= 2 => /\ s[1] = CR /\ s[2] = LF
                             /\ \A r : Reading("chunked", b, g, Drop(s, 2), r, "header", full)
           /\ full => Len(s) >= 2
<1>1. PICK W : Framing(b, W) /\ ChunkWire(s, b, Len(g), 0, W, full)
  BY DEF Reading, ChunkStream
<1>2. Begins(g, b) /\ Len(g) \in Nat
  BY DEF Reading
<1>3. /\ Len(s) >= 1 => s[1] = CR
      /\ Len(s) >= 2 => s[2] = LF /\ HeaderWire(Drop(s, 2), b, Len(g), W, full)
      /\ full => Len(s) >= 2
  BY <1>1, <1>2, SkipCrLf
<1>4. ASSUME Len(s) >= 2 PROVE Len(s) >= 1
  BY <1>4
<1>5. ASSUME Len(s) >= 2, NEW r PROVE Reading("chunked", b, g, Drop(s, 2), r, "header", full)
  <2>1. ChunkStream(b, Len(g), Drop(s, 2), r, "header", full)
    BY <1>1, <1>3, <1>5 DEF ChunkStream
  <2> QED BY <1>2, <2>1 DEF Reading
<1> QED BY <1>3, <1>4, <1>5

\* What the header of a chunk leads to.
Announces(b, g, s, full) ==
    \/ s[1] = Digit(0) /\ g = b
    \/ \E r \in Nat : r > 0 /\ s[1] = Digit(r)
                     /\ (Len(s) >= 3 => Reading("chunked", b, g, Drop(s, 3), r, "inside", full))

\* The header of a chunk.
LEMMA ReadingHeader ==
    ASSUME NEW b \in Seq(Byte), NEW g \in Seq(Byte), NEW s \in Seq(Byte), NEW full \in BOOLEAN, NEW q,
           Reading("chunked", b, g, s, q, "header", full)
    PROVE  /\ Len(s) >= 1 => Announces(b, g, s, full)
           /\ Len(s) >= 2 => s[2] = CR
           /\ Len(s) >= 3 => s[3] = LF
           /\ full => Len(s) >= 5
<1>1. PICK W : Framing(b, W) /\ HeaderWire(s, b, Len(g), W, full)
  <2>1. ChunkStream(b, Len(g), s, q, "header", full)
    BY DEF Reading
  <2> QED BY <2>1 DEF ChunkStream
<1>2. Begins(g, b) /\ Len(g) \in Nat
  BY DEF Reading
<1>3. /\ Len(s) >= 1 => HeaderTells(s, b, Len(g), W, full)
      /\ Len(s) >= 2 => s[2] = CR
      /\ Len(s) >= 3 => s[3] = LF
      /\ full => Len(s) >= 5
  BY <1>1, <1>2, ReadsHeader
<1>4. ASSUME HeaderTells(s, b, Len(g), W, full) PROVE Announces(b, g, s, full)
  <2>1. CASE Len(g) = Len(b) /\ s[1] = Digit(0)
    BY <1>2, <2>1, AllGiven DEF Announces
  <2>2. ASSUME NEW r \in 1 .. Len(b) - Len(g), s[1] = Digit(r),
               Len(s) >= 3 => ChunkWire(Drop(s, 3), b, Len(g), r, W, full)
        PROVE  Announces(b, g, s, full)
    <3>1. r \in Nat /\ r > 0
      OBVIOUS
    <3>2. ASSUME Len(s) >= 3 PROVE Reading("chunked", b, g, Drop(s, 3), r, "inside", full)
      <4>1. ChunkStream(b, Len(g), Drop(s, 3), r, "inside", full)
        BY <1>1, <2>2, <3>2 DEF ChunkStream
      <4> QED BY <1>2, <4>1 DEF Reading
    <3> QED BY <2>2, <3>1, <3>2 DEF Announces
  <2> QED BY <1>4, <2>1, <2>2 DEF HeaderTells
<1> QED BY <1>3, <1>4

\* How long the stream can be, and has to be.
LEMMA ReadingLength ==
    ASSUME NEW b \in Seq(Byte), NEW g \in Seq(Byte), NEW s \in Seq(Byte), NEW r \in Nat, NEW m,
           NEW full \in BOOLEAN, Reading(m, b, g, s, r, "inside", full)
    PROVE  /\ m = "length" => Len(s) <= r /\ Len(g) + r = Len(b)
           /\ m = "length" /\ full => Len(s) = r
           /\ m = "chunked" => Len(g) + r <= Len(b)
           /\ m = "chunked" /\ full => Len(s) >= r + 2
<1>0. Len(b) \in Nat /\ Len(g) \in Nat /\ Len(s) \in Nat /\ Len(<< >>) = 0
  OBVIOUS
<1>1. ASSUME m = "length"
      PROVE  Len(s) <= r /\ Len(g) + r = Len(b) /\ (full => Len(s) = r)
  <2>1. OnWire(s, b, Len(g), r, << >>, full) /\ r = Len(b) - Len(g)
    BY <1>1 DEF Reading
  <2>2. Len(s) <= r + Len(<< >>) /\ (full => Len(s) = r + Len(<< >>))
    BY <2>1 DEF OnWire
  <2>3. r + Len(<< >>) = r
    BY <1>0
  <2>4. Len(g) + r = Len(b)
    BY <1>0, <2>1
  <2> QED BY <2>2, <2>3, <2>4, Zenon
<1>2. ASSUME m = "chunked"
      PROVE  Len(g) + r <= Len(b) /\ (full => Len(s) >= r + 2)
  <2>1. PICK W : Framing(b, W) /\ ChunkWire(s, b, Len(g), r, W, full)
    <3>1. ChunkStream(b, Len(g), s, r, "inside", full)
      BY <1>2 DEF Reading
    <3> QED BY <3>1 DEF ChunkStream
  <2>2. Len(g) + r <= Len(b)
    BY <2>1 DEF ChunkWire, OnWire
  <2>3. Len(g) + r + 1 \in 1 .. Len(b) + 1
    BY <1>0, <2>2
  <2>4. PICK w \in Seq(Byte) : w = W[Len(g) + r + 1]
    BY <2>1, <2>3 DEF Framing
  <2>5. full => Len(s) = r + Len(<<CR, LF>> \o w)
    BY <2>1, <2>4 DEF ChunkWire, OnWire
  <2>6. Len(<<CR, LF>> \o w) = 2 + Len(w) /\ Len(w) \in Nat
    BY CrLfFacts
  <2>7. ASSUME full PROVE Len(s) >= r + 2
    <3>1. Len(s) = r + Len(<<CR, LF>> \o w)
      BY <2>5, <2>7
    <3> QED BY <3>1, <2>6
  <2> QED BY <2>2, <2>7
<1> QED BY <1>1, <1>2, Zenon

\* A response that begins.
LEMMA ReadingStarts ==
    ASSUME NEW b \in Seq(Byte), NEW s \in Seq(Byte), NEW m, NEW full \in BOOLEAN, NEW q,
           Reading(m, b, << >>, s, q, "fresh", full)
    PROVE  /\ m = "length" => Reading(m, b, << >>, s, Len(b), "inside", full)
           /\ m = "chunked" => Reading(m, b, << >>, s, 0, "header", full)
           /\ m = "close" => \A r, p : Reading(m, b, << >>, s, r, p, full)
<1>1. Len(b) = Len(b) - Len(<< >>)
  OBVIOUS
<1>2. m = "chunked" => ChunkStream(b, Len(<< >>), s, 0, "header", full)
  BY DEF Reading, ChunkStream
<1> QED BY <1>1, <1>2 DEF Reading

\* What the server sends: a body, or its chunks, or a beginning of that.
LEMMA ServerSends ==
    ASSUME NEW b \in Seq(Byte), NEW sent \in Seq(Byte), NEW m, NEW full \in BOOLEAN, NEW q,
           NEW k \in 0 .. Len(sent), full => k = Len(sent),
           m = "chunked" => \E ends \in Cuts(Len(b)) : sent = Chunks(b, ends)[1],
           m # "chunked" => sent = b, m = "close" => k = Len(sent)
    PROVE  Reading(m, b, << >>, SubSeq(sent, 1, k), q, "fresh", full)
<1>1. PICK s \in Seq(Byte) : s = SubSeq(sent, 1, k) /\ Len(s) = k /\ \A i \in 1 .. k : s[i] = sent[i]
  <2>1. k \in Nat /\ k <= Len(sent)
    OBVIOUS
  <2> QED BY <2>1, TakeFacts
<1>2. Len(<< >>) = 0 /\ Len(b) \in Nat /\ Len(sent) \in Nat /\ Len(b) - Len(<< >>) = Len(b)
  OBVIOUS
<1>3. Begins(<< >>, b)
  BY DEF Begins
<1>4. ASSUME m # "chunked", NEW f, f => k = Len(sent)
      PROVE  OnWire(s, b, Len(<< >>), Len(b) - Len(<< >>), << >>, f)
  <2>1. sent = b
    BY <1>4
  <2>2. \A i \in 1 .. Len(s) : i <= Len(b) /\ s[i] = b[0 + i]
    BY <1>1, <2>1
  <2>3. 0 + Len(b) <= Len(b) /\ Len(s) <= Len(b) + 0 /\ (k = Len(sent) => Len(s) = Len(b) + 0)
    <3>1. Len(sent) = Len(b)
      BY <2>1
    <3>2. Len(s) = k /\ k \in Nat /\ k <= Len(sent)
      BY <1>1, <1>2
    <3> QED BY <3>1, <3>2, <1>2
  <2>4. \A i \in 1 .. Len(s) : ~(i > Len(b))
    BY <1>1, <1>2, <2>2
  <2>5. OnWire(s, b, 0, Len(b), << >>, f)
    BY <1>2, <1>4, <2>2, <2>3, <2>4, Zenon DEF OnWire
  <2> QED BY <1>2, <2>5
<1>5. ASSUME m = "chunked"
      PROVE  ChunkStream(b, Len(<< >>), s, q, "fresh", full)
  <2>1. PICK ends \in Cuts(Len(b)) : sent = Chunks(b, ends)[1]
    BY <1>5
  <2>2. PICK W : W = Chunks(b, ends)
    OBVIOUS
  <2>3. Framing(b, W)
    BY <2>2, ChunksFrame
  <2>4. 0 + 0 <= Len(b) /\ Len(s) <= 0 + Len(sent) /\ (full => Len(s) = 0 + Len(sent))
    BY <1>1, <1>2
  <2>5. \A i \in 1 .. Len(s) : ~(i <= 0) /\ s[i] = sent[i - 0]
    BY <1>1
  <2>6. OnWire(s, b, 0, 0, sent, full)
    BY <2>4, <2>5 DEF OnWire
  <2>7. sent = W[0 + 1]
    BY <2>1, <2>2
  <2>8. HeaderWire(s, b, 0, W, full)
    BY <2>6, <2>7 DEF HeaderWire
  <2> QED BY <1>2, <2>3, <2>8 DEF ChunkStream
<1>6. m = "length" => OnWire(s, b, Len(<< >>), Len(b) - Len(<< >>), << >>, full)
  BY <1>4
<1>7. m = "close" => OnWire(s, b, Len(<< >>), Len(b) - Len(<< >>), << >>, TRUE)
  BY <1>4
<1>8. Reading(m, b, << >>, s, q, "fresh", full)
  BY <1>3, <1>5, <1>6, <1>7 DEF Reading
<1> QED BY <1>1, <1>8
-----------------------------------------------------------------------------
(* The invariant. *)

\* What the caller has been given and what is in its buffer; what is still to be read.
Given == got \o buf
Held == IF pc = "idle" THEN remain ELSE data
Stream == Held \o net

Fresh == pc = "idle" /\ result = "none"
Place == IF Fresh THEN "fresh"
         ELSE IF pc \in {"loop", "header"} /\ mode = "chunked" /\ retrieve = 0 THEN "header" ELSE "inside"

\* The response is being read, or will be.
Live == req > 0 /\ (pc # "idle" \/ result \in {"none", "MORE"})

Reads == Reading(mode, body, Given, Stream, retrieve, Place, ~setup.cut)

HttpTypeOK ==
    /\ setup \in Setups /\ mode \in setup.modes
    /\ net \in Seq(Byte) /\ body \in Seq(Byte) /\ data \in Seq(Byte) /\ buf \in Seq(Byte)
    /\ remain \in Seq(Byte) /\ got \in Seq(Byte)
    /\ pc \in {"idle", "close", "loop", "header", "copy", "after"}
    /\ readLen \in Nat /\ retrieve \in Nat /\ req \in Nat

\* What holds at the places of httpclient_retrieve_content, and between calls.
Places ==
    /\ pc = "idle" => data = << >> /\ buf = << >>
    /\ pc # "idle" => remain = << >> /\ req > 0
    /\ remain # << >> => result = "MORE" /\ ~(ChunkSize <= BufLen)
    /\ result = "MORE" => req > 0
    /\ pc # "idle" => (pc = "close" <=> mode = "close")
    /\ pc = "header" => retrieve = 0 /\ mode = "chunked"
    /\ pc = "copy" => readLen = retrieve
    /\ pc = "after" => retrieve = 0
    /\ pc = "idle" /\ result = "MORE" /\ mode = "chunked" => retrieve > 0
    /\ Len(buf) <= BufLen - 1
    /\ Fresh => got = << >>

\* A data buffer that is no longer than response_buf never holds more than that has room for.
Bounded ==
    ChunkSize <= BufLen =>
        /\ pc \in {"close", "loop", "copy", "after"} => Len(data) + Len(buf) <= BufLen - 1
        /\ pc = "header" => Len(data) + Len(buf) <= BufLen + 2

HttpInv == HttpTypeOK /\ Places /\ Bounded /\ (Live => Reads) /\ OkMeansWhole

\* Either the data buffer is no longer than response_buf, or the client is one that reads
\* only bodies with a length, and all of each.
Sound(s) == s.chunkSize <= s.bufLen \/ (~s.abandon /\ s.modes \subseteq {"length"})

\* The sizes and flags of a setup.
LEMMA SetupFacts ==
    ASSUME setup \in Setups, mode \in setup.modes
    PROVE  /\ ChunkSize \in Nat /\ ChunkSize >= 2 /\ BufLen \in Nat /\ BufLen >= 2
           /\ setup.cut \in BOOLEAN /\ setup.abandon \in BOOLEAN /\ setup.maxBody \in Nat
           /\ mode \in {"length", "chunked", "close"}
<1>1. setup \in Setup
  BY HttpAssumption
<1>2. setup.modes \subseteq {"length", "chunked", "close"} /\ setup.chunkSize \in Nat \ {0, 1}
      /\ setup.bufLen \in Nat \ {0, 1} /\ setup.maxBody \in Nat
  BY <1>1 DEF Setup
<1>3. setup.cut \in BOOLEAN /\ setup.abandon \in BOOLEAN
  BY <1>1 DEF Setup
<1> QED BY <1>2, <1>3 DEF ChunkSize, BufLen

\* A short response_buf is only used for bodies with a length.
LEMMA SoundFacts ==
    ASSUME \A s \in Setups : Sound(s), setup \in Setups, mode \in setup.modes, ~(ChunkSize <= BufLen)
    PROVE  ~setup.abandon /\ mode = "length"
  BY DEF Sound, ChunkSize, BufLen

\* The first state.
LEMMA InitHttpInv == HttpInit => HttpInv
<1> SUFFICES ASSUME HttpInit PROVE HttpInv
  OBVIOUS
<1>1. << >> \in Seq(Byte) /\ Len(<< >>) = 0
  OBVIOUS
<1>2. HttpTypeOK
  BY <1>1 DEF HttpInit, HttpTypeOK
<1>3. BufLen \in Nat /\ BufLen >= 2
  BY <1>2, SetupFacts DEF HttpTypeOK
<1>4. Places
  BY <1>1, <1>2, <1>3 DEF HttpInit, Places, HttpTypeOK
<1>5. Bounded /\ ~Live /\ OkMeansWhole
  BY DEF HttpInit, Bounded, Live, OkMeansWhole
<1> QED BY <1>2, <1>4, <1>5 DEF HttpInv

\* The call has returned and the response will not be read further.
LEMMA ReturnDead ==
    ASSUME HttpInv, NEW r \in {"OK", "CLOSED", "CONN", "ERROR", "PRTCL"}, NEW block \in Seq(Byte),
           Return(r, block), retrieve' \in Nat, net' \in Seq(Byte), remain = << >>,
           UNCHANGED <<setup, body, mode, remain, req>>,
           r = "OK" \/ (r = "CLOSED" /\ mode = "close") => got' = body
    PROVE  HttpInv'
<1>1. << >> \in Seq(Byte) /\ Len(<< >>) = 0
  OBVIOUS
<1>2. got \in Seq(Byte) /\ got' = got \o block
  BY DEF HttpInv, HttpTypeOK, Return
<1>3. got' \in Seq(Byte)
  BY <1>2, JoinFacts
<1>4. HttpTypeOK'
  BY <1>1, <1>3 DEF HttpInv, HttpTypeOK, Return
<1>5. BufLen' \in Nat /\ BufLen' >= 2
  BY SetupFacts DEF HttpInv, HttpTypeOK, BufLen
<1>6. Places'
  <2>1. pc' = "idle" /\ result' = r /\ data' = << >> /\ buf' = << >>
    BY DEF Return
  <2>2. r # "MORE" /\ r # "none" /\ remain' = << >>
    OBVIOUS
  <2>3. Len(buf') <= BufLen' - 1
    <3>1. Len(buf') = 0
      BY <1>1, <2>1, Zenon
    <3>2. \A n, l : n \in Nat /\ n >= 2 /\ l = 0 => l <= n - 1
      OBVIOUS
    <3> QED BY <1>5, <3>1, <3>2, Zenon
  <2> QED BY <2>1, <2>2, <2>3 DEF Places, Fresh
<1>7. Bounded' /\ ~Live'
  BY DEF Bounded, Live, Return
<1>8. OkMeansWhole'
  BY DEF OkMeansWhole, Return
<1> QED BY <1>4, <1>6, <1>7, <1>8 DEF HttpInv

\* The connection has failed.
LEMMA FailsInv ==
    ASSUME HttpInv, NEW block \in Seq(Byte), Fails(block), retrieve' \in Nat, remain = << >>,
           UNCHANGED <<setup, body, mode, remain, req>>
    PROVE  HttpInv'
<1>1. Return("CONN", block) /\ net' \in Seq(Byte)
  BY DEF Fails, HttpInv, HttpTypeOK
<1> QED BY <1>1, ReturnDead

\* What httpclient_recv returns is there, is no more than min or max, and no less than both.
LEMMA ReceivedBounds ==
    ASSUME Len(net) \in Nat, NEW min \in Nat, NEW max \in Nat, NEW n \in Received(min, max)
    PROVE  n \in Nat /\ n <= Len(net) /\ (n <= min \/ n <= max) /\ (n >= min \/ n >= max)
  BY DEF Received, Smaller, Larger

\* With room for it, and if it is there, the least that is asked for is what may be returned.
LEMMA LeastReceived ==
    ASSUME Len(net) \in Nat, NEW min \in Nat, NEW max \in Nat, max > 0, min <= max, min <= Len(net)
    PROVE  min \in Received(min, max)
  BY DEF Received, Smaller, Larger

\* n bytes of data are copied.
LEMMA CopyDelivers ==
    ASSUME HttpInv, pc = "copy", NEW n \in Nat, n <= Len(data), n <= retrieve
    PROVE  /\ buf \o SubSeq(data, 1, n) \in Seq(Byte) /\ Len(buf \o SubSeq(data, 1, n)) = Len(buf) + n
           /\ Drop(data, n) \in Seq(Byte) /\ Len(Drop(data, n)) = Len(data) - n
           /\ Reading(mode, body, got \o (buf \o SubSeq(data, 1, n)), Drop(data, n) \o net,
                      retrieve - n, "inside", ~setup.cut)
<1>1. /\ got \in Seq(Byte) /\ buf \in Seq(Byte) /\ data \in Seq(Byte) /\ net \in Seq(Byte)
      /\ body \in Seq(Byte) /\ retrieve \in Nat /\ setup \in Setups /\ mode \in setup.modes
  BY DEF HttpInv, HttpTypeOK
<1>2. mode = "length" \/ mode = "chunked"
  BY <1>1, SetupFacts DEF HttpInv, Places
<1>3. PICK full \in BOOLEAN : full = ~setup.cut
  BY <1>1, SetupFacts
<1>4. Reading(mode, body, got \o buf, data \o net, retrieve, "inside", full)
  <2>1. Live /\ Place = "inside" /\ Stream = data \o net /\ Given = got \o buf
    BY DEF HttpInv, Places, Live, Place, Fresh, Stream, Held, Given
  <2> QED BY <1>3, <2>1 DEF HttpInv, Reads
<1>5. Delivers(mode, body, got, buf, data, net, retrieve, n, full)
  BY <1>1, <1>2, <1>4, DataDelivers, SMTT(40)
<1> QED BY <1>3, <1>5 DEF Delivers
-----------------------------------------------------------------------------
(* Every step preserves the invariant. *)

\* The place of the new state.
NewPlace == IF pc' \in {"loop", "header"} /\ mode = "chunked" /\ retrieve' = 0 THEN "header" ELSE "inside"

\* A step after which the call goes on.
LEMMA StepRuns ==
    ASSUME HttpInv, UNCHANGED <<setup, body, mode, req, got, result>>, remain' = << >>, req > 0,
           pc' \in {"close", "loop", "header", "copy", "after"}, pc' = "close" <=> mode = "close",
           net' \in Seq(Byte), data' \in Seq(Byte), buf' \in Seq(Byte), readLen' \in Nat, retrieve' \in Nat,
           pc' = "header" => retrieve' = 0 /\ mode = "chunked",
           pc' = "copy" => readLen' = retrieve', pc' = "after" => retrieve' = 0,
           Len(buf') <= BufLen - 1,
           ChunkSize <= BufLen /\ pc' # "header" => Len(data') + Len(buf') <= BufLen - 1,
           ChunkSize <= BufLen /\ pc' = "header" => Len(data') + Len(buf') <= BufLen + 2,
           Reading(mode, body, got \o buf', data' \o net', retrieve', NewPlace, ~setup.cut)
    PROVE  HttpInv'
<1>1. << >> \in Seq(Byte)
  OBVIOUS
<1>2. HttpTypeOK'
  BY <1>1 DEF HttpInv, HttpTypeOK
<1>3. ChunkSize' = ChunkSize /\ BufLen' = BufLen
  BY DEF ChunkSize, BufLen
<1>4. Places'
  BY <1>3 DEF Places, Fresh
<1>5. Bounded'
  BY <1>3 DEF Bounded
<1>6. Reads'
  <2>1. Place' = NewPlace
    BY DEF Place, NewPlace, Fresh
  <2>2. Stream' = data' \o net' /\ Given' = got \o buf'
    BY DEF Stream, Held, Given
  <2> QED BY <2>1, <2>2 DEF Reads
<1>7. OkMeansWhole'
  BY DEF OkMeansWhole
<1> QED BY <1>2, <1>4, <1>5, <1>6, <1>7 DEF HttpInv

\* A call that returns with more to come.
LEMMA StepMore ==
    ASSUME HttpInv, pc # "idle", NEW block \in Seq(Byte), Return("MORE", block),
           UNCHANGED <<setup, body, mode, req>>, net' \in Seq(Byte), remain' \in Seq(Byte), retrieve' \in Nat,
           remain' # << >> => ~(ChunkSize <= BufLen), mode = "chunked" => retrieve' > 0,
           Reading(mode, body, got \o block, remain' \o net', retrieve', "inside", ~setup.cut)
    PROVE  HttpInv'
<1>1. << >> \in Seq(Byte) /\ Len(<< >>) = 0
  OBVIOUS
<1>2. /\ pc' = "idle" /\ result' = "MORE" /\ got' = got \o block
      /\ data' = << >> /\ buf' = << >> /\ readLen' = 0
  BY DEF Return
<1>3. got \o block \in Seq(Byte)
  <2>1. got \in Seq(Byte)
    BY DEF HttpInv, HttpTypeOK
  <2> QED BY <2>1, JoinFacts
<1>4. HttpTypeOK'
  BY <1>1, <1>2, <1>3 DEF HttpInv, HttpTypeOK
<1>5. ChunkSize' = ChunkSize /\ BufLen' = BufLen /\ BufLen \in Nat /\ BufLen >= 2
  BY SetupFacts DEF HttpInv, HttpTypeOK, ChunkSize, BufLen
<1>6. Places'
  <2>1. req > 0
    BY DEF HttpInv, Places
  <2>2. Len(buf') <= BufLen' - 1
    <3>1. Len(buf') = 0
      BY <1>1, <1>2, Zenon
    <3>2. 0 <= BufLen - 1
      BY <1>5
    <3> QED BY <3>1, <3>2, <1>5
  <2> QED BY <1>2, <1>5, <2>1, <2>2 DEF Places, Fresh
<1>7. Bounded' /\ OkMeansWhole'
  BY <1>2 DEF Bounded, OkMeansWhole
<1>8. Reads'
  <2>1. Place' = "inside" /\ Stream' = remain' \o net'
    BY <1>2 DEF Place, Fresh, Stream, Held
  <2>2. PICK g \in Seq(Byte) : g = got \o block
    BY <1>3, Zenon
  <2>3. g \o << >> = g
    BY ConcatEmptySeq
  <2>4. Given' = got \o block
    BY <1>2, <2>2, <2>3 DEF Given
  <2> QED BY <2>1, <2>4 DEF Reads
<1> QED BY <1>4, <1>6, <1>7, <1>8 DEF HttpInv

\* A new request: what an earlier call has kept in remain_buf is gone.
LEMMA RequestInv ==
    ASSUME HttpInv, \A s \in Setups : Sound(s), Request, UNCHANGED setup
    PROVE  HttpInv'
<1>1. /\ pc = "idle" /\ (result # "MORE" \/ setup.abandon)
      /\ req' = req + 1 /\ result' = "none" /\ got' = << >>
      /\ UNCHANGED <<pc, data, buf, readLen, retrieve, remain>>
  BY DEF Request
<1>2. << >> \in Seq(Byte) /\ Len(<< >>) = 0
  OBVIOUS
<1>3. /\ setup \in Setups /\ mode \in setup.modes /\ req \in Nat /\ setup.cut \in BOOLEAN
      /\ setup.maxBody \in Nat
  BY SetupFacts DEF HttpInv, HttpTypeOK
<1>4. remain = << >> /\ data = << >> /\ buf = << >>
  BY <1>1, <1>3, SoundFacts DEF HttpInv, Places
<1>5. PICK n \in 0 .. setup.maxBody, m \in setup.modes :
        LET b == [k \in 1 .. n |-> <<"body", req + 1, k>>]
        IN  /\ \E sent \in IF m = "chunked" THEN {Chunks(b, ends)[1] : ends \in Cuts(n)} ELSE {b} :
               \E k \in 0 .. Len(sent) :
                /\ setup.cut \/ k = Len(sent)
                /\ net' = SubSeq(sent, 1, k)
                /\ body' = IF m = "close" THEN net' ELSE b
            /\ mode' = m
  BY DEF Request
<1> DEFINE b == [k \in 1 .. n |-> <<"body", req + 1, k>>]
<1>6. b \in Seq(Byte) /\ Len(b) = n
  <2>1. \A k \in 1 .. n : <<"body", req + 1, k>> \in Byte
    <3> TAKE k \in 1 .. n
    <3>1. req + 1 \in Nat /\ k \in Nat
      BY <1>3
    <3> QED BY <3>1 DEF Byte
  <2>2. n \in Nat
    BY <1>3
  <2>3. b \in [1 .. n -> Byte]
    BY <2>1
  <2> QED BY <2>2, <2>3
<1>7a. PICK sent \in IF m = "chunked" THEN {Chunks(b, ends)[1] : ends \in Cuts(n)} ELSE {b} :
        \E k \in 0 .. Len(sent) :
            /\ setup.cut \/ k = Len(sent)
            /\ net' = SubSeq(sent, 1, k)
            /\ body' = IF m = "close" THEN net' ELSE b
  BY <1>5, Zenon
<1>7. PICK k \in 0 .. Len(sent) :
        /\ setup.cut \/ k = Len(sent)
        /\ net' = SubSeq(sent, 1, k)
        /\ body' = IF m = "close" THEN net' ELSE b
  BY <1>7a, Zenon
<1>8. mode' = m
  BY <1>5
<1> HIDE DEF b
<1>9. PICK full \in BOOLEAN : full = ~setup.cut
  BY <1>3
<1>10. m = "chunked" => \E ends \in Cuts(Len(b)) : sent = Chunks(b, ends)[1]
  BY <1>6, <1>7, Zenon
<1>11. m # "chunked" => sent = b
  BY <1>7, Zenon
<1>12. sent \in Seq(Byte)
  <2>1. CASE m = "chunked"
    <3>1. PICK ends \in Cuts(Len(b)) : sent = Chunks(b, ends)[1]
      BY <1>10, <2>1
    <3>2. Framing(b, Chunks(b, ends))
      BY <1>6, ChunksFrame
    <3>3. 1 \in 1 .. Len(b) + 1
      BY <1>6
    <3> QED BY <3>1, <3>2, <3>3 DEF Framing
  <2>2. CASE m # "chunked"
    BY <2>2, <1>6, <1>11
  <2> QED BY <2>1, <2>2
<1>13. net' \in Seq(Byte)
  BY <1>7, <1>12, TakeFacts
<1>14. Reading(m, body', << >>, net', retrieve, "fresh", full)
  <2>1. CASE m = "close"
    <3>1. body' = net'
      BY <1>7, <2>1, Zenon
    <3>2. PICK t \in Seq(Byte) : t = net'
      BY <1>13, Zenon
    <3>3. SubSeq(t, 1, Len(t)) = t /\ Len(t) \in 0 .. Len(t)
      BY SubSeqFull
    <3>4. Reading(m, t, << >>, SubSeq(t, 1, Len(t)), retrieve, "fresh", full)
      BY <2>1, <3>3, ServerSends
    <3> QED BY <3>1, <3>2, <3>3, <3>4
  <2>2. CASE m # "close"
    <3>1. body' = b
      BY <1>7, <2>2, Zenon
    <3>2. full => k = Len(sent)
      BY <1>7, <1>9
    <3>3. Reading(m, b, << >>, SubSeq(sent, 1, k), retrieve, "fresh", full)
      BY <1>6, <1>10, <1>11, <1>12, <2>2, <3>2, ServerSends
    <3> QED BY <1>7, <3>1, <3>3
  <2> QED BY <2>1, <2>2
<1>15. body' \in Seq(Byte)
  BY <1>6, <1>7, <1>13
<1>16. HttpTypeOK'
  BY <1>1, <1>2, <1>3, <1>8, <1>13, <1>15 DEF HttpInv, HttpTypeOK
<1>17. ChunkSize' = ChunkSize /\ BufLen' = BufLen
  BY DEF ChunkSize, BufLen
<1>18. Places' /\ Bounded' /\ OkMeansWhole'
  BY <1>1, <1>4, <1>17 DEF HttpInv, Places, Fresh, Bounded, OkMeansWhole
<1>19. Reads'
  <2>1. Place' = "fresh" /\ Stream' = << >> \o net' /\ Given' = << >> \o << >>
    BY <1>1, <1>4 DEF Place, Fresh, Stream, Held, Given
  <2>2. << >> \o net' = net' /\ << >> \o << >> = << >>
    <3>1. \A t \in Seq(Byte) : << >> \o t = t
      BY ConcatEmptySeq
    <3> QED BY <1>2, <1>13, <3>1
  <2> QED BY <1>1, <1>8, <1>9, <1>14, <2>1, <2>2 DEF Reads
<1> QED BY <1>16, <1>18, <1>19 DEF HttpInv

\* The first call for a response.
LEMMA FirstCallInv ==
    ASSUME HttpInv, FirstCall, UNCHANGED setup
    PROVE  HttpInv'
<1>1. /\ pc = "idle" /\ result = "none" /\ req > 0
      /\ pc' = IF mode = "close" THEN "close" ELSE "loop"
      /\ retrieve' = IF mode = "length" THEN Len(body) ELSE 0
      /\ UNCHANGED <<body, mode, buf, readLen, result, got, req>>
  BY DEF FirstCall
<1>2. PICK n \in 0 .. Smaller(ChunkSize - 1, Len(net)) : Enter(Take(n)) /\ net' = Drop(net, n)
  BY DEF FirstCall
<1>3. << >> \in Seq(Byte) /\ Len(<< >>) = 0
  OBVIOUS
<1>4. remain = << >> /\ buf = << >> /\ got = << >>
  BY <1>1 DEF HttpInv, Places, Fresh
<1>5. /\ net \in Seq(Byte) /\ body \in Seq(Byte) /\ readLen \in Nat
      /\ ChunkSize \in Nat /\ ChunkSize >= 2 /\ BufLen \in Nat /\ BufLen >= 2
      /\ mode \in {"length", "chunked", "close"}
  BY SetupFacts DEF HttpInv, HttpTypeOK
<1>6. n \in Nat /\ n <= Len(net) /\ n <= ChunkSize - 1
  BY <1>5 DEF Smaller
<1>7. /\ data' = SubSeq(net, 1, n) /\ remain' = << >> /\ net' = Drop(net, n)
      /\ data' \in Seq(Byte) /\ Len(data') = n /\ net' \in Seq(Byte)
  BY <1>2, <1>4, <1>5, <1>6, TakeFacts, DropFacts DEF Enter, Take
<1>8. data' \o net' = net
  BY <1>5, <1>6, <1>7, TakeDrop
<1>9. PICK full \in BOOLEAN : full = ~setup.cut
  BY SetupFacts DEF HttpInv, HttpTypeOK
<1>10. << >> \o << >> = << >> /\ << >> \o net = net
  <2>1. \A t \in Seq(Byte) : << >> \o t = t
    BY ConcatEmptySeq
  <2> QED BY <1>3, <1>5, <2>1
<1>11. Reading(mode, body, << >>, net, retrieve, "fresh", full)
  <2>1. Live /\ Place = "fresh"
    BY <1>1 DEF Live, Place, Fresh
  <2>2. Stream = net /\ Given = << >>
    BY <1>1, <1>4, <1>10 DEF Stream, Held, Given
  <2> QED BY <1>9, <2>1, <2>2 DEF HttpInv, Reads
<1>12. /\ mode = "length" => Reading(mode, body, << >>, net, Len(body), "inside", full)
       /\ mode = "chunked" => Reading(mode, body, << >>, net, 0, "header", full)
       /\ mode = "close" => \A r, p : Reading(mode, body, << >>, net, r, p, full)
  BY <1>5, <1>11, ReadingStarts
<1>13. Reading(mode, body, << >>, net, retrieve', NewPlace, full)
  <2>1. CASE mode = "length"
    BY <1>1, <1>12, <2>1 DEF NewPlace
  <2>2. CASE mode = "chunked"
    BY <1>1, <1>12, <2>2 DEF NewPlace
  <2>3. CASE mode = "close"
    BY <1>12, <2>3
  <2> QED BY <1>5, <2>1, <2>2, <2>3
<1>14. Reading(mode, body, got \o buf', data' \o net', retrieve', NewPlace, ~setup.cut)
  BY <1>1, <1>4, <1>8, <1>9, <1>10, <1>13
<1>15. retrieve' \in Nat
  BY <1>1, <1>5
<1>16. Len(buf') = 0 /\ buf' \in Seq(Byte)
  BY <1>1, <1>3, <1>4, Zenon
<1>17. /\ Len(buf') <= BufLen - 1
       /\ ChunkSize <= BufLen => Len(data') + Len(buf') <= BufLen - 1
  BY <1>5, <1>6, <1>7, <1>16
<1>18. /\ pc' \in {"close", "loop"} /\ (pc' = "close" <=> mode = "close")
  BY <1>1
<1> QED BY <1>1, <1>5, <1>7, <1>14, <1>15, <1>16, <1>17, <1>18, StepRuns

\* A call while is_more.
LEMMA NextCallInv ==
    ASSUME HttpInv, NextCall, UNCHANGED setup, \A s \in Setups : Sound(s)
    PROVE  HttpInv'
<1>1. /\ pc = "idle" /\ result = "MORE"
      /\ pc' = IF mode = "close" THEN "close" ELSE "loop"
      /\ UNCHANGED <<net, body, mode, buf, readLen, retrieve, result, got, req>>
  BY DEF NextCall
<1>2. << >> \in Seq(Byte) /\ Len(<< >>) = 0
  OBVIOUS
<1>3. data' = remain /\ remain' = << >>
  BY DEF NextCall, Enter
<1>4. /\ net \in Seq(Byte) /\ body \in Seq(Byte) /\ remain \in Seq(Byte) /\ readLen \in Nat
      /\ retrieve \in Nat /\ buf = << >> /\ req > 0
      /\ ChunkSize \in Nat /\ BufLen \in Nat /\ BufLen >= 2 /\ mode \in {"length", "chunked", "close"}
  BY <1>1, SetupFacts DEF HttpInv, HttpTypeOK, Places
<1>5. /\ mode = "chunked" => retrieve > 0
      /\ ChunkSize <= BufLen => remain = << >>
  BY <1>1 DEF HttpInv, Places
<1>6. Reading(mode, body, got \o buf, remain \o net, retrieve, "inside", ~setup.cut)
  <2>1. Live /\ Place = "inside" /\ Stream = remain \o net /\ Given = got \o buf
    BY <1>1, <1>4 DEF Live, Place, Fresh, Stream, Held, Given
  <2> QED BY <2>1 DEF HttpInv, Reads
<1>7. NewPlace = "inside"
  BY <1>1, <1>4, <1>5 DEF NewPlace
<1>8. Reading(mode, body, got \o buf', data' \o net', retrieve', NewPlace, ~setup.cut)
  BY <1>1, <1>3, <1>6, <1>7
<1>9. Len(buf') = 0 /\ buf' \in Seq(Byte) /\ (ChunkSize <= BufLen => Len(data') = 0)
  BY <1>1, <1>2, <1>3, <1>4, <1>5, Zenon
<1>10. /\ Len(buf') <= BufLen - 1
       /\ ChunkSize <= BufLen => Len(data') + Len(buf') <= BufLen - 1
  BY <1>4, <1>9
<1>11. /\ pc' \in {"close", "loop"} /\ (pc' = "close" <=> mode = "close")
  BY <1>1
<1>12. /\ net' \in Seq(Byte) /\ data' \in Seq(Byte) /\ readLen' \in Nat /\ retrieve' \in Nat
  BY <1>1, <1>3, <1>4
<1> QED BY <1>1, <1>3, <1>4, <1>8, <1>9, <1>10, <1>11, <1>12, StepRuns

\* The choice between a chunk header and the bytes of a chunk.
LEMMA LoopInv ==
    ASSUME HttpInv, Loop, UNCHANGED setup
    PROVE  HttpInv'
<1>1. /\ pc = "loop" /\ UNCHANGED <<net, body, mode, data, buf, retrieve, more, remain, result, got, req>>
  BY DEF Loop
<1>2. /\ net \in Seq(Byte) /\ data \in Seq(Byte) /\ buf \in Seq(Byte) /\ readLen \in Nat
      /\ retrieve \in Nat /\ req > 0 /\ remain = << >> /\ Len(buf) <= BufLen - 1 /\ mode # "close"
  BY <1>1 DEF HttpInv, HttpTypeOK, Places
<1>3. \/ pc' = "header" /\ mode = "chunked" /\ retrieve = 0 /\ readLen' = readLen
      \/ pc' = "copy" /\ (mode # "chunked" \/ retrieve # 0) /\ readLen' = retrieve
  BY <1>2 DEF Loop
<1>4. ChunkSize <= BufLen => Len(data) + Len(buf) <= BufLen - 1
  BY <1>1 DEF HttpInv, Bounded
<1>5. Reading(mode, body, got \o buf, data \o net, retrieve, NewPlace, ~setup.cut)
  <2>1. Live /\ Stream = data \o net /\ Given = got \o buf
    BY <1>1, <1>2 DEF Live, Stream, Held, Given
  <2>2. Place = NewPlace
    BY <1>1, <1>3 DEF Place, Fresh, NewPlace
  <2> QED BY <2>1, <2>2 DEF HttpInv, Reads
<1>6. Reading(mode, body, got \o buf', data' \o net', retrieve', NewPlace, ~setup.cut)
  BY <1>1, <1>5
<1>7. /\ ChunkSize <= BufLen /\ pc' # "header" => Len(data') + Len(buf') <= BufLen - 1
      /\ ChunkSize <= BufLen /\ pc' = "header" => Len(data') + Len(buf') <= BufLen + 2
  <2>1. Len(data) \in Nat /\ Len(buf) \in Nat /\ BufLen \in Nat
    BY <1>2, SetupFacts DEF HttpInv, HttpTypeOK
  <2>2. Len(data') = Len(data) /\ Len(buf') = Len(buf)
    BY <1>1
  <2> QED BY <1>4, <2>1, <2>2
<1>8. /\ net' \in Seq(Byte) /\ data' \in Seq(Byte) /\ buf' \in Seq(Byte) /\ readLen' \in Nat /\ retrieve' \in Nat
      /\ remain' = << >> /\ Len(buf') <= BufLen - 1
  BY <1>1, <1>2, <1>3
<1>9. /\ pc' \in {"header", "copy"} /\ (pc' = "close" <=> mode = "close")
      /\ (pc' = "header" => retrieve' = 0 /\ mode = "chunked") /\ (pc' = "copy" => readLen' = retrieve')
  BY <1>1, <1>2, <1>3
<1> QED BY <1>1, <1>2, <1>6, <1>7, <1>8, <1>9, StepRuns

\* The loop that reads until the server closes.
LEMMA UntilCloseInv ==
    ASSUME HttpInv, UntilClose, UNCHANGED setup, \A s \in Setups : Sound(s)
    PROVE  HttpInv'
<1>1. /\ pc = "close" /\ UNCHANGED <<body, mode, retrieve, remain, req>>
  BY DEF UntilClose
<1>2. /\ net \in Seq(Byte) /\ data \in Seq(Byte) /\ buf \in Seq(Byte) /\ got \in Seq(Byte)
      /\ body \in Seq(Byte) /\ readLen \in Nat /\ retrieve \in Nat /\ req > 0 /\ remain = << >>
      /\ mode = "close" /\ Len(buf) <= BufLen - 1
      /\ ChunkSize \in Nat /\ ChunkSize >= 2 /\ BufLen \in Nat /\ BufLen >= 2
  BY <1>1, SetupFacts DEF HttpInv, HttpTypeOK, Places
<1>3. ChunkSize <= BufLen
  BY <1>2, SoundFacts DEF HttpInv, HttpTypeOK
<1>4. Len(data) + Len(buf) <= BufLen - 1
  BY <1>1, <1>3 DEF HttpInv, Bounded
<1>5. Reading("close", body, got \o buf, data \o net, retrieve, "inside", ~setup.cut)
  <2>1. Live /\ Place = "inside" /\ Stream = data \o net /\ Given = got \o buf
    BY <1>1, <1>2 DEF Live, Place, Fresh, Stream, Held, Given
  <2> QED BY <1>2, <2>1 DEF HttpInv, Reads
<1>6. ASSUME NEW n \in Nat, n <= Len(data)
      PROVE  /\ buf \o SubSeq(data, 1, n) \in Seq(Byte) /\ Len(buf \o SubSeq(data, 1, n)) = Len(buf) + n
             /\ Reading("close", body, got \o (buf \o SubSeq(data, 1, n)), Drop(data, n) \o net,
                        retrieve, "inside", ~setup.cut)
  BY <1>2, <1>5, <1>6, DataUntilClose
<1>7. Len(data) \in Nat /\ Len(buf) \in Nat /\ Len(net) \in Nat /\ Room = BufLen - 1 - Len(buf)
  BY <1>2 DEF Room
<1>8. PICK b \in Seq(Byte) : b = buf \o data /\ Len(b) = Len(buf) + Len(data)
  BY <1>2, JoinFacts
<1>9. Reading("close", body, got \o b, net, retrieve, "inside", ~setup.cut)
  <2>1. SubSeq(data, 1, Len(data)) = data /\ Drop(data, Len(data)) \o net = net
    BY <1>2, AllOfData
  <2>2. Reading("close", body, got \o (buf \o SubSeq(data, 1, Len(data))), Drop(data, Len(data)) \o net,
                retrieve, "inside", ~setup.cut)
    BY <1>6, <1>7
  <2> QED BY <1>8, <2>1, <2>2
<1>10. PICK max \in Int : max = Smaller(ChunkSize - 1, BufLen - 1 - Len(b))
  <2>1. Len(b) \in Nat
    OBVIOUS
  <2>2. Smaller(ChunkSize - 1, BufLen - 1 - Len(b)) \in Int
    BY <1>2, <2>1 DEF Smaller
  <2> QED BY <2>2, Zenon
<1>11. ASSUME Len(data) < Room, NEW n \in Received(1, max), data' = Take(n), net' = Drop(net, n), buf' = b,
              UNCHANGED <<pc, readLen, more, result, got>>
       PROVE  HttpInv'
  <2>1. n \in Nat /\ n <= Len(net) /\ n <= BufLen - 1 - Len(b)
    <3>1. max \in Nat /\ max >= 1 /\ max <= BufLen - 1 - Len(b) /\ Len(b) \in Nat
      BY <1>2, <1>7, <1>8, <1>10, <1>11 DEF Smaller
    <3>2. n \in Nat /\ n <= Len(net) /\ (n <= 1 \/ n <= max)
      BY <1>7, <1>11, <3>1, ReceivedBounds
    <3> QED BY <1>2, <3>1, <3>2
  <2>2. data' \in Seq(Byte) /\ Len(data') = n /\ net' \in Seq(Byte)
    BY <1>2, <1>11, <2>1, TakeFacts, DropFacts DEF Take
  <2>3. data' \o net' = net
    BY <1>2, <1>11, <2>1, TakeDrop DEF Take
  <2>4. NewPlace = "inside"
    BY <1>2 DEF NewPlace
  <2>5. Reading(mode, body, got \o buf', data' \o net', retrieve', NewPlace, ~setup.cut)
    BY <1>1, <1>2, <1>9, <1>11, <2>3, <2>4
  <2>6. Len(buf') <= BufLen - 1 /\ Len(data') + Len(buf') <= BufLen - 1
    <3>1. Len(buf') = Len(b) /\ Len(b) \in Nat
      BY <1>11
    <3> QED BY <1>2, <2>1, <2>2, <3>1
  <2>7. /\ pc' = "close" /\ (pc' = "close" <=> mode = "close") /\ buf' \in Seq(Byte) /\ readLen' \in Nat
        /\ retrieve' \in Nat /\ remain' = << >>
    BY <1>1, <1>2, <1>11
  <2> QED BY <1>1, <1>2, <1>11, <2>2, <2>5, <2>6, <2>7, StepRuns
<1>12. ASSUME Len(data) < Room, Received(1, max) = {}, Return("CLOSED", b), UNCHANGED net
       PROVE  HttpInv'
  <2>1. Len(net) = 0
    <3>1. max >= 1 /\ max \in Nat
      BY <1>2, <1>7, <1>8, <1>10, <1>12 DEF Smaller
    <3>2. ASSUME Len(net) >= 1 PROVE FALSE
      <4>1. 1 \in Received(1, max)
        BY <1>7, <3>1, <3>2, LeastReceived
      <4> QED BY <4>1, <1>12
    <3> QED BY <1>7, <3>2
  <2>2. PICK g \in Seq(Byte) : g = got \o b
    <3>1. \A y \in Seq(Byte) : got \o y \in Seq(Byte)
      BY <1>2, JoinFacts
    <3> QED BY <3>1
  <2>3. Reading("close", body, g, net, retrieve, "inside", ~setup.cut)
    BY <1>9, <2>2
  <2>4. g = body
    BY <1>2, <2>1, <2>3, ReadingEnds
  <2>5. got' = body
    BY <1>12, <2>2, <2>4 DEF Return
  <2> QED BY <1>1, <1>2, <1>12, <2>5, ReturnDead
<1>13. ASSUME ~(Len(data) < Room), Return("MORE", buf \o SubSeq(data, 1, Room)), UNCHANGED net
       PROVE  HttpInv'
  <2>1. Room \in Nat /\ Room = Len(data)
    BY <1>2, <1>4, <1>7, <1>13
  <2>2. PICK block \in Seq(Byte) : block = buf \o SubSeq(data, 1, Room)
    <3>1. Room <= Len(data)
      BY <1>7, <2>1
    <3>2. buf \o SubSeq(data, 1, Room) \in Seq(Byte)
      BY <1>6, <2>1, <3>1, Zenon
    <3> QED BY <3>2, Zenon
  <2>3. SubSeq(data, 1, Room) = data
    BY <1>2, <2>1, AllOfData
  <2>4. Reading(mode, body, got \o block, net, retrieve, "inside", ~setup.cut)
    BY <1>2, <1>8, <1>9, <2>2, <2>3
  <2>5. remain' \o net' = net
    <3>1. \A t \in Seq(Byte) : << >> \o t = t
      BY ConcatEmptySeq
    <3> QED BY <1>1, <1>2, <1>13, <3>1
  <2>6. Reading(mode, body, got \o block, remain' \o net', retrieve', "inside", ~setup.cut)
    BY <1>1, <2>4, <2>5
  <2>7. Return("MORE", block)
    BY <1>13, <2>2
  <2>8. net' \in Seq(Byte) /\ remain' \in Seq(Byte) /\ retrieve' \in Nat /\ remain' = << >> /\ mode # "chunked"
    BY <1>1, <1>2, <1>13
  <2> QED BY <1>1, <2>6, <2>7, <2>8, StepMore
<1>14. ASSUME Fails(b)
       PROVE  HttpInv'
  <2>1. retrieve' \in Nat
    BY <1>1, <1>2
  <2> QED BY <1>1, <1>2, <1>14, <2>1, FailsInv
<1> QED BY <1>8, <1>10, <1>11, <1>12, <1>13, <1>14, Zenon DEF UntilClose

\* Before a chunk header is read.
LEMMA AtHeader ==
    ASSUME HttpInv, pc = "header"
    PROVE  /\ Reading("chunked", body, got \o buf, data \o net, 0, "header", ~setup.cut)
           /\ net \in Seq(Byte) /\ data \in Seq(Byte) /\ buf \in Seq(Byte) /\ got \in Seq(Byte)
           /\ body \in Seq(Byte) /\ readLen \in Nat /\ req > 0 /\ remain = << >>
           /\ mode = "chunked" /\ retrieve = 0 /\ Len(buf) <= BufLen - 1
           /\ ChunkSize \in Nat /\ ChunkSize >= 2 /\ BufLen \in Nat /\ BufLen >= 2 /\ setup.cut \in BOOLEAN
<1>1. /\ net \in Seq(Byte) /\ data \in Seq(Byte) /\ buf \in Seq(Byte) /\ got \in Seq(Byte)
      /\ body \in Seq(Byte) /\ readLen \in Nat /\ req > 0 /\ remain = << >>
      /\ mode = "chunked" /\ retrieve = 0 /\ Len(buf) <= BufLen - 1
      /\ ChunkSize \in Nat /\ ChunkSize >= 2 /\ BufLen \in Nat /\ BufLen >= 2 /\ setup.cut \in BOOLEAN
  BY SetupFacts DEF HttpInv, HttpTypeOK, Places
<1>2. Live /\ Place = "header" /\ Stream = data \o net /\ Given = got \o buf
  BY <1>1 DEF Live, Place, Fresh, Stream, Held, Given
<1>3. Reading("chunked", body, got \o buf, data \o net, 0, "header", ~setup.cut)
  BY <1>1, <1>2 DEF HttpInv, Reads
<1> QED BY <1>1, <1>3

\* The first bytes of data at a chunk header.
LEMMA HeaderBytes ==
    ASSUME NEW b \in Seq(Byte), NEW g \in Seq(Byte), NEW d \in Seq(Byte), NEW t \in Seq(Byte),
           NEW full \in BOOLEAN, Reading("chunked", b, g, d \o t, 0, "header", full)
    PROVE  /\ Len(d) >= 1 => d[1] # CR /\ Announces(b, g, d \o t, full) /\ (d \o t)[1] = d[1]
           /\ Len(d) >= 2 => d[2] = CR
           /\ Len(d) >= 3 => d[3] = LF
           /\ full => Len(d \o t) >= 5
<1>1. PICK s \in Seq(Byte) : s = d \o t /\ Len(s) = Len(d) + Len(t) /\ \A i \in 1 .. Len(d) : s[i] = d[i]
  BY JoinFacts
<1>2. Reading("chunked", b, g, s, 0, "header", full)
  BY <1>1
<1>3. /\ Len(s) >= 1 => Announces(b, g, s, full)
      /\ Len(s) >= 2 => s[2] = CR
      /\ Len(s) >= 3 => s[3] = LF
      /\ full => Len(s) >= 5
  BY <1>2, ReadingHeader
<1>4. Len(d) \in Nat /\ Len(t) \in Nat
  OBVIOUS
<1>5. ASSUME Len(d) >= 1 PROVE d[1] # CR /\ Announces(b, g, s, full) /\ s[1] = d[1]
  <2>1. Announces(b, g, s, full) /\ s[1] = d[1]
    BY <1>1, <1>3, <1>4, <1>5
  <2>2. \E r \in Nat : s[1] = Digit(r)
    BY <2>1 DEF Announces
  <2> QED BY <2>1, <2>2, ByteFacts
<1>6. Len(d) >= 2 => d[2] = CR
  BY <1>1, <1>3, <1>4
<1>7. Len(d) >= 3 => d[3] = LF
  BY <1>1, <1>3, <1>4
<1>8. full => Len(d \o t) >= 5
  BY <1>1, <1>3
<1> QED BY <1>1, <1>5, <1>6, <1>7, <1>8

\* The first CR LF is behind the digit, if the header and a byte more are there.
LEMMA FindsCrLf ==
    ASSUME NEW d \in Seq(Byte), d = data, Len(d) >= 1 => d[1] # CR, Len(d) >= 2 => d[2] = CR, Len(d) >= 3 => d[3] = LF
    PROVE  /\ CrLfs = {} => Len(d) <= 3
           /\ CrLfs # {} => Len(d) >= 4 /\ Min(CrLfs) = 2
<1>1. CrLfs = {p \in 1 .. Len(d) - 2 : d[p] = CR /\ d[p + 1] = LF}
  BY DEF CrLfs
<1>2. Len(d) \in Nat
  OBVIOUS
<1>3. Len(d) >= 4 => 2 \in CrLfs
  BY <1>1, <1>2
<1>4. \A p \in CrLfs : p \in Nat /\ 2 <= p /\ p <= Len(d) - 2
  BY <1>1, <1>2
<1>5. ASSUME CrLfs # {} PROVE Len(d) >= 4 /\ Min(CrLfs) = 2
  <2>1. Len(d) >= 4
    BY <1>2, <1>4, <1>5
  <2>2. 2 \in CrLfs /\ \A p \in CrLfs : 2 <= p
    BY <1>3, <1>4, <2>1
  <2>3. PICK x : x = Min(CrLfs)
    OBVIOUS
  <2>4. x \in CrLfs /\ \A y \in CrLfs : x <= y
    BY <2>2, <2>3 DEF Min
  <2>5. x \in Nat /\ x <= 2 /\ 2 <= x
    BY <1>4, <2>2, <2>4
  <2>6. x = 2
    BY <2>5
  <2> QED BY <2>1, <2>3, <2>6
<1> QED BY <1>2, <1>3, <1>5

\* The header of a chunk is read.
LEMMA HeaderInv ==
    ASSUME HttpInv, Header, UNCHANGED setup
    PROVE  HttpInv'
<1>1. pc = "header" /\ CrLfs # {} /\ UNCHANGED <<net, body, mode, remain, req>>
  BY DEF Header
<1>2. /\ net \in Seq(Byte) /\ data \in Seq(Byte) /\ buf \in Seq(Byte) /\ got \in Seq(Byte)
      /\ body \in Seq(Byte) /\ readLen \in Nat /\ req > 0 /\ remain = << >>
      /\ mode = "chunked" /\ retrieve = 0 /\ Len(buf) <= BufLen - 1
      /\ ChunkSize \in Nat /\ BufLen \in Nat /\ setup.cut \in BOOLEAN
  BY <1>1, AtHeader
<1>3. PICK g \in Seq(Byte), full \in BOOLEAN : g = got \o buf /\ full = ~setup.cut
  <2>1. got \o buf \in Seq(Byte) /\ (~setup.cut) \in BOOLEAN
    BY <1>2, JoinFacts
  <2> QED BY <2>1, Zenon
<1>4. Reading("chunked", body, g, data \o net, 0, "header", full)
  BY <1>1, <1>3, AtHeader
<1>5. /\ Len(data) >= 1 => data[1] # CR /\ Announces(body, g, data \o net, full) /\ (data \o net)[1] = data[1]
      /\ Len(data) >= 2 => data[2] = CR
      /\ Len(data) >= 3 => data[3] = LF
  BY <1>2, <1>4, HeaderBytes
<1>6. Len(data) >= 4 /\ Min(CrLfs) = 2
  BY <1>1, <1>2, <1>5, FindsCrLf
<1>7. Announces(body, g, data \o net, full) /\ (data \o net)[1] = data[1]
  BY <1>5, <1>6
<1>8. /\ Drop(data, 3) \in Seq(Byte) /\ Len(Drop(data, 3)) = Len(data) - 3
      /\ Drop(data, 3) \o net = Drop(data \o net, 3) /\ Len(data \o net) >= 3
  <2>1. 3 <= Len(data) /\ 3 \in Nat /\ Len(data) \in Nat /\ Len(net) \in Nat
    BY <1>2, <1>6
  <2>2. Len(data \o net) = Len(data) + Len(net)
    BY <1>2, JoinFacts
  <2>3. Drop(data, 3) \in Seq(Byte) /\ Len(Drop(data, 3)) = Len(data) - 3
    BY <1>2, <2>1, DropFacts
  <2>4. Drop(data, 3) \o net = Drop(data \o net, 3)
    BY <1>2, <2>1, TakeOut
  <2>5. Len(data \o net) >= 3
    BY <2>1, <2>2
  <2> QED BY <2>3, <2>4, <2>5
<1>9. \/ data[1] = Digit(0) /\ g = body
      \/ \E r \in Nat : r > 0 /\ data[1] = Digit(r)
                       /\ Reading("chunked", body, g, Drop(data, 3) \o net, r, "inside", full)
  BY <1>7, <1>8, Zenon DEF Announces
<1>10. CASE data[1] = Digit(0) /\ g = body
  <2>1. data[1][1] = "size" /\ data[1][2] = 0
    BY <1>10, ByteFacts
  <2>2. retrieve' = 0 /\ Return("OK", buf)
    BY <1>10, <2>1 DEF Header
  <2>3. got' = body
    BY <1>3, <1>10, <2>2 DEF Return
  <2> QED BY <1>1, <1>2, <2>2, <2>3, ReturnDead
<1>11. ASSUME NEW r \in Nat, r > 0, data[1] = Digit(r),
              Reading("chunked", body, g, Drop(data, 3) \o net, r, "inside", full)
       PROVE  HttpInv'
  <2>1. data[1][1] = "size" /\ data[1][2] = r /\ data[1] # Digit(0)
    BY <1>11, ByteFacts
  <2>2. /\ retrieve' = r /\ pc' = "copy" /\ readLen' = r /\ data' = Drop(data, 2 + 1)
        /\ UNCHANGED <<buf, more, result, got>>
    BY <1>6, <2>1 DEF Header
  <2>3. data' = Drop(data, 3)
    BY <2>2
  <2>4. NewPlace = "inside"
    BY <2>2 DEF NewPlace
  <2>5. Reading(mode, body, got \o buf', data' \o net', retrieve', NewPlace, ~setup.cut)
    BY <1>1, <1>2, <1>3, <1>11, <2>2, <2>3, <2>4
  <2>6. ChunkSize <= BufLen => Len(data') + Len(buf') <= BufLen - 1
    <3>1. ChunkSize <= BufLen => Len(data) + Len(buf) <= BufLen + 2
      BY <1>1 DEF HttpInv, Bounded
    <3>2. Len(data') = Len(data) - 3 /\ Len(buf') = Len(buf) /\ Len(data) \in Nat /\ Len(buf) \in Nat
      BY <1>2, <1>8, <2>2, <2>3
    <3> QED BY <1>2, <3>1, <3>2
  <2>7. /\ net' \in Seq(Byte) /\ data' \in Seq(Byte) /\ buf' \in Seq(Byte) /\ readLen' \in Nat /\ retrieve' \in Nat
        /\ remain' = << >> /\ Len(buf') <= BufLen - 1 /\ (pc' = "close" <=> mode = "close")
    BY <1>1, <1>2, <1>8, <2>2, <2>3
  <2> QED BY <1>1, <1>2, <2>2, <2>5, <2>6, <2>7, StepRuns
<1> QED BY <1>9, <1>10, <1>11

\* More of a chunk header is read.
LEMMA ReadHeaderInv ==
    ASSUME HttpInv, ReadHeader, UNCHANGED setup
    PROVE  HttpInv'
<1>1. pc = "header" /\ CrLfs = {} /\ UNCHANGED <<body, mode, retrieve, remain, req>>
  BY DEF ReadHeader
<1>2. /\ net \in Seq(Byte) /\ data \in Seq(Byte) /\ buf \in Seq(Byte) /\ got \in Seq(Byte)
      /\ body \in Seq(Byte) /\ readLen \in Nat /\ req > 0 /\ remain = << >>
      /\ mode = "chunked" /\ retrieve = 0 /\ Len(buf) <= BufLen - 1
      /\ ChunkSize \in Nat /\ BufLen \in Nat /\ setup.cut \in BOOLEAN
      /\ Reading("chunked", body, got \o buf, data \o net, 0, "header", ~setup.cut)
  BY <1>1, AtHeader
<1>3. PICK g \in Seq(Byte), full \in BOOLEAN : g = got \o buf /\ full = ~setup.cut
  <2>1. got \o buf \in Seq(Byte) /\ (~setup.cut) \in BOOLEAN
    BY <1>2, JoinFacts
  <2> QED BY <2>1, Zenon
<1>4. Reading("chunked", body, g, data \o net, 0, "header", full)
  BY <1>2, <1>3
<1>5. /\ Len(data) >= 1 => data[1] # CR
      /\ Len(data) >= 2 => data[2] = CR
      /\ Len(data) >= 3 => data[3] = LF
  BY <1>2, <1>4, HeaderBytes
<1>6. Len(data) <= 3
  BY <1>1, <1>2, <1>5, FindsCrLf
<1>7. DataRoom \in Int /\ DataRoom <= BufLen - 1 - Len(buf) /\ Len(data) \in Nat /\ Len(net) \in Nat
  <2>1. Len(data) \in Nat /\ Len(buf) \in Nat /\ Len(net) \in Nat
    BY <1>2
  <2> QED BY <1>2, <2>1 DEF DataRoom, Smaller, Room
<1>8. ASSUME Len(data) < DataRoom, NEW n \in Received(0, DataRoom), data' = data \o Take(n),
             net' = Drop(net, n), UNCHANGED <<pc, buf, readLen, result, got>>
      PROVE  HttpInv'
  <2>1. n \in Nat /\ n <= Len(net) /\ n <= DataRoom
    <3>1. DataRoom \in Nat
      BY <1>7, <1>8
    <3>2. n \in Nat /\ n <= Len(net) /\ (n <= 0 \/ n <= DataRoom)
      BY <1>7, <1>8, <3>1, ReceivedBounds
    <3> QED BY <3>1, <3>2
  <2>2. PICK x \in Seq(Byte) : x = SubSeq(net, 1, n) /\ Len(x) = n
    BY <1>2, <2>1, TakeFacts
  <2>3. data' \in Seq(Byte) /\ Len(data') = Len(data) + n
    <3>1. data' = data \o x
      BY <1>8, <2>2 DEF Take
    <3>2. data \o x \in Seq(Byte) /\ Len(data \o x) = Len(data) + Len(x)
      BY <1>2, JoinFacts
    <3> QED BY <2>2, <3>1, <3>2
  <2>4. net' \in Seq(Byte)
    BY <1>2, <1>8, <2>1, DropFacts
  <2>5. data' \o net' = data \o net
    BY <1>2, <1>8, <2>1, ReadMore DEF Take
  <2>6. NewPlace = "header"
    BY <1>1, <1>2, <1>8 DEF NewPlace
  <2>7. Reading(mode, body, got \o buf', data' \o net', retrieve', NewPlace, ~setup.cut)
    BY <1>1, <1>2, <1>8, <2>5, <2>6
  <2>8. Len(data') + Len(buf') <= BufLen + 2
    <3>1. Len(data) \in Nat /\ Len(buf) \in Nat /\ Len(buf') = Len(buf)
      BY <1>2, <1>8
    <3> QED BY <1>2, <1>6, <1>7, <2>1, <2>3, <3>1
  <2>9. /\ pc' = "header" /\ buf' \in Seq(Byte) /\ readLen' \in Nat /\ retrieve' \in Nat /\ retrieve' = 0
        /\ remain' = << >> /\ Len(buf') <= BufLen - 1 /\ (pc' = "close" <=> mode = "close")
    BY <1>1, <1>2, <1>8
  <2> QED BY <1>1, <1>2, <1>8, <2>3, <2>4, <2>7, <2>8, <2>9, StepRuns
<1>9. ASSUME Return("ERROR", << >>), UNCHANGED net
      PROVE  HttpInv'
  <2>1. << >> \in Seq(Byte) /\ retrieve' \in Nat /\ net' \in Seq(Byte)
    BY <1>1, <1>2, <1>9
  <2> QED BY <1>1, <1>2, <1>9, <2>1, ReturnDead
<1>10. ASSUME Fails(<< >>)
       PROVE  HttpInv'
  <2>1. << >> \in Seq(Byte) /\ retrieve' \in Nat
    BY <1>1, <1>2
  <2> QED BY <1>1, <1>2, <1>10, <2>1, FailsInv
<1> QED BY <1>8, <1>9, <1>10, Zenon DEF ReadHeader

\* A buffer with too little room takes a part of the data, and of the chunk.
LEMMA TooLittleRoom ==
    ASSUME NEW n \in Nat, NEW l \in Nat, NEW r \in Nat, NEW room \in Nat, n <= l, n <= r, n = l \/ n = r,
           ~(n < room \/ (n = room /\ r <= l)), l <= room \/ l <= r
    PROVE  n = l /\ room <= l /\ room < r /\ r - room \in Nat /\ r - room > 0 /\ (l <= room => room = l)
  OBVIOUS

\* A turn of the loop that copies.
LEMMA CopyInv ==
    ASSUME HttpInv, Copy, UNCHANGED setup, \A s \in Setups : Sound(s)
    PROVE  HttpInv'
<1>1. pc = "copy" /\ UNCHANGED <<body, mode, more, req>>
  BY DEF Copy
<1>2. /\ net \in Seq(Byte) /\ data \in Seq(Byte) /\ buf \in Seq(Byte) /\ got \in Seq(Byte)
      /\ body \in Seq(Byte) /\ retrieve \in Nat /\ readLen = retrieve /\ req > 0 /\ remain = << >>
      /\ (mode = "length" \/ mode = "chunked") /\ Len(buf) <= BufLen - 1
      /\ ChunkSize \in Nat /\ ChunkSize >= 2 /\ BufLen \in Nat /\ setup.cut \in BOOLEAN
  BY <1>1, SetupFacts DEF HttpInv, HttpTypeOK, Places
<1>3. Len(data) \in Nat /\ Len(buf) \in Nat /\ Len(net) \in Nat /\ Room = BufLen - 1 - Len(buf) /\ Room \in Nat
  BY <1>2 DEF Room
<1>4. ChunkSize <= BufLen => Len(data) <= Room
  BY <1>1, <1>2, <1>3 DEF HttpInv, Bounded
<1>5. ASSUME NEW n \in Nat, n <= Len(data), n <= retrieve
      PROVE  /\ buf \o SubSeq(data, 1, n) \in Seq(Byte) /\ Len(buf \o SubSeq(data, 1, n)) = Len(buf) + n
             /\ Drop(data, n) \in Seq(Byte) /\ Len(Drop(data, n)) = Len(data) - n
             /\ Reading(mode, body, got \o (buf \o SubSeq(data, 1, n)), Drop(data, n) \o net,
                        retrieve - n, "inside", ~setup.cut)
  BY <1>1, <1>5, CopyDelivers
<1>6. PICK n \in Nat : n = Smaller(Len(data), readLen)
  <2>1. Smaller(Len(data), readLen) \in Nat
    BY <1>2, <1>3 DEF Smaller
  <2> QED BY <2>1, Zenon
<1>7. n <= Len(data) /\ n <= retrieve /\ (n = Len(data) \/ n = retrieve)
  BY <1>2, <1>3, <1>6 DEF Smaller
<1>8. PICK s \in Seq(Byte) : s = buf \o SubSeq(data, 1, n) /\ Len(s) = Len(buf) + n
  <2>1. buf \o SubSeq(data, 1, n) \in Seq(Byte) /\ Len(buf \o SubSeq(data, 1, n)) = Len(buf) + n
    BY <1>5, <1>7
  <2> QED BY <2>1, Zenon
<1>9. Reading(mode, body, got \o s, Drop(data, n) \o net, retrieve - n, "inside", ~setup.cut)
  BY <1>5, <1>7, <1>8
<1>10. ASSUME n <= Room, Len(data) >= readLen, data' = Drop(data, readLen), buf' = s, pc' = "after",
              readLen' = 0, retrieve' = 0, UNCHANGED <<net, result, got, remain>>
       PROVE  HttpInv'
  <2>1. n = retrieve /\ n = readLen
    BY <1>2, <1>3, <1>7, <1>10
  <2>2. data' = Drop(data, n) /\ retrieve - n = 0 /\ data' \in Seq(Byte) /\ Len(data') = Len(data) - n
    BY <1>2, <1>5, <1>7, <1>10, <2>1, SMTT(40)
  <2>3. NewPlace = "inside"
    BY <1>10 DEF NewPlace
  <2>4. Reading(mode, body, got \o buf', data' \o net', retrieve', NewPlace, ~setup.cut)
    BY <1>9, <1>10, <2>2, <2>3
  <2>5. Len(buf') <= BufLen - 1 /\ (ChunkSize <= BufLen => Len(data') + Len(buf') <= BufLen - 1)
    <3>1. Len(buf') = Len(buf) + n
      BY <1>8, <1>10
    <3> QED BY <1>2, <1>3, <1>4, <1>10, <2>2, <3>1
  <2>6. /\ net' \in Seq(Byte) /\ buf' \in Seq(Byte) /\ readLen' \in Nat /\ retrieve' \in Nat
        /\ remain' = << >> /\ (pc' = "close" <=> mode = "close")
    BY <1>2, <1>10
  <2> QED BY <1>1, <1>2, <1>10, <2>2, <2>4, <2>5, <2>6, StepRuns
<1>11. ASSUME n <= Room, ~(Len(data) >= readLen), retrieve' = retrieve - Len(data),
              NEW k \in Nat, k <= Len(net), k <= BufLen - 1 - Len(s),
              data' = Take(k), net' = Drop(net, k), buf' = s, readLen' = readLen - Len(data),
              UNCHANGED <<pc, result, got, remain>>
       PROVE  HttpInv'
  <2>1. n = Len(data) /\ retrieve' \in Nat /\ readLen' \in Nat /\ readLen' = retrieve'
    BY <1>2, <1>3, <1>7, <1>11
  <2>2. Drop(data, n) \o net = net
    BY <1>2, <2>1, AllOfData
  <2>3. data' \in Seq(Byte) /\ Len(data') = k /\ net' \in Seq(Byte)
    BY <1>2, <1>11, TakeFacts, DropFacts DEF Take
  <2>4. data' \o net' = net
    BY <1>2, <1>11, TakeDrop DEF Take
  <2>5. NewPlace = "inside"
    BY <1>1, <1>11 DEF NewPlace
  <2>6. Reading(mode, body, got \o buf', data' \o net', retrieve', NewPlace, ~setup.cut)
    BY <1>9, <1>11, <2>1, <2>2, <2>4, <2>5
  <2>7. Len(buf') <= BufLen - 1 /\ Len(data') + Len(buf') <= BufLen - 1
    <3>1. Len(buf') = Len(s) /\ Len(s) = Len(buf) + n
      BY <1>8, <1>11
    <3> QED BY <1>2, <1>3, <1>11, <2>3, <3>1
  <2>8. /\ pc' = "copy" /\ buf' \in Seq(Byte) /\ remain' = << >> /\ (pc' = "close" <=> mode = "close")
    BY <1>1, <1>2, <1>11
  <2> QED BY <1>1, <1>2, <1>11, <2>1, <2>3, <2>6, <2>7, <2>8, StepRuns
<1>12. ASSUME ~(Len(data) >= readLen), retrieve' = retrieve - Len(data), Return("CLOSED", << >>),
              UNCHANGED <<net, remain>>
       PROVE  HttpInv'
  <2>1. << >> \in Seq(Byte) /\ retrieve' \in Nat /\ net' \in Seq(Byte) /\ mode # "close"
    BY <1>2, <1>3, <1>12
  <2> QED BY <1>1, <1>2, <1>12, <2>1, ReturnDead
<1>12a. ASSUME ~(Len(data) >= readLen), retrieve' = retrieve - Len(data), Fails(<< >>),
               UNCHANGED remain
        PROVE  HttpInv'
  <2>1. << >> \in Seq(Byte) /\ retrieve' \in Nat
    BY <1>2, <1>3, <1>12a
  <2> QED BY <1>1, <1>2, <1>12a, <2>1, FailsInv
<1>13. ASSUME ~(n < Room \/ (n = Room /\ readLen <= Len(data))), remain' = SubSeq(data, Room + 1, n),
              retrieve' = retrieve - Room, Return("MORE", buf \o SubSeq(data, 1, Room)), UNCHANGED net
       PROVE  HttpInv'
  <2>0. PICK room \in Nat : room = Room
    BY <1>3, Zenon
  <2>1. Len(data) <= room \/ Len(data) <= retrieve
    <3>1. CASE ChunkSize <= BufLen
      BY <1>4, <2>0, <3>1
    <3>2. CASE ~(ChunkSize <= BufLen)
      <4>1. mode = "length"
        BY <3>2, SoundFacts DEF HttpInv, HttpTypeOK
      <4>2. PICK g \in Seq(Byte), t \in Seq(Byte), full \in BOOLEAN :
               /\ g = got \o buf /\ t = data \o net /\ full = ~setup.cut /\ Len(t) = Len(data) + Len(net)
        <5>1. got \o buf \in Seq(Byte) /\ (~setup.cut) \in BOOLEAN
          BY <1>2, JoinFacts
        <5>2. data \o net \in Seq(Byte) /\ Len(data \o net) = Len(data) + Len(net)
          BY <1>2, JoinFacts
        <5> QED BY <5>1, <5>2, Zenon
      <4>3. Reading(mode, body, g, t, retrieve, "inside", full)
        <5>1. Live /\ Place = "inside" /\ Stream = t /\ Given = g
          BY <1>1, <1>2, <4>2 DEF Live, Place, Fresh, Stream, Held, Given
        <5> QED BY <4>2, <5>1 DEF HttpInv, Reads
      <4>4. Len(t) <= retrieve
        BY <1>2, <4>1, <4>3, ReadingLength
      <4>5. Len(data) <= retrieve
        BY <1>2, <1>3, <4>2, <4>4
      <4> QED BY <4>5
    <3> QED BY <3>1, <3>2
  <2>2. /\ n = Len(data) /\ room <= Len(data) /\ room < retrieve
        /\ retrieve - room \in Nat /\ retrieve - room > 0 /\ (Len(data) <= room => room = Len(data))
    <3>1. ~(n < room \/ (n = room /\ retrieve <= Len(data)))
      BY <1>2, <1>13, <2>0, Zenon
    <3> QED BY <1>2, <1>3, <1>7, <2>1, <3>1, TooLittleRoom
  <2>3. remain' = Drop(data, room) /\ retrieve' = retrieve - room
    BY <1>13, <2>0, <2>2 DEF Drop
  <2>4. /\ buf \o SubSeq(data, 1, room) \in Seq(Byte)
        /\ Drop(data, room) \in Seq(Byte) /\ Len(Drop(data, room)) = Len(data) - room
        /\ Reading(mode, body, got \o (buf \o SubSeq(data, 1, room)), Drop(data, room) \o net,
                   retrieve - room, "inside", ~setup.cut)
    <3>1. room <= retrieve
      BY <1>2, <2>2
    <3> QED BY <1>5, <2>2, <3>1, Zenon
  <2>5. PICK block \in Seq(Byte) : block = buf \o SubSeq(data, 1, room)
    BY <2>4, Zenon
  <2>6. Reading(mode, body, got \o block, remain' \o net', retrieve', "inside", ~setup.cut)
    BY <1>13, <2>3, <2>4, <2>5, Zenon
  <2>7. remain' # << >> => ~(ChunkSize <= BufLen)
    <3>1. PICK t \in Seq(Byte) : t = remain' /\ Len(t) = Len(data) - room
      BY <2>3, <2>4, Zenon
    <3>2. Len(t) = 0 => t = << >>
      BY EmptySeq
    <3>3. ChunkSize <= BufLen => Len(t) = 0
      BY <1>3, <1>4, <2>0, <2>2, <3>1
    <3> QED BY <3>1, <3>2, <3>3, Zenon
  <2>8. Return("MORE", block) /\ net' \in Seq(Byte) /\ remain' \in Seq(Byte) /\ retrieve' \in Nat /\ retrieve' > 0
    BY <1>2, <1>13, <2>0, <2>2, <2>3, <2>4, <2>5
  <2> QED BY <1>1, <2>6, <2>7, <2>8, StepMore
<1>14. CASE n < Room \/ (n = Room /\ readLen <= Len(data))
  <2>1. CopyRest(s) /\ UNCHANGED remain /\ n <= Room
    <3>1. CopyRest(buf \o SubSeq(data, 1, n)) /\ UNCHANGED remain
      BY <1>6, <1>14, Zenon DEF Copy
    <3> QED BY <1>3, <1>8, <1>14, <3>1
  <2>2. CASE Len(data) >= readLen
    BY <1>10, <2>1, <2>2, Zenon DEF CopyRest
  <2>3. CASE ~(Len(data) >= readLen)
    <3> DEFINE left == readLen - Len(data)
               max == Smaller(Smaller(ChunkSize - 1, BufLen - 1 - Len(s)), left)
    <3>1. max <= BufLen - 1 - Len(s) /\ max \in Nat /\ max >= 1
      <4>1. Len(s) \in Nat /\ left \in Nat /\ left >= 1
        BY <1>2, <1>3, <2>3
      <4>2. BufLen - 1 - Len(s) \in Nat /\ BufLen - 1 - Len(s) >= 1
        BY <1>2, <1>3, <1>8, <1>14, <2>3
      <4>3. ChunkSize - 1 \in Nat /\ ChunkSize - 1 >= 1
        BY <1>2
      <4> HIDE DEF left
      <4> QED BY <4>1, <4>2, <4>3 DEF Smaller
    <3>2. /\ retrieve' = retrieve - Len(data)
          /\ \/ \E k \in Received(1, max) :
                 /\ data' = Take(k) /\ net' = Drop(net, k) /\ buf' = s /\ readLen' = left
                 /\ UNCHANGED <<pc, result, got>>
             \/ Received(1, max) = {} /\ Return("CLOSED", << >>) /\ UNCHANGED net
             \/ Fails(<< >>)
      BY <2>1, <2>3, Zenon DEF CopyRest
    <3> HIDE DEF max
    <3>3. ASSUME NEW k \in Received(1, max), data' = Take(k), net' = Drop(net, k), buf' = s, readLen' = left,
                 UNCHANGED <<pc, result, got>>
          PROVE  HttpInv'
      <4>1. k \in Nat /\ k <= Len(net) /\ k <= BufLen - 1 - Len(s)
        <5>1. k \in Nat /\ k <= Len(net) /\ (k <= 1 \/ k <= max)
          BY <1>3, <3>1, <3>3, ReceivedBounds
        <5>2. Len(s) \in Nat
          OBVIOUS
        <5> QED BY <1>2, <3>1, <5>1, <5>2
      <4> QED BY <1>11, <2>1, <2>3, <3>2, <3>3, <4>1
    <3> QED BY <1>12, <1>12a, <2>1, <2>3, <3>2, <3>3
  <2> QED BY <2>2, <2>3
<1> QED BY <1>6, <1>13, <1>14, Zenon DEF Copy

\* Behind a chunk, or behind a body with a length.
LEMMA AtAfter ==
    ASSUME HttpInv, pc = "after"
    PROVE  /\ Reading(mode, body, got \o buf, data \o net, 0, "inside", ~setup.cut)
           /\ net \in Seq(Byte) /\ data \in Seq(Byte) /\ buf \in Seq(Byte) /\ got \in Seq(Byte)
           /\ body \in Seq(Byte) /\ readLen \in Nat /\ req > 0 /\ remain = << >> /\ retrieve = 0
           /\ (mode = "length" \/ mode = "chunked") /\ Len(buf) <= BufLen - 1
           /\ ChunkSize \in Nat /\ ChunkSize >= 2 /\ BufLen \in Nat /\ setup.cut \in BOOLEAN
<1>1. /\ net \in Seq(Byte) /\ data \in Seq(Byte) /\ buf \in Seq(Byte) /\ got \in Seq(Byte)
      /\ body \in Seq(Byte) /\ readLen \in Nat /\ req > 0 /\ remain = << >> /\ retrieve = 0
      /\ (mode = "length" \/ mode = "chunked") /\ Len(buf) <= BufLen - 1
      /\ ChunkSize \in Nat /\ ChunkSize >= 2 /\ BufLen \in Nat /\ setup.cut \in BOOLEAN
  BY SetupFacts DEF HttpInv, HttpTypeOK, Places
<1>2. Live /\ Place = "inside" /\ Stream = data \o net /\ Given = got \o buf
  BY <1>1 DEF Live, Place, Fresh, Stream, Held, Given
<1>3. Reading(mode, body, got \o buf, data \o net, 0, "inside", ~setup.cut)
  BY <1>1, <1>2 DEF HttpInv, Reads
<1> QED BY <1>1, <1>3

\* The CR LF behind a chunk that is in d.
LEMMA CrLfInData ==
    ASSUME NEW b \in Seq(Byte), NEW g \in Seq(Byte), NEW d \in Seq(Byte), NEW t \in Seq(Byte),
           NEW full \in BOOLEAN, Reading("chunked", b, g, d \o t, 0, "inside", full)
    PROVE  /\ Len(d) >= 2 => /\ d[1] = CR /\ d[2] = LF
                             /\ Drop(d, 2) \in Seq(Byte) /\ Len(Drop(d, 2)) = Len(d) - 2
                             /\ Reading("chunked", b, g, Drop(d, 2) \o t, 0, "header", full)
           /\ full => Len(d) + Len(t) >= 2
<1>1. PICK s \in Seq(Byte) : s = d \o t /\ Len(s) = Len(d) + Len(t) /\ \A i \in 1 .. Len(d) : s[i] = d[i]
  BY JoinFacts
<1>2. Reading("chunked", b, g, s, 0, "inside", full)
  BY <1>1
<1>3. /\ Len(s) >= 2 => /\ s[1] = CR /\ s[2] = LF
                        /\ \A r : Reading("chunked", b, g, Drop(s, 2), r, "header", full)
      /\ full => Len(s) >= 2
  BY <1>2, ReadingCrLf
<1>4. Len(d) \in Nat /\ Len(t) \in Nat
  OBVIOUS
<1>5. ASSUME Len(d) >= 2
      PROVE  /\ d[1] = CR /\ d[2] = LF
             /\ Drop(d, 2) \in Seq(Byte) /\ Len(Drop(d, 2)) = Len(d) - 2
             /\ Reading("chunked", b, g, Drop(d, 2) \o t, 0, "header", full)
  <2>1. 2 \in Nat /\ 2 <= Len(d) /\ Len(s) >= 2 /\ 1 \in 1 .. Len(d) /\ 2 \in 1 .. Len(d)
    BY <1>1, <1>4, <1>5
  <2>2. Drop(d, 2) \in Seq(Byte) /\ Len(Drop(d, 2)) = Len(d) - 2
    BY <2>1, DropFacts
  <2>3. Drop(d, 2) \o t = Drop(d \o t, 2)
    BY <2>1, TakeOut
  <2>4. Reading("chunked", b, g, Drop(s, 2), 0, "header", full)
    BY <1>3, <2>1
  <2>5. d[1] = CR /\ d[2] = LF
    BY <1>1, <1>3, <2>1
  <2> QED BY <1>1, <2>2, <2>3, <2>4, <2>5
<1>6. full => Len(d) + Len(t) >= 2
  BY <1>1, <1>3
<1> QED BY <1>5, <1>6

\* The end of a chunk, or of the body.
LEMMA AfterInv ==
    ASSUME HttpInv, After, UNCHANGED setup
    PROVE  HttpInv'
<1>1. pc = "after" /\ UNCHANGED <<body, mode, retrieve, remain, req>>
  BY DEF After
<1>2. /\ Reading(mode, body, got \o buf, data \o net, 0, "inside", ~setup.cut)
      /\ net \in Seq(Byte) /\ data \in Seq(Byte) /\ buf \in Seq(Byte) /\ got \in Seq(Byte)
      /\ body \in Seq(Byte) /\ readLen \in Nat /\ req > 0 /\ remain = << >> /\ retrieve = 0
      /\ (mode = "length" \/ mode = "chunked") /\ Len(buf) <= BufLen - 1
      /\ ChunkSize \in Nat /\ ChunkSize >= 2 /\ BufLen \in Nat /\ setup.cut \in BOOLEAN
  BY <1>1, AtAfter
<1>3. PICK g \in Seq(Byte), full \in BOOLEAN : g = got \o buf /\ full = ~setup.cut
  <2>1. got \o buf \in Seq(Byte) /\ (~setup.cut) \in BOOLEAN
    BY <1>2, JoinFacts
  <2> QED BY <2>1, Zenon
<1>4. Reading(mode, body, g, data \o net, 0, "inside", full)
  BY <1>2, <1>3
<1>5. CASE mode # "chunked"
  <2>1. Return("OK", buf) /\ UNCHANGED net
    BY <1>5 DEF After
  <2>2. data \o net \in Seq(Byte) /\ mode = "length"
    BY <1>2, <1>5, JoinFacts
  <2>3. g = body
    BY <1>2, <1>4, <2>2, ReadingEnds
  <2>4. got' = body /\ net' \in Seq(Byte) /\ retrieve' \in Nat
    BY <1>1, <1>2, <1>3, <2>1, <2>3 DEF Return
  <2> QED BY <1>1, <1>2, <2>1, <2>4, ReturnDead
<1>6. CASE mode = "chunked"
  <2> DEFINE ns == IF Len(data) < 2 THEN Received(2 - Len(data), DataRoom) ELSE {0}
  <2>1. \/ ns = {} /\ Return("CLOSED", << >>) /\ UNCHANGED net
        \/ Fails(<< >>)
        \/ \E n \in ns :
             /\ net' = Drop(net, n)
             /\ LET d == data \o Take(n) IN
                 IF Len(d) >= 2 /\ d[1] = CR /\ d[2] = LF
                 THEN /\ pc' = "loop" /\ data' = Drop(d, 2)
                      /\ UNCHANGED <<buf, readLen, result, got>>
                 ELSE Return("PRTCL", << >>)
    BY <1>6, Zenon DEF After
  <2>2. CASE Return("CLOSED", << >>) /\ UNCHANGED net
    <3>1. << >> \in Seq(Byte) /\ net' \in Seq(Byte) /\ retrieve' \in Nat
      BY <1>1, <1>2, <2>2
    <3> QED BY <1>1, <1>2, <1>6, <2>2, <3>1, ReturnDead
  <2>3. ASSUME NEW n \in ns, net' = Drop(net, n),
               LET d == data \o Take(n) IN
                 IF Len(d) >= 2 /\ d[1] = CR /\ d[2] = LF
                 THEN /\ pc' = "loop" /\ data' = Drop(d, 2)
                      /\ UNCHANGED <<buf, readLen, result, got>>
                 ELSE Return("PRTCL", << >>)
        PROVE  HttpInv'
    <3>1. Len(data) \in Nat /\ Len(buf) \in Nat /\ Len(net) \in Nat /\ Room = BufLen - 1 - Len(buf)
      BY <1>2 DEF Room
    <3>2. /\ n \in Nat /\ n <= Len(net)
          /\ n = 0 \/ (Len(data) < 2 /\ (n <= BufLen - 1 - Len(buf) \/ n <= 2 - Len(data)))
      <4>1. CASE Len(data) < 2
        <5>1. DataRoom \in Nat /\ DataRoom <= BufLen - 1 - Len(buf) /\ 2 - Len(data) \in Nat
          BY <1>2, <3>1, <4>1 DEF DataRoom, Smaller
        <5>2. n \in Received(2 - Len(data), DataRoom)
          BY <2>3, <4>1
        <5>3. n \in Nat /\ n <= Len(net) /\ (n <= 2 - Len(data) \/ n <= DataRoom)
          BY <3>1, <5>1, <5>2, ReceivedBounds
        <5> QED BY <1>2, <3>1, <4>1, <5>1, <5>3
      <4>2. CASE ~(Len(data) < 2)
        <5>1. n = 0
          BY <2>3, <4>2
        <5> QED BY <3>1, <5>1
      <4> QED BY <4>1, <4>2
    <3>3. PICK x \in Seq(Byte) : x = SubSeq(net, 1, n) /\ Len(x) = n
      BY <1>2, <3>2, TakeFacts
    <3>4. PICK d \in Seq(Byte) : d = data \o x /\ Len(d) = Len(data) + n
      <4>1. \A y \in Seq(Byte) : data \o y \in Seq(Byte) /\ Len(data \o y) = Len(data) + Len(y)
        BY <1>2, JoinFacts
      <4>2. data \o x \in Seq(Byte) /\ Len(data \o x) = Len(data) + n
        BY <3>3, <4>1
      <4> QED BY <4>2, Zenon
    <3>5. net' \in Seq(Byte) /\ d \o net' = data \o net
      <4>1. net' \in Seq(Byte)
        BY <1>2, <2>3, <3>2, DropFacts
      <4>2. (data \o SubSeq(net, 1, n)) \o Drop(net, n) = data \o net
        BY <1>2, <3>2, ReadMore
      <4> QED BY <2>3, <3>3, <3>4, <4>1, <4>2
    <3>6. \/ Len(d) >= 2 /\ pc' = "loop" /\ data' = Drop(d, 2) /\ UNCHANGED <<buf, readLen, result, got>>
          \/ Return("PRTCL", << >>)
      <4>1. d = data \o Take(n)
        BY <3>3, <3>4 DEF Take
      <4> QED BY <2>3, <4>1, Zenon
    <3>7. CASE Return("PRTCL", << >>)
      <4>1. << >> \in Seq(Byte) /\ retrieve' \in Nat
        BY <1>1, <1>2
      <4> QED BY <1>1, <1>2, <3>5, <3>7, <4>1, ReturnDead
    <3>8. CASE Len(d) >= 2 /\ pc' = "loop" /\ data' = Drop(d, 2) /\ UNCHANGED <<buf, readLen, result, got>>
      <4>1. PICK t \in Seq(Byte) : t = net'
        BY <3>5, Zenon
      <4>1a. Reading("chunked", body, g, d \o t, 0, "inside", full)
        BY <1>4, <1>6, <3>5, <4>1
      <4>1b. body \in Seq(Byte) /\ Len(d) >= 2
        BY <1>2, <3>8
      <4>1c. /\ Drop(d, 2) \in Seq(Byte) /\ Len(Drop(d, 2)) = Len(d) - 2
             /\ Reading("chunked", body, g, Drop(d, 2) \o t, 0, "header", full)
        BY <4>1a, <4>1b, CrLfInData
      <4>2. /\ Drop(d, 2) \in Seq(Byte) /\ Len(Drop(d, 2)) = Len(d) - 2
            /\ Reading("chunked", body, g, Drop(d, 2) \o net', 0, "header", full)
        BY <4>1, <4>1c, Zenon
      <4>3. NewPlace = "header"
        BY <1>1, <1>2, <1>6, <3>8 DEF NewPlace
      <4>4. Reading(mode, body, got \o buf', data' \o net', retrieve', NewPlace, ~setup.cut)
        BY <1>1, <1>2, <1>3, <1>6, <3>8, <4>2, <4>3
      <4>5. ChunkSize <= BufLen => Len(data') + Len(buf') <= BufLen - 1
        <5>1. ChunkSize <= BufLen => Len(data) + Len(buf) <= BufLen - 1
          BY <1>1 DEF HttpInv, Bounded
        <5>2. Len(data') = Len(d) - 2 /\ buf' = buf
          BY <3>8, <4>2, Zenon
        <5>3. Len(buf') = Len(buf)
          BY <5>2, Zenon
        <5>4. Len(data') = Len(data) + n - 2
          <6>1. Len(d) - 2 = Len(data) + n - 2
            BY <3>1, <3>2, <3>4
          <6> QED BY <5>2, <6>1, Zenon
        <5> QED BY <1>2, <3>1, <3>2, <5>1, <5>3, <5>4
      <4>6. /\ data' \in Seq(Byte) /\ buf' \in Seq(Byte) /\ readLen' \in Nat /\ retrieve' \in Nat
            /\ remain' = << >> /\ Len(buf') <= BufLen - 1 /\ (pc' = "close" <=> mode = "close")
        BY <1>1, <1>2, <1>6, <3>8, <4>2
      <4> QED BY <1>1, <1>2, <3>5, <3>8, <4>4, <4>5, <4>6, StepRuns
    <3> QED BY <3>6, <3>7, <3>8
  <2>4. CASE Fails(<< >>)
    <3>1. << >> \in Seq(Byte) /\ retrieve' \in Nat
      BY <1>1, <1>2
    <3> QED BY <1>1, <1>2, <2>4, <3>1, FailsInv
  <2> HIDE DEF ns
  <2> QED BY <2>1, <2>2, <2>3, <2>4, Zenon
<1> QED BY <1>5, <1>6

\* A step that changes nothing.
LEMMA StutterInv ==
    ASSUME HttpInv, UNCHANGED vars
    PROVE  HttpInv'
  BY DEF HttpInv, vars, exchange, client, HttpTypeOK, Places, Bounded, Live, Reads, OkMeansWhole, Given, Held,
         Stream, Fresh, Place, ChunkSize, BufLen

\* Every step preserves the invariant.
LEMMA NextHttpInv ==
    ASSUME HttpInv, [HttpNext]_vars, \A s \in Setups : Sound(s)
    PROVE  HttpInv'
<1>1. CASE UNCHANGED vars
  BY <1>1, StutterInv
<1>2. CASE HttpNext
  <2>1. UNCHANGED setup
    BY <1>2 DEF HttpNext
  <2>2. CASE Request
    BY <2>1, <2>2, RequestInv
  <2>3. CASE FirstCall
    BY <2>1, <2>3, FirstCallInv
  <2>4. CASE NextCall
    BY <2>1, <2>4, NextCallInv
  <2>5. CASE UntilClose
    BY <2>1, <2>5, UntilCloseInv
  <2>6. CASE Loop
    BY <2>1, <2>6, LoopInv
  <2>7. CASE Header
    BY <2>1, <2>7, HeaderInv
  <2>8. CASE ReadHeader
    BY <2>1, <2>8, ReadHeaderInv
  <2>9. CASE Copy
    BY <2>1, <2>9, CopyInv
  <2>10. CASE After
    BY <2>1, <2>10, AfterInv
  <2> QED BY <1>2, <2>2, <2>3, <2>4, <2>5, <2>6, <2>7, <2>8, <2>9, <2>10 DEF HttpNext, Retrieve
<1> QED BY <1>1, <1>2

\* HTTPCLIENT_OK means that the blocks the caller was given are the body, whole and in
\* order, whatever the pieces the response is received in, for bodies, requests and buffers
\* of any number and size: if HTTPCLIENT_CHUNK_SIZE is not larger than response_buf_len (as
\* in the demo), or the client reads only responses with a length and all of each.
THEOREM OkIsWhole == (\A s \in Setups : Sound(s)) => (HttpSpec => []OkMeansWhole)
<1> SUFFICES ASSUME \A s \in Setups : Sound(s) PROVE HttpSpec => []OkMeansWhole
  OBVIOUS
<1>1. HttpInit => HttpInv
  BY InitHttpInv
<1>2. HttpInv /\ [HttpNext]_vars => HttpInv'
  BY NextHttpInv
<1>3. HttpInv => OkMeansWhole
  BY DEF HttpInv
<1> QED BY <1>1, <1>2, <1>3, PTL DEF HttpSpec
-----------------------------------------------------------------------------
(* A complete response that response_buf has room for. *)

Fits == ~setup.cut /\ mode # "close" /\ Len(body) + (IF mode = "chunked" THEN 4 ELSE 1) < BufLen

\* Nothing but HTTPCLIENT_OK is returned, and so all of it by one call.
FitsInv ==
    Fits => /\ pc = "idle" => result \in {"none", "OK"}
            /\ pc # "idle" => got = << >>

\* A call that goes on without a block given, or returns HTTPCLIENT_OK.
LEMMA FitsStep ==
    ASSUME UNCHANGED <<body, mode, setup>>,
           Fits => \/ pc' # "idle" /\ got' = << >>
                   \/ pc' = "idle" /\ result' \in {"none", "OK"}
    PROVE  FitsInv'
<1>1. Fits' = Fits
  BY DEF Fits, BufLen
<1> QED BY <1>1 DEF FitsInv

\* During the call the buffer has room for the rest of the body, and for what the headers
\* and the CR LF of a chunk need.
LEMMA RoomFacts ==
    ASSUME HttpInv, FitsInv, Fits, pc # "idle"
    PROVE  /\ got = << >> /\ body \in Seq(Byte) /\ buf \in Seq(Byte) /\ data \in Seq(Byte) /\ net \in Seq(Byte)
           /\ Len(got \o buf) = Len(buf) /\ got \o buf \in Seq(Byte)
           /\ BufLen \in Nat /\ ChunkSize \in Nat /\ ChunkSize >= 2 /\ Room = BufLen - 1 - Len(buf)
           /\ Len(buf) <= Len(body) /\ Len(body) < BufLen - 1
           /\ (mode = "length" \/ mode = "chunked")
           /\ mode = "chunked" => Room >= 4
           /\ (~setup.cut) = TRUE
<1>1. /\ got \in Seq(Byte) /\ buf \in Seq(Byte) /\ data \in Seq(Byte) /\ net \in Seq(Byte)
      /\ body \in Seq(Byte) /\ setup \in Setups /\ mode \in setup.modes
  BY DEF HttpInv, HttpTypeOK
<1>2. /\ BufLen \in Nat /\ ChunkSize \in Nat /\ ChunkSize >= 2 /\ mode \in {"length", "chunked", "close"}
      /\ setup.cut \in BOOLEAN
  BY <1>1, SetupFacts
<1>3. got = << >> /\ mode # "close" /\ ~setup.cut
  BY DEF FitsInv, Fits
<1>4. got \o buf \in Seq(Byte) /\ Len(got \o buf) = Len(got) + Len(buf) /\ Len(got) = 0 /\ Len(buf) \in Nat
  BY <1>1, <1>3, JoinFacts
<1>5. Len(got \o buf) = Len(buf)
  BY <1>4
<1>6. Begins(got \o buf, body)
  <2>1. Live /\ Given = got \o buf
    BY DEF Live, Given, HttpInv, Places
  <2> QED BY <2>1 DEF HttpInv, Reads, Reading
<1>7. Len(buf) <= Len(body) /\ Len(body) \in Nat
  BY <1>1, <1>5, <1>6 DEF Begins
<1>8. mode = "chunked" => Len(body) + 4 < BufLen
  BY DEF Fits
<1>9. mode # "chunked" => Len(body) + 1 < BufLen
  BY DEF Fits
<1>10. Room = BufLen - 1 - Len(buf)
  BY DEF Room
<1>11. Len(body) < BufLen - 1
  <2>1. CASE mode = "chunked"
    BY <1>2, <1>7, <1>8, <2>1
  <2>2. CASE mode # "chunked"
    BY <1>2, <1>7, <1>9, <2>2
  <2> QED BY <2>1, <2>2
<1>12. ASSUME mode = "chunked" PROVE Room >= 4
  BY <1>2, <1>4, <1>7, <1>8, <1>10, <1>12
<1>13. (~setup.cut) = TRUE
  BY <1>2, <1>3
<1>14. mode = "length" \/ mode = "chunked"
  BY <1>2, <1>3
<1> QED BY <1>1, <1>2, <1>3, <1>4, <1>5, <1>7, <1>10, <1>11, <1>12, <1>13, <1>14

\* A header that has been read is one.
LEMMA HeaderFits ==
    ASSUME HttpInv, FitsInv, Header, UNCHANGED setup
    PROVE  FitsInv'
<1>1. pc = "header" /\ CrLfs # {} /\ UNCHANGED <<net, body, mode, remain, req>>
  BY DEF Header
<1> SUFFICES ASSUME Fits
             PROVE  \/ pc' # "idle" /\ got' = << >>
                    \/ pc' = "idle" /\ result' \in {"none", "OK"}
  BY <1>1, FitsStep
<1>2. /\ net \in Seq(Byte) /\ data \in Seq(Byte) /\ body \in Seq(Byte) /\ setup.cut \in BOOLEAN
      /\ Reading("chunked", body, got \o buf, data \o net, 0, "header", ~setup.cut)
  BY <1>1, AtHeader
<1>3. got = << >> /\ got \o buf \in Seq(Byte)
  BY <1>1, RoomFacts
<1>4. PICK g \in Seq(Byte), full \in BOOLEAN : g = got \o buf /\ full = ~setup.cut
  <2>1. (~setup.cut) \in BOOLEAN
    BY <1>2
  <2> QED BY <1>3, <2>1, Zenon
<1>5. Reading("chunked", body, g, data \o net, 0, "header", full)
  BY <1>2, <1>4
<1>6. /\ Len(data) >= 1 => data[1] # CR /\ Announces(body, g, data \o net, full) /\ (data \o net)[1] = data[1]
      /\ Len(data) >= 2 => data[2] = CR
      /\ Len(data) >= 3 => data[3] = LF
  BY <1>2, <1>5, HeaderBytes
<1>7. Len(data) >= 4
  BY <1>1, <1>2, <1>6, FindsCrLf
<1>8. Announces(body, g, data \o net, full) /\ (data \o net)[1] = data[1]
  BY <1>6, <1>7
<1>9. \E r \in Nat : data[1] = Digit(r)
  BY <1>8 DEF Announces
<1>10. data[1][1] = "size"
  BY <1>9, ByteFacts
<1>11. \/ Return("OK", buf)
       \/ pc' = "copy" /\ UNCHANGED got
  BY <1>10 DEF Header
<1>12. CASE Return("OK", buf)
  BY <1>12 DEF Return
<1>13. CASE pc' = "copy" /\ UNCHANGED got
  BY <1>3, <1>13
<1> QED BY <1>11, <1>12, <1>13

\* There is room to read the rest of a header.
LEMMA ReadHeaderFits ==
    ASSUME HttpInv, FitsInv, ReadHeader, UNCHANGED setup, ~setup.cut /\ mode = "chunked" => ChunkSize >= 8
    PROVE  FitsInv'
<1>1. pc = "header" /\ CrLfs = {} /\ UNCHANGED <<body, mode, retrieve, remain, req>>
  BY DEF ReadHeader
<1> SUFFICES ASSUME Fits
             PROVE  \/ pc' # "idle" /\ got' = << >>
                    \/ pc' = "idle" /\ result' \in {"none", "OK"}
  BY <1>1, FitsStep
<1>2. /\ net \in Seq(Byte) /\ data \in Seq(Byte) /\ body \in Seq(Byte) /\ setup.cut \in BOOLEAN
      /\ Reading("chunked", body, got \o buf, data \o net, 0, "header", ~setup.cut)
      /\ mode = "chunked"
  BY <1>1, AtHeader
<1>3. got = << >> /\ got \o buf \in Seq(Byte) /\ Room >= 4 /\ ChunkSize >= 8 /\ ChunkSize \in Nat
  <2>1. ~setup.cut
    BY DEF Fits
  <2> QED BY <1>1, <1>2, <2>1, RoomFacts
<1>4. PICK g \in Seq(Byte), full \in BOOLEAN : g = got \o buf /\ full = ~setup.cut
  <2>1. (~setup.cut) \in BOOLEAN
    BY <1>2
  <2> QED BY <1>3, <2>1, Zenon
<1>5. Reading("chunked", body, g, data \o net, 0, "header", full)
  BY <1>2, <1>4
<1>6. /\ Len(data) >= 1 => data[1] # CR
      /\ Len(data) >= 2 => data[2] = CR
      /\ Len(data) >= 3 => data[3] = LF
  BY <1>2, <1>5, HeaderBytes
<1>7. Len(data) <= 3
  BY <1>1, <1>2, <1>6, FindsCrLf
<1>8. Len(data) < DataRoom
  <2>1. Len(data) \in Nat
    BY <1>2
  <2>2. Room \in Int
    BY <1>1, RoomFacts
  <2> QED BY <1>3, <1>7, <2>1, <2>2 DEF DataRoom, Smaller
<1>9. UNCHANGED <<pc, got>>
  BY <1>8, Zenon DEF ReadHeader, Fails, Fits
<1> QED BY <1>1, <1>3, <1>9

\* The buffer has room for what is copied, and there is more when more is to be copied.
LEMMA CopyFits ==
    ASSUME HttpInv, FitsInv, Copy, UNCHANGED setup
    PROVE  FitsInv'
<1>1. pc = "copy" /\ UNCHANGED <<body, mode, more, req>>
  BY DEF Copy
<1> SUFFICES ASSUME Fits
             PROVE  \/ pc' # "idle" /\ got' = << >>
                    \/ pc' = "idle" /\ result' \in {"none", "OK"}
  BY <1>1, FitsStep
<1>2. /\ got = << >> /\ body \in Seq(Byte) /\ buf \in Seq(Byte) /\ data \in Seq(Byte) /\ net \in Seq(Byte)
      /\ Len(got \o buf) = Len(buf) /\ got \o buf \in Seq(Byte)
      /\ BufLen \in Nat /\ ChunkSize \in Nat /\ ChunkSize >= 2 /\ Room = BufLen - 1 - Len(buf)
      /\ Len(body) < BufLen - 1 /\ (mode = "length" \/ mode = "chunked") /\ (~setup.cut) = TRUE
  BY <1>1, RoomFacts
<1>3. retrieve \in Nat /\ readLen = retrieve
  BY <1>1 DEF HttpInv, HttpTypeOK, Places
<1>4. Reading(mode, body, got \o buf, data \o net, retrieve, "inside", ~setup.cut)
  <2>1. Live /\ Place = "inside" /\ Stream = data \o net /\ Given = got \o buf
    BY <1>1 DEF HttpInv, Places, Live, Place, Fresh, Stream, Held, Given
  <2> QED BY <2>1 DEF HttpInv, Reads
<1>5. Len(buf) + retrieve <= Len(body) /\ Len(data) + Len(net) >= retrieve
  <2>1. PICK g \in Seq(Byte), t \in Seq(Byte), full \in BOOLEAN : g = got \o buf /\ t = data \o net /\ full = ~setup.cut
    <3>1. got \o buf \in Seq(Byte) /\ data \o net \in Seq(Byte) /\ (~setup.cut) \in BOOLEAN
      BY <1>2, JoinFacts
    <3> QED BY <3>1, Zenon
  <2>2. Reading(mode, body, g, t, retrieve, "inside", full)
    BY <1>4, <2>1
  <2>3. /\ mode = "length" => Len(t) <= retrieve /\ Len(g) + retrieve = Len(body)
        /\ mode = "length" /\ full => Len(t) = retrieve
        /\ mode = "chunked" => Len(g) + retrieve <= Len(body)
        /\ mode = "chunked" /\ full => Len(t) >= retrieve + 2
    BY <1>2, <1>3, <2>2, ReadingLength
  <2>4. full /\ Len(g) = Len(buf) /\ Len(t) = Len(data) + Len(net)
    BY <1>2, <2>1, JoinFacts
  <2>5. Len(t) \in Nat /\ Len(g) \in Nat /\ Len(body) \in Nat
    BY <1>2
  <2>6. Len(g) + retrieve <= Len(body) /\ Len(t) >= retrieve
    BY <1>2, <1>3, <2>3, <2>4, <2>5
  <2> QED BY <2>4, <2>6
<1>6. Len(data) \in Nat /\ Len(net) \in Nat /\ Len(buf) \in Nat /\ Len(body) \in Nat
  BY <1>2
<1>7. PICK n \in Nat : n = Smaller(Len(data), readLen) /\ n <= Len(data) /\ n <= retrieve
  <2>1. Smaller(Len(data), readLen) \in Nat /\ Smaller(Len(data), readLen) <= Len(data) /\ Smaller(Len(data), readLen) <= retrieve
    BY <1>3, <1>6 DEF Smaller
  <2> QED BY <2>1, Zenon
<1>8. n < Room
  BY <1>2, <1>3, <1>5, <1>6, <1>7
<1>9. CopyRest(buf \o SubSeq(data, 1, n))
  BY <1>7, <1>8, Zenon DEF Copy
<1>10. PICK s \in Seq(Byte) : s = buf \o SubSeq(data, 1, n) /\ Len(s) = Len(buf) + n
  BY <1>1, <1>7, CopyDelivers
<1>11. CopyRest(s)
  BY <1>9, <1>10
<1>12. CASE Len(data) >= readLen
  <2>1. pc' = "after" /\ UNCHANGED got
    BY <1>11, <1>12 DEF CopyRest
  <2> QED BY <1>2, <2>1
<1>13. CASE ~(Len(data) >= readLen)
  <2> DEFINE left == readLen - Len(data)
             max == Smaller(Smaller(ChunkSize - 1, BufLen - 1 - Len(s)), left)
  <2>1. max \in Nat /\ max >= 1
    <3>1. ChunkSize - 1 \in Nat /\ ChunkSize - 1 >= 1
      BY <1>2
    <3>2. BufLen - 1 - Len(s) \in Nat /\ BufLen - 1 - Len(s) >= 1
      BY <1>2, <1>6, <1>8, <1>10
    <3>3. left \in Nat /\ left >= 1
      BY <1>3, <1>6, <1>13
    <3> HIDE DEF left
    <3>4. \A a, b, c \in Nat : a >= 1 /\ b >= 1 /\ c >= 1 =>
            Smaller(Smaller(a, b), c) \in Nat /\ Smaller(Smaller(a, b), c) >= 1
      BY DEF Smaller
    <3> QED BY <3>1, <3>2, <3>3, <3>4
  <2>2. 1 <= Len(net)
    BY <1>3, <1>5, <1>6, <1>13
  <2> HIDE DEF max
  <2>3. 1 \in Received(1, max)
    BY <1>6, <2>1, <2>2, LeastReceived
  <2>4. \/ \E k \in Received(1, max) : UNCHANGED <<pc, result, got>>
        \/ Received(1, max) = {}
    BY <1>11, <1>13, Zenon DEF CopyRest, max, Fails, Fits
  <2>5. UNCHANGED <<pc, got>>
    BY <2>3, <2>4
  <2> QED BY <1>1, <1>2, <2>5
<1> QED BY <1>12, <1>13

\* The CR LF behind a chunk is read and is one.
LEMMA AfterFits ==
    ASSUME HttpInv, FitsInv, After, UNCHANGED setup, ~setup.cut /\ mode = "chunked" => ChunkSize >= 8
    PROVE  FitsInv'
<1>1. pc = "after" /\ UNCHANGED <<body, mode, retrieve, remain, req>>
  BY DEF After
<1> SUFFICES ASSUME Fits
             PROVE  \/ pc' # "idle" /\ got' = << >>
                    \/ pc' = "idle" /\ result' \in {"none", "OK"}
  BY <1>1, FitsStep
<1>2. /\ got = << >> /\ body \in Seq(Byte) /\ data \in Seq(Byte) /\ net \in Seq(Byte) /\ buf \in Seq(Byte)
      /\ got \o buf \in Seq(Byte) /\ ChunkSize \in Nat /\ BufLen \in Nat /\ Room = BufLen - 1 - Len(buf)
      /\ (mode = "chunked" => Room >= 4) /\ (~setup.cut) = TRUE
  BY <1>1, RoomFacts
<1>3. CASE mode # "chunked"
  <2>1. Return("OK", buf)
    BY <1>3 DEF After
  <2> QED BY <2>1 DEF Return
<1>4. CASE mode = "chunked"
  <2> DEFINE ns == IF Len(data) < 2 THEN Received(2 - Len(data), DataRoom) ELSE {0}
  <2>0. Len(data) \in Nat /\ Len(net) \in Nat /\ Len(buf) \in Nat /\ ChunkSize >= 8
    BY <1>2, <1>4
  <2>1. PICK g \in Seq(Byte), full \in BOOLEAN : g = got \o buf /\ full = ~setup.cut
    <3>1. (~setup.cut) \in BOOLEAN
      BY <1>2
    <3> QED BY <1>2, <3>1, Zenon
  <2>2. full /\ Reading("chunked", body, g, data \o net, 0, "inside", full)
    BY <1>1, <1>2, <1>4, <2>1, AtAfter
  <2>3. Len(data) + Len(net) >= 2
    <3>1. data \o net \in Seq(Byte) /\ Len(data \o net) = Len(data) + Len(net)
      BY <1>2, JoinFacts
    <3>2. PICK s \in Seq(Byte) : s = data \o net /\ Len(s) = Len(data) + Len(net)
      BY <3>1, Zenon
    <3>3. Reading("chunked", body, g, s, 0, "inside", full) /\ body \in Seq(Byte)
      BY <1>2, <2>2, <3>2
    <3>4. full => Len(s) >= 2
      BY <3>3, ReadingCrLf
    <3> QED BY <2>2, <3>2, <3>4
  <2>4. ASSUME Len(data) < 2 PROVE DataRoom \in Nat /\ DataRoom >= 2
    BY <1>2, <1>4, <2>0, <2>4 DEF DataRoom, Smaller
  <2>5. ns # {}
    <3>1. CASE Len(data) < 2
      <4>0. 2 - Len(data) \in Nat /\ 2 - Len(data) <= DataRoom /\ 2 - Len(data) <= Len(net)
        BY <2>0, <2>3, <2>4, <3>1
      <4>1. 2 - Len(data) \in Received(2 - Len(data), DataRoom)
        BY <2>0, <2>4, <3>1, <4>0, LeastReceived
      <4> QED BY <3>1, <4>1
    <3>2. CASE ~(Len(data) < 2)
      BY <3>2
    <3> QED BY <3>1, <3>2
  <2>6. ASSUME NEW n \in ns PROVE n \in Nat /\ n <= Len(net) /\ Len(data) + n >= 2
    <3>1. CASE Len(data) < 2
      <4>1. n \in Received(2 - Len(data), DataRoom) /\ 2 - Len(data) \in Nat
        BY <2>0, <2>6, <3>1
      <4>2. n \in Nat /\ n <= Len(net) /\ (n >= 2 - Len(data) \/ n >= DataRoom)
        BY <2>0, <2>4, <3>1, <4>1, ReceivedBounds
      <4> QED BY <2>0, <2>4, <3>1, <4>2
    <3>2. CASE ~(Len(data) < 2)
      <4>1. n = 0
        BY <2>6, <3>2
      <4> QED BY <2>0, <3>2, <4>1
    <3> QED BY <3>1, <3>2
  <2>7. \/ ns = {}
        \/ \E n \in ns :
             /\ net' = Drop(net, n)
             /\ LET d == data \o Take(n) IN
                 IF Len(d) >= 2 /\ d[1] = CR /\ d[2] = LF
                 THEN /\ pc' = "loop" /\ data' = Drop(d, 2)
                      /\ UNCHANGED <<buf, readLen, result, got>>
                 ELSE Return("PRTCL", << >>)
    BY <1>4, Zenon DEF After, Fails, Fits
  <2> HIDE DEF ns
  <2>8. PICK n \in ns :
             LET d == data \o Take(n) IN
                 IF Len(d) >= 2 /\ d[1] = CR /\ d[2] = LF
                 THEN /\ pc' = "loop" /\ data' = Drop(d, 2)
                      /\ UNCHANGED <<buf, readLen, result, got>>
                 ELSE Return("PRTCL", << >>)
    BY <2>5, <2>7, Zenon
  <2>9. n \in Nat /\ n <= Len(net) /\ Len(data) + n >= 2
    BY <2>6
  <2>10. PICK x \in Seq(Byte), t \in Seq(Byte) : x = SubSeq(net, 1, n) /\ Len(x) = n /\ t = Drop(net, n)
    <3>1. SubSeq(net, 1, n) \in Seq(Byte) /\ Len(SubSeq(net, 1, n)) = n /\ Drop(net, n) \in Seq(Byte)
      BY <1>2, <2>9, TakeFacts, DropFacts
    <3> QED BY <3>1, Zenon
  <2>11. PICK d \in Seq(Byte) : d = data \o x /\ Len(d) = Len(data) + n
    <3>1. \A y \in Seq(Byte) : data \o y \in Seq(Byte) /\ Len(data \o y) = Len(data) + Len(y)
      BY <1>2, JoinFacts
    <3>2. data \o x \in Seq(Byte) /\ Len(data \o x) = Len(data) + n
      BY <2>10, <3>1
    <3> QED BY <3>2, Zenon
  <2>12. d \o t = data \o net
    <3>1. (data \o SubSeq(net, 1, n)) \o Drop(net, n) = data \o net
      BY <1>2, <2>9, ReadMore
    <3> QED BY <2>10, <2>11, <3>1
  <2>13. Reading("chunked", body, g, d \o t, 0, "inside", full)
    BY <2>2, <2>12
  <2>14. Len(d) >= 2
    BY <2>9, <2>11
  <2>15. d[1] = CR /\ d[2] = LF
    BY <1>2, <2>13, <2>14, CrLfInData
  <2>16. d = data \o Take(n)
    BY <2>10, <2>11 DEF Take
  <2>17. pc' = "loop" /\ UNCHANGED got
    BY <2>8, <2>14, <2>15, <2>16, Zenon
  <2> QED BY <1>2, <2>17
<1> QED BY <1>3, <1>4

\* A data buffer that is never too short for what is read of the header of a chunk.
Roomy(s) == ~s.cut /\ "chunked" \in s.modes => s.chunkSize >= 8

\* Every step.
LEMMA NextFits ==
    ASSUME HttpInv, FitsInv, [HttpNext]_vars, \A s \in Setups : Roomy(s)
    PROVE  FitsInv'
<1>1. CASE UNCHANGED vars
  BY <1>1 DEF FitsInv, Fits, BufLen, vars, exchange, client
<1>2. CASE HttpNext
  <2>1. UNCHANGED setup
    BY <1>2 DEF HttpNext
  <2>2. ~setup.cut /\ mode = "chunked" => ChunkSize >= 8
    BY DEF HttpInv, HttpTypeOK, Roomy, ChunkSize
  <2>3. CASE Request
    <3>1. pc' = "idle" /\ result' = "none"
      BY <2>3 DEF Request
    <3> QED BY <3>1 DEF FitsInv
  <2>4. CASE FirstCall
    <3>1. pc' # "idle" /\ got' = got /\ UNCHANGED <<body, mode>> /\ pc = "idle" /\ result = "none"
      BY <2>4 DEF FirstCall
    <3>2. got = << >>
      BY <3>1 DEF HttpInv, Places, Fresh
    <3> QED BY <2>1, <3>1, <3>2, FitsStep
  <2>5. CASE NextCall
    <3>1. pc = "idle" /\ result = "MORE" /\ UNCHANGED <<body, mode>>
      BY <2>5 DEF NextCall
    <3>2. ~Fits
      BY <3>1 DEF FitsInv
    <3> QED BY <2>1, <3>1, <3>2, FitsStep
  <2>6. CASE UntilClose
    <3>1. pc = "close" /\ UNCHANGED <<body, mode>>
      BY <2>6 DEF UntilClose
    <3>2. ~Fits
      BY <3>1 DEF HttpInv, Places, Fits
    <3> QED BY <2>1, <3>1, <3>2, FitsStep
  <2>7. CASE Loop
    <3>1. pc # "idle" /\ pc' # "idle" /\ UNCHANGED <<body, mode, got>>
      BY <2>7 DEF Loop
    <3> QED BY <2>1, <3>1, FitsStep DEF FitsInv
  <2>8. CASE Header
    BY <2>1, <2>8, HeaderFits
  <2>9. CASE ReadHeader
    BY <2>1, <2>2, <2>9, ReadHeaderFits
  <2>10. CASE Copy
    BY <2>1, <2>10, CopyFits
  <2>11. CASE After
    BY <2>1, <2>2, <2>11, AfterFits
  <2> QED BY <1>2, <2>3, <2>4, <2>5, <2>6, <2>7, <2>8, <2>9, <2>10, <2>11 DEF HttpNext, Retrieve
<1> QED BY <1>1, <1>2

\* A complete response that fits in response_buf (with four bytes to spare, if it is sent
\* in chunks) is delivered by the first call, whatever the pieces it is received in: no
\* HTTPCLIENT_RETRIEVE_MORE_DATA, no error, no HTTPCLIENT_CLOSED.  With chunks,
\* HTTPCLIENT_CHUNK_SIZE has to be 8 at least (it is 512), or a header is given up.
THEOREM FitsIsOk ==
    (\A s \in Setups : Sound(s) /\ Roomy(s)) => (HttpSpec => []CompleteIsOk)
<1> SUFFICES ASSUME \A s \in Setups : Sound(s) /\ Roomy(s) PROVE HttpSpec => []CompleteIsOk
  OBVIOUS
<1>1. HttpInit => HttpInv /\ FitsInv
  BY InitHttpInv DEF HttpInit, FitsInv
<1>2. HttpInv /\ FitsInv /\ [HttpNext]_vars => (HttpInv /\ FitsInv)'
  BY NextHttpInv, NextFits
<1>3. HttpInv /\ FitsInv => CompleteIsOk
  BY DEF CompleteIsOk, FitsInv, Fits
<1> QED BY <1>1, <1>2, <1>3, PTL DEF HttpSpec
=============================================================================
