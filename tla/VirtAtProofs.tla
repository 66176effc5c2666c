--------------------------- MODULE VirtAtProofs ---------------------------
(***************************************************************************)
(* The length of the virtual AT buffer, for every size, number of polls    *)
(* and attempts, and any amount of unsolicited output.                     *)
(***************************************************************************)
EXTENDS VirtAt, SequenceTheorems, TLAPS

\* What is read is made of symbols, and the length stays within the buffer.
StreamsOK ==
    /\ out \in Seq(Symbol) /\ got \in Seq(Symbol) /\ received \in Seq(Symbol)
    /\ len \in 0 .. Size /\ mutex \in BOOLEAN
    /\ at \in {"wait", "reset", "get", "add"}

\* The mutex is held exactly between the copy and the addition: what was copied fits
\* behind the valid symbols, and the length is the one it was copied to.
AppendOK ==
    /\ mutex <=> at = "add"
    /\ at = "add" => base = len /\ len + Len(got) <= Size

VirtAtInv == StreamsOK /\ AppendOK /\ LenIsReceived /\ RoomForGet

LEMMA VirtAtInitInv == VirtAtInit => VirtAtInv
  <1> SUFFICES ASSUME VirtAtInit PROVE VirtAtInv
    OBVIOUS
  <1>1. << >> \in Seq(Symbol) /\ Len(<< >>) = 0
    BY EmptySeq
  <1> QED
    BY <1>1, VirtAtAssumption
    DEF VirtAtInit, VirtAtInv, StreamsOK, AppendOK, LenIsReceived, RoomForGet

LEMMA AnswersAreSymbols ==
    ASSUME NEW cmd, NEW a \in Answers(cmd)
    PROVE  a \in Seq(Symbol)
  <1>1. \A x \in Symbol : <<x>> \in Seq(Symbol)
    OBVIOUS
  <1>2. \A x, y \in Symbol : <<x, y>> \in Seq(Symbol)
    OBVIOUS
  <1> QED  BY <1>1, <1>2 DEF Answers, Symbol

\* The steps of the main task that neither empty the buffer nor append to it.
LEMMA MainKeeps ==
    ASSUME Send \/ Poll \/ Replace \/ Terminate \/ Search
    PROVE  UNCHANGED <<out, got, received, len, mutex, at, base>>
  BY DEF Send, Poll, Replace, Terminate, Search, chan, modem

\* Every step keeps the length right.
LEMMA VirtAtStep == VirtAtInv /\ [VirtAtNext]_vars => VirtAtInv'
  <1> SUFFICES ASSUME VirtAtInv, [VirtAtNext]_vars PROVE VirtAtInv'
    OBVIOUS
  <1> USE VirtAtAssumption DEF VirtAtInv, StreamsOK, AppendOK, LenIsReceived, RoomForGet
  <1>0. << >> \in Seq(Symbol) /\ Len(<< >>) = 0
    BY EmptySeq
  <1>1. CASE Answer
    <2>1. PICK a \in Answers(Head(asked)) : out' = out \o a
      BY <1>1 DEF Answer
    <2>2. out' \in Seq(Symbol)
      BY <2>1, AnswersAreSymbols, ConcatProperties
    <2> QED  BY <1>1, <2>2 DEF Answer, chan, main
  <1>2. CASE Unsolicited
    <2>1. out' \in Seq(Symbol)
      BY <1>2, AppendProperties DEF Unsolicited, Symbol
    <2> QED  BY <1>2, <2>1 DEF Unsolicited, chan, main
  <1>3. CASE SignalWait
    BY <1>3 DEF SignalWait, chan, modem
  <1>4. CASE Reset
    BY <1>0, <1>4 DEF Reset, modem
  <1>5. CASE Get
    <2>1. PICK count \in 0 .. Len(out) :
            /\ count <= Size - len
            /\ got' = SubSeq(out, 1, count) /\ out' = SubSeq(out, count + 1, Len(out))
            /\ base' = len
      BY <1>5 DEF Get
    <2>2. got' \in Seq(Symbol) /\ out' \in Seq(Symbol) /\ Len(got') = count
      BY <2>1, SubSeqProperties, LenProperties
    <2> QED  BY <1>5, <2>1, <2>2 DEF Get
  <1>6. CASE Add
    <2>1. len' = len + Len(got) /\ received' = received \o got
      BY <1>6 DEF Add
    <2>2. received' \in Seq(Symbol) /\ Len(received') = Len(received) + Len(got)
      BY <2>1, ConcatProperties
    <2>3. Len(got) \in Nat
      BY LenProperties
    <2>4. at' = "wait" /\ mutex' = FALSE /\ got' = << >> /\ out' = out
      BY <1>6 DEF Add, modem
    <2>5. len' \in 0 .. Size /\ len' = Len(received')
      BY <1>6, <2>1, <2>2, <2>3 DEF Add
    <2> QED  BY <1>0, <2>2, <2>4, <2>5
  <1>7. CASE Clear
    BY <1>0, <1>7 DEF Clear, modem
  <1>8. CASE Send \/ Poll \/ Replace \/ Terminate \/ Search
    BY <1>8, MainKeeps
  <1>9. CASE UNCHANGED vars
    BY <1>9 DEF vars, chan, modem
  <1> QED
    BY <1>1, <1>2, <1>3, <1>4, <1>5, <1>6, <1>7, <1>8, <1>9 DEF VirtAtNext, AtTask, Main

\* A clear is never undone by an append that is under way, and virt_at_len always
\* counts what was read since.
THEOREM LenCorrect == VirtAtSpec => []LenIsReceived
  <1>1. VirtAtInv => LenIsReceived
    BY DEF VirtAtInv
  <1> QED  BY <1>1, VirtAtInitInv, VirtAtStep, PTL DEF VirtAtSpec

\* Every read of virture_at_task has room, although the length is tested outside
\* the mutex.
THEOREM RoomCorrect == VirtAtSpec => []RoomForGet
  <1>1. VirtAtInv => RoomForGet
    BY DEF VirtAtInv
  <1> QED  BY <1>1, VirtAtInitInv, VirtAtStep, PTL DEF VirtAtSpec
=============================================================================
