--------------------------- MODULE CmdLoopProofs ---------------------------
(***************************************************************************)
(* Proofs about the command console, for every number of lines and every   *)
(* size of the driver's FIFO and of uart_buf.                              *)
(***************************************************************************)
EXTENDS CmdLoop, SequenceTheorems, TLAPS

USE MaxLinesAssumption, RxCapAssumption, BufCapAssumption

\* onemo_uart_receive splits the FIFO: what it takes fits the room it is
\* given, and both parts are sequences of lines no longer than the FIFO.
LEMMA ReceiveSplits ==
    ASSUME NEW room \in Nat, rx \in Seq(Line)
    PROVE  /\ Taken(room) \in Seq(Line) /\ Len(Taken(room)) <= room
           /\ Left(room) \in Seq(Line)  /\ Len(Left(room)) <= Len(rx)
<1> DEFINE k == Smaller(room, Len(rx))
<1>1. k \in 0..Len(rx) /\ k <= room
  BY LenProperties DEF Smaller
<1>2. /\ SubSeq(rx, 1, k) \in Seq(Line)
      /\ Len(SubSeq(rx, 1, k)) = k
  <2>1. \A i \in 1..k : rx[i] \in Line
    BY <1>1, ElementOfSeq, LenProperties
  <2> QED BY <1>1, <2>1, LenProperties
<1>3. /\ SubSeq(rx, k + 1, Len(rx)) \in Seq(Line)
      /\ Len(SubSeq(rx, k + 1, Len(rx))) <= Len(rx)
  <2>1. \A i \in (k + 1)..Len(rx) : rx[i] \in Line
    BY <1>1, ElementOfSeq, LenProperties
  <2> QED BY <1>1, <2>1, LenProperties
<1> QED BY <1>1, <1>2, <1>3 DEF Taken, Left

\* What is stored into uart_buf behind at lines leaves a buffer of lines.
LEMMA StoredFits ==
    ASSUME NEW at \in 0..BufCap, NEW lines \in Seq(Line), at + Len(lines) <= BufCap,
           uart_buf \in [1..BufCap -> Line \cup {NoCmd}],
           \A i \in 1..at : uart_buf[i] \in Line
    PROVE  /\ Stored(at, lines) \in [1..BufCap -> Line \cup {NoCmd}]
           /\ at + Len(lines) \in 0..BufCap
           /\ \A i \in 1..(at + Len(lines)) : Stored(at, lines)[i] \in Line
<1>1. Len(lines) \in Nat /\ at \in Nat /\ BufCap \in Nat
  BY LenProperties
<1>2. \A i \in (at + 1)..(at + Len(lines)) : lines[i - at] \in Line
  <2> TAKE i \in (at + 1)..(at + Len(lines))
  <2>1. i - at \in 1..Len(lines)
    BY <1>1
  <2> QED BY <2>1, ElementOfSeq
<1>3. Stored(at, lines) \in [1..BufCap -> Line \cup {NoCmd}]
  BY <1>1, <1>2 DEF Stored
<1>4. ASSUME NEW i \in 1..(at + Len(lines)) PROVE Stored(at, lines)[i] \in Line
  <2>1. i \in 1..BufCap /\ (i \in 1..at \/ i \in (at + 1)..(at + Len(lines)))
    BY <1>1, <1>4
  <2> QED BY <1>1, <1>2, <2>1 DEF Stored
<1> QED BY <1>1, <1>3, <1>4

\* A reader of cmd_buf finds a parsed command unless it leads nowhere; it is
\* read from the heap, never from uart_buf.
LEMMA CommandRead ==
    ASSUME TypeOK
    PROVE  \/ cmd_buf = Nowhere /\ Command = NoCmd
           \/ /\ cmd_buf.area = "heap" /\ cmd_buf.at \in 1..Len(heap)
              /\ Command = heap[cmd_buf.at] /\ Command \in Parsed
<1>1. CASE cmd_buf = Nowhere
  BY <1>1 DEF Nowhere, Command
<1>2. CASE cmd_buf # Nowhere
  <2>1. PICK k \in 1..Len(heap) : cmd_buf = Copy(k)
    BY <1>2 DEF TypeOK
  <2>2. cmd_buf.area = "heap" /\ cmd_buf.at = k
    BY <2>1 DEF Copy
  <2>3. heap[k] \in Parsed
    BY ElementOfSeq DEF TypeOK
  <2> QED BY <2>2, <2>3 DEF Command
<1> QED BY <1>1, <1>2

\* The console's variables keep their types; the FIFO and uart_buf are never
\* filled beyond their sizes.
THEOREM TypeCorrect == Spec => []TypeOK
<1>1. Init => TypeOK
  <2>1. /\ << >> \in Seq(Line) /\ << >> \in Seq(Parsed \cup {NoCmd})
        /\ << >> \in Seq(Parsed) /\ Len(<< >>) = 0
    OBVIOUS
  <2>2. 0 <= RxCap /\ 0 \in 0..BufCap /\ 0 \in 0..MaxLines /\ 1..0 = {}
    OBVIOUS
  <2>3. [i \in 1..BufCap |-> NoCmd] \in [1..BufCap -> Line \cup {NoCmd}]
    OBVIOUS
  <2> QED BY <2>1, <2>2, <2>3 DEF Init, TypeOK, UartPc, MainPc
<1>2. TypeOK /\ [Next]_vars => TypeOK'
  <2> SUFFICES ASSUME TypeOK, [Next]_vars PROVE TypeOK'
    OBVIOUS
  <2> USE DEF TypeOK, UartPc, MainPc, driver, input, parsed, handOver, main
  <2>1. ASSUME NEW kind \in Kind, Arrive(kind) PROVE TypeOK'
    <3>1. rx' \in Seq(Line) /\ Len(rx') <= RxCap
      <4>1. [n |-> sent + 1, kind |-> kind] \in Line
        BY <2>1 DEF Arrive, Line
      <4> QED BY <2>1, <4>1 DEF Arrive
    <3> QED BY <2>1, <3>1 DEF Arrive
  <2>2. CASE UartCallback
    BY <2>2 DEF UartCallback
  <2>3. CASE UartTask
    <3>1. CASE Poll            BY <3>1 DEF Poll
    <3>2. CASE Receive
      <4>1. BufCap \in Nat /\ 0 \in 0..BufCap /\ Len(Taken(BufCap)) \in Nat
        BY ReceiveSplits, LenProperties
      <4>2. /\ Stored(0, Taken(BufCap)) \in [1..BufCap -> Line \cup {NoCmd}]
            /\ 0 + Len(Taken(BufCap)) \in 0..BufCap
            /\ \A i \in 1..(0 + Len(Taken(BufCap))) :
                    Stored(0, Taken(BufCap))[i] \in Line
        <5>1. \A i \in 1..0 : uart_buf[i] \in Line
          OBVIOUS
        <5>2. /\ Taken(BufCap) \in Seq(Line)
              /\ 0 + Len(Taken(BufCap)) <= BufCap
          BY <4>1, ReceiveSplits
        <5>3. uart_buf \in [1..BufCap -> Line \cup {NoCmd}]
          OBVIOUS
        <5> HIDE DEF TypeOK
        <5> QED BY <4>1, <5>1, <5>2, <5>3, StoredFits
      <4>3. Left(BufCap) \in Seq(Line) /\ Len(Left(BufCap)) <= RxCap
        BY <4>1, ReceiveSplits, LenProperties
      <4> QED BY <3>2, <4>1, <4>2, <4>3 DEF Receive
    <3>3. CASE ReceiveMore
      <4> DEFINE room == BufCap - uart_buf_len
      <4>1. uart_buf_len \in Nat /\ BufCap \in Nat /\ uart_buf_len <= BufCap
        OBVIOUS
      <4>2. room \in Nat /\ uart_buf_len + room = BufCap
        BY <4>1
      <4> HIDE DEF room
      <4>3. /\ Taken(room) \in Seq(Line) /\ Len(Taken(room)) <= room
            /\ Left(room) \in Seq(Line) /\ Len(Left(room)) <= Len(rx)
        BY <4>2, ReceiveSplits
      <4>4. uart_buf_len + Len(Taken(room)) <= BufCap
        BY <4>1, <4>2, <4>3, LenProperties
      <4>5. /\ Stored(uart_buf_len, Taken(room)) \in [1..BufCap -> Line \cup {NoCmd}]
            /\ uart_buf_len + Len(Taken(room)) \in 0..BufCap
            /\ \A i \in 1..(uart_buf_len + Len(Taken(room))) :
                    Stored(uart_buf_len, Taken(room))[i] \in Line
        BY <4>3, <4>4, StoredFits
      <4>6. Len(Left(room)) <= RxCap
        BY <4>3, LenProperties
      <4> QED BY <3>3, <4>3, <4>5, <4>6 DEF ReceiveMore, room
    <3>4. CASE TryLock         BY <3>4 DEF TryLock
    <3>5. CASE Busy            BY <3>5 DEF Busy
    <3>6. CASE Engine
      <4>1. /\ heap' \in Seq(Parsed)
            /\ cmd_buf' \in {Nowhere} \cup {Copy(k) : k \in 1..Len(heap')}
            /\ uartpc' \in UartPc
        <5>1. CASE EngineFails
          BY <5>1 DEF EngineFails
        <5>2. ASSUME NEW i \in WellFormed,
                     heap' = Append(heap, uart_buf[i]), cmd_buf' = Copy(Len(heap) + 1),
                     uartpc' = "signal"
              PROVE  /\ heap' \in Seq(Parsed)
                     /\ cmd_buf' \in {Nowhere} \cup {Copy(k) : k \in 1..Len(heap')}
                     /\ uartpc' \in UartPc
          <6>1. uart_buf[i] \in Parsed
            BY DEF WellFormed, Parsed
          <6>2. heap' \in Seq(Parsed) /\ Len(heap') = Len(heap) + 1
            BY <5>2, <6>1, AppendProperties
          <6>3. Len(heap) + 1 \in 1..Len(heap')
            BY <6>2, LenProperties
          <6> QED BY <5>2, <6>2, <6>3
        <5> QED BY <3>6, <5>1, <5>2 DEF Engine
      <4>2. uart_buf_len' = 0 /\ 0 \in 0..BufCap /\ 1..0 = {}
        BY <3>6 DEF Engine
      <4> QED BY <3>6, <4>1, <4>2 DEF Engine
    <3>7. CASE ReleaseOnError  BY <3>7 DEF ReleaseOnError
    <3>8. CASE Signal          BY <3>8 DEF Signal
    <3>9. CASE ClearFlag       BY <3>9 DEF ClearFlag
    <3> QED BY <2>3, <3>1, <3>2, <3>3, <3>4, <3>5, <3>6, <3>7, <3>8, <3>9
            DEF UartTask
  <2>4. CASE MainTask
    <3>1. CASE ExecuteCmd
      BY <3>1, CommandRead, AppendProperties DEF ExecuteCmd
    <3> QED BY <2>4, <3>1 DEF MainTask, CreateTask, CreateMutex, UartInit, Startup,
                        SignalWait, MainRelease
  <2>5. CASE UNCHANGED vars
    BY <2>5 DEF vars
  <2> QED BY <2>1, <2>2, <2>3, <2>4, <2>5 DEF Next
<1> QED BY <1>1, <1>2, PTL DEF Spec

-----------------------------------------------------------------------------
\* The strengthening that makes the hand-over inductive: before the port is
\* open nothing has arrived, so the receive task has not left its poll, and
\* the mutex is missing exactly in the first two steps of the start-up.
BootOrder ==
    /\ (cmd_mutex = "null") <=> (mainpc \in {"create_task", "create_mutex"})
    /\ (uartpc = "absent") <=> (mainpc = "create_task")
    /\ ~PortOpen => /\ uartpc \in {"absent", "poll"}
                    /\ data_arrived = 0 /\ ~event /\ ~notified

HandOverInv == TypeOK /\ BootOrder /\ MutexHandOver

LEMMA HandOverInitially == Init => BootOrder /\ MutexHandOver
BY DEF Init, BootOrder, MutexHandOver, UartHolds, MainHolds, PortOpen

LEMMA HandOverStep ==
    TypeOK /\ TypeOK' /\ BootOrder /\ MutexHandOver /\ [Next]_vars
        => BootOrder' /\ MutexHandOver'
<1> SUFFICES ASSUME TypeOK, TypeOK', BootOrder, MutexHandOver, [Next]_vars
             PROVE  BootOrder' /\ MutexHandOver'
  OBVIOUS
<1> USE DEF BootOrder, MutexHandOver, UartHolds, MainHolds, PortOpen, driver,
            input, parsed, handOver, main
<1>0. cmd_mutex \in {"null", "free", "taken"} /\ notified \in BOOLEAN
      /\ event \in BOOLEAN
  BY DEF TypeOK
<1>1. ASSUME NEW kind \in Kind, Arrive(kind) PROVE BootOrder' /\ MutexHandOver'
  BY <1>0, <1>1 DEF Arrive
<1>2. CASE UartCallback
  BY <1>0, <1>2 DEF UartCallback
<1>3. CASE UartTask
  <2>1. CASE Poll            BY <1>0, <2>1 DEF Poll
  <2>2. CASE Receive         BY <1>0, <2>2 DEF Receive
  <2>3. CASE ReceiveMore     BY <1>0, <2>3 DEF ReceiveMore
  <2>4. CASE TryLock         BY <1>0, <2>4 DEF TryLock
  <2>5. CASE Busy            BY <1>0, <2>5 DEF Busy
  <2>6. CASE Engine          BY <1>0, <2>6 DEF Engine, EngineFails
  <2>7. CASE ReleaseOnError  BY <1>0, <2>7 DEF ReleaseOnError
  <2>8. CASE Signal          BY <1>0, <2>8 DEF Signal
  <2>9. CASE ClearFlag       BY <1>0, <2>9 DEF ClearFlag
  <2> QED BY <1>3, <2>1, <2>2, <2>3, <2>4, <2>5, <2>6, <2>7, <2>8, <2>9 DEF UartTask
<1>4. CASE MainTask
  <2>1. CASE CreateTask      BY <1>0, <2>1 DEF CreateTask
  <2>2. CASE CreateMutex     BY <1>0, <2>2 DEF CreateMutex
  <2>3. CASE UartInit        BY <1>0, <2>3 DEF UartInit
  <2>4. CASE Startup         BY <1>0, <2>4 DEF Startup
  <2>5. CASE SignalWait      BY <1>0, <2>5 DEF SignalWait
  <2>6. CASE ExecuteCmd      BY <1>0, <2>6 DEF ExecuteCmd
  <2>7. CASE MainRelease     BY <1>0, <2>7 DEF MainRelease
  <2> QED BY <1>4, <2>1, <2>2, <2>3, <2>4, <2>5, <2>6, <2>7 DEF MainTask
<1>5. CASE UNCHANGED vars
  BY <1>0, <1>5 DEF vars
<1> QED BY <1>1, <1>2, <1>3, <1>4, <1>5 DEF Next

LEMMA HandOverInvariant == Spec => []HandOverInv
BY HandOverInitially, TypeCorrect, HandOverStep, PTL DEF Spec, HandOverInv

\* cmd_mutex, taken by the receive task and released by the main task, is
\* taken exactly while one and only one party answers for it.
THEOREM HandOverSafe == Spec => []MutexHandOver
BY HandOverInvariant, PTL DEF HandOverInv

\* Although the receive task is created first, it never uses cmd_mutex before
\* osMutexCreate has returned.
THEOREM MutexAlwaysExists == Spec => []MutexExistsWhenUsed
<1>1. HandOverInv => MutexExistsWhenUsed
  BY DEF HandOverInv, BootOrder, MutexExistsWhenUsed, PortOpen
<1> QED BY <1>1, HandOverInvariant, PTL

-----------------------------------------------------------------------------
\* While a command is handed over or executing, only steps that leave cmd_buf
\* and the copy it leads to alone are possible: the parser's step needs the
\* mutex the command holds, and lines are received into uart_buf only.
LEMMA CommandStableStep ==
    ASSUME HandOverInv, [Next]_vars, notified \/ MainHolds
    PROVE  Command' = Command
<1>1. uartpc # "engine"
  BY DEF HandOverInv, MutexHandOver, UartHolds
<1>2. cmd_buf' = cmd_buf /\ heap' = heap
  BY <1>1 DEF Next, vars, UartTask, MainTask, Arrive, UartCallback, Poll,
          Receive, ReceiveMore, TryLock, Busy, Engine, ReleaseOnError, Signal,
          ClearFlag, CreateTask, CreateMutex, UartInit, Startup, SignalWait,
          ExecuteCmd, MainRelease, handOver, parsed
<1>3. cmd_buf.area \in {"none", "heap"}
  BY CommandRead DEF HandOverInv, Nowhere
<1> QED BY <1>2, <1>3 DEF Command

\* No line that arrives later changes the command the main task reads.
THEOREM CommandIsStable == Spec => CommandStable
<1>1. HandOverInv /\ [Next]_vars
        => [notified \/ MainHolds => Command' = Command]_vars
  BY CommandStableStep
<1> QED BY <1>1, HandOverInvariant, PTL DEF Spec, CommandStable

-----------------------------------------------------------------------------
\* What is handed over is a copy the parser made.
HandedIsParsed ==
    uartpc = "signal" \/ notified \/ mainpc = "execute" => cmd_buf # Nowhere

LEMMA HandedIsParsedStep ==
    HandOverInv /\ HandedIsParsed /\ [Next]_vars => HandedIsParsed'
<1> SUFFICES ASSUME HandOverInv, HandedIsParsed, [Next]_vars
             PROVE  HandedIsParsed'
  OBVIOUS
<1>1. CASE Engine
  <2>1. ~notified /\ mainpc # "execute"
    BY <1>1 DEF HandOverInv, MutexHandOver, UartHolds, MainHolds, Engine
  <2>2. Copy(Len(heap) + 1) # Nowhere
    BY DEF Copy, Nowhere
  <2> QED BY <1>1, <2>1, <2>2 DEF Engine, EngineFails, HandedIsParsed, main
<1>2. CASE ~Engine
  BY <1>2 DEF HandedIsParsed, Next, vars, UartTask, MainTask, Arrive, UartCallback,
     Poll, Receive, ReceiveMore, TryLock, Busy, ReleaseOnError, Signal, ClearFlag,
     CreateTask, CreateMutex, UartInit, Startup, SignalWait, ExecuteCmd,
     MainRelease, handOver, parsed, main, driver, input
<1> QED BY <1>1, <1>2

LEMMA HandedIsParsedInvariant == Spec => []HandedIsParsed
<1>1. Init => HandedIsParsed
  BY DEF Init, HandedIsParsed
<1> QED BY <1>1, HandedIsParsedStep, HandOverInvariant, PTL DEF Spec

\* Every step of the console is a step of the one-slot service or leaves the
\* slot and its history alone: the notification fills the slot, the main
\* task's dispatch empties it.
LEMMA SlotStep ==
    HandOverInv /\ HandedIsParsed /\ [Next]_vars => [Slot!SlotNext]_(Slot!slotVars)
<1> SUFFICES ASSUME HandOverInv, HandedIsParsed, [Next]_vars
             PROVE  [Slot!SlotNext]_(Slot!slotVars)
  OBVIOUS
<1> USE DEF Slot!SlotNext, Slot!slotVars, Slot!Accept, Slot!Execute
<1>0. /\ NoCmd \notin Parsed
      /\ uartpc = "signal" \/ notified \/ mainpc = "execute" => Command \in Parsed
  BY CommandRead DEF NoCmd, Parsed, Line, HandedIsParsed, HandOverInv
<1>c. cmd_buf' = cmd_buf /\ heap' = heap => Command' = Command
  <2>1. cmd_buf.area \in {"none", "heap"}
    BY CommandRead DEF HandOverInv, Nowhere
  <2> QED BY <2>1 DEF Command
<1>1. CASE Signal
  <2>1. ~notified /\ mainpc # "execute"
    BY <1>1 DEF HandOverInv, MutexHandOver, UartHolds, MainHolds, Signal
  <2> QED BY <1>0, <1>1, <1>c, <2>1 DEF Signal, main, parsed
<1>2. CASE ExecuteCmd
  <2>1. ~notified
    BY <1>2 DEF HandOverInv, MutexHandOver, MainHolds, ExecuteCmd
  <2> QED BY <1>0, <1>2, <2>1 DEF ExecuteCmd, handOver
<1>3. CASE SignalWait
  BY <1>3, <1>c DEF SignalWait, parsed
<1>4. CASE Engine
  <2>1. ~notified /\ mainpc # "execute"
    BY <1>4 DEF HandOverInv, MutexHandOver, UartHolds, MainHolds, Engine
  <2> QED BY <1>4, <2>1 DEF Engine, EngineFails, main
<1>5. CASE MainRelease
  <2>1. ~notified
    BY <1>5 DEF HandOverInv, MutexHandOver, MainHolds, MainRelease
  <2> QED BY <1>5, <2>1 DEF MainRelease
<1>6. CASE ~Signal /\ ~ExecuteCmd /\ ~SignalWait /\ ~Engine /\ ~MainRelease
  <2>1. /\ notified' = notified /\ executed' = executed
        /\ cmd_buf' = cmd_buf /\ heap' = heap
        /\ (mainpc' = "execute") <=> (mainpc = "execute")
    BY <1>6 DEF Next, vars, UartTask, MainTask, Arrive, UartCallback, Poll,
       Receive, ReceiveMore, TryLock, Busy, ReleaseOnError, ClearFlag, CreateTask,
       CreateMutex, UartInit, Startup, handOver, parsed, main
  <2> QED BY <1>c, <2>1
<1> QED BY <1>1, <1>2, <1>3, <1>4, <1>5, <1>6

\* One command is in service at a time, and each is executed exactly once as
\* it was accepted: the console implements CommandSlot.
THEOREM ConsoleImplementsSlot == Spec => OneCommandAtATime
<1>1. Init => Slot!SlotInit
  BY DEF Init, Slot!SlotInit
<1> QED BY <1>1, SlotStep, HandOverInvariant, HandedIsParsedInvariant, PTL
        DEF Spec, OneCommandAtATime, Slot!SlotSpec
=============================================================================
