------------------------------ MODULE CmdLoop ------------------------------
(***************************************************************************)
(* The command console: the UART driver's callback, uart_recv_task         *)
(* (src/src/demo/onemo_uart_demo.c) and onemo_main_task                    *)
(* (src/src/onemo_main.c).  The receive task reads a line, takes cmd_mutex *)
(* without waiting, lets onemo_cmd_engine parse the line and hands command *)
(* AND mutex over to the main task with a task notification; the main task *)
(* executes the command and releases the mutex the other task took.        *)
(*                                                                         *)
(* A line of input is a record [n, kind]: its number and what the parser   *)
(* makes of it.  The parser is external, src/prebuilt/components/          *)
(* cmd_engine.o: it allocates and fills a copy of every parameter (malloc, *)
(* memset, memcpy) and stores the copies' addresses in cmd_buf, an array   *)
(* of pointers.  Storage is modelled as such: uart_buf keeps its bytes     *)
(* until they are received over, the heap keeps the copies, and cmd_buf    *)
(* says where the command lies.                                            *)
(***************************************************************************)
EXTENDS Naturals, Sequences

CONSTANTS
    MaxLines,  \* lines the terminal sends (bound of the model)
    RxCap,     \* lines the driver's receive FIFO holds (rx_buf_size)
    BufCap     \* lines that fit into uart_buf (1024 bytes)

ASSUME MaxLinesAssumption == MaxLines \in Nat
ASSUME RxCapAssumption    == RxCap \in Nat \ {0}
ASSUME BufCapAssumption   == BufCap \in Nat \ {0}

VARIABLES
    rx,            \* the driver's receive FIFO
    event,         \* an ONEMO_UART_EVENT_RX_ARRIVED callback is due
    sent,          \* number of lines the terminal has sent
    data_arrived,  \* the flag the callback sets
    uart_buf,      \* the bytes of uart_buf, line by line
    uart_buf_len,  \* how many of them the receive task has just read
    cmd_mutex,     \* "null" before osMutexCreate, then "free" or "taken"
    heap,          \* the parser's copies of commands, oldest first
    cmd_buf,       \* where the parsed command lies (cmd_buf, cmd_len)
    notified,      \* notification 0x0004 pending for the main task
    uartpc,        \* where uart_recv_task is
    mainpc,        \* where onemo_main_task is
    executed       \* commands the main task has executed, oldest first

vars == <<rx, event, sent, data_arrived, uart_buf, uart_buf_len, cmd_mutex,
          heap, cmd_buf, notified, uartpc, mainpc, executed>>

driver   == <<rx, event, sent>>
input    == <<data_arrived, uart_buf, uart_buf_len>>
parsed   == <<heap, cmd_buf>>
handOver == <<cmd_mutex, heap, cmd_buf, notified>>
main     == <<mainpc, executed>>

\* "known": a command of cmd_vector; "undefined": parsed, but cmd_len < 2 or
\* no entry of cmd_vector; "malformed": onemo_cmd_engine returns -1.
Kind == {"known", "undefined", "malformed"}
Line == [n : 1..MaxLines, kind : Kind]
Parsed == {l \in Line : l.kind # "malformed"}
NoCmd == [n |-> 0, kind |-> "undefined"]

\* Where a command may lie: nowhere yet, in a copy on the heap, or in uart_buf.
Nowhere == [area |-> "none", at |-> 0]
Copy(k) == [area |-> "heap", at |-> k]
Slice(i) == [area |-> "uart_buf", at |-> i]

\* What a reader of cmd_buf finds there.
Command == CASE cmd_buf.area = "none"     -> NoCmd
             [] cmd_buf.area = "heap"     -> heap[cmd_buf.at]
             [] cmd_buf.area = "uart_buf" -> uart_buf[cmd_buf.at]

UartPc == {"absent", "poll", "receive", "more", "lock", "busy", "engine",
           "error", "signal", "clear"}
MainPc == {"create_task", "create_mutex", "uart_init", "startup",
           "wait", "execute", "release"}

Smaller(a, b) == IF a < b THEN a ELSE b

Init ==
    /\ rx = << >> /\ event = FALSE /\ sent = 0
    /\ data_arrived = 0
    /\ uart_buf = [i \in 1..BufCap |-> NoCmd] /\ uart_buf_len = 0
    /\ cmd_mutex = "null"
    /\ heap = << >> /\ cmd_buf = Nowhere
    /\ notified = FALSE
    /\ uartpc = "absent"
    /\ mainpc = "create_task"
    /\ executed = << >>

-----------------------------------------------------------------------------
(* The UART driver (external) and the callback it is given at line 110.    *)

\* onemo_uart_init is the last thing onemo_test_uart_init does.
PortOpen == mainpc \notin {"create_task", "create_mutex", "uart_init"}

\* A line reaches the driver once the port is open; a full FIFO loses it.
Arrive(kind) ==
    /\ PortOpen
    /\ sent < MaxLines
    /\ sent' = sent + 1
    /\ rx' = IF Len(rx) < RxCap
             THEN Append(rx, [n |-> sent + 1, kind |-> kind]) ELSE rx
    /\ event' = TRUE
    /\ UNCHANGED <<input, handOver, main, uartpc>>

\* test_oc_uart_cb: the driver's event callback only sets the flag.
UartCallback ==
    /\ event
    /\ event' = FALSE
    /\ data_arrived' = 1
    /\ UNCHANGED <<handOver, main, rx, sent, uart_buf, uart_buf_len, uartpc>>

-----------------------------------------------------------------------------
(* uart_recv_task                                                          *)

Poll ==
    /\ uartpc = "poll"
    /\ data_arrived = 1
    /\ uartpc' = "receive"
    /\ UNCHANGED <<driver, input, handOver, main>>

\* onemo_uart_receive moves what the FIFO holds, up to room lines.
Taken(room) == SubSeq(rx, 1, Smaller(room, Len(rx)))
Left(room)  == SubSeq(rx, Smaller(room, Len(rx)) + 1, Len(rx))

\* The lines land in uart_buf behind the first at lines; the rest of the
\* buffer keeps what it held.
Stored(at, lines) ==
    [i \in 1..BufCap |-> IF i \in (at + 1)..(at + Len(lines))
                         THEN lines[i - at] ELSE uart_buf[i]]

Receive ==
    /\ uartpc = "receive"
    /\ uart_buf' = Stored(0, Taken(BufCap))
    /\ uart_buf_len' = Len(Taken(BufCap))
    /\ rx' = Left(BufCap)
    /\ uartpc' = "more"
    /\ UNCHANGED <<handOver, main, event, sent, data_arrived>>

\* The inner loop reads on until the driver has nothing or uart_buf is full.
ReceiveMore ==
    /\ uartpc = "more"
    /\ LET room == BufCap - uart_buf_len IN
         /\ uart_buf' = Stored(uart_buf_len, Taken(room))
         /\ uart_buf_len' = uart_buf_len + Len(Taken(room))
         /\ rx' = Left(room)
         /\ uartpc' = IF room = 0 \/ rx = << >> THEN "lock" ELSE "more"
    /\ UNCHANGED <<handOver, main, event, sent, data_arrived>>

\* osMutexWait(cmd_mutex, 0): no waiting; a NULL mutex is a parameter error.
TryLock ==
    /\ uartpc = "lock"
    /\ IF cmd_mutex = "free"
       THEN cmd_mutex' = "taken" /\ uartpc' = "engine"
       ELSE UNCHANGED cmd_mutex  /\ uartpc' = "busy"
    /\ UNCHANGED <<driver, input, main, parsed, notified>>

\* A command is in service: the line is dropped and the terminal told "busy".
Busy ==
    /\ uartpc = "busy"
    /\ uart_buf_len' = 0
    /\ data_arrived' = 0
    /\ uartpc' = "poll"
    /\ UNCHANGED <<driver, handOver, main, uart_buf>>

\* onemo_cmd_engine parses the first well-formed line of those just read.
WellFormed == {i \in 1..uart_buf_len : uart_buf[i].kind # "malformed"}
Parses(i) == i \in WellFormed /\ \A j \in WellFormed : i <= j

\* It returns -1 when there is no such line (an empty buffer included) and
\* when malloc fails; the copies made so far are freed then.
EngineFails ==
    /\ uartpc' = "error"
    /\ cmd_buf' \in {cmd_buf, Nowhere}
    /\ UNCHANGED heap

\* Mutant: the parser leaves the parameters in the buffer it was given.
EngineInPlace ==
    /\ uartpc = "engine"
    /\ uart_buf_len' = 0
    /\ \/ EngineFails
       \/ \E i \in WellFormed :
            /\ Parses(i)
            /\ cmd_buf' = Slice(i)
            /\ uartpc' = "signal"
            /\ UNCHANGED heap
    /\ UNCHANGED <<driver, main, data_arrived, uart_buf, cmd_mutex, notified>>

\* onemo_cmd_engine (external): copies the line's parameters to the heap and
\* stores their addresses in cmd_buf.  Nobody frees the previous command's.
Engine ==
    /\ uartpc = "engine"
    /\ uart_buf_len' = 0
    /\ \/ EngineFails
       \/ \E i \in WellFormed :
            /\ Parses(i)
            /\ heap' = Append(heap, uart_buf[i])
            /\ cmd_buf' = Copy(Len(heap) + 1)
            /\ uartpc' = "signal"
    /\ UNCHANGED <<driver, main, data_arrived, uart_buf, cmd_mutex, notified>>

\* Mutant: the error path forgets osMutexRelease.
ReleaseOnErrorForgotten ==
    /\ uartpc = "error"
    /\ uartpc' = "clear"
    /\ UNCHANGED <<driver, input, handOver, main>>

\* The parser refused the line: the task gives the mutex back itself.
ReleaseOnError ==
    /\ uartpc = "error"
    /\ cmd_mutex' = "free"
    /\ uartpc' = "clear"
    /\ UNCHANGED <<driver, input, main, parsed, notified>>

\* osSignalSet(OC_Main_TaskHandle, 0x0004): sets a bit, counts nothing.
Signal ==
    /\ uartpc = "signal"
    /\ notified' = TRUE
    /\ uartpc' = "clear"
    /\ UNCHANGED <<driver, input, main, cmd_mutex, parsed>>

ClearFlag ==
    /\ uartpc = "clear"
    /\ data_arrived' = 0
    /\ uartpc' = "poll"
    /\ UNCHANGED <<driver, handOver, main, uart_buf, uart_buf_len>>

UartTask == Poll \/ Receive \/ ReceiveMore \/ TryLock \/ Busy \/ Engine
            \/ ReleaseOnError \/ Signal \/ ClearFlag

-----------------------------------------------------------------------------
(* onemo_main_task: onemo_test_uart_init, the rest of the start-up, loop.  *)

\* The receive task exists, and may run, before its mutex does.
CreateTask ==
    /\ mainpc = "create_task"
    /\ uartpc' = "poll"
    /\ mainpc' = "create_mutex"
    /\ UNCHANGED <<driver, input, handOver, executed>>

CreateMutex ==
    /\ mainpc = "create_mutex"
    /\ cmd_mutex' = "free"
    /\ mainpc' = "uart_init"
    /\ UNCHANGED <<driver, input, parsed, notified, uartpc, executed>>

\* onemo_uart_init registers the callback: input is possible from here on.
UartInit ==
    /\ mainpc = "uart_init"
    /\ mainpc' = "startup"
    /\ UNCHANGED <<driver, input, handOver, uartpc, executed>>

\* Mutant: the start-up drains notifications before it enters the loop.
StartupDraining ==
    /\ mainpc = "startup"
    /\ mainpc' = "wait"
    /\ notified' = FALSE
    /\ UNCHANGED <<driver, input, cmd_mutex, parsed, uartpc, executed>>

\* Version banner, virtual AT port, network registration (bounded retries).
Startup ==
    /\ mainpc = "startup"
    /\ mainpc' = "wait"
    /\ UNCHANGED <<driver, input, handOver, uartpc, executed>>

\* Mutant: the wait leaves the notification bit set.
SignalWaitSticky ==
    /\ mainpc = "wait"
    /\ notified
    /\ mainpc' = "execute"
    /\ UNCHANGED <<driver, input, handOver, uartpc, executed>>

\* osSignalWait(0x0004, osWaitForever) returns and clears the bit.
SignalWait ==
    /\ mainpc = "wait"
    /\ notified
    /\ notified' = FALSE
    /\ mainpc' = "execute"
    /\ UNCHANGED <<driver, input, cmd_mutex, parsed, uartpc, executed>>

\* The dispatch over cmd_vector: the handler, or "CMD NOT DEFINE".
ExecuteCmd ==
    /\ mainpc = "execute"
    /\ executed' = Append(executed, Command)
    /\ mainpc' = "release"
    /\ UNCHANGED <<driver, input, handOver, uartpc>>

\* Mutant: "CMD NOT DEFINE" continues the loop without releasing.
MainReleaseSkipped ==
    /\ mainpc = "release"
    /\ cmd_mutex' = IF Command.kind = "known" THEN "free" ELSE cmd_mutex
    /\ mainpc' = "wait"
    /\ UNCHANGED <<driver, input, parsed, notified, uartpc, executed>>

\* osMutexRelease of the mutex that the receive task took.
MainRelease ==
    /\ mainpc = "release"
    /\ cmd_mutex' = "free"
    /\ mainpc' = "wait"
    /\ UNCHANGED <<driver, input, parsed, notified, uartpc, executed>>

MainTask == CreateTask \/ CreateMutex \/ UartInit \/ Startup \/ SignalWait
            \/ ExecuteCmd \/ MainRelease

Next == (\E kind \in Kind : Arrive(kind)) \/ UartCallback \/ UartTask \/ MainTask

Spec == Init /\ [][Next]_vars

\* Both tasks have the same priority and are time-sliced; the driver delivers
\* the event it owes; command handlers return.
FairSpec == Spec /\ WF_vars(UartCallback) /\ WF_vars(UartTask) /\ WF_vars(MainTask)

-----------------------------------------------------------------------------
\* The values of the variables: the driver's FIFO and uart_buf stay within
\* their capacities, data_arrived is a flag, cmd_buf leads to a copy the
\* parser made, and what is executed was parsed.
TypeOK ==
    /\ rx \in Seq(Line) /\ Len(rx) <= RxCap
    /\ event \in BOOLEAN /\ sent \in 0..MaxLines
    /\ data_arrived \in {0, 1}
    /\ uart_buf \in [1..BufCap -> Line \cup {NoCmd}] /\ uart_buf_len \in 0..BufCap
    /\ \A i \in 1..uart_buf_len : uart_buf[i] \in Line
    /\ cmd_mutex \in {"null", "free", "taken"}
    /\ heap \in Seq(Parsed)
    /\ cmd_buf \in {Nowhere} \cup {Copy(k) : k \in 1..Len(heap)}
    /\ notified \in BOOLEAN
    /\ uartpc \in UartPc
    /\ mainpc \in MainPc
    /\ executed \in Seq(Parsed \cup {NoCmd})

\* Who answers for a taken mutex: the receive task between taking it and
\* handing it over, the pending notification, or the main task.
UartHolds == uartpc \in {"engine", "error", "signal"}
MainHolds == mainpc \in {"execute", "release"}

\* cmd_mutex is taken in one task and released in another (onemo_uart_demo.c
\* lines 56-72, onemo_main.c lines 98-120): it is taken exactly while one
\* party answers for it, and never two do, so no release frees a mutex that
\* another command relies on and no command is left without one.
MutexHandOver ==
    /\ (cmd_mutex = "taken") <=> (UartHolds \/ notified \/ MainHolds)
    /\ ~(UartHolds /\ notified) /\ ~(UartHolds /\ MainHolds)
    /\ ~(notified /\ MainHolds)

\* The receive task is created before its mutex (lines 103-104), yet never
\* tries to take a mutex that does not exist: no input before the port opens.
MutexExistsWhenUsed ==
    uartpc \notin {"absent", "poll"} => cmd_mutex # "null"

\* The parsed command belongs to the main task from the notification until
\* the mutex is released: what it reads through cmd_buf stays the same,
\* although the receive task takes later lines into uart_buf (line 45) before
\* it tries the mutex (line 56) and parses into the same cmd_buf (line 63).
CommandStable ==
    [][notified \/ MainHolds => Command' = Command]_vars

\* The abstract service: its slot is full from the notification until the
\* command has been executed.
Slot == INSTANCE CommandSlot WITH
            Commands <- Parsed,
            Nothing <- NoCmd,
            slot <- IF notified \/ mainpc = "execute" THEN Command ELSE NoCmd,
            done <- executed

\* One command in service at a time, each executed exactly once and with the
\* text it was accepted with, although uart_recv_task and onemo_main_task
\* share cmd_buf: the console implements CommandSlot.
OneCommandAtATime == Slot!SlotSpec

\* A taken mutex is always released again: the console cannot answer "busy"
\* for ever.
MutexReleased == (cmd_mutex = "taken") ~> (cmd_mutex = "free")

\* Every command handed to the main task is executed.
AcceptedIsExecuted ==
    \A c \in Parsed :
        (notified /\ Command = c) ~> (\E i \in DOMAIN executed : executed[i] = c)
=============================================================================
