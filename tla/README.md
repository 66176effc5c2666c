# Verification of the ML302 OpenCPU SDK

TLA+ models of the parts of the ML302 OpenCPU SDK that carry its own logic: the
command console, the memory pool and mail queue of its CMSIS-RTOS layer, the MQTT
client with its three tasks and the queue below it, the LwM2M client (its pump, its
requests and observations, its block-wise transfers), the virtual AT channel and the
HTTP client's reading of a body. TLC checks them on small instances; TLAPS proves the
most important invariants for every value of the constants.

## 1. Inventory of the system

The SDK runs on FreeRTOS. `ML302_OpenCPU_Entry` (`src/src/onemo_main.c`) starts
`onemo_main_task`, which opens the UART, brings up the network and then executes
the commands typed at the terminal. A command runs one of the demos in
`src/src/demo/`, which use the protocol libraries below it.

| Component | State | Operations | Interacts with | Hard part | Correct when |
|---|---|---|---|---|---|
| Command console (`onemo_uart_demo.c`, `onemo_main.c`) | `data_arrived`, `uart_buf`, `cmd_mutex`, `cmd_buf`, a task notification | callback, receive, parse, hand over, execute, release | UART driver and parser (prebuilt), command handlers | a mutex taken in one task and released in another; start-up order | one command at a time, executed once, unchanged; never busy for ever |
| Memory pool (`cmsis_os.c:910-1069`) | `markers`, `currentIndex`, the blocks | `osPoolCreate/Alloc/CAlloc/Free` | FreeRTOS heap; mail queue | search with wrap-around; bad pointers; blocks are freed outside the critical section | a block has one owner; NULL means exhausted |
| Mail queue (`cmsis_os.c:1213-1398`) | the pool and a FreeRTOS queue of pointers | `osMailCreate/Alloc/CAlloc/Put/Get/Free` | pool; FreeRTOS queue | ownership passes sender, queue, receiver, pool | a mail is in one place; put never fails |
| MQTT client (`CM_MQTTClient.c`, `CM_MQTTCore_interface.c`, `CM_MQTTCbfun.c`, `CM_MQTTQueue.c`) | `state`, `sendqueue`, `topictable`, counters, `sock_protect`, `queuemutex` | monitor loop, processing loop, requests, answers, timeouts, reconnection | demo (main task), socket, broker | three tasks write `state` unprotected; the monitor closes the socket the other task reads; task suspension; timeouts and late answers | CONNECTED only on an accepted connection; every phase ends; requests are resolved and reported truthfully |
| MQTT network adapter (`Cmmqtt_network.c`, `Cmmqtt_timer.c`, `Cmmqtt_mutex.c`) | `my_socket`, timers | connect, read, write, close, poll for errors | lwIP | failures and timeouts everywhere | as part of the client |
| MQTT demo (`onemo_mqtt_demo.c`) | `cmmqtt_err_stat` | con, sub, pub, unsub, disc, del | client | polls flags other tasks set | as part of the client |
| genccont queue (`slist_queue.c`, `slist.c`) | nodes, `head`, `tail` (the address of a link) | init, push, insert, pop, remove, swap, splice | MQTT client (`sendqueue`) | `tail` points into a node, or into the head of the queue | it is a sequence |
| LwM2M pump (`cis_core.c`, `cis_registration.c`, `cis_bootstrap.c`, `cis_transaction.c`, `cis_management.c`) | `stateStep`, two servers and their status, transactions, lifetime | `cis_pump`, `cis_register`, `cis_unregister`, `cis_update_reg`, answers, timeouts | application (events), network adapter, requests | answers late, twice or lost; servers freed under transactions; failing allocations | no use after free; events tell the truth; every exchange ends |
| LwM2M requests and observations (`cis_packet.c`, `cis_observe.c`, `cis_objects.c`) | `requestList`, `notifyList`, `observedList` | requests of the server, `cis_response`, `cis_notify`, RST, expiry, loss of the registration | pump, application task, sorted list | repeated requests, late answers, a second task | ids are unique; reports are of agreed observations; no answer outlives its registration |
| LwM2M sorted list (`cis_list.c`) | a linked list sorted by a 32-bit id | add, find, find by 16 bits, remove | everything above | equal ids, searches that end early | what is in it is found |
| LwM2M block transfer (`cis_block1.c`) | `block1Data` | `coap_block1_handler` | packet handler | repeated and late blocks, change of the block size, the limit | what is handed over is one whole payload |
| Virtual AT channel and network configuration (`onemo_vir_at_demo.c`, `onemo_network_demo.c`) | `virt_at_buffer`, `virt_at_len`, `vir_at_mutex` | callback, `virture_at_task`, clear, send, search | modem | the search takes no mutex; the buffer's limit | the length counts what was received; the configuration ends |
| HTTP client (`httpclient.c`) | `response_buf`, `retrieve_len`, `is_more`, the static `remain_buf` | `httpclient_recv_response`, `httpclient_retrieve_content`, `httpclient_recv` | socket, caller | bodies in any pieces, longer than the buffer, in chunks, cut off | OK is only said of a whole body |
| EDP, Aliyun, wolfSSL, packet codecs, peripheral demos | | | | | not modelled, see section 7 |

The hazards (what a test would hardly reach, with the line where it bites) are in
`PROJECT.json`.

## 2. Modules

| Module | What it is |
|---|---|
| `CommandSlot` | abstract service: one command at a time, executed exactly once |
| `CmdLoop` | UART callback, `uart_recv_task`, `onemo_main_task`; implements `CommandSlot` |
| `OsPool` | the memory pool |
| `OsMail` | the mail queue, built on `OsPool` (EXTENDS) |
| `MqttClient` | monitor, processing task, demo, socket, broker |
| `MCMqttClient` | scripts and topics for TLC |
| `FifoQueues` | abstract service: queues as sequences of nodes |
| `SlistQueue` | genccont's queue at the level of links; implements `FifoQueues` |
| `CisList`, `CisListUse` | the sorted list as operators on sequences, and a client that adds and removes |
| `CisBlock1` | block-wise requests and a server that sends them |
| `MCContainers` | `OsMail` (with `OsPool`), `SlistQueue`, `CisListUse` and `CisBlock1` in one instance for TLC |
| `CisService` | abstract service: what the events of the LwM2M client say of its link |
| `CisPump` | the pump, registration, bootstrap, transactions, remote side; implements `CisService` |
| `CisRequests` | requests, notifications and observations, over `CisList` |
| `VirtAt` | the AT buffer, its task, the network configuration, the modem |
| `HttpContent`, `MCHttpContent` | the body of an HTTP response; the setups for TLC |
| `CmdLoopProofs`, `ContainersProofs` (pool, mail queue and linked queues), `MqttClientProofs`, `VirtAtProofs`, `CisPumpProofs`, `CisRequestsProofs` (with the list), `CisBlock1Proofs`, `HttpContentProofs` | theorems |

Definitions with a comment `Mutant:` are plausible bugs of the definition they
precede. They are not part of any specification; replacing the definition by one of
them makes a property fail.

### CmdLoop

A line of input is `[n, kind]`: its number and what the parser makes of it
(`known`, `undefined`, `malformed`). The storage of a command is modelled as it is in
the program: `uart_buf` keeps its bytes until they are received over, which happens
before the mutex is tried, and `cmd_buf`, an array of pointers in the code, is an
address: `Nowhere`, `Copy(k)` on the heap or `Slice(i)` of `uart_buf`. `Command` is
what a reader finds there. Which of them it is depends on `onemo_cmd_engine`, which is
prebuilt. `src/prebuilt/components/cmd_engine.o` looks for `ONEMO:`, CR LF and `:`,
and for each parameter calls `malloc`, `memset` and `memcpy` and stores the address of
the copy in `cmd_buf`; when it fails it frees the copies and returns -1. So `Engine`
makes a `Copy`, and the mutant `EngineInPlace`, a parser that leaves the parameters in
`uart_buf`, breaks `CommandStable`. Nobody frees the copies of the command before: each
command leaks its own, `heap` only grows. Not modelled: with an empty last parameter
the object code returns a value it has not set.

`uartpc` and `mainpc` are the program
counters of the two tasks; a step is one access to shared state, because the
tasks have the same priority and are time-sliced. `Startup` stands for the banner
and the network registration between `onemo_test_uart_init` and the loop. The
driver's FIFO loses lines that do not fit, as the 4 KB receive buffer does. A
FreeRTOS mutex has an owner; that `osMutexRelease` by another task frees it is
how the console uses it and how FreeRTOS behaves without `configASSERT`.

Commands are accepted at the `Signal` step and executed at `ExecuteCmd`; between
them `CommandSlot`'s slot is full. This is the refinement mapping `Slot`.

### OsPool and OsMail

Blocks are numbers `0..PoolSz-1`, a block is `ItemWords` words that are `zero` or
`data`, and a pointer is a word offset from the start of the pool, which is enough
for every check `osPoolFree` makes (NULL, below the pool, not a multiple, beyond
the end). `held` records which client was given which block and has not freed it:
a history of the calls, not state of the code. Clients free what they hold, or
pass a pointer that is refused. `osPoolAlloc` is one step because it runs in a
critical section. `osPoolFree` does not: it is two steps, the checks that compute the
index (`PoolFree`, with `freeing`) and the store (`ClearMarker`), and other clients
allocate, put and free in between. A block is its client's until the store.

`Allocate(c, op, cleared)` takes the words to clear: none, the first (what
`osPoolCAlloc`'s `sizeof(pool_id->pool_sz)` clears), or all (`osMailCAlloc`).

### MqttClient

`state` is `CMMQTTClient.state`. `mon`, `proc` and `app` say where the monitor,
the processing task and the demo are. A step is what a task does between two
points where it can be delayed: a blocking call, a delay, a wait for `queuemutex`
or for `sock_protect`. So every `select`, `write`, `connect` and `osDelay` is a
point where the others run, in particular between a test of `state` and the
assignment that follows it (`MonAlive`/`MonAliveResult`, `ProcTop`/`ProcLost`).

* Monitor: `CheckTimeout`, then the five tests of `state` in the code's order.
  `mon` is the next test to make, so that a change of `state` by another task
  between two tests has the effect it has in the code.
* Processing task: `ProcTop` (keep-alive), `ProcProtect`, `ProcRead`, one
  `Handle...` action per packet type, `ProcLeave`. `SendPubrel` is separate
  because the PUBREL is sent with `queuemutex` held.
* Callbacks (`ConackCb`, `SubackCb`, `UnsubackCb`, `NodeTimeoutCb`) are operators
  the handlers use.
* Demo: `Con` (with `InitCfg`), the requests of `Script`, `Disc`, `Del` (with
  `Deinit`), in the order of `onemo_mqtt_test_demo`. Polling loops may end at any
  time.
* Socket: `sock`, `link` and the packets in flight. A send fails at any time; a
  packet sent on a broken connection is lost; `LinkBreak` breaks it.
* Broker: answers in order, refuses, or is silent (`BrokerSilent`). It keeps a
  session that was not asked to be clean.

Assumptions, each from the code:

* The monitor (priority 32) outranks the processing task (24): the last look at
  `sock_protect` and the `close` are one step (`MonDiscClose`, `MonRecClose`), and
  so is the monitor's `cmmqtt_queue_remove_all`.
* `SendsOver`: a send the demo began while CONNECTED lasts `CMMQTT_SEND_TIME`
  (512 ms) at most; the monitor acts on DISCONNECTED after a delay of 1 s. 512 ms is
  the time of the `select` in `cmmqtt_write`. The `write` behind it is blocking, with
  an SO_SNDTIMEO of 20 s, but does not wait: lwIP reports a socket as writable when
  TCP_SNDLOWAT bytes are free (`inc/lwip/opt.h:1251`), here 6000
  (`inc/lwip/lwipopts.h:175-177`), and a packet has 2048 bytes at most
  (`CMMQTT_PUB_BUFSIZE`).
  `OthersSettled`: the delay of 4 s or more before a reconnection outlasts it.
* The operator gives the connect command when the client is idle or connected,
  so `cmmqtt_init_cfg` meets no running exchange and is one step.
* `encrypt` is 0. Malformed packets, `response_error`, `unsub_error` and
  `pub_error`, which only select the text that is printed, are left out. The
  return codes of a refused CONNACK are one (`conpasswd_error` is `fail` for 1).
* `next_packetid` is not wrapped: a run makes a handful of requests.

### SlistQueue

An address is named by what it is the address of: `q` is `&queue->head`, `n` is
`&node->next`, so `link` maps addresses to nodes and `tail` queues to addresses, and
insertion and removal at any address are the code's assignments. `owner` is a history
of the calls: the queue a node was put in. `Items(q)` is what the walk along the links
from the head meets (`WalkFrom`, as `genc_slist_length` walks), for as many steps as
there are nodes; `ImplementsFifo` says that every operation does to it what the
operation on sequences does. There are finitely many nodes: they are heap objects.

### CisPump

`pc` says which part of `cis_pump` runs next: the switch on `stateStep`, the second
half of the UNREGISTER case (between them the DELETE is out), `registration_step`,
`transaction_step`, `packet_read`. A case that returns early goes back to the switch.
Packets and the calls of the application come in between. `bootstrapEnabled`, `isDM`
and `allocFails` are chosen once, at the start of a behaviour.

* A transaction is its server, message id, kind, `ackReceived` and
  `retransCounter`; `transaction_send` raises the counter from 0 to 2 at the first
  send, as the code does.
* `sent`, `confirmed` and `inbox` belong to a socket and go with it. An answer may be
  sent to any request the socket has seen, at any time, again and again: that is why
  one place in the inbox is enough (`MaxInbox` = 1) for late and double answers.
* Time is abstract: a transaction is due, a bootstrap times out and a registration
  grows old at any time, in steps of their own.
* `Link`, the refinement mapping to `CisService`, is read off the status of the
  server and, for a server that is connected but not yet reported, off the last event.

### CisList and CisRequests

The list is a sequence of records with an id; `FirstFrom` is the loop of every search
(`NotSmallerFrom` that of the searches by the whole id),
with the code's conditions (the addition and the removal look at the head first and go
on behind it). `Width` stands for 2^16.

`CisRequests` has two tasks: the pump (`pc` is in the loop over the notifications or
behind it) and the application, whose `cis_response` and `cis_notify` are two steps:
the test of `stateStep` and the drawing of the id, then the addition under the lock.
`Lose` (PUMP_STATE_DISCONNECTED) may come between the two. The server repeats any
message it has sent since the registration (`messages` is a set).

Of the values only their number is modelled, and whether they are there (`none`),
`valid` or `invalid`. A read of an object collects up to `AttributeCount` values and a
discover up to `Links`; a value that is invalid, missing or without room is refused
(`ReadRefused`, `LinksFull`), and then nothing is sent. `Unserializable` says that
collected values may fail to be serialized (an empty opaque, a string too long), in
which case nothing is sent either; nor is it for a parameter request without token
(`ObserveAck`). The event says success in all these cases (section 3). An answer counts
as sent when it is handed to `packet_send`, whose result the code does not look at.
Assumed: the application is one task and there is memory.

### CisBlock1

A payload is a sequence of units `<<transfer, position>>`, so that a payload put
together from two transfers, or from a block taken twice, is visible. `flight` is a
set: packets are repeated, reordered and, by never being received, lost. With `Late` =
FALSE a packet does not survive the beginning of the next transfer.

### VirtAt

A symbol of the buffer is a string the program looks for, or a byte. The two tasks
have the same priority and are time-sliced, so one turn of each loop of the search is
a step, and so is each of the two halves of `virt_at_len += onemo_vir_at_get(...)`,
whose order of evaluation C leaves open (`Add` takes either). `Steps` is the list of
commands of `onemo_test_network_config` with the strings it looks for. The modem
answers commands in order, in pieces, or with ERROR, or not at all.

### HttpContent

A byte of a body is `<<"body", request, position>>`, so that bytes of another response
or in another order are visible; a chunk header is one digit, CR and LF. A chunked body
is cut in every way into chunks of up to 15 bytes, the largest with one digit (`Cuts`,
`Chunks`). `pc` is the
place in `httpclient_retrieve_content`. `Received(min, max)` is what `httpclient_recv`
may return: any number of bytes from `min` to `max`, nothing once the server has closed;
with `max` < `min` (line 700, 1 byte of room for CR LF) it still asks for `min` bytes.
`Fails` is HTTPCLIENT_ERROR_CONN (SO_RCVTIMEO, a reset), in the setups in which the
server may stop. A setup is a kind of caller and server: the modes of transfer, the sizes, whether the
server may stop in the middle and whether the caller may leave the rest unread. Status
line and headers are taken as read; each request has its own connection, as with
`httpclient_get`.

### MCContainers

The structures share no variable, so a behaviour of their composition moves one of
them at a time and a property of one only depends on its own steps. `subject` picks
the one that moves; the number of states is then a sum and not a product.

## 3. Runs

| Run | Instance | Shows |
|---|---|---|
| `cmd_loop` | 4 lines, FIFO and buffer of 2 | hand-over of the mutex, stability of what `cmd_buf` leads to, exactly-once execution of commands, refinement of `CommandSlot`, release of the mutex and execution of what was accepted (liveness) |
| `containers` | pool of 3 blocks of 2 words, 2 tasks; 2 queues, 4 nodes; a list of 4 nodes with equal ids; 2 transfers of 3 or 5 units in blocks of 1 or 2 | pool: what NULL guarantees; mail: one place, put never fails; queue: `tail`, refinement of `FifoQueues`; list: what is there is found; transfers: whole payloads, truthful answers |
| `os_pool_exhausted` (violation) | 3 blocks, 1 client | NULL although a block is free |
| `mqtt_connection` | 2 runs of the demo, 1 break, 2 lost pings, 2 attempts, kept session | connection invariants under every interleaving |
| `mqtt_requests` | subscribe, publish QoS 2, unsubscribe, 1 incoming message, clean session | identifiers, topic table, reported results, mutex |
| `mqtt_liveness` | 1 run, 1 break | the client settles, a disconnect completes, the queue empties |
| `mqtt_close_race` (violation) | 1 run, 1 break | the socket is closed under the select of a ping |
| `cis_pump` | 3 retransmissions, 3 requests per socket, with and without bootstrap, device management and failing allocations | no dangling transaction, only grants count, refinement of `CisService`, exchanges end, expired registrations are left |
| `cis_requests` | 1 object with 1 attribute, 1 resource, every kind of request but execute, 2 requests, 2 calls, 1 lost registration, 2 observes, values that cannot be serialized | unique ids, agreed observations, fresh answers |
| `cis_success` (violation) | 1 read of an object with 1 attribute, 2 calls | success is reported of an answer that was not sent |
| `virt_at` | buffer of 2 symbols, 2 attempts for the SIM card, 1 unsolicited byte | the length, room for every read, the configuration ends |
| `http_content` | three setups (`Long`, `Get`, `Fits`), 2 requests, bodies of up to 9 bytes, of up to 7 when chunked | OK means whole, complete means OK, calls return unless the server closes in a chunk header |

Why the bounds are enough. Console: two lines fill FIFO and buffer, a third meets
a full FIFO, a fourth arrives during execution. Pool: with three blocks there is
one on each side of the index, which is what the wrap-around fault needs; one can be
queued, one held and one in the middle of being freed.
Queue: two queues for swap and splice, and four nodes put two in each. List: four nodes
leave one on each side of a pair of equal ids. Transfers: five units meet the limit
`SizeMax`; two block sizes let the server change them.
MQTT: one topic, because requests are only told apart by identifier; two runs,
because variables survive `cmmqtt_deinit` (`sock_protect`, `conpasswd_error`, the
session at the broker); one break, because a second meets the state of a fresh
connection; two packets in flight, so that an old answer can precede a new one.
`mqtt_requests` has no break, but connections end by lost pings and by timeouts.
Pump: three requests are a registration, an update and the DELETE; with
`MaxRetransmit` = 3 a transaction is sent again before it is given up, and
4.01 is tried again. Requests: two of them are the fewest that meet
in a list, and observe, cancel, parameters and RST need no third; an execute is answered
by the same function as a write; with one attribute a second value finds no room. AT channel: a buffer
of two symbols is full after one answer. HTTP: the sizes keep their order in the
program (a body longer than the buffer, a buffer as long as a read, a buffer that takes
everything).

Deadlock is not checked where the system may stop: the console waits for input
for ever, the MQTT client ends idle after its last run, the other models stop when
their bounded requests are used up.

### Disagreements with the documentation

With a run:

* `osPoolAlloc` (`cmsis_os.c:993-996`) sets the index to 0 for every probe past
  the end. With `currentIndex` = 2 of 3 it probes 2, 0, 0 and misses block 1.
  Line 975 promises NULL only "in case of no memory available".
* `CM_MQTTClient.c:437-441` waits for `sock_protect`, in the comment's words for
  the select of the processing task to exit, but the ping is sent (line 338)
  before `sock_protect` is set (line 342).
* `packet_step` (`cis_packet.c:1436`) reports CIS_EVENT_RESPONSE_SUCCESS, which
  `onemo_dm_demo.c:408` prints as "response ok", and frees the request, also when
  nothing was sent: `prv_notifyReadReport` has logged "ERROR:notify read response
  failed" (lines 408-561) and returned an error that only goes to the log. `cis_success`
  has one value more than the object has attributes; with other constants TLC finds the
  cases of a value that is invalid or cannot be serialized, of a discover with too many
  links (RESPONSE_FAILED, then RESPONSE_SUCCESS) and of an observation that has gone.

Without a run of their own; TLC refutes the property with the constants given:

| Property | Constants | What the code does |
|---|---|---|
| `OsPool!CAllocIsZeroed` | `PoolSpec`, PoolSz 2, ItemWords 2, one client | `osPoolCAlloc` (`cmsis_os.c:1028`) clears `sizeof(pool_id->pool_sz)` bytes; line 1017 says "set memory block to zero". `osMailCAlloc` does it right |
| `CisPump!CallbackIsCalled` | `PumpSpec`, MaxRetransmit 4, MaxMid 3, MaxInbox 1 | `cis_transaction.c:92`: a callback "is called, when either the result is received or a timeout occurs". The UNREGISTER case (`cis_core.c:1454`) frees the DELETE it has just sent; it is never repeated, and UNREG_DONE is reported whether or not the server got it |
| `CisPump!ReadsWhereItWaits` | the same | a failed connection (`cis_core.c:1301`) leaves `ctx->server` set; during the next bootstrap `packet_read` (`cis_packet.c:1539`) polls that socket and no answer of the bootstrap server is read |
| `CisListUse!FindU16Finds` | `ListSpec`, Ids {5, 7, 8}, 2 Elements, Width 4 | `cis_list.h:35`: "Return the node with ID 'id' ... or NULL if not found". `cis_list_find_u16` (`cis_list.c:68`) ends at the first node whose lower half is not smaller, but the list is sorted by whole ids: the repetition of an observe is taken for a new one |
| `CisRequests!ResetRemoves` | Kinds {"observe"}, Resources {r1}, Objects {}, Results {"content"}, Values {"valid"}, StartMid 0, 1 message, 2 calls, 0 losses, 1 observe | `cis_observe.c:373`: a RST removes the observation by its `lastMid`. Message id 0, which reports get, is MESSAGEID_INVALID (line 383): the observation is looked for by an uri that is NULL |
| `CisRequests!FirstReportIsEmpty` | Kinds {"observe"}, Objects {o1}, Resources {}, AttributeCount 2, Results {"content", "continue"}, Values {"valid"}, 2 messages, 3 calls, 2 observes | `cis_packet.c:224`: memory is made "in first call of observe". A repeated observe (`cis_observe.c:96`) keeps the values collected for the one before |
| `CisBlock1!HandedIsWhole` | Late = TRUE | the order of blocks is tested by offset only (`cis_block1.c:94`): a late block of an earlier transfer is put into the running one |
| `VirtAt!ValidIsReceived` | `VirtAtSpec`, Size 3, the others 1 | the search (`onemo_vir_at_demo.c:40`) stores its terminating 0 at the length it has read before, over what was appended since; that byte is lost |
| `VirtAt!ReadyMeansConfigured` | the same | `onemo_network_demo.c:29-86` goes on as soon as the wanted string is there: the OK that ends the answer to AT+CPIN? is taken for that of AT+CFUN=1, and "network ready" is printed although AT+CGACT was answered ERROR |
| `MCHttpContent!OkMeansWhole` | `HttpSpec`, Setups <- Remaining, 2 requests | `remain_buf` is static (`httpclient.c:533`): when `response_buf` is smaller than a read, what an abandoned response left there replaces the beginning of the next, for which HTTPCLIENT_OK, "The operation was successful" (`httpclient.h:118`), is returned |
| `MCHttpContent!CallCompletes` | `FairHttpSpec`, Setups <- Stopped, 1 request | a server that closes inside a chunk header: `httpclient_recv`, asked for at least 0 bytes, returns OK and 0 bytes, and the loop of `httpclient.c:590-619` goes on for ever. `httpclient.h:164` says "It blocks until completion." |
| `HttpContent!OkMeansWhole` | modes {"chunked"}, maxBody 6, chunkSize 16, bufLen 5 | when a chunk does not fit, only its rest is kept (`httpclient.c:658`); what was read behind it is dropped, a whole chunk too, and the last call returns OK |
| `HttpContent!CompleteIsOk` with 1 in place of 4 | modes {"chunked"}, maxBody 5, chunkSize 10, bufLen 8 | the room left for the body also limits what is read of a chunk header (`httpclient.c:604`) and of the CR LF behind a chunk (line 698), and a header is only recognised with a byte behind it (line 597): a body that fits but leaves fewer than 4 bytes of `response_buf` may end in HTTPCLIENT_ERROR, depending on the pieces it arrives in |

The passing runs do not hide these: `containers` has `Late` = FALSE, `http_content`
abandons responses only with a buffer as long as a read (`Get`; the demo's 600 bytes
are longer than the 512 of a read) and has no chunked body longer than its buffer that
is read to the end, `CompleteIsOk` asks for 4 bytes to spare and `CallReturns` excepts a
stop in a chunk header (`StoppedInHeader`) and nothing else.

## 4. Fairness

`CmdLoop!FairSpec`: weak fairness of each task and of the driver's callback. The
tasks have the same priority and are time-sliced; handlers return.

`MqttClient!FairSpec`: weak fairness of each task and of `Tick`: the tasks are
scheduled and time passes. Strong fairness of `MonDiscClose` and `MonRecClose`:
the monitor polls `sock_protect` every 50 ms and the processing task leaves it
cleared during its `osDelay(500)`, so the monitor sees it cleared. Nothing is
assumed of the operator, the network and the broker: they may be silent for ever.

`CisPump!FairPumpSpec`: weak fairness of the pump, which `dm_clientd` calls for ever.
Strong fairness of `TransactionDue` and `BootstrapTimeout`: the pump passes
`transaction_step` and the bootstrap case again and again, and at some of these passes
the time has come. Nothing is assumed of the remote side or the application. When
allocations may fail for ever nothing ends, and the liveness properties exclude it.

`VirtAt!FairVirtAtSpec`: weak fairness of the two tasks, which share a priority; the
modem may be silent. `HttpContent!FairHttpSpec`: weak fairness of the call itself: a
blocking `recv` returns, with data or at the close. A connection may fail
(HTTPCLIENT_ERROR_CONN), but nothing promises that it does, so the fairness leaves these
steps out: no call is taken to return because its connection fails.

## 5. Proofs

All theorems are proved for every value of the constants, from the ASSUMEs of the
modules (sizes are positive naturals, `NULL` is no block, the script is a sequence
of requests, queues and nodes are different things, nodes are finitely many, a block is shorter than
the limit).

* `CmdLoopProofs`. `MutexHandOver` and `TypeOK` together are inductive, with
  `MutexExistsWhenUsed` strengthened by what is known of the mutex before the
  port opens (no event is due and `data_arrived` is 0). `CommandIsStable` follows: the
  only step that writes `cmd_buf` is taken while the receive task answers for the
  mutex, which excludes the other two; the steps that write `uart_buf` are not excluded,
  but `TypeOK` knows that `cmd_buf` leads to the heap, where copies are only added. `ConsoleImplementsSlot` maps `Signal` to
  `Accept`, `ExecuteCmd` to `Execute` and every other step to a stutter.
* `ContainersProofs`. Of the pool, `PoolTypeOK` and `MarkersAreOwners` are inductive, with
  `FreeingIsHeld`: the block about to be freed is still its client's, so the late store
  meets no other owner.
  `NullMeansSuffixInUse` speaks of the last result and is established by the
  failing search: the probes cover block 0 or all, and everything from
  `currentIndex` on. Of the mail queue, `PutAlwaysSucceeds` is a counting argument:
  the queue's entries are distinct blocks and the caller's block is not among them, so
  the queue is shorter than the pool has blocks (cardinality theorems of
  `FiniteSetTheorems`).

  Of the linked queues, `QueueInv` joins `TailIsLast` and `LinksAreOwn` (a node has one
  link to it, in the queue that owns it) with "a node that is free has no successor".
  The two need each other: a push writes through `tail`, and that this is the queue's
  own last link is what keeps links apart. `RemovalAssertion` is the assertion of
  `genc_slq_remove_item_at`. This invariant speaks of single links and does not exclude
  a ring beside the queue; `ItemsInv` does. It says that each queue `Holds` a sequence:
  without repetition, each link leads from an entry to the next, the last to NULL, and
  the entries are exactly the nodes the queue owns. There is one lemma per
  kind of change (`AppendHolds`, `PrependHolds`, `RemoveHolds`, `SpliceHolds`,
  `HandOver` for swap) that names the new sequence. What the walk returns is no
  induction: the held sequence, with a standstill at its end, solves the walk's
  recursion, and by the least number at which two solutions would differ it is the only
  one; it is no longer than there are nodes because it does not repeat (`FS_Injection`).
  `QueuesAreSequences` maps each operation to the one of `FifoQueues`, and the splice of
  an empty queue to a stutter.
* `MqttClientProofs`. Five invariants, each on top of the one before, for every
  script, number of runs and limit.
  - `SocketInv` gives `LockNotStranded` and `HandledOnItsSocket`: the mutex is kept
    across a step only in `pubrel`; `sock_protect` is set at the socket; there is no
    open socket between the monitor's close and its next step; and (`OpeningInv`,
    `UnansweredInv`) until the first CONNECT of a run is sent there is nothing to read,
    which is why `MonSendFails`, the one close that does not look at `sock_protect`, is
    harmless.
  - `TypesInv` gives `TypeOK`. The counters need it: a reset from another task never
    lets an attempt or a lost ping be counted past its limit.
    `PacketIdsUnique` is inductive with it: identifiers only grow, and what is taken out
    of the queue leaves the others as they were.
  - `ConnectInv` gives `OneConnectPending` and `DiscIsFinal`. A CONNECT is pushed in two
    places (`MonPush`, `MonRecPush`), and when either is reached the one before must be
    gone (`NothingPending`). What makes that so is spread over three tasks: which
    values of `state` the processing task can overwrite when a ping was lost
    (`LostOverwrites`), that only the demo's disconnect comes between the monitor's
    decision to reconnect and its CONNECT (`ReconnectBegins`), and that nothing does
    between the CONNECT's way out and its place in the queue (`ConnectGoesOut`). `DiscIsFinal` follows because CONNECTED
    is only set for a CONNECT in the queue, and without `conmsg` there is none.
  - `WireInv` gives `ConnectedMeansAccepted`: a closed socket has nothing in flight
    (`ClosedIsEmpty`), a CONNECT is the first packet on a socket (`ConnectFirst`), and a
    positive CONNACK in flight was given on this socket (`ConnackTrue`).
  - `TableInv` gives `TableMatchesSession` and `SubscribeReportedIsHeld`: a positive
    SUBACK in flight belongs to a subscription the broker holds, unless the demo has
    come to an UNSUBSCRIBE of it; a session is only lost with a clean CONNECT, whose
    CONNACK empties the table.
* `VirtAtProofs`. `VirtAtInv`: the mutex is held exactly between the two halves of the
  append, and then the register `base` is the length, so both orders of evaluation
  give the same sum; with it `LenIsReceived` and `RoomForGet` are inductive, although
  the test of the length is outside the mutex, because only the same task makes the
  buffer longer.
* `CisPumpProofs`. `NoDanglingTransaction` needs `DanglingInv`: a failed connection
  (`ConnectingFailed`) frees both servers and no transaction, so there must be none
  then. `SessionsKnown`: a server has its network context as long as it exists;
  `BootstrapFirst`: transactions of the bootstrap server are gone before the client
  connects; `ServerLast`: a server not yet registered has neither transactions nor a
  location. `DoneWasGranted` rests on `GrantsAreTrue`: a positive answer that waits on
  a socket was given on it, also after the socket was closed and opened again.
  `ImplementsService` needs `LinkInv`: what the server's status can be in each state
  of the pump, in which states the steps after the switch run, and that
  CONNECT_SUCCESS stays the last event until the registration has its answer.

* `CisRequestsProofs`. First the list, for any length: `FirstFrom` is the least
  position of its kind, which exists because the naturals are well-founded (`WFMin` of
  `WellFoundedInduction`; no induction over the list is needed), and in an ascending
  list everything before it is smaller. So an addition keeps the order (`ListIsSorted`)
  and the searches find (`SearchesFind`). `CisRequests` uses the same lemmas. `ListInv`
  (types; both lists strictly ascend; a call in progress has drawn the id that comes
  next) gives `IdsAreUnique`. `SourceInv` says where things come from: a request in the
  list belongs to a message of this registration (`MessagesInv`), the ids of observes
  start at `Width` and stay below the next number to be drawn, while those of other requests
  stay below the next message id (`Numbered`), an id the application was ever asked about
  means the same to it, to the list and to the server (`AskedInv`), and a positive answer
  on its way to an observe in the list is one the application gave for that uri
  (`AgreedInv`). With it `AnswersAreFresh` is
  inductive, and so is `ObservationsAreAgreed`, with "an uri has one observation".
* `CisBlock1Proofs`. `BlockInv`: a packet that may arrive is a block of the running
  transfer; only block 0 may meet a buffer that is not the beginning of that transfer
  (`FromCurrent`); the block whose message id is `lastmid` ends where the buffer ends, so
  that a repetition answers for what is there; and the server is only confirmed what the
  buffer holds. What blocks of different sizes add up to is no induction: the buffer is
  always `Prefix(transfer, k)`, and a block at `k` makes it a longer prefix
  (`PrefixGrows`). `HandedOverWhole` and `OkIsHanded` have the hypothesis `~Late`, as the
  run has: with late packets of an earlier transfer the code does not keep them (section
  3). `BufferStaysBounded` has no such hypothesis.
* `HttpContentProofs`, for any number of requests, bodies of any length and every way to
  cut them into chunks. The stream is what the client has in hand (`data`, or `remain`
  between calls) followed by `net`. `Reading` says where it stands on what was sent,
  behind the bytes given (`got`, then `buf`): the rest of the running chunk or of the
  body, then the chunks from there on, up to the place where the server has stopped.
  `Places` says what the locals are at each place of the loop, `Bounded` bounds what
  the client has in hand by the size of `response_buf`. Each `recv`, copy, header and
  CR LF moves the place, so at the last chunk, or when the length has come, what was
  given is the body: `OkIsWhole`. That `Chunks` is what its recursion says at every place
  is shown by the least number, from the end of the body down.

  The hypothesis `Sound` asks for one of two things: a buffer as long as a read (600 and
  512 in the demo), so that nothing is dropped behind a chunk and nothing is left of an
  abandoned response; or responses with a Content-Length that are read to the end.
  Section 3 has the counterexamples without them. `FitsIsOk` adds `FitsInv`: as long as
  the response is within the limit of `CompleteIsOk`, a call that runs has given nothing
  before, and (`RoomFacts`) the buffer keeps room for the rest of the body and for
  the bytes a header needs. Its hypothesis `Roomy` asks for reads of at least 8 bytes
  when complete chunked responses are sent (512 in the program).

Only model-checked:

* all liveness properties (the prover does neither fairness nor ENABLED);
* `SubscribeReportsTruth` of `MqttClient`: it is stated for the scripts of the run. With a
  script that subscribes a topic twice and then unsubscribes it, the second SUBACK may be
  read when the broker has already dropped the subscription. What holds for every script
  is the theorem `SubscribeReportedIsHeld`.

## 6. Plan

1. An abstract connection service (idle, connecting, connected) that `MqttClient`
   implements, with `ConnectInv` and `WireInv` as the invariants of the refinement.
2. The chained hash table behind the MQTT topic table; the block2 answers of the
   LwM2M client; the composition of `CisPump` and `CisRequests`.

## 7. Not modelled

Most of the repository's 839,000 lines are third-party or not code of the SDK:
wolfSSL (`src/src/demo/wolfssl-3.15.3`, two fifths of them), the Aliyun link
kit, the Paho codecs for MQTT and MQTT-SN, the headers of the toolchain and of the
prebuilt libraries. The prebuilt parts the models meet (UART driver, command parser,
modem, lwIP, FreeRTOS) are external: they do what the code that uses them relies on.

Of the SDK's own code: the TLS variant of the MQTT network adapter (it does not
reconnect); the EDP kit (packing and unpacking of packets, and a demo with two receive
threads); the UDP and TCP demos and the peripheral demos (single calls that print a
result); the LwM2M firmware object (`CIS_ENABLE_UPDATE` is 0), DTLS, the
configuration parser and the encoding of values (TLV, text, links); the text of HTTP
requests and headers; the hash table behind the topic table.

Of the modelled parts: heap exhaustion, except in `CisPump`; wrap-around of
identifiers and of the millisecond clock; partial writes of MQTT packets;
`cis_unregister` in the middle of a case of the pump; several application tasks that
call `cis_response` and `cis_notify`; text output.
