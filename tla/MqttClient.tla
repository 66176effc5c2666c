----------------------------- MODULE MqttClient -----------------------------
(***************************************************************************)
(* The MQTT client: cmmqtt_task_monitor and cmmqtt_task_processing         *)
(* (CM_MQTTClient.c), the packet functions and callbacks they call         *)
(* (CM_MQTTCore_interface.c, CM_MQTTCbfun.c, CM_MQTTQueue.c), the socket   *)
(* (Cmmqtt_network.c) and the demo that drives them from the main task     *)
(* (onemo_mqtt_demo.c).  Three tasks share CMMQTTClient; queuemutex        *)
(* protects the queue of unanswered packets, the flag sock_protect keeps   *)
(* the monitor from closing the socket the processing task is reading, and *)
(* `state' is written by all three with no protection at all.              *)
(*                                                                         *)
(* A step is what a task does between two points where it can be delayed:  *)
(* a blocking call, a delay, or a wait for the mutex or for sock_protect.  *)
(* The TCP connection and the broker are external.                         *)
(***************************************************************************)
EXTENDS Naturals, Sequences, FiniteSets

CONSTANTS
    Topics,           \* topic names
    Script,           \* the requests of one run of the demo, in order
    CleanSession,     \* cmqtt_glob_cfgclean
    MaxPingLost,      \* CMMQTT_MAX_PINGLOST
    MaxConnectTimes,  \* cmmqtt_max_connecttimes
    MaxSessions,      \* bound: times the demo is run
    MaxBreaks,        \* bound: TCP connections that break
    MaxInbound,       \* bound: messages the broker publishes to the client
    ChanCap           \* bound: packets in flight in one direction

Request == [op : {"sub", "pub", "unsub"}, topic : Topics, qos : 0..2]

ASSUME ScriptAssumption == Script \in Seq(Request)
ASSUME SettingsAssumption ==
    /\ CleanSession \in BOOLEAN
    /\ MaxPingLost \in Nat \ {0} /\ MaxConnectTimes \in Nat \ {0}
ASSUME BoundsAssumption ==
    /\ MaxSessions \in Nat /\ MaxBreaks \in Nat
    /\ MaxInbound \in Nat /\ ChanCap \in Nat \ {0}

VARIABLES
    state,            \* CMMQTTClient.state
    conmsg,           \* cmmqtt_conmsg is not NULL
    connectnum,       \* connection attempts since the last CONNACK
    pinglostnum,      \* PINGREQs since the last PINGRESP
    topictable,       \* the topics the client believes it is subscribed to
    sendqueue,        \* packets sent and not answered, oldest first
    queuemutex,       \* "free", or "proc" across the one send made under it
    next_packetid,
    connect_error, conpasswd_error, sub_error,    \* cmmqtt_err_stat
    sock,             \* my_socket: "none" (-1), "open" or "closed"
    link,             \* the TCP connection of the open socket is alive
    up, down,         \* packets in flight to and from the broker
    accepted,         \* the broker accepted this connection's CONNECT
    granted,          \* the subscriptions of the broker's session
    breaks, inbound,  \* counters of the bounds
    mon,              \* where cmmqtt_task_monitor is
    proc,             \* where cmmqtt_task_processing is
    pkt,              \* the packet in readbuf
    suspended,        \* the processing task is suspended
    sock_protect,     \* TRUE: the processing task is at the socket
    app,              \* where the demo is
    step,             \* the request of Script it is at
    sessions          \* runs of the demo so far

session     == <<conmsg, connectnum, pinglostnum, topictable>>
queue       == <<sendqueue, queuemutex, next_packetid>>
errors      == <<connect_error, conpasswd_error, sub_error>>
tcp         == <<sock, link, up, down>>
broker      == <<accepted, granted, inbound>>
process     == <<proc, pkt, suspended, sock_protect>>
application == <<app, step, sessions>>

vars == <<state, session, queue, errors, tcp, broker, breaks, mon, process,
          application>>

-----------------------------------------------------------------------------
(* Packets and queue nodes                                                 *)

State == {"UNINITIALED", "INITIALED", "NET_CONNECTING", "NET_CONNECTED",
          "CONNECTING", "CONNECTED", "DISCONNECTED", "RECONNECTING"}

NoTopic == "none"

\* A packet.  qos is the requested or granted QoS (128: refused), code the
\* answer in a CONNACK ("kept": accepted with sessionPresent = 1).
Packet(type, id, topic, qos, code) ==
    [type |-> type, id |-> id, topic |-> topic, qos |-> qos, code |-> code]
Control(type) == Packet(type, 0, NoTopic, 0, "none")
Ack(type, id) == Packet(type, id, NoTopic, 0, "none")

NoPacket == Control("PINGRESP")

PacketType == {"CONNECT", "CONNACK", "SUBSCRIBE", "SUBACK", "UNSUBSCRIBE",
               "UNSUBACK", "PUBLISH", "PUBACK", "PUBREC", "PUBREL", "PUBCOMP",
               "PINGREQ", "PINGRESP", "DISCONNECT"}
PacketSet == [type : PacketType, id : Nat, topic : Topics \cup {NoTopic},
              qos : {0, 1, 2, 128},
              code : {"none", "accepted", "kept", "refused"}]

\* cmqueue_node: due says that node_timer has run out.
Node(type, id, topic, qos) ==
    [type |-> type, id |-> id, topic |-> topic, qos |-> qos, due |-> FALSE]
ConnectNode == Node("CONNECT", 0, NoTopic, 0)

TypeOf(op) == CASE op = "sub" -> "SUBSCRIBE"
                [] op = "unsub" -> "UNSUBSCRIBE"
                [] op = "pub" -> "PUBLISH"

\* Where an answer finds its node: the first that fits, or nowhere.
Fits(node, type, id, qoses) ==
    node.type = type /\ node.id = id /\ node.qos \in qoses
Match(type, id, qoses) ==
    {i \in 1..Len(sendqueue) :
        /\ Fits(sendqueue[i], type, id, qoses)
        /\ \A j \in 1..(i - 1) : ~Fits(sendqueue[j], type, id, qoses)}

\* genc_slq_remove_item_at
RemoveAt(s, i) == SubSeq(s, 1, i - 1) \o SubSeq(s, i + 1, Len(s))

Init ==
    /\ state = "UNINITIALED"
    /\ conmsg = FALSE /\ connectnum = 0 /\ pinglostnum = 0 /\ topictable = {}
    /\ sendqueue = << >> /\ queuemutex = "free" /\ next_packetid = 1
    /\ connect_error = "none" /\ conpasswd_error = "none"
    /\ sub_error = "none"
    /\ sock = "none" /\ link = FALSE /\ up = << >> /\ down = << >>
    /\ accepted = FALSE /\ granted = {} /\ inbound = 0 /\ breaks = 0
    /\ mon = "dead"
    /\ proc = "dead" /\ pkt = NoPacket
    /\ suspended = TRUE /\ sock_protect = FALSE
    /\ app = "idle" /\ step = 1 /\ sessions = 0

-----------------------------------------------------------------------------
(* The socket                                                              *)

\* cmmqtt_sendPacket, whole: it fails at any time (select times out, write
\* fails) and always without an open socket; a packet written to a broken
\* connection is lost without an error.
Send(packet, ok) ==
    /\ ok => sock = "open" /\ Len(up) < ChanCap
    /\ up' = IF ok /\ link THEN Append(up, packet) ELSE up
    /\ UNCHANGED <<sock, link, down>>

\* cmmqtt_disconnect: close(my_socket); my_socket keeps its value.
Close ==
    /\ sock' = IF sock = "none" THEN "none" ELSE "closed"
    /\ link' = FALSE /\ up' = << >> /\ down' = << >>
    /\ accepted' = FALSE
    /\ UNCHANGED <<granted, inbound>>

\* cmmqtt_connect_network.  "unresolved": getaddrinfo fails, no socket is
\* made, connect_error is left as it is and the function returns 0.  It is
\* connect_error alone that tells success from failure.
ConnectNetwork(result) ==
    /\ connect_error = "fail" => result = "fail"
    /\ sock' = CASE result = "ok" -> "open"
                 [] result = "fail" -> "closed"
                 [] result = "unresolved" -> sock
    /\ link' = (result = "ok")
    /\ up' = << >> /\ down' = << >> /\ accepted' = FALSE
    /\ connect_error' = IF result = "fail" THEN "fail" ELSE connect_error
    /\ UNCHANGED <<granted, inbound, conpasswd_error, sub_error>>
NetworkResult == {"ok", "fail", "unresolved"}

LinkBreak ==
    /\ link /\ breaks < MaxBreaks
    /\ breaks' = breaks + 1
    /\ link' = FALSE /\ up' = << >>
    /\ UNCHANGED <<state, session, queue, errors, sock, down, broker, mon,
                   process, application>>

-----------------------------------------------------------------------------
(* cmmqtt_task_monitor.  "net", "mqtt", "disc", "rec" and "alive" are its  *)
(* five tests of `state', made in this order; the first that applies is    *)
(* taken, with the assignment that follows the test.                       *)

\* cmmqtt_nodetimeout_cb of the first k nodes: a CONNECT asks for a
\* reconnection; for the others a message is printed.
NodeTimeoutCb(k) ==
    state' = IF \E i \in 1..k : sendqueue[i].type = "CONNECT"
             THEN "RECONNECTING" ELSE state

\* Mutant: one node fewer than counted is popped.
CheckTimeoutShort ==
    /\ mon = "check" /\ queuemutex = "free"
    /\ mon' = "net"
    /\ \E k \in 0..Len(sendqueue) :
         /\ \A i \in 1..k : sendqueue[i].due
         /\ k < Len(sendqueue) => ~sendqueue[k + 1].due
         /\ LET n == IF k = 0 THEN 0 ELSE k - 1
            IN  sendqueue' = SubSeq(sendqueue, n + 1, Len(sendqueue))
         /\ NodeTimeoutCb(k)
    /\ UNCHANGED <<session, queuemutex, next_packetid, errors, tcp, broker,
                   breaks, process, application>>

\* cmmqtt_queue_checktimeout: the leading nodes whose timer has run out are
\* popped and their callbacks called.
CheckTimeout ==
    /\ mon = "check" /\ queuemutex = "free"
    /\ mon' = "net"
    /\ \E k \in 0..Len(sendqueue) :
         /\ \A i \in 1..k : sendqueue[i].due
         /\ k < Len(sendqueue) => ~sendqueue[k + 1].due
         /\ sendqueue' = SubSeq(sendqueue, k + 1, Len(sendqueue))
         /\ NodeTimeoutCb(k)
    /\ UNCHANGED <<session, queuemutex, next_packetid, errors, tcp, broker,
                   breaks, process, application>>

MonNet(result) ==
    /\ mon = "net" /\ state = "NET_CONNECTING"
    /\ ConnectNetwork(result)
    /\ state' = IF result = "fail" THEN "INITIALED" ELSE "NET_CONNECTED"
    /\ suspended' = (result = "fail" /\ suspended)
    /\ mon' = "mqtt"
    /\ UNCHANGED <<session, queue, breaks, proc, pkt, sock_protect,
                   application>>

\* The ELSE branch is the code's; no behaviour reaches it.
MonMqtt ==
    /\ mon \in {"net", "mqtt"} /\ state = "NET_CONNECTED"
    /\ IF conmsg
       THEN /\ state' = "CONNECTING" /\ mon' = "send"
            /\ UNCHANGED <<tcp, broker>>
       ELSE Close /\ state' = "DISCONNECTED" /\ mon' = "disc"
    /\ UNCHANGED <<session, queue, errors, breaks, process, application>>

\* cmmqtt_connect is called: the CONNECT is sent ...
MonSend ==
    /\ mon = "send"
    /\ Send(Control("CONNECT"), TRUE)
    /\ mon' = "push"
    /\ UNCHANGED <<state, session, queue, errors, broker, breaks, process,
                   application>>

\* ... or cannot be sent ...
MonSendFails ==
    /\ mon = "send"
    /\ Close
    /\ connect_error' = "sendpack"
    /\ conmsg' = FALSE
    /\ state' = "DISCONNECTED"
    /\ mon' = "disc"
    /\ UNCHANGED <<connectnum, pinglostnum, topictable, queue,
                   conpasswd_error, sub_error, breaks, process, application>>

\* ... and only then queued, for its answer to be found.
MonPush ==
    /\ mon = "push" /\ queuemutex = "free"
    /\ sendqueue' = Append(sendqueue, ConnectNode)
    /\ connect_error' = "ok"
    /\ mon' = "disc"
    /\ UNCHANGED <<state, session, queuemutex, next_packetid,
                   conpasswd_error, sub_error, tcp, broker, breaks, process,
                   application>>

\* A send the demo began while the client was CONNECTED is over: it takes the
\* 512 ms of cmmqtt_write's select at most, and the monitor looks at `state'
\* 1 s after it has found a network error (line 465) or later.  The write that
\* follows the select does not wait: lwIP reports a socket as writable when
\* TCP_SNDLOWAT bytes are free (6000), and a packet has 2048 at most.
SendsOver == app \notin {"send", "disc_send"}

\* cmmqtt_queue_remove_all takes no mutex.
MonDisc ==
    /\ mon \in {"net", "mqtt", "disc"} /\ state = "DISCONNECTED"
    /\ SendsOver
    /\ sendqueue' = << >>
    /\ mon' = "disc_wait"
    /\ UNCHANGED <<state, session, queuemutex, next_packetid, errors, tcp,
                   broker, breaks, process, application>>

\* Mutant: the socket is closed without waiting.
MonDiscCloseAtOnce ==
    /\ mon = "disc_wait"
    /\ Close
    /\ mon' = "suspend"
    /\ UNCHANGED <<state, session, queue, errors, breaks, process,
                   application>>

\* The monitor outranks the processing task, which therefore cannot run
\* between the last look at sock_protect and the call of close.
MonDiscClose ==
    /\ mon = "disc_wait" /\ ~sock_protect
    /\ Close
    /\ mon' = "suspend"
    /\ UNCHANGED <<state, session, queue, errors, breaks, process,
                   application>>

MonSuspend ==
    /\ mon = "suspend"
    /\ suspended' = TRUE
    /\ state' = "INITIALED"
    /\ mon' = "rec"
    /\ UNCHANGED <<session, queue, errors, tcp, broker, breaks, proc, pkt,
                   sock_protect, application>>

MonRec ==
    /\ mon \in {"net", "mqtt", "disc", "rec"} /\ state = "RECONNECTING"
    /\ state' = "CONNECTING"
    /\ mon' = "rec_wait"
    /\ UNCHANGED <<session, queue, errors, tcp, broker, breaks, process,
                   application>>

\* Mutant: the socket is closed without waiting.
MonRecCloseAtOnce ==
    /\ mon = "rec_wait"
    /\ Close
    /\ IF connectnum < MaxConnectTimes
       THEN mon' = "rec_delay" /\ UNCHANGED <<state, connectnum>>
       ELSE mon' = "alive" /\ state' = "DISCONNECTED" /\ connectnum' = 0
    /\ UNCHANGED <<conmsg, pinglostnum, topictable, queue, errors, breaks,
                   process, application>>

\* cmmqtt_reconnect, first part: the old socket is closed.
MonRecClose ==
    /\ mon = "rec_wait" /\ ~sock_protect
    /\ Close
    /\ IF connectnum < MaxConnectTimes
       THEN mon' = "rec_delay" /\ UNCHANGED <<state, connectnum>>
       ELSE mon' = "alive" /\ state' = "DISCONNECTED" /\ connectnum' = 0
    /\ UNCHANGED <<conmsg, pinglostnum, topictable, queue, errors, breaks,
                   process, application>>

\* The delay of (4 << connectnum) seconds outlasts what the other tasks
\* began while the client was CONNECTED: a send, and the assignment at the
\* end of cmmqtt_clientalive.
OthersSettled == SendsOver /\ proc # "lost"

\* Mutant: conmsg is not looked at again.
MonRecConnectAnyway(result) ==
    /\ mon = "rec_delay" /\ OthersSettled
    /\ ConnectNetwork(result)
    /\ IF result = "fail"
       THEN mon' = "alive" /\ state' = "DISCONNECTED"
       ELSE mon' = "rec_send" /\ state' = state
    /\ UNCHANGED <<session, queue, breaks, process, application>>

\* A network failure ends the attempts without being counted.
MonRecConnect(result) ==
    /\ mon = "rec_delay" /\ OthersSettled
    /\ ConnectNetwork(result)
    /\ IF result = "fail" \/ ~conmsg
       THEN mon' = "alive" /\ state' = "DISCONNECTED"
       ELSE mon' = "rec_send" /\ state' = state
    /\ connectnum' = IF result # "fail" /\ ~conmsg
                     THEN connectnum + 1 ELSE connectnum
    /\ UNCHANGED <<conmsg, pinglostnum, topictable, queue, breaks, process,
                   application>>

MonRecSend(ok) ==
    /\ mon = "rec_send"
    /\ Send(Control("CONNECT"), ok)
    /\ IF ok
       THEN mon' = "rec_push" /\ UNCHANGED <<state, connectnum>>
       ELSE /\ mon' = "alive" /\ state' = "DISCONNECTED"
            /\ connectnum' = connectnum + 1
    /\ UNCHANGED <<conmsg, pinglostnum, topictable, queue, errors, broker,
                   breaks, process, application>>

\* Mutant: the attempt is not counted.
MonRecPushUncounted ==
    /\ mon = "rec_push" /\ queuemutex = "free"
    /\ sendqueue' = Append(sendqueue, ConnectNode)
    /\ mon' = "alive"
    /\ UNCHANGED <<state, session, queuemutex, next_packetid, errors, tcp,
                   broker, breaks, process, application>>

MonRecPush ==
    /\ mon = "rec_push" /\ queuemutex = "free"
    /\ sendqueue' = Append(sendqueue, ConnectNode)
    /\ connectnum' = connectnum + 1
    /\ mon' = "alive"
    /\ UNCHANGED <<state, conmsg, pinglostnum, topictable, queuemutex,
                   next_packetid, errors, tcp, broker, breaks, process,
                   application>>

Tests == {"net", "mqtt", "disc", "rec", "alive"}

\* cmmqtt_neterror watches the socket for 500 ms ...
MonAlive ==
    /\ mon \in Tests /\ state = "CONNECTED"
    /\ mon' = "alive_select"
    /\ UNCHANGED <<state, session, queue, errors, tcp, broker, breaks,
                   process, application>>

\* ... and an error it reports disconnects, whatever `state' is by then.  A
\* connection can be broken without an error being pending.
MonAliveResult(error) ==
    /\ mon = "alive_select"
    /\ error => ~link
    /\ state' = IF error THEN "DISCONNECTED" ELSE state
    /\ mon' = "check"
    /\ UNCHANGED <<session, queue, errors, tcp, broker, breaks, process,
                   application>>

\* No test that is still to be made applies.
MonLoop ==
    /\ mon \in Tests /\ state # "CONNECTED"
    /\ mon = "net" => state # "NET_CONNECTING"
    /\ mon \in {"net", "mqtt"} => state # "NET_CONNECTED"
    /\ mon \in {"net", "mqtt", "disc"} => state # "DISCONNECTED"
    /\ mon # "alive" => state # "RECONNECTING"
    /\ mon' = "check"
    /\ UNCHANGED <<state, session, queue, errors, tcp, broker, breaks,
                   process, application>>

-----------------------------------------------------------------------------
(* cmmqtt_task_processing                                                  *)

Runs(at) == proc = at /\ ~suspended

\* The test of `state' and cmmqtt_clientalive up to its blocking call;
\* `expired' is what ping_timer says.
ProcTop(expired) ==
    /\ Runs("top")
    /\ expired => state = "CONNECTED"
    /\ proc' = IF ~expired THEN "recv"
               ELSE IF pinglostnum < MaxPingLost THEN "ping" ELSE "lost"
    /\ UNCHANGED <<state, session, queue, errors, tcp, broker, breaks, mon,
                   pkt, suspended, sock_protect, application>>

\* cmmqtt_ping; its result is not looked at.
ProcPing(ok) ==
    /\ Runs("ping")
    /\ Send(Control("PINGREQ"), ok)
    /\ pinglostnum' = pinglostnum + 1
    /\ proc' = "recv"
    /\ UNCHANGED <<state, conmsg, connectnum, topictable, queue, errors,
                   broker, breaks, mon, pkt, suspended, sock_protect,
                   application>>

\* The assignment is made whatever `state' is by now.
ProcLost ==
    /\ Runs("lost")
    /\ state' = "RECONNECTING"
    /\ proc' = "recv"
    /\ UNCHANGED <<session, queue, errors, tcp, broker, breaks, mon, pkt,
                   suspended, sock_protect, application>>

ProcProtect ==
    /\ Runs("recv")
    /\ sock_protect' = TRUE
    /\ proc' = "read"
    /\ UNCHANGED <<state, session, queue, errors, tcp, broker, breaks, mon,
                   pkt, suspended, application>>

\* cmmqtt_readPacket
ProcRead ==
    /\ Runs("read")
    /\ sock = "open" /\ down # << >>
    /\ pkt' = Head(down) /\ down' = Tail(down)
    /\ proc' = "handle"
    /\ UNCHANGED <<state, session, queue, errors, sock, link, up, broker,
                   breaks, mon, suspended, sock_protect, application>>

\* Mutant: the flag is not cleared.
ProcLeaveProtected ==
    /\ Runs("read")
    /\ proc' = "top"
    /\ UNCHANGED <<state, session, queue, errors, tcp, broker, breaks, mon,
                   pkt, suspended, sock_protect, application>>

\* The read fails, or the 1024 ms of the receive loop are over.
ProcLeave ==
    /\ Runs("read")
    /\ sock_protect' = FALSE
    /\ proc' = "top"
    /\ UNCHANGED <<state, session, queue, errors, tcp, broker, breaks, mon,
                   pkt, suspended, application>>

\* What every handler shares: the packet is in readbuf, the queue's mutex
\* is taken and given, and the receive loop goes on.
Handles(types) ==
    /\ Runs("handle") /\ pkt.type \in types
    /\ queuemutex = "free"

\* cmmqtt_recvPacket is called again; it begins by clearing readbuf.
Again == proc' = "read" /\ pkt' = NoPacket

\* Mutant: the topic table survives a session the broker has dropped.
ConackCbKeepingTable(i) ==
    IF pkt.code = "refused"
    THEN /\ sendqueue' = RemoveAt(sendqueue, i)
         /\ state' = "DISCONNECTED" /\ conpasswd_error' = "fail"
         /\ UNCHANGED session
    ELSE /\ sendqueue' = << >>
         /\ connectnum' = 0 /\ pinglostnum' = 0
         /\ state' = "CONNECTED" /\ conpasswd_error' = "ok"
         /\ UNCHANGED <<conmsg, topictable>>

\* cmmqtt_conack_cb of node i, which has left the queue.  A session that the
\* broker has not kept takes the queue and the topic table with it.
ConackCb(i) ==
    IF pkt.code = "refused"
    THEN /\ sendqueue' = RemoveAt(sendqueue, i)
         /\ state' = "DISCONNECTED" /\ conpasswd_error' = "fail"
         /\ UNCHANGED session
    ELSE /\ IF pkt.code # "kept" \/ CleanSession
            THEN sendqueue' = << >> /\ topictable' = {}
            ELSE sendqueue' = RemoveAt(sendqueue, i) /\ UNCHANGED topictable
         /\ connectnum' = 0 /\ pinglostnum' = 0
         /\ state' = "CONNECTED" /\ conpasswd_error' = "ok"
         /\ UNCHANGED conmsg

\* cmmqtt_deconack.  A CONNACK that finds no CONNECT in the queue is dropped.
HandleConnack ==
    /\ Handles({"CONNACK"})
    /\ LET m == Match("CONNECT", 0, {0})
       IN  IF m = {} THEN UNCHANGED <<state, session, sendqueue, conpasswd_error>>
           ELSE \E i \in m : ConackCb(i)
    /\ Again
    /\ UNCHANGED <<queuemutex, next_packetid, connect_error, sub_error, tcp,
                   broker, breaks, mon, suspended, sock_protect,
                   application>>

\* cmmqtt_suback_cb and cmmqtt_unsuback_cb of node i: the topic table.
SubackCb(i)   == topictable' = topictable \cup {sendqueue[i].topic}
UnsubackCb(i) == topictable' = topictable \ {sendqueue[i].topic}

\* Mutant: the granted QoS is not compared.
HandleSubackAnyQos ==
    /\ Handles({"SUBACK"})
    /\ LET m == Match("SUBSCRIBE", pkt.id, 0..2)
       IN  /\ IF m = {} THEN UNCHANGED <<sendqueue, topictable>>
              ELSE \E i \in m :
                     /\ sendqueue' = RemoveAt(sendqueue, i)
                     /\ SubackCb(i)
           /\ sub_error' = CASE m # {} -> "ok"
                              [] m = {} /\ sub_error \in {"ok", "done"} -> sub_error
                              [] OTHER -> "fail"
    /\ Again
    /\ UNCHANGED <<state, conmsg, connectnum, pinglostnum, queuemutex,
                   next_packetid, connect_error, conpasswd_error, tcp, broker,
                   breaks, mon, suspended, sock_protect, application>>

\* cmmqtt_desuback.  With another QoS than the one
\* asked for the node stays in the queue.
HandleSuback ==
    /\ Handles({"SUBACK"})
    /\ LET m == Match("SUBSCRIBE", pkt.id, {pkt.qos})
       IN  /\ IF m = {} THEN UNCHANGED <<sendqueue, topictable>>
              ELSE \E i \in m :
                     /\ sendqueue' = RemoveAt(sendqueue, i)
                     /\ SubackCb(i)
           /\ sub_error' = CASE m # {} -> "ok"
                              [] m = {} /\ sub_error \in {"ok", "done"} -> sub_error
                              [] OTHER -> "fail"
    /\ Again
    /\ UNCHANGED <<state, conmsg, connectnum, pinglostnum, queuemutex,
                   next_packetid, connect_error, conpasswd_error, tcp, broker,
                   breaks, mon, suspended, sock_protect, application>>

\* cmmqtt_deunsuback
HandleUnsuback ==
    /\ Handles({"UNSUBACK"})
    /\ LET m == Match("UNSUBSCRIBE", pkt.id, 0..2)
       IN  IF m = {} THEN UNCHANGED <<sendqueue, topictable>>
           ELSE \E i \in m :
                  /\ sendqueue' = RemoveAt(sendqueue, i)
                  /\ UnsubackCb(i)
    /\ Again
    /\ UNCHANGED <<state, conmsg, connectnum, pinglostnum, queuemutex,
                   next_packetid, errors, tcp, broker, breaks, mon,
                   suspended, sock_protect, application>>

\* cmmqtt_depuback and cmmqtt_puback_cb: PUBACK and PUBCOMP end the
\* exchange; on PUBREC a PUBREL is sent while the mutex is held.
HandlePuback ==
    /\ Handles({"PUBACK", "PUBREC", "PUBCOMP"})
    /\ LET m == Match("PUBLISH", pkt.id, 0..2)
       IN  /\ IF m # {} /\ pkt.type # "PUBREC"
              THEN \E i \in m : sendqueue' = RemoveAt(sendqueue, i)
              ELSE UNCHANGED sendqueue
           /\ IF m # {} /\ pkt.type = "PUBREC"
              THEN queuemutex' = "proc" /\ proc' = "pubrel" /\ UNCHANGED pkt
              ELSE Again /\ UNCHANGED queuemutex
    /\ UNCHANGED <<state, session, next_packetid, errors, tcp, broker,
                   breaks, mon, suspended, sock_protect, application>>

SendPubrel(ok) ==
    /\ Runs("pubrel")
    /\ Send(Ack("PUBREL", pkt.id), ok)
    /\ queuemutex' = "free"
    /\ Again
    /\ UNCHANGED <<state, session, sendqueue, next_packetid, errors, broker,
                   breaks, mon, suspended, sock_protect, application>>

\* The answer cmmqtt_depublish (through the topic's callback) and
\* cmmqtt_depubrel give to the broker.
Reply == IF pkt.type = "PUBREL" THEN "PUBCOMP"
         ELSE IF pkt.qos = 2 THEN "PUBREC" ELSE "PUBACK"

\* Neither handler takes the mutex.
HandlePublish(ok) ==
    /\ Runs("handle") /\ pkt.type \in {"PUBLISH", "PUBREL"}
    /\ Send(Ack(Reply, pkt.id), ok)
    /\ Again
    /\ UNCHANGED <<state, session, queue, errors, broker, breaks, mon,
                   suspended, sock_protect, application>>

HandlePingresp ==
    /\ Runs("handle") /\ pkt.type = "PINGRESP"
    /\ pinglostnum' = 0
    /\ Again
    /\ UNCHANGED <<state, conmsg, connectnum, topictable, queue, errors, tcp,
                   broker, breaks, mon, suspended, sock_protect,
                   application>>

-----------------------------------------------------------------------------
(* The broker (external): it answers in order, late, refusing or not at    *)
(* all, and keeps one session for the client.                              *)

\* What a packet may be answered with: pairs of the subscriptions after it
\* and the answers sent.
Answers(p) ==
    CASE p.type = "SUBSCRIBE" ->
           {<<granted \cup {p.topic}, <<Packet("SUBACK", p.id, NoTopic, p.qos, "none")>> >>,
            <<granted, <<Packet("SUBACK", p.id, NoTopic, 128, "none")>> >>}
      [] p.type = "UNSUBSCRIBE" ->
           {<<granted \ {p.topic}, <<Ack("UNSUBACK", p.id)>> >>}
      [] p.type = "PUBLISH" ->
           {<<granted, CASE p.qos = 0 -> << >>
                         [] p.qos = 1 -> <<Ack("PUBACK", p.id)>>
                         [] p.qos = 2 -> <<Ack("PUBREC", p.id)>> >>}
      [] p.type = "PUBREL"  -> {<<granted, <<Ack("PUBCOMP", p.id)>> >>}
      [] p.type = "PUBREC"  -> {<<granted, <<Ack("PUBREL", p.id)>> >>}
      [] p.type = "PINGREQ" -> {<<granted, <<Control("PINGRESP")>> >>}
      [] OTHER              -> {<<granted, << >> >>}

\* A broker keeps the session of a client that did not ask for a clean one.
Connack(code) == Packet("CONNACK", 0, NoTopic, 0, code)

BrokerConnect(code) ==
    /\ link /\ up # << >> /\ Head(up).type = "CONNECT"
    /\ Len(down) < ChanCap
    /\ code = "kept" => ~CleanSession
    /\ code = "accepted" => CleanSession \/ granted = {}
    /\ accepted' = (code # "refused")
    /\ granted' = IF code = "accepted" THEN {} ELSE granted
    /\ up' = Tail(up)
    /\ down' = Append(down, Connack(code))
    /\ UNCHANGED <<state, session, queue, errors, sock, link, inbound,
                   breaks, mon, process, application>>

BrokerAnswer ==
    /\ link /\ up # << >> /\ Head(up).type # "CONNECT" /\ accepted
    /\ Len(down) < ChanCap
    /\ \E a \in Answers(Head(up)) : granted' = a[1] /\ down' = down \o a[2]
    /\ link' = (Head(up).type # "DISCONNECT")
    /\ up' = IF link' THEN Tail(up) ELSE << >>
    /\ UNCHANGED <<state, session, queue, errors, sock, accepted, inbound,
                   breaks, mon, process, application>>

BrokerSilent ==
    /\ link /\ up # << >>
    /\ up' = Tail(up)
    /\ UNCHANGED <<state, session, queue, errors, sock, link, down, broker,
                   breaks, mon, process, application>>

\* Ids of the broker's messages live in a space of their own.
BrokerPublish(topic, qos) ==
    /\ link /\ accepted /\ topic \in granted
    /\ inbound < MaxInbound /\ Len(down) < ChanCap
    /\ inbound' = inbound + 1
    /\ down' = Append(down, Packet("PUBLISH", inbound + 1, topic, qos, "none"))
    /\ UNCHANGED <<state, session, queue, errors, sock, link, up, accepted,
                   granted, breaks, mon, process, application>>

-----------------------------------------------------------------------------
(* The demo, run by the main task (onemo_mqtt_demo.c)                      *)

\* cmmqtt_init_cfg: a fresh client, both tasks made anew, the processing
\* task suspended.  sock_protect keeps what the last run left in it.
InitCfg ==
    /\ next_packetid' = 1 /\ pinglostnum' = 0
    /\ sock' = "none" /\ UNCHANGED <<link, up, down>>
    /\ queuemutex' = "free" /\ topictable' = {} /\ sendqueue' = << >>
    /\ mon' = "check"
    /\ proc' = "top" /\ suspended' = TRUE /\ UNCHANGED <<pkt, sock_protect>>

\* mqtt_con_demo up to its polling loop.  The command is only given to a
\* client that is idle or connected.  conpasswd_error is not reset.
Con ==
    /\ app = "idle" /\ sessions < MaxSessions
    /\ state \in {"UNINITIALED", "INITIALED"}
    /\ InitCfg
    /\ conmsg' = TRUE /\ connectnum' = 1
    /\ connect_error' = "none"
    /\ state' = "NET_CONNECTING"
    /\ app' = "con_wait"
    /\ UNCHANGED <<conpasswd_error, sub_error, broker, breaks, step, sessions>>

\* mqtt_con_demo returns 0 at once when the client is connected.
ConAlready ==
    /\ app = "idle" /\ sessions < MaxSessions
    /\ state = "CONNECTED"
    /\ app' = "op" /\ step' = 1
    /\ UNCHANGED <<state, session, queue, errors, tcp, broker, breaks, mon,
                   process, sessions>>

\* The polling loop sees a result, or gives up, which counts as success.
ConReturn ==
    /\ app = "con_wait"
    /\ app' = IF \/ connect_error \in {"fail", "sendpack"}
                 \/ connect_error = "ok" /\ conpasswd_error = "fail"
              THEN "del" ELSE "op"
    /\ step' = 1
    /\ UNCHANGED <<state, session, queue, errors, tcp, broker, breaks, mon,
                   process, sessions>>

request == Script[step]

\* The test of `state' in mqtt_sub_demo, mqtt_pub_demo and mqtt_unsub_demo,
\* and the look into the topic table.
OpBegin ==
    /\ app = "op" /\ step <= Len(Script)
    /\ LET known == request.topic \in topictable
           goes == /\ state = "CONNECTED"
                   /\ request.op = "sub" => ~known
                   /\ request.op = "unsub" => known
       IN  /\ app' = IF goes THEN "send" ELSE "op"
           /\ step' = IF goes THEN step ELSE step + 1
           /\ sub_error' = IF request.op = "sub" /\ state = "CONNECTED"
                           THEN IF known THEN "done" ELSE "none"
                           ELSE sub_error
    /\ UNCHANGED <<state, session, queue, connect_error, conpasswd_error, tcp,
                   broker, breaks, mon, process, sessions>>

OpSend(ok) ==
    /\ app = "send"
    /\ Send(Packet(TypeOf(request.op), next_packetid, request.topic,
                   request.qos, "none"), ok)
    /\ app' = IF ok THEN "push" ELSE "op"
    /\ step' = IF ok THEN step ELSE step + 1
    /\ UNCHANGED <<state, session, queue, errors, broker, breaks, mon,
                   process, sessions>>

\* Mutant: the identifier is used again.
OpPushSameId ==
    /\ app = "push" /\ queuemutex = "free"
    /\ sendqueue' = IF request.op = "pub" /\ request.qos = 0 THEN sendqueue
                    ELSE Append(sendqueue, Node(TypeOf(request.op),
                                next_packetid, request.topic, request.qos))
    /\ app' = "wait"
    /\ UNCHANGED <<state, session, queuemutex, next_packetid, errors, tcp,
                   broker, breaks, mon, process, step, sessions>>

\* The packet is queued once it is sent; a QoS 0 PUBLISH is not, but uses up
\* an identifier too.
OpPush ==
    /\ app = "push" /\ queuemutex = "free"
    /\ sendqueue' = IF request.op = "pub" /\ request.qos = 0 THEN sendqueue
                    ELSE Append(sendqueue, Node(TypeOf(request.op),
                                next_packetid, request.topic, request.qos))
    /\ next_packetid' = next_packetid + 1
    /\ app' = "wait"
    /\ UNCHANGED <<state, session, queuemutex, errors, tcp, broker, breaks,
                   mon, process, step, sessions>>

\* The polling loop of the request ends: answered, or given up.
OpReturn ==
    /\ app = "wait"
    /\ app' = "op" /\ step' = step + 1
    /\ UNCHANGED <<state, session, queue, errors, tcp, broker, breaks, mon,
                   process, sessions>>

\* mqtt_disc_demo
Disc ==
    /\ app = "op" /\ step > Len(Script)
    /\ app' = IF state = "CONNECTED" THEN "disc_send" ELSE "del"
    /\ UNCHANGED <<state, session, queue, errors, tcp, broker, breaks, mon,
                   process, step, sessions>>

DiscSend(ok) ==
    /\ app = "disc_send"
    /\ Send(Control("DISCONNECT"), ok)
    /\ conmsg' = FALSE
    /\ state' = "DISCONNECTED"
    /\ app' = IF ok THEN "disc_wait" ELSE "del"
    /\ UNCHANGED <<connectnum, pinglostnum, topictable, queue, errors, broker,
                   breaks, mon, process, step, sessions>>

DiscReturn ==
    /\ app = "disc_wait"
    /\ app' = "del"
    /\ UNCHANGED <<state, session, queue, errors, tcp, broker, breaks, mon,
                   process, step, sessions>>

\* cmmqtt_deinit.  The tasks are deleted, the monitor once it is out of
\* cmmqtt_queue_checktimeout (mutex_protect).
Deinit ==
    /\ mon = "check" => queuemutex = "free"
    /\ conmsg' = FALSE /\ topictable' = {}
    /\ sendqueue' = << >> /\ queuemutex' = "free"
    /\ mon' = "dead" /\ proc' = "dead" /\ suspended' = TRUE
    /\ state' = "UNINITIALED"

\* mqtt_del_demo
Del ==
    /\ app = "del" /\ state = "INITIALED"
    /\ Deinit
    /\ app' = "idle" /\ sessions' = sessions + 1
    /\ UNCHANGED <<connectnum, pinglostnum, next_packetid, errors, tcp,
                   broker, breaks, pkt, sock_protect, step>>

\* mqtt_del_demo refuses a client that is not INITIALED.
DelRefused ==
    /\ app = "del" /\ state # "INITIALED"
    /\ app' = "idle" /\ sessions' = sessions + 1
    /\ UNCHANGED <<state, session, queue, errors, tcp, broker, breaks, mon,
                   process, step>>

-----------------------------------------------------------------------------
(* Time: the timers of the queue's nodes run out in the order in which they *)
(* were started.                                                            *)
Tick ==
    /\ \E i \in 1..Len(sendqueue) :
         /\ ~sendqueue[i].due
         /\ \A j \in 1..(i - 1) : sendqueue[j].due
         /\ sendqueue' = [sendqueue EXCEPT ![i].due = TRUE]
    /\ UNCHANGED <<state, session, queuemutex, next_packetid, errors, tcp,
                   broker, breaks, mon, process, application>>

Monitor ==
    \/ CheckTimeout \/ MonMqtt \/ MonSend \/ MonSendFails \/ MonPush
    \/ MonDisc \/ MonDiscClose \/ MonSuspend
    \/ MonRec \/ MonRecClose \/ MonRecPush
    \/ MonAlive \/ MonLoop
    \/ \E result \in NetworkResult : MonNet(result) \/ MonRecConnect(result)
    \/ \E b \in BOOLEAN : MonRecSend(b) \/ MonAliveResult(b)

Process ==
    \/ ProcLost \/ ProcProtect \/ ProcRead \/ ProcLeave
    \/ HandleConnack \/ HandleSuback \/ HandleUnsuback \/ HandlePuback
    \/ HandlePingresp
    \/ \E b \in BOOLEAN : \/ ProcTop(b) \/ ProcPing(b)
                          \/ SendPubrel(b) \/ HandlePublish(b)

\* What the demo does once it has been started.
Demo ==
    \/ ConReturn \/ OpBegin \/ OpPush \/ OpReturn \/ Disc \/ DiscReturn
    \/ Del \/ DelRefused
    \/ \E ok \in BOOLEAN : OpSend(ok) \/ DiscSend(ok)

Environment ==
    \/ LinkBreak \/ BrokerAnswer \/ BrokerSilent
    \/ \E code \in {"accepted", "kept", "refused"} : BrokerConnect(code)
    \/ \E topic \in Topics, qos \in 1..2 : BrokerPublish(topic, qos)

Next == Monitor \/ Process \/ Con \/ ConAlready \/ Demo \/ Tick \/ Environment

Spec == Init /\ [][Next]_vars

\* The tasks run and time passes.  A monitor that polls sock_protect every
\* 50 ms sees it cleared at last, for the processing task leaves it cleared
\* for 500 ms each time.  Nothing is assumed of the operator, the network
\* and the broker.
FairSpec ==
    /\ Spec
    /\ WF_vars(Monitor) /\ WF_vars(Process) /\ WF_vars(Demo) /\ WF_vars(Tick)
    /\ SF_vars(MonDiscClose) /\ SF_vars(MonRecClose)

-----------------------------------------------------------------------------
(* Properties                                                              *)

NodeSet == [type : {"CONNECT", "SUBSCRIBE", "UNSUBSCRIBE", "PUBLISH"},
            id : Nat, topic : Topics \cup {NoTopic}, qos : 0..2,
            due : BOOLEAN]

MonPc == Tests \cup {"dead", "check", "send", "push", "disc_wait", "suspend",
                     "rec_wait", "rec_delay", "rec_send", "rec_push",
                     "alive_select"}
ProcPc == {"dead", "top", "ping", "lost", "recv", "read", "handle", "pubrel"}
AppPc == {"idle", "con_wait", "op", "send", "push", "wait", "disc_send",
          "disc_wait", "del"}

\* The values every variable can have.  In particular the two counters that
\* decide when the client gives up stay within their limits: connectnum is
\* counted on the paths through cmmqtt_reconnect, pinglostnum in
\* cmmqtt_clientalive, and both are reset from another task's callbacks.
TypeOK ==
    /\ state \in State
    /\ conmsg \in BOOLEAN /\ connectnum \in 0..MaxConnectTimes
    /\ pinglostnum \in 0..MaxPingLost /\ topictable \subseteq Topics
    /\ sendqueue \in Seq(NodeSet) /\ queuemutex \in {"free", "proc"}
    /\ next_packetid \in Nat \ {0}
    /\ connect_error \in {"none", "ok", "fail", "sendpack"}
    /\ conpasswd_error \in {"none", "ok", "fail"}
    /\ sub_error \in {"none", "ok", "done", "fail"}
    /\ sock \in {"none", "open", "closed"} /\ link \in BOOLEAN
    /\ up \in Seq(PacketSet) /\ down \in Seq(PacketSet)
    /\ accepted \in BOOLEAN /\ granted \subseteq Topics
    /\ inbound \in 0..MaxInbound /\ breaks \in 0..MaxBreaks
    /\ mon \in MonPc /\ proc \in ProcPc /\ pkt \in PacketSet
    /\ suspended \in BOOLEAN /\ sock_protect \in BOOLEAN
    /\ app \in AppPc /\ step \in 1..(Len(Script) + 1)
    /\ sessions \in 0..MaxSessions

\* At most one CONNECT waits for its CONNACK: a CONNECT is only sent again
\* after cmmqtt_queue_checktimeout has popped the one before.  (The CONNACK
\* carries no identifier; with two of them pending the answer to one would
\* be taken for the answer to the other.)
OneConnectPending ==
    Cardinality({i \in 1..Len(sendqueue) : sendqueue[i].type = "CONNECT"}) <= 1

\* The client only calls itself CONNECTED on a socket that is open and on
\* which the broker accepted the CONNECT: no CONNACK of an earlier socket
\* is taken for one of this socket, although the monitor closes and opens
\* the socket while the processing task handles packets.
ConnectedMeansAccepted ==
    state = "CONNECTED" => sock = "open" /\ accepted

\* Whoever suspends or deletes the processing task does not strand
\* queuemutex: a suspended task never holds it.  (cmmqtt_suspendtask is
\* called with no regard to the mutex; a stranded mutex would stop the
\* monitor in cmmqtt_queue_checktimeout and cmmqtt_deinit for ever.)
LockNotStranded == suspended => queuemutex = "free"

\* The socket the processing task has taken a packet from is still the one
\* it answers on: while a packet is being handled on a connection that was
\* up, nobody has closed or replaced the socket.
HandledOnItsSocket ==
    proc \in {"handle", "pubrel"} /\ ~suspended => sock = "open"

\* The demo has come to a request op for topic t, in this run or an earlier one.
Requested(op, t) ==
    \E k \in 1..Len(Script) : /\ k <= step \/ sessions > 0
                              /\ Script[k].op = op /\ Script[k].topic = t

\* While the client is CONNECTED, a topic of the topic table is a
\* subscription the broker holds, unless it was asked to unsubscribe it:
\* cmmqtt_conack_cb empties the table when the broker has dropped the
\* session, cmmqtt_suback_cb adds what was granted.
TableMatchesSession ==
    state = "CONNECTED" => \A t \in topictable \ granted : Requested("unsub", t)

\* The requests in the queue carry different identifiers, all of them given
\* out before: an answer matches one request at most.
PacketIdsUnique ==
    \A i, j \in 1..Len(sendqueue) :
        sendqueue[i].type # "CONNECT" =>
            /\ sendqueue[i].id < next_packetid
            /\ sendqueue[j].type # "CONNECT" /\ sendqueue[i].id = sendqueue[j].id
                    => i = j

\* Once mqtt_disc_demo has thrown the CONNECT message away the client does
\* not come back by itself: it is not CONNECTED again before the next
\* command, even when cmmqtt_clientalive overwrites DISCONNECTED with
\* RECONNECTING and the monitor starts a reconnection.
DiscIsFinal == ~conmsg => state # "CONNECTED"

\* sub_error only becomes CMMQTT_SUB_OK, for which mqtt_sub_demo returns 0,
\* when the broker holds a subscription this run has asked for.
SubscribeReportsTruth ==
    [][sub_error # "ok" /\ sub_error' = "ok" =>
           \E k \in 1..Len(Script) : /\ k <= step /\ Script[k].op = "sub"
                                     /\ Script[k].topic \in granted]_vars

\* The monitor closes the socket when the processing task is not using it.
\* CM_MQTTClient.c says so where it polls sock_protect: it waits for the
\* select of cmmqtt_task_processing to time out and exit.
CloseWaitsForSelect ==
    [][(mon \in {"disc_wait", "rec_wait"} /\ mon' # mon) =>
           suspended \/ proc \notin {"ping", "read", "handle", "pubrel"}]_vars

Settled == {"UNINITIALED", "INITIALED", "CONNECTED"}

\* Whatever the network and the broker do, the client does not stay between
\* states: it ends up connected or idle.  The reconnection attempts are
\* counted over several tasks' steps, and each of them can hang.
Settles == (state \notin Settled) ~> (state \in Settled)

\* After a disconnect by the user the client becomes idle.
DisconnectCompletes ==
    (app = "disc_wait") ~> (state \in {"INITIALED", "UNINITIALED"})

\* Every request is taken from the queue at last: answered, timed out, or
\* thrown away with the connection.
PendingResolved == (sendqueue # << >>) ~> (sendqueue = << >>)
=============================================================================
