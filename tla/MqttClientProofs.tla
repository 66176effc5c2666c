-------------------------- MODULE MqttClientProofs --------------------------
(***************************************************************************)
(* Proofs about MqttClient, for every script, setting and bound: the       *)
(* processing task is neither suspended with queuemutex in its hands nor   *)
(* has its socket taken away under a packet; the variables keep their      *)
(* types; identifiers are unique; one CONNECT waits at most and after a    *)
(* disconnect none does; CONNECTED means accepted; the topic table agrees  *)
(* with the broker's session.                                              *)
(***************************************************************************)
EXTENDS MqttClient, SequenceTheorems, FiniteSetTheorems, TLAPS

\* queuemutex is only kept across a step to send a PUBREL.
MutexInv ==
    /\ queuemutex \in {"free", "proc"}
    /\ queuemutex = "proc" => proc = "pubrel"

\* sock_protect is set while the processing task is at the socket.
ProtectInv == proc \in {"read", "handle", "pubrel"} => sock_protect = TRUE

\* A packet is handled on the socket it was read from.
HandlingInv == proc \in {"handle", "pubrel"} => sock = "open"

\* Between closing the socket and the next step the monitor has no socket.
ClosedInv == mon \in {"suspend", "rec_delay"} => sock # "open"

\* A suspended processing task was not suspended while handling a packet.
SuspendedInv == suspended = TRUE => proc \notin {"handle", "pubrel"}

\* No sender but the monitor.
Quiet == app \notin {"send", "disc_send"}

\* While the first connection of a run is made the processing task waits to
\* be resumed ...
OpeningInv ==
    state = "NET_CONNECTING" =>
        Quiet /\ mon \in {"check", "net"} /\ proc = "top" /\ suspended = TRUE

\* ... and until its CONNECT is sent there is nothing to read: the monitor
\* may close the socket without looking at sock_protect.
UnansweredInv ==
    state = "NET_CONNECTED" \/ mon = "send" =>
        /\ Quiet
        /\ state = "NET_CONNECTED" => mon = "mqtt"
        /\ mon = "send" => state = "CONNECTING"
        /\ proc \in {"top", "recv", "read"}
        /\ up = << >> /\ down = << >> /\ accepted = FALSE

\* The inductive invariant of the socket's hand-over between the tasks.
SocketInv ==
    /\ MutexInv /\ ProtectInv /\ HandlingInv /\ ClosedInv /\ SuspendedInv
    /\ OpeningInv /\ UnansweredInv

-----------------------------------------------------------------------------
(* Preservation of SocketInv, task by task.                                *)

\* The monitor preserves SocketInv.
LEMMA MonitorKeepsSocket ==
  ASSUME SocketInv, Monitor
  PROVE  SocketInv'
<1> USE DEF SocketInv, MutexInv, ProtectInv, HandlingInv, ClosedInv,
            SuspendedInv, OpeningInv, UnansweredInv, Quiet,
            session, queue, errors, tcp, broker, process, application
<1>1. CASE CheckTimeout
  BY <1>1 DEF CheckTimeout, NodeTimeoutCb
<1>2. CASE MonMqtt
  BY <1>2 DEF MonMqtt, Close
<1>3. CASE MonSend
  BY <1>3 DEF MonSend, Send
<1>4. CASE MonSendFails
  BY <1>4 DEF MonSendFails, Close
<1>5. CASE MonPush
  BY <1>5 DEF MonPush
<1>6. CASE MonDisc
  BY <1>6 DEF MonDisc, SendsOver
<1>7. CASE MonDiscClose
  BY <1>7 DEF MonDiscClose, Close
<1>8. CASE MonSuspend
  BY <1>8 DEF MonSuspend
<1>9. CASE MonRec
  BY <1>9 DEF MonRec
<1>10. CASE MonRecClose
  BY <1>10 DEF MonRecClose, Close
<1>11. CASE MonRecPush
  BY <1>11 DEF MonRecPush
<1>12. CASE MonAlive
  BY <1>12 DEF MonAlive, Tests
<1>13. CASE MonLoop
  BY <1>13 DEF MonLoop, Tests
<1>14. ASSUME NEW result \in NetworkResult, MonNet(result) PROVE SocketInv'
  BY <1>14 DEF MonNet, ConnectNetwork, NetworkResult
<1>15. ASSUME NEW result \in NetworkResult, MonRecConnect(result) PROVE SocketInv'
  BY <1>15 DEF MonRecConnect, ConnectNetwork, NetworkResult
<1>16. ASSUME NEW b \in BOOLEAN, MonRecSend(b) PROVE SocketInv'
  BY <1>16 DEF MonRecSend, Send
<1>17. ASSUME NEW b \in BOOLEAN, MonAliveResult(b) PROVE SocketInv'
  BY <1>17 DEF MonAliveResult
<1> QED
  BY <1>1, <1>2, <1>3, <1>4, <1>5, <1>6, <1>7, <1>8, <1>9, <1>10, <1>11, <1>12, <1>13, <1>14, <1>15, <1>16, <1>17 DEF Monitor

\* The processing task preserves SocketInv.
LEMMA ProcessKeepsSocket ==
  ASSUME SocketInv, Process
  PROVE  SocketInv'
<1> USE DEF SocketInv, MutexInv, ProtectInv, HandlingInv, ClosedInv,
            SuspendedInv, OpeningInv, UnansweredInv, Quiet,
            session, queue, errors, tcp, broker, process, application
<1>1. CASE ProcLost
  BY <1>1 DEF ProcLost, Runs
<1>2. CASE ProcProtect
  BY <1>2 DEF ProcProtect, Runs
<1>3. CASE ProcRead
  BY <1>3 DEF ProcRead, Runs
<1>4. CASE ProcLeave
  BY <1>4 DEF ProcLeave, Runs
<1>5. CASE HandleConnack
  BY <1>5 DEF HandleConnack, ConackCb, Runs, Handles, Again
<1>6. CASE HandleSuback
  BY <1>6 DEF HandleSuback, Runs, Handles, Again
<1>7. CASE HandleUnsuback
  BY <1>7 DEF HandleUnsuback, Runs, Handles, Again
<1>8. CASE HandlePuback
  BY <1>8 DEF HandlePuback, Runs, Handles, Again
<1>9. CASE HandlePingresp
  BY <1>9 DEF HandlePingresp, Runs, Again
<1>10. ASSUME NEW b \in BOOLEAN, ProcTop(b) PROVE SocketInv'
  BY <1>10 DEF ProcTop, Runs
<1>11. ASSUME NEW b \in BOOLEAN, ProcPing(b) PROVE SocketInv'
  BY <1>11 DEF ProcPing, Runs, Send
<1>12. ASSUME NEW b \in BOOLEAN, SendPubrel(b) PROVE SocketInv'
  BY <1>12 DEF SendPubrel, Runs, Send, Again
<1>13. ASSUME NEW b \in BOOLEAN, HandlePublish(b) PROVE SocketInv'
  BY <1>13 DEF HandlePublish, Runs, Send, Again
<1> QED
  BY <1>1, <1>2, <1>3, <1>4, <1>5, <1>6, <1>7, <1>8, <1>9, <1>10, <1>11, <1>12, <1>13 DEF Process

\* The demo preserves SocketInv.
LEMMA DemoKeepsSocket ==
  ASSUME SocketInv, Con \/ ConAlready \/ Demo
  PROVE  SocketInv'
<1> USE DEF SocketInv, MutexInv, ProtectInv, HandlingInv, ClosedInv,
            SuspendedInv, OpeningInv, UnansweredInv, Quiet,
            session, queue, errors, tcp, broker, process, application
<1>1. CASE Con
  BY <1>1 DEF Con, InitCfg
<1>2. CASE ConAlready
  BY <1>2 DEF ConAlready
<1>3. CASE ConReturn
  BY <1>3 DEF ConReturn
<1>4. CASE OpBegin
  BY <1>4 DEF OpBegin
<1>5. CASE OpPush
  BY <1>5 DEF OpPush
<1>6. CASE OpReturn
  BY <1>6 DEF OpReturn
<1>7. CASE Disc
  BY <1>7 DEF Disc
<1>8. CASE DiscReturn
  BY <1>8 DEF DiscReturn
<1>9. CASE Del
  BY <1>9 DEF Del, Deinit
<1>10. CASE DelRefused
  BY <1>10 DEF DelRefused
<1>11. ASSUME NEW ok \in BOOLEAN, OpSend(ok) PROVE SocketInv'
  BY <1>11 DEF OpSend, Send
<1>12. ASSUME NEW ok \in BOOLEAN, DiscSend(ok) PROVE SocketInv'
  BY <1>12 DEF DiscSend, Send
<1> QED
  BY <1>1, <1>2, <1>3, <1>4, <1>5, <1>6, <1>7, <1>8, <1>9, <1>10, <1>11, <1>12 DEF Demo

\* Time, the network and the broker preserve SocketInv.
LEMMA EnvironmentKeepsSocket ==
  ASSUME SocketInv, Tick \/ Environment
  PROVE  SocketInv'
<1> USE DEF SocketInv, MutexInv, ProtectInv, HandlingInv, ClosedInv,
            SuspendedInv, OpeningInv, UnansweredInv, Quiet,
            session, queue, errors, tcp, broker, process, application
<1>1. CASE Tick
  BY <1>1 DEF Tick
<1>2. CASE LinkBreak
  BY <1>2 DEF LinkBreak
<1>3. CASE BrokerAnswer
  BY <1>3 DEF BrokerAnswer
<1>4. CASE BrokerSilent
  BY <1>4 DEF BrokerSilent
<1>5. ASSUME NEW code \in {"accepted", "kept", "refused"}, BrokerConnect(code) PROVE SocketInv'
  BY <1>5 DEF BrokerConnect
<1>6. ASSUME NEW topic \in Topics, NEW qos \in 1..2, BrokerPublish(topic, qos) PROVE SocketInv'
  BY <1>6 DEF BrokerPublish
<1> QED
  BY <1>1, <1>2, <1>3, <1>4, <1>5, <1>6 DEF Environment

\* The parts of SocketInv hold initially.
LEMMA SocketInitially == Init => SocketInv
  BY DEF Init, SocketInv, MutexInv, ProtectInv, HandlingInv, ClosedInv,
         SuspendedInv, OpeningInv, UnansweredInv, Quiet

\* Every step preserves SocketInv.
LEMMA SocketStep == SocketInv /\ [Next]_vars => SocketInv'
<1> SUFFICES ASSUME SocketInv, [Next]_vars PROVE SocketInv'
  OBVIOUS
<1>1. CASE Monitor
  BY <1>1, MonitorKeepsSocket
<1>2. CASE Process
  BY <1>2, ProcessKeepsSocket
<1>3. CASE Con \/ ConAlready \/ Demo
  BY <1>3, DemoKeepsSocket
<1>4. CASE Tick \/ Environment
  BY <1>4, EnvironmentKeepsSocket
<1>5. CASE UNCHANGED vars
  BY <1>5 DEF vars, session, queue, errors, tcp, broker, process, application,
              SocketInv, MutexInv, ProtectInv, HandlingInv, ClosedInv,
              SuspendedInv, OpeningInv, UnansweredInv, Quiet
<1> QED
  BY <1>1, <1>2, <1>3, <1>4, <1>5 DEF Next

\* SocketInv holds throughout.
LEMMA SocketInvariant == Spec => []SocketInv
  BY SocketInitially, SocketStep, PTL DEF Spec

-----------------------------------------------------------------------------
(* Sequences: the queue and what is in flight.                             *)

\* s' is s with some nodes gone or marked as timed out; none is new.
Thins(t, s) ==
    \E f \in [1..Len(t) -> 1..Len(s)] :
        /\ \A i, j \in 1..Len(t) : f[i] = f[j] => i = j
        /\ \A i \in 1..Len(t) : /\ t[i].type = s[f[i]].type
                                /\ t[i].id = s[f[i]].id
                                /\ t[i].topic = s[f[i]].topic

\* genc_slq_remove_item_at takes out the node at i and keeps the others.
LEMMA RemoveAtIndex ==
  ASSUME NEW S, NEW s \in Seq(S), NEW i \in 1..Len(s)
  PROVE  /\ RemoveAt(s, i) \in Seq(S) /\ Len(RemoveAt(s, i)) = Len(s) - 1
         /\ \A k \in 1..(Len(s) - 1) :
               RemoveAt(s, i)[k] = s[IF k < i THEN k ELSE k + 1]
<1> DEFINE a == SubSeq(s, 1, i - 1)
           b == SubSeq(s, i + 1, Len(s))
<1>1. /\ a \in Seq(S) /\ Len(a) = i - 1
      /\ \A k \in 1..(i - 1) : a[k] = s[k]
  BY SubSeqProperties
<1>2. /\ b \in Seq(S) /\ Len(b) = Len(s) - i
      /\ \A k \in 1..(Len(s) - i) : b[k] = s[i + k]
  BY SubSeqProperties
<1>3. RemoveAt(s, i) = a \o b
  BY DEF RemoveAt
<1> HIDE DEF a, b
<1>4. /\ a \o b \in Seq(S) /\ Len(a \o b) = Len(a) + Len(b)
      /\ \A k \in 1..(Len(a) + Len(b)) :
            (a \o b)[k] = IF k <= Len(a) THEN a[k] ELSE b[k - Len(a)]
  BY <1>1, <1>2, ConcatProperties, Zenon
<1>5. Len(s) \in Nat
  OBVIOUS
<1> DEFINE c == a \o b
<1>6. /\ c \in Seq(S) /\ Len(c) = Len(s) - 1
      /\ \A k \in 1..(Len(s) - 1) :
            c[k] = IF k <= i - 1 THEN a[k] ELSE b[k - (i - 1)]
  <2>1. Len(a) + Len(b) = Len(s) - 1
    BY <1>1, <1>2, <1>5
  <2> QED
    BY <1>1, <1>4, <2>1, Zenon
<1> HIDE DEF c
<1>7. \A k \in 1..(Len(s) - 1) : c[k] = s[IF k < i THEN k ELSE k + 1]
  BY <1>1, <1>2, <1>5, <1>6
<1> QED
  BY <1>3, <1>6, <1>7 DEF c

\* ... so that none is new.
LEMMA RemoveAtKeeps ==
  ASSUME NEW S, NEW s \in Seq(S), NEW i \in 1..Len(s)
  PROVE  RemoveAt(s, i) \in Seq(S) /\ Thins(RemoveAt(s, i), s)
<1> DEFINE f == [k \in 1..(Len(s) - 1) |-> IF k < i THEN k ELSE k + 1]
<1>1. /\ RemoveAt(s, i) \in Seq(S) /\ Len(RemoveAt(s, i)) = Len(s) - 1
      /\ \A k \in 1..(Len(s) - 1) : RemoveAt(s, i)[k] = s[f[k]]
  BY RemoveAtIndex
<1>2. f \in [1..(Len(s) - 1) -> 1..Len(s)]
  OBVIOUS
<1>3. \A j, k \in 1..(Len(s) - 1) : f[j] = f[k] => j = k
  OBVIOUS
<1> HIDE DEF f
<1> DEFINE t == RemoveAt(s, i)
<1>4. /\ f \in [1..Len(t) -> 1..Len(s)]
      /\ \A j, k \in 1..Len(t) : f[j] = f[k] => j = k
      /\ \A k \in 1..Len(t) : t[k] = s[f[k]]
  BY <1>1, <1>2, <1>3, Zenon
<1> HIDE DEF t
<1>5. Thins(t, s)
  BY <1>4, Zenon DEF Thins
<1> QED
  BY <1>1, <1>5 DEF t

\* cmmqtt_queue_checktimeout pops the first k nodes and keeps the others.
LEMMA PopKeeps ==
  ASSUME NEW S, NEW s \in Seq(S), NEW k \in 0..Len(s)
  PROVE  /\ SubSeq(s, k + 1, Len(s)) \in Seq(S)
         /\ Thins(SubSeq(s, k + 1, Len(s)), s)
<1> DEFINE t == SubSeq(s, k + 1, Len(s))
           f == [i \in 1..(Len(s) - k) |-> k + i]
<1>1. /\ t \in Seq(S) /\ Len(t) = Len(s) - k
      /\ \A i \in 1..(Len(s) - k) : t[i] = s[k + i]
  BY SubSeqProperties
<1>2. f \in [1..(Len(s) - k) -> 1..Len(s)]
  OBVIOUS
<1>3. /\ \A i, j \in 1..(Len(s) - k) : f[i] = f[j] => i = j
      /\ \A i \in 1..(Len(s) - k) : t[i] = s[f[i]]
  BY <1>1
<1> HIDE DEF f, t
<1>4. /\ f \in [1..Len(t) -> 1..Len(s)]
      /\ \A i, j \in 1..Len(t) : f[i] = f[j] => i = j
      /\ \A i \in 1..Len(t) : t[i] = s[f[i]]
  BY <1>1, <1>2, <1>3, Zenon
<1>5. t \in Seq(S) /\ Thins(t, s)
  BY <1>1, <1>4, Zenon DEF Thins
<1> QED
  BY <1>5 DEF t

\* A queue is kept by leaving it alone and by emptying it.
LEMMA SameThins ==
  ASSUME NEW S, NEW s \in Seq(S)
  PROVE  Thins(s, s) /\ Thins(<< >>, s)
<1> DEFINE f == [i \in 1..Len(s) |-> i]
           g == [i \in 1..0 |-> 1]
<1>1. f \in [1..Len(s) -> 1..Len(s)] /\ \A i \in 1..Len(s) : f[i] = i
  OBVIOUS
<1>2. Len(<< >>) = 0 /\ 1..0 = {} /\ g \in [1..0 -> 1..Len(s)]
  OBVIOUS
<1> HIDE DEF f, g
<1>3. Thins(s, s)
  BY <1>1 DEF Thins
<1>4. Thins(<< >>, s)
  BY <1>2 DEF Thins
<1> QED
  BY <1>3, <1>4

\* A timer that runs out changes only the mark.
LEMMA TickKeeps ==
  ASSUME NEW s \in Seq(NodeSet), NEW i \in 1..Len(s)
  PROVE  /\ [s EXCEPT ![i].due = TRUE] \in Seq(NodeSet)
         /\ Thins([s EXCEPT ![i].due = TRUE], s)
<1> DEFINE t == [s EXCEPT ![i].due = TRUE]
           f == [k \in 1..Len(s) |-> k]
<1>0. DOMAIN s = 1..Len(s) /\ DOMAIN t = 1..Len(s)
  OBVIOUS
<1>1. ASSUME NEW k \in 1..Len(s)
      PROVE  /\ t[k] \in NodeSet
             /\ t[k].type = s[k].type /\ t[k].id = s[k].id /\ t[k].topic = s[k].topic
  <2>1. s[k] \in NodeSet
    OBVIOUS
  <2>2. CASE k = i
    <3>1. t[k] = [s[k] EXCEPT !.due = TRUE]
      BY <2>2, <1>0
    <3> HIDE DEF t
    <3> QED
      BY <2>1, <3>1 DEF NodeSet
  <2>3. CASE k # i
    <3>1. t[k] = s[k]
      BY <2>3, <1>0
    <3> QED
      BY <2>1, <3>1
  <2> QED
    BY <2>2, <2>3
<1>2. Len(s) \in Nat
  OBVIOUS
<1>3. t \in [1..Len(s) -> NodeSet]
  <2>1. t = [k \in 1..Len(s) |-> t[k]]
    BY <1>0
  <2> HIDE DEF t
  <2> QED
    BY <1>1, <2>1
<1>4. t \in Seq(NodeSet) /\ Len(t) = Len(s)
  <2> HIDE DEF t
  <2> QED
    BY <1>2, <1>3
<1>5. f \in [1..Len(s) -> 1..Len(s)] /\ \A k \in 1..Len(s) : f[k] = k
  OBVIOUS
<1> HIDE DEF t, f
<1>6. t \in Seq(NodeSet) /\ Thins(t, s)
  <2>1. f \in [1..Len(t) -> 1..Len(s)]
    BY <1>4, <1>5
  <2>2. \A j, k \in 1..Len(t) : f[j] = f[k] => j = k
    BY <1>4, <1>5
  <2>3. ASSUME NEW k \in 1..Len(t)
        PROVE  t[k].type = s[f[k]].type /\ t[k].id = s[f[k]].id /\ t[k].topic = s[f[k]].topic
    <3>1. f[k] = k /\ k \in 1..Len(s)
      BY <1>4, <1>5
    <3> QED
      BY <1>1, <3>1
  <2> QED
    BY <1>4, <2>1, <2>2, <2>3, Zenon DEF Thins
<1> QED
  BY <1>6 DEF t

\* The members of a sequence that was appended to, or cut at its head.
LEMMA RangeFacts ==
  ASSUME NEW S, NEW s \in Seq(S)
  PROVE  /\ \A x \in S : Append(s, x) \in Seq(S) /\ Range(Append(s, x)) = Range(s) \cup {x}
         /\ s # << >> => /\ Head(s) \in Range(s) /\ Head(s) \in S
                         /\ Tail(s) \in Seq(S) /\ Range(Tail(s)) \subseteq Range(s)
         /\ Range(s) = {s[i] : i \in 1..Len(s)}
         /\ Range(s) \subseteq S
<1>1. Range(s) = {s[i] : i \in 1..Len(s)}
  BY DEF Range
<1>2. ASSUME NEW x \in S
      PROVE  Append(s, x) \in Seq(S) /\ Range(Append(s, x)) = Range(s) \cup {x}
  <2> DEFINE t == Append(s, x)
  <2>1. /\ t \in Seq(S) /\ Len(t) = Len(s) + 1
        /\ \A i \in 1..Len(s) : t[i] = s[i]
        /\ t[Len(s) + 1] = x
    OBVIOUS
  <2>2. Range(t) = {t[i] : i \in 1..Len(t)} /\ Len(s) \in Nat
    BY <2>1 DEF Range
  <2> HIDE DEF t
  <2>3. Range(t) = Range(s) \cup {x}
    BY <1>1, <2>1, <2>2
  <2> QED
    BY <2>1, <2>3 DEF t
<1>3. ASSUME s # << >>
      PROVE  /\ Head(s) \in Range(s) /\ Head(s) \in S
             /\ Tail(s) \in Seq(S) /\ Range(Tail(s)) \subseteq Range(s)
  <2> DEFINE t == Tail(s)
  <2>1. /\ t \in Seq(S) /\ Len(t) = Len(s) - 1 /\ Len(s) \in Nat /\ Len(s) # 0
        /\ \A i \in 1..(Len(s) - 1) : t[i] = s[i + 1]
        /\ Head(s) = s[1]
    BY <1>3
  <2> HIDE DEF t
  <2>2. Range(t) = {t[i] : i \in 1..Len(t)}
    BY <2>1 DEF Range
  <2>3. Range(t) \subseteq Range(s) /\ Head(s) \in Range(s) /\ Head(s) \in S
    BY <1>1, <2>1, <2>2
  <2> QED
    BY <2>1, <2>3 DEF t
<1> QED
  BY <1>1, <1>2, <1>3

\* The members of a sequence with another behind it.
LEMMA RangeConcat ==
  ASSUME NEW S, NEW s \in Seq(S), NEW t \in Seq(S)
  PROVE  s \o t \in Seq(S) /\ Range(s \o t) = Range(s) \cup Range(t)
<1> DEFINE c == s \o t
<1>1. /\ c \in Seq(S) /\ Len(c) = Len(s) + Len(t)
      /\ \A i \in 1..(Len(s) + Len(t)) :
            c[i] = IF i <= Len(s) THEN s[i] ELSE t[i - Len(s)]
  BY ConcatProperties
<1>2. Range(s) = {s[i] : i \in 1..Len(s)} /\ Range(t) = {t[i] : i \in 1..Len(t)}
  BY DEF Range
<1>3. Range(c) = {c[i] : i \in 1..Len(c)} /\ Len(s) \in Nat /\ Len(t) \in Nat
  BY <1>1 DEF Range
<1> HIDE DEF c
<1>4. Range(c) \subseteq Range(s) \cup Range(t)
  BY <1>1, <1>2, <1>3
<1>5. Range(s) \subseteq Range(c)
  BY <1>1, <1>2, <1>3
<1>6. ASSUME NEW i \in 1..Len(t) PROVE t[i] \in Range(c)
  <2>1. Len(s) + i \in 1..Len(c) /\ c[Len(s) + i] = t[i]
    BY <1>1, <1>3
  <2> QED
    BY <1>3, <2>1
<1> QED
  BY <1>1, <1>2, <1>4, <1>5, <1>6 DEF c

\* What each task leaves alone.
LEMMA TaskFrames ==
  /\ Monitor => UNCHANGED <<topictable, granted, next_packetid, proc, pkt, app, step, sessions>>
  /\ Process => UNCHANGED <<conmsg, granted, accepted, next_packetid, mon, suspended, sock, link,
                            app, step, sessions>>
  /\ Con \/ ConAlready \/ Demo => UNCHANGED <<granted, accepted, link, down, pkt, sock_protect>>
  /\ Tick \/ Environment =>
        UNCHANGED <<state, conmsg, topictable, next_packetid, sock, mon, proc, pkt, suspended,
                    app, step, sessions>>
<1> USE DEF session, queue, errors, tcp, broker, process, application
<1>1. Monitor => UNCHANGED <<topictable, granted, next_packetid, proc, pkt, app, step, sessions>>
  BY DEF Monitor, CheckTimeout, MonMqtt, MonSend, MonSendFails, MonPush, MonDisc, MonDiscClose,
         MonSuspend, MonRec, MonRecClose, MonRecPush, MonAlive, MonLoop, MonNet, MonRecConnect,
         MonRecSend, MonAliveResult, Close, ConnectNetwork
<1>2. Process => UNCHANGED <<conmsg, granted, accepted, next_packetid, mon, suspended, sock, link,
                             app, step, sessions>>
  BY DEF Process, ProcLost, ProcProtect, ProcRead, ProcLeave, ProcTop, ProcPing, HandleConnack,
         ConackCb, HandleSuback, HandleUnsuback, HandlePuback, HandlePublish, HandlePingresp,
         SendPubrel, Send
<1>3. Con \/ ConAlready \/ Demo => UNCHANGED <<granted, accepted, link, down, pkt, sock_protect>>
  BY DEF Con, InitCfg, ConAlready, Demo, ConReturn, OpBegin, OpSend, OpPush, OpReturn, Disc,
         DiscSend, DiscReturn, Del, Deinit, DelRefused, Send
<1>4. Tick \/ Environment =>
        UNCHANGED <<state, conmsg, topictable, next_packetid, sock, mon, proc, pkt, suspended,
                    app, step, sessions>>
  BY DEF Tick, Environment, LinkBreak, BrokerAnswer, BrokerSilent, BrokerConnect, BrokerPublish
<1> QED
  BY <1>1, <1>2, <1>3, <1>4

\* A queue from which nodes were taken still holds requests only.
LEMMA ThinsTyped ==
  ASSUME NEW s \in Seq(NodeSet), NEW t \in Seq(NodeSet), Thins(t, s),
         \A n \in Range(s) : n.type # "CONNECT" => n.topic \in Topics
  PROVE  \A n \in Range(t) : n.type # "CONNECT" => n.topic \in Topics
<1>1. Range(s) = {s[i] : i \in 1..Len(s)} /\ Range(t) = {t[i] : i \in 1..Len(t)}
  BY RangeFacts
<1>2. PICK f \in [1..Len(t) -> 1..Len(s)] :
        \A i \in 1..Len(t) : t[i].type = s[f[i]].type /\ t[i].topic = s[f[i]].topic
  BY DEF Thins
<1>3. ASSUME NEW i \in 1..Len(t), t[i].type # "CONNECT" PROVE t[i].topic \in Topics
  <2>1. f[i] \in 1..Len(s) /\ s[f[i]] \in Range(s)
    BY <1>1, <1>2
  <2> QED
    BY <1>2, <1>3, <2>1
<1> QED
  BY <1>1, <1>3

\* The first node that fits is a node.
LEMMA MatchInQueue ==
  ASSUME NEW type, NEW id, NEW qoses, NEW i \in Match(type, id, qoses)
  PROVE  i \in 1..Len(sendqueue) /\ Fits(sendqueue[i], type, id, qoses)
  BY DEF Match

\* Only MonPush, MonRecPush and OpPush add to the queue.
Pushes == MonPush \/ MonRecPush \/ OpPush

\* Every other step leaves the queue alone, takes nodes out or marks one.
LEMMA QueueShrinks ==
  ASSUME sendqueue \in Seq(NodeSet), Next, ~Pushes
  PROVE  sendqueue' \in Seq(NodeSet) /\ Thins(sendqueue', sendqueue)
<1> USE DEF session, queue, errors, tcp, broker, process, application
<1>1. CASE UNCHANGED sendqueue
  BY <1>1, SameThins
<1>2. CASE sendqueue' = << >>
  BY <1>2, SameThins
<1>3. CASE \E i \in 1..Len(sendqueue) : sendqueue' = RemoveAt(sendqueue, i)
  BY <1>3, RemoveAtKeeps
<1>4. CASE CheckTimeout
  BY <1>4, PopKeeps DEF CheckTimeout
<1>5. CASE Tick
  BY <1>5, TickKeeps DEF Tick
<1>6. CASE HandleConnack
  <2>1. CASE Match("CONNECT", 0, {0}) = {}
    BY <1>1, <1>6, <2>1 DEF HandleConnack
  <2>2. ASSUME NEW i \in Match("CONNECT", 0, {0}), ConackCb(i)
        PROVE  \/ \E j \in 1..Len(sendqueue) : sendqueue' = RemoveAt(sendqueue, j)
               \/ sendqueue' = << >>
    <3>1. i \in 1..Len(sendqueue)
      BY MatchInQueue
    <3> QED
      BY <2>2, <3>1 DEF ConackCb
  <2> QED
    BY <1>2, <1>3, <1>6, <2>1, <2>2 DEF HandleConnack
<1>7. CASE HandleSuback
  BY <1>1, <1>3, <1>7, MatchInQueue DEF HandleSuback
<1>8. CASE HandleUnsuback
  BY <1>1, <1>3, <1>8, MatchInQueue DEF HandleUnsuback
<1>9. CASE HandlePuback
  BY <1>1, <1>3, <1>9, MatchInQueue DEF HandlePuback
<1>10. CASE Monitor /\ ~CheckTimeout
  <2>1. UNCHANGED sendqueue \/ sendqueue' = << >>
    BY <1>10 DEF Pushes, Monitor, MonMqtt, MonSend, MonSendFails, MonDisc,
         MonDiscClose, MonSuspend, MonRec, MonRecClose, MonAlive, MonLoop, MonNet,
         MonRecConnect, MonRecSend, MonAliveResult
  <2> QED
    BY <1>1, <1>2, <2>1
<1>11. CASE Process /\ ~HandleConnack /\ ~HandleSuback /\ ~HandleUnsuback /\ ~HandlePuback
  <2>1. UNCHANGED sendqueue
    BY <1>11 DEF Process, ProcLost, ProcProtect, ProcRead, ProcLeave, HandlePingresp,
         ProcTop, ProcPing, SendPubrel, HandlePublish
  <2> QED
    BY <1>1, <2>1
<1>12. CASE Con \/ ConAlready \/ Demo
  <2>1. UNCHANGED sendqueue \/ sendqueue' = << >>
    BY <1>12 DEF Pushes, Con, ConAlready, Demo, InitCfg, ConReturn, OpBegin, OpReturn, Disc,
         DiscReturn, Del, Deinit, DelRefused, OpSend, DiscSend
  <2> QED
    BY <1>1, <1>2, <2>1
<1>13. CASE Environment
  <2>1. UNCHANGED sendqueue
    BY <1>13 DEF Environment, LinkBreak, BrokerAnswer, BrokerSilent, BrokerConnect,
         BrokerPublish
  <2> QED
    BY <1>1, <2>1
<1> QED
  BY <1>4, <1>5, <1>6, <1>7, <1>8, <1>9, <1>10, <1>11, <1>12, <1>13 DEF Next

-----------------------------------------------------------------------------
(* Types.                                                                  *)

\* The limits that the counters stay below.
LimitsInv ==
    /\ mon \in {"rec_delay", "rec_send", "rec_push"} => connectnum < MaxConnectTimes
    /\ proc = "ping" => pinglostnum < MaxPingLost
    /\ app \in {"send", "push", "wait"} => step <= Len(Script)
    /\ app # "idle" => sessions < MaxSessions

\* The packets the client and the broker make are packets.
LEMMA PacketTyped ==
  ASSUME NEW type \in PacketType, NEW id \in Nat, NEW topic \in Topics \cup {NoTopic},
         NEW qos \in {0, 1, 2, 128}, NEW code \in {"none", "accepted", "kept", "refused"}
  PROVE  /\ Packet(type, id, topic, qos, code) \in PacketSet
         /\ Control(type) \in PacketSet
         /\ Ack(type, id) \in PacketSet
  BY DEF Packet, Control, Ack, PacketSet

\* cmmqtt_sendPacket adds the packet to what is in flight, or nothing.
LEMMA SendAdds ==
  ASSUME up \in Seq(PacketSet), NEW packet \in PacketSet, NEW ok \in BOOLEAN, Send(packet, ok)
  PROVE  /\ up' \in Seq(PacketSet)
         /\ up' = up \/ (up' = Append(up, packet) /\ ok)
         /\ Range(up') \subseteq Range(up) \cup {packet}
<1>1. up' = up \/ (up' = Append(up, packet) /\ ok)
  BY DEF Send
<1>2. Append(up, packet) \in Seq(PacketSet) /\ Range(Append(up, packet)) = Range(up) \cup {packet}
  BY RangeFacts
<1> QED
  BY <1>1, <1>2

\* The broker answers p with one packet q: never a CONNACK, and a SUBACK
\* only to a SUBSCRIBE, for which it may hold the subscription.
Answers1(p, a, q) ==
    /\ a[2] = <<q>> /\ q.type # "CONNACK"
    /\ q.type # "SUBACK" => a[1] \in {granted, granted \ {p.topic}}
    /\ p.type # "UNSUBSCRIBE" => granted \subseteq a[1]
    /\ q.type = "SUBACK" =>
          /\ p.type = "SUBSCRIBE" /\ q.id = p.id
          /\ a[1] = granted \cup {p.topic} \/ (a[1] = granted /\ q.qos = 128)

\* What the broker answers with.
LEMMA AnswersShape ==
  ASSUME NEW p \in PacketSet, p.type = "PUBLISH" => p.qos \in 0..2, NEW a \in Answers(p)
  PROVE  \/ a[1] = granted /\ a[2] = << >>
         \/ \E q \in PacketSet : Answers1(p, a, q)
<1>1. p.type \in PacketType /\ p.id \in Nat /\ p.topic \in Topics \cup {NoTopic} /\ p.qos \in {0, 1, 2, 128}
  BY DEF PacketSet
<1>2. ASSUME NEW type \in PacketType
      PROVE  Ack(type, p.id) \in PacketSet /\ Ack(type, p.id).type = type
  BY <1>1 DEF Ack, Packet, PacketSet
<1>3. Control("PINGRESP") \in PacketSet /\ Control("PINGRESP").type = "PINGRESP"
  BY DEF Control, Packet, PacketSet, PacketType
<1>4. CASE p.type = "SUBSCRIBE"
  <2> DEFINE q(qos) == Packet("SUBACK", p.id, NoTopic, qos, "none")
  <2>1. a = <<granted \cup {p.topic}, <<q(p.qos)>> >> \/ a = <<granted, <<q(128)>> >>
    BY <1>4, Zenon DEF Answers
  <2>2. ASSUME NEW qos \in {0, 1, 2, 128}
        PROVE  q(qos) \in PacketSet /\ q(qos).type = "SUBACK" /\ q(qos).id = p.id /\ q(qos).qos = qos
    BY <1>1 DEF Packet, PacketSet, PacketType
  <2> HIDE DEF q
  <2>3. Answers1(p, a, q(p.qos)) \/ Answers1(p, a, q(128))
    BY <1>1, <1>4, <2>1, <2>2 DEF Answers1
  <2> QED
    BY <1>1, <2>2, <2>3
<1>5. CASE p.type = "UNSUBSCRIBE"
  <2>1. a = <<granted \ {p.topic}, <<Ack("UNSUBACK", p.id)>> >>
    BY <1>5 DEF Answers
  <2>2. Ack("UNSUBACK", p.id) \in PacketSet /\ Ack("UNSUBACK", p.id).type = "UNSUBACK"
    BY <1>2 DEF PacketType
  <2>3. Answers1(p, a, Ack("UNSUBACK", p.id))
    BY <1>5, <2>1, <2>2 DEF Answers1
  <2> QED
    BY <2>2, <2>3
<1>6. ASSUME NEW q \in PacketSet, q.type \notin {"CONNACK", "SUBACK"}, a = <<granted, <<q>> >>
      PROVE  Answers1(p, a, q)
  BY <1>6 DEF Answers1
<1>7. CASE p.type = "PUBLISH"
  <2>1. a = <<granted, CASE p.qos = 0 -> << >>
                         [] p.qos = 1 -> <<Ack("PUBACK", p.id)>>
                         [] p.qos = 2 -> <<Ack("PUBREC", p.id)>> >>
    BY <1>7 DEF Answers
  <2>2. p.qos = 0 \/ p.qos = 1 \/ p.qos = 2
    BY <1>7
  <2>3. \/ a[1] = granted /\ a[2] = << >>
        \/ a = <<granted, <<Ack("PUBACK", p.id)>> >>
        \/ a = <<granted, <<Ack("PUBREC", p.id)>> >>
    BY <2>1, <2>2
  <2>4. "PUBACK" \in PacketType /\ "PUBREC" \in PacketType
    BY DEF PacketType
  <2> QED
    BY <1>2, <1>6, <2>3, <2>4
<1>8. CASE p.type \in {"PUBREL", "PUBREC", "PINGREQ"}
  <2>1. \/ a = <<granted, <<Ack("PUBCOMP", p.id)>> >>
        \/ a = <<granted, <<Ack("PUBREL", p.id)>> >>
        \/ a = <<granted, <<Control("PINGRESP")>> >>
    BY <1>8, Zenon DEF Answers
  <2>2. "PUBCOMP" \in PacketType /\ "PUBREL" \in PacketType
    BY DEF PacketType
  <2> QED
    BY <1>2, <1>3, <1>6, <2>1, <2>2
<1>9. CASE p.type \notin {"SUBSCRIBE", "UNSUBSCRIBE", "PUBLISH", "PUBREL", "PUBREC", "PINGREQ"}
  <2>1. a = <<granted, << >> >>
    BY <1>9, Zenon DEF Answers
  <2> QED
    BY <2>1
<1> QED
  BY <1>4, <1>5, <1>7, <1>8, <1>9

\* The answers are packets, and the broker's session holds topics.
LEMMA AnswersTyped ==
  ASSUME granted \subseteq Topics, NEW p \in PacketSet, p.type = "PUBLISH" => p.qos \in 0..2,
         p.type = "SUBSCRIBE" => p.topic \in Topics,
         NEW a \in Answers(p)
  PROVE  /\ a[1] \subseteq Topics /\ a[2] \in Seq(PacketSet)
         /\ \/ Range(a[2]) = {} /\ a[1] = granted
            \/ \E q \in PacketSet : Answers1(p, a, q) /\ Range(a[2]) = {q}
<1>1. \A q \in PacketSet : <<q>> \in Seq(PacketSet) /\ Range(<<q>>) = {q}
  BY DEF Range
<1>2. << >> \in Seq(PacketSet) /\ Range(<< >>) = {}
  BY DEF Range
<1>3. CASE a[1] = granted /\ a[2] = << >>
  BY <1>2, <1>3
<1>4. ASSUME NEW q \in PacketSet, Answers1(p, a, q)
      PROVE  a[1] \subseteq Topics /\ a[2] \in Seq(PacketSet) /\ Range(a[2]) = {q}
  BY <1>1, <1>4 DEF Answers1
<1> QED
  BY <1>3, <1>4, AnswersShape

\* TypeOK without the queue and the packets.
ScalarsOK ==
    /\ state \in State
    /\ connectnum \in 0..MaxConnectTimes
    /\ pinglostnum \in 0..MaxPingLost /\ queuemutex \in {"free", "proc"}
    /\ next_packetid \in Nat \ {0}
    /\ connect_error \in {"none", "ok", "fail", "sendpack"}
    /\ conpasswd_error \in {"none", "ok", "fail"}
    /\ sub_error \in {"none", "ok", "done", "fail"}
    /\ sock \in {"none", "open", "closed"}
    /\ inbound \in 0..MaxInbound /\ breaks \in 0..MaxBreaks
    /\ mon \in MonPc /\ proc \in ProcPc
    /\ app \in AppPc /\ step \in 1..(Len(Script) + 1)
    /\ sessions \in 0..MaxSessions
    /\ LimitsInv

\* The monitor keeps the program counters and the counters in their ranges.
LEMMA MonitorKeepsScalars ==
  ASSUME ScalarsOK, Monitor
  PROVE  ScalarsOK'
<1> USE SettingsAssumption, BoundsAssumption
    DEF ScalarsOK, LimitsInv, State, MonPc, Tests,
            session, queue, errors, tcp, broker, process, application
<1>1. CASE CheckTimeout
  BY <1>1 DEF CheckTimeout, NodeTimeoutCb
<1>2. CASE MonMqtt
  BY <1>2 DEF MonMqtt, Close
<1>3. CASE MonSend
  BY <1>3 DEF MonSend, Send
<1>4. CASE MonSendFails
  BY <1>4 DEF MonSendFails, Close
<1>5. CASE MonPush
  BY <1>5 DEF MonPush
<1>6. CASE MonDisc
  BY <1>6 DEF MonDisc
<1>7. CASE MonDiscClose
  BY <1>7 DEF MonDiscClose, Close
<1>8. CASE MonSuspend
  BY <1>8 DEF MonSuspend
<1>9. CASE MonRec
  BY <1>9 DEF MonRec
<1>10. CASE MonRecClose
  BY <1>10 DEF MonRecClose, Close
<1>11. CASE MonRecPush
  BY <1>11 DEF MonRecPush
<1>12. CASE MonAlive
  BY <1>12 DEF MonAlive
<1>13. CASE MonLoop
  BY <1>13 DEF MonLoop
<1>14. ASSUME NEW result \in NetworkResult, MonNet(result) PROVE ScalarsOK'
  BY <1>14 DEF MonNet, ConnectNetwork, NetworkResult
<1>15. ASSUME NEW result \in NetworkResult, MonRecConnect(result) PROVE ScalarsOK'
  <2>1. sock' \in {"none", "open", "closed"} /\ connect_error' \in {"none", "ok", "fail", "sendpack"}
    BY <1>15 DEF MonRecConnect, ConnectNetwork, NetworkResult
  <2>2. mon' \in MonPc /\ state' \in State
    BY <1>15 DEF MonRecConnect
  <2>3. /\ mon = "rec_delay"
        /\ mon' = "alive" \/ (mon' = "rec_send" /\ connectnum' = connectnum)
        /\ connectnum' \in {connectnum, connectnum + 1}
    BY <1>15 DEF MonRecConnect
  <2>4. UNCHANGED <<pinglostnum, queuemutex, next_packetid, conpasswd_error, sub_error, inbound,
                    breaks, proc, app, step, sessions>>
    BY <1>15 DEF MonRecConnect, ConnectNetwork
  <2> QED
    BY <2>1, <2>2, <2>3, <2>4
<1>16. ASSUME NEW b \in BOOLEAN, MonRecSend(b) PROVE ScalarsOK'
  BY <1>16 DEF MonRecSend, Send
<1>17. ASSUME NEW b \in BOOLEAN, MonAliveResult(b) PROVE ScalarsOK'
  BY <1>17 DEF MonAliveResult
<1> QED
  BY <1>1, <1>2, <1>3, <1>4, <1>5, <1>6, <1>7, <1>8, <1>9, <1>10, <1>11, <1>12, <1>13, <1>14, <1>15, <1>16, <1>17 DEF Monitor

\* So does the processing task.
LEMMA ProcessKeepsScalars ==
  ASSUME ScalarsOK, Process
  PROVE  ScalarsOK'
<1> USE SettingsAssumption, BoundsAssumption
    DEF ScalarsOK, LimitsInv, State, ProcPc,
            session, queue, errors, tcp, broker, process, application
<1>1. CASE ProcLost
  BY <1>1 DEF ProcLost, Runs
<1>2. CASE ProcProtect
  BY <1>2 DEF ProcProtect, Runs
<1>3. CASE ProcRead
  BY <1>3 DEF ProcRead, Runs
<1>4. CASE ProcLeave
  BY <1>4 DEF ProcLeave, Runs
<1>5. CASE HandleConnack
  BY <1>5 DEF HandleConnack, ConackCb, Runs, Handles, Again
<1>6. CASE HandleSuback
  BY <1>6 DEF HandleSuback, Runs, Handles, Again
<1>7. CASE HandleUnsuback
  BY <1>7 DEF HandleUnsuback, Runs, Handles, Again
<1>8. CASE HandlePuback
  BY <1>8 DEF HandlePuback, Runs, Handles, Again
<1>9. CASE HandlePingresp
  BY <1>9 DEF HandlePingresp, Runs, Again
<1>10. ASSUME NEW b \in BOOLEAN, ProcTop(b) PROVE ScalarsOK'
  BY <1>10 DEF ProcTop, Runs
<1>11. ASSUME NEW b \in BOOLEAN, ProcPing(b) PROVE ScalarsOK'
  BY <1>11 DEF ProcPing, Runs, Send
<1>12. ASSUME NEW b \in BOOLEAN, SendPubrel(b) PROVE ScalarsOK'
  BY <1>12 DEF SendPubrel, Runs, Send, Again
<1>13. ASSUME NEW b \in BOOLEAN, HandlePublish(b) PROVE ScalarsOK'
  BY <1>13 DEF HandlePublish, Runs, Send, Again
<1> QED
  BY <1>1, <1>2, <1>3, <1>4, <1>5, <1>6, <1>7, <1>8, <1>9, <1>10, <1>11, <1>12, <1>13 DEF Process

\* So does the demo.
LEMMA DemoKeepsScalars ==
  ASSUME ScalarsOK, Con \/ ConAlready \/ Demo
  PROVE  ScalarsOK'
<1>0. Len(Script) \in Nat
  BY ScriptAssumption
<1> USE <1>0, SettingsAssumption, BoundsAssumption
    DEF ScalarsOK, LimitsInv, State, AppPc, MonPc, ProcPc, Tests,
            session, queue, errors, tcp, broker, process, application
<1>1. CASE Con
  BY <1>1 DEF Con, InitCfg
<1>2. CASE ConAlready
  BY <1>2 DEF ConAlready
<1>3. CASE ConReturn
  BY <1>3 DEF ConReturn
<1>4. CASE OpBegin
  BY <1>4 DEF OpBegin
<1>5. CASE OpPush
  BY <1>5 DEF OpPush
<1>6. CASE OpReturn
  BY <1>6 DEF OpReturn
<1>7. CASE Disc
  BY <1>7 DEF Disc
<1>8. CASE DiscReturn
  BY <1>8 DEF DiscReturn
<1>9. CASE Del
  BY <1>9 DEF Del, Deinit
<1>10. CASE DelRefused
  BY <1>10 DEF DelRefused
<1>11. ASSUME NEW ok \in BOOLEAN, OpSend(ok) PROVE ScalarsOK'
  BY <1>11 DEF OpSend, Send
<1>12. ASSUME NEW ok \in BOOLEAN, DiscSend(ok) PROVE ScalarsOK'
  BY <1>12 DEF DiscSend, Send
<1> QED
  BY <1>1, <1>2, <1>3, <1>4, <1>5, <1>6, <1>7, <1>8, <1>9, <1>10, <1>11, <1>12 DEF Demo

\* So do time, the network and the broker.
LEMMA EnvironmentKeepsScalars ==
  ASSUME ScalarsOK, Tick \/ Environment
  PROVE  ScalarsOK'
<1> USE SettingsAssumption, BoundsAssumption
    DEF ScalarsOK, LimitsInv,
            session, queue, errors, tcp, broker, process, application
<1>1. CASE Tick
  BY <1>1 DEF Tick
<1>2. CASE LinkBreak
  BY <1>2 DEF LinkBreak
<1>3. CASE BrokerAnswer
  BY <1>3 DEF BrokerAnswer
<1>4. CASE BrokerSilent
  BY <1>4 DEF BrokerSilent
<1>5. ASSUME NEW code \in {"accepted", "kept", "refused"}, BrokerConnect(code) PROVE ScalarsOK'
  BY <1>5 DEF BrokerConnect
<1>6. ASSUME NEW topic \in Topics, NEW qos \in 1..2, BrokerPublish(topic, qos) PROVE ScalarsOK'
  BY <1>6 DEF BrokerPublish
<1> QED
  BY <1>1, <1>2, <1>3, <1>4, <1>5, <1>6 DEF Environment

FlagsOK ==
    /\ conmsg \in BOOLEAN /\ link \in BOOLEAN /\ accepted \in BOOLEAN
    /\ suspended \in BOOLEAN /\ sock_protect \in BOOLEAN

\* The flags stay flags.
LEMMA FlagsStep ==
  ASSUME FlagsOK, Next
  PROVE  FlagsOK'
<1> USE DEF FlagsOK, session, queue, errors, tcp, broker, process, application
<1>1. CASE Monitor
  <2>1. ASSUME Close PROVE link' \in BOOLEAN /\ accepted' \in BOOLEAN
    BY <2>1, Zenon DEF Close
  <2>2. ASSUME NEW result, ConnectNetwork(result) PROVE link' \in BOOLEAN /\ accepted' \in BOOLEAN
    BY <2>2, Zenon DEF ConnectNetwork
  <2>3. ASSUME NEW p, NEW ok, Send(p, ok) PROVE link' \in BOOLEAN
    BY <2>3, Zenon DEF Send
  <2>4. CASE CheckTimeout
    BY <2>4, Zenon DEF CheckTimeout
  <2>5. CASE MonMqtt
    BY <2>5, <2>1, Zenon DEF MonMqtt
  <2>6. CASE MonSend
    BY <2>6, <2>3, Zenon DEF MonSend
  <2>7. CASE MonSendFails
    BY <2>7, <2>1, Zenon DEF MonSendFails
  <2>8. CASE MonPush \/ MonDisc \/ MonRec \/ MonRecPush \/ MonAlive \/ MonLoop
    BY <2>8, Zenon DEF MonPush, MonDisc, MonRec, MonRecPush, MonAlive, MonLoop
  <2>9. CASE MonDiscClose \/ MonRecClose
    BY <2>9, <2>1, Zenon DEF MonDiscClose, MonRecClose
  <2>10. CASE MonSuspend
    BY <2>10, Zenon DEF MonSuspend
  <2>11. CASE \E result \in NetworkResult : MonNet(result) \/ MonRecConnect(result)
    BY <2>11, <2>2, Zenon DEF MonNet, MonRecConnect
  <2>12. CASE \E b \in BOOLEAN : MonRecSend(b) \/ MonAliveResult(b)
    BY <2>12, <2>3, Zenon DEF MonRecSend, MonAliveResult
  <2> QED
    BY <1>1, <2>4, <2>5, <2>6, <2>7, <2>8, <2>9, <2>10, <2>11, <2>12 DEF Monitor
<1>2. CASE Process
  <2>1. UNCHANGED <<conmsg, link, accepted, suspended>>
    BY <1>2, TaskFrames
  <2>2. sock_protect' \in {sock_protect, TRUE, FALSE}
    BY <1>2 DEF Process, ProcLost, ProcProtect, ProcRead, ProcLeave, HandlePingresp,
         ProcTop, ProcPing, SendPubrel, HandlePublish, HandleConnack, ConackCb, HandleSuback,
         HandleUnsuback, HandlePuback, Send
  <2> QED
    BY <2>1, <2>2, Zenon
<1>3. CASE Con \/ ConAlready \/ Demo
  <2>1. UNCHANGED <<link, accepted, sock_protect>>
    BY <1>3, TaskFrames
  <2>2. conmsg' \in {conmsg, TRUE, FALSE}
    BY <1>3 DEF Con, ConAlready, Demo, InitCfg, ConReturn, OpBegin, OpReturn, Disc,
         DiscReturn, Del, Deinit, DelRefused, OpSend, DiscSend, OpPush, Send
  <2>3. suspended' \in {suspended, TRUE, FALSE}
    BY <1>3 DEF Con, ConAlready, Demo, InitCfg, ConReturn, OpBegin, OpReturn, Disc,
         DiscReturn, Del, Deinit, DelRefused, OpSend, DiscSend, OpPush, Send
  <2> QED
    BY <2>1, <2>2, <2>3, Zenon
<1>4. CASE Tick \/ LinkBreak \/ BrokerSilent
  BY <1>4, Zenon DEF Tick, LinkBreak, BrokerSilent
<1>5. CASE BrokerAnswer
  BY <1>5, Zenon DEF BrokerAnswer
<1>6. CASE \E code \in {"accepted", "kept", "refused"} : BrokerConnect(code)
  BY <1>6, Zenon DEF BrokerConnect
<1>7. CASE \E topic \in Topics, qos \in 1..2 : BrokerPublish(topic, qos)
  BY <1>7, Zenon DEF BrokerPublish
<1> QED
  BY <1>1, <1>2, <1>3, <1>4, <1>5, <1>6, <1>7 DEF Next, Environment

\* The queue and what is in flight hold what TypeOK says.
QueueOK == sendqueue \in Seq(NodeSet) /\ \A n \in Range(sendqueue) : n.type # "CONNECT" => n.topic \in Topics

\* The request at hand is one of the script.
LEMMA RequestTyped ==
  ASSUME step \in 1..Len(Script)
  PROVE  /\ request.op \in {"sub", "pub", "unsub"} /\ request.topic \in Topics /\ request.qos \in 0..2
         /\ TypeOf(request.op) \in {"SUBSCRIBE", "PUBLISH", "UNSUBSCRIBE"}
<1>1. request \in Request
  BY ScriptAssumption DEF request
<1>2. request.op \in {"sub", "pub", "unsub"} /\ request.topic \in Topics /\ request.qos \in 0..2
  BY <1>1 DEF Request
<1> QED
  BY <1>2 DEF TypeOf

\* The queue holds nodes.
LEMMA QueueTyped ==
  ASSUME QueueOK, ScalarsOK, Next
  PROVE  QueueOK'
<1>1. CASE ~Pushes
  BY <1>1, QueueShrinks, ThinsTyped DEF QueueOK
<1>2. ASSUME NEW n \in NodeSet, n.type # "CONNECT" => n.topic \in Topics,
             sendqueue' = Append(sendqueue, n)
      PROVE  QueueOK'
  BY <1>2, RangeFacts DEF QueueOK
<1>3. CASE MonPush \/ MonRecPush
  <2>1. sendqueue' = Append(sendqueue, ConnectNode)
    BY <1>3 DEF MonPush, MonRecPush
  <2>2. ConnectNode \in NodeSet /\ ConnectNode.type = "CONNECT"
    BY DEF ConnectNode, Node, NodeSet
  <2> QED
    BY <2>1, <2>2, <1>2
<1>4. CASE OpPush
  <2>1. step \in 1..Len(Script)
    BY <1>4, ScriptAssumption DEF OpPush, ScalarsOK, LimitsInv
  <2> DEFINE n == Node(TypeOf(request.op), next_packetid, request.topic, request.qos)
  <2>2. n \in NodeSet /\ n.type # "CONNECT" /\ n.topic \in Topics
    BY <2>1, RequestTyped DEF Node, NodeSet, ScalarsOK
  <2>3. sendqueue' = sendqueue \/ sendqueue' = Append(sendqueue, n)
    BY <1>4 DEF OpPush
  <2> HIDE DEF n
  <2> QED
    BY <1>2, <2>2, <2>3 DEF QueueOK
<1> QED
  BY <1>1, <1>3, <1>4 DEF Pushes

RequestType == {"SUBSCRIBE", "UNSUBSCRIBE", "PUBLISH"}

UpOK ==
    /\ up \in Seq(PacketSet)
    /\ \A p \in Range(up) : p.type \in RequestType => p.topic \in Topics /\ p.qos \in 0..2

DownOK == down \in Seq(PacketSet) /\ pkt \in PacketSet

TopicsOK == topictable \subseteq Topics /\ granted \subseteq Topics

\* The empty read buffer and the empty connection.
LEMMA NoPacketTyped == NoPacket \in PacketSet /\ << >> \in Seq(PacketSet) /\ Range(<< >>) = {}
  BY DEF NoPacket, Control, Packet, PacketSet, PacketType, Range

\* The request that OpSend sends.
RequestPacket == Packet(TypeOf(request.op), next_packetid, request.topic, request.qos, "none")

\* A step puts p on its way to the broker: a CONNECT comes from the monitor,
\* a request from the demo.
Sends(p) ==
    /\ up' = Append(up, p)
    /\ p.type = "CONNECT" => mon \in {"send", "rec_send"} /\ mon' \in {"push", "rec_push"}
    /\ p.type \in RequestType => app = "send" /\ app' = "push" /\ p = RequestPacket

\* What a step may do to the packets on their way to the broker.
LEMMA UpStep ==
  ASSUME UpOK, DownOK, ScalarsOK, Next
  PROVE  /\ UpOK'
         /\ \/ UNCHANGED up \/ up' = << >> \/ (up # << >> /\ up' = Tail(up))
            \/ \E p \in PacketSet : Sends(p)
<1> USE DEF session, queue, errors, tcp, broker, process, application
<1>1. CASE UNCHANGED up
  BY <1>1 DEF UpOK
<1>2. CASE up' = << >>
  BY <1>2, NoPacketTyped DEF UpOK
<1>3. CASE up # << >> /\ up' = Tail(up)
  BY <1>3, RangeFacts DEF UpOK
<1>4. ASSUME NEW p \in PacketSet, p.type \in RequestType => p.topic \in Topics /\ p.qos \in 0..2,
             NEW ok \in BOOLEAN, Send(p, ok)
      PROVE  UpOK' /\ (UNCHANGED up \/ (up' = Append(up, p) /\ ok))
  <2>1. /\ up' \in Seq(PacketSet)
        /\ up' = up \/ (up' = Append(up, p) /\ ok)
        /\ Range(up') \subseteq Range(up) \cup {p}
    BY <1>4, SendAdds DEF UpOK
  <2> QED
    BY <1>4, <2>1 DEF UpOK
<1>5. ASSUME NEW type \in PacketType \ RequestType, NEW ok \in BOOLEAN, Send(Control(type), ok),
             type = "CONNECT" /\ ok => /\ mon \in {"send", "rec_send"}
                                       /\ mon' \in {"push", "rec_push"}
      PROVE  UpOK' /\ (UNCHANGED up \/ \E p \in PacketSet : Sends(p))
  <2>1. Control(type) \in PacketSet /\ Control(type).type = type
    BY PacketTyped DEF Control, Packet, PacketSet
  <2> QED
    BY <1>4, <1>5, <2>1 DEF Sends
<1>6. ASSUME NEW type \in PacketType \ RequestType, NEW ok \in BOOLEAN, Send(Ack(type, pkt.id), ok),
             type # "CONNECT"
      PROVE  UpOK' /\ (UNCHANGED up \/ \E p \in PacketSet : Sends(p))
  <2>1. Ack(type, pkt.id) \in PacketSet /\ Ack(type, pkt.id).type = type
    BY DEF Ack, Packet, PacketSet, DownOK
  <2> QED
    BY <1>4, <1>6, <2>1 DEF Sends
<1>7. CASE Monitor
  <2>1. CASE MonSend
    BY <1>5, <2>1 DEF MonSend, PacketType, RequestType
  <2>2. CASE \E b \in BOOLEAN : MonRecSend(b)
    BY <1>5, <2>2 DEF MonRecSend, PacketType, RequestType
  <2>3. CASE ~MonSend /\ ~\E b \in BOOLEAN : MonRecSend(b)
    <3>1. UNCHANGED up \/ up' = << >>
      BY <1>7, <2>3 DEF Monitor, CheckTimeout, MonMqtt, MonSendFails, MonPush, MonDisc,
         MonDiscClose, MonSuspend, MonRec, MonRecClose, MonRecPush, MonAlive, MonLoop, MonNet,
         MonRecConnect, MonAliveResult, Close, ConnectNetwork
    <3> QED
      BY <1>1, <1>2, <3>1
  <2> QED
    BY <2>1, <2>2, <2>3
<1>8. CASE Process
  <2>1. CASE \E b \in BOOLEAN : ProcPing(b)
    BY <1>5, <2>1 DEF ProcPing, PacketType, RequestType
  <2>2. CASE \E b \in BOOLEAN : SendPubrel(b)
    BY <1>6, <2>2 DEF SendPubrel, PacketType, RequestType
  <2>3. CASE \E b \in BOOLEAN : HandlePublish(b)
    <3>1. Reply \in PacketType \ RequestType /\ Reply # "CONNECT"
      BY DEF Reply, PacketType, RequestType
    <3> QED
      BY <1>6, <2>3, <3>1 DEF HandlePublish
  <2>4. CASE ~\E b \in BOOLEAN : ProcPing(b) \/ SendPubrel(b) \/ HandlePublish(b)
    <3>1. UNCHANGED up
      BY <1>8, <2>4 DEF Process, ProcLost, ProcProtect, ProcRead, ProcLeave, HandlePingresp,
         ProcTop, HandleConnack, HandleSuback, HandleUnsuback, HandlePuback
    <3> QED
      BY <1>1, <3>1
  <2> QED
    BY <2>1, <2>2, <2>3, <2>4
<1>9. CASE Con \/ ConAlready \/ Demo
  <2>1. CASE \E ok \in BOOLEAN : OpSend(ok)
    <3>1. step \in 1..Len(Script)
      BY <2>1, ScriptAssumption DEF OpSend, ScalarsOK, LimitsInv
    <3>2. /\ RequestPacket \in PacketSet /\ RequestPacket.type \in RequestType
          /\ RequestPacket.topic \in Topics /\ RequestPacket.qos \in 0..2
      <4>1. request.qos \in {0, 1, 2, 128}
        BY <3>1, RequestTyped
      <4> QED
        BY <3>1, <4>1, RequestTyped
           DEF RequestPacket, RequestType, Packet, PacketSet, PacketType, ScalarsOK
    <3>3. PICK ok \in BOOLEAN : OpSend(ok)
      BY <2>1
    <3>4. Send(RequestPacket, ok) /\ app = "send" /\ (ok => app' = "push")
      BY <3>3 DEF OpSend, RequestPacket
    <3>5. UpOK' /\ (UNCHANGED up \/ (up' = Append(up, RequestPacket) /\ ok))
      BY <1>4, <3>2, <3>4
    <3> QED
      BY <3>2, <3>4, <3>5 DEF Sends, RequestType
  <2>2. CASE \E ok \in BOOLEAN : DiscSend(ok)
    BY <1>5, <2>2 DEF DiscSend, PacketType, RequestType
  <2>3. CASE ~\E ok \in BOOLEAN : OpSend(ok) \/ DiscSend(ok)
    <3>1. UNCHANGED up
      BY <1>9, <2>3 DEF Con, ConAlready, Demo, InitCfg, ConReturn, OpBegin, OpReturn, Disc,
         DiscReturn, Del, Deinit, DelRefused, OpPush
    <3> QED
      BY <1>1, <3>1
  <2> QED
    BY <2>1, <2>2, <2>3
<1>10. CASE Tick \/ Environment
  <2>1. UNCHANGED up \/ up' = << >> \/ (up # << >> /\ up' = Tail(up))
    BY <1>10 DEF Tick, Environment, LinkBreak, BrokerAnswer, BrokerSilent, BrokerConnect,
         BrokerPublish
  <2> QED
    BY <1>1, <1>2, <1>3, <2>1
<1> QED
  BY <1>7, <1>8, <1>9, <1>10 DEF Next

\* What a step may do to the packets on their way to the client.
LEMMA DownStep ==
  ASSUME UpOK, DownOK, TopicsOK, ScalarsOK, Next
  PROVE  DownOK'
<1> USE DEF session, queue, errors, tcp, broker, process, application
<1>1. CASE UNCHANGED <<down, pkt>> \/ (down' = << >> /\ UNCHANGED pkt)
  BY <1>1, NoPacketTyped DEF DownOK
<1>2. CASE Monitor
  <2>1. UNCHANGED pkt
    BY <1>2, TaskFrames
  <2>2. UNCHANGED down \/ down' = << >>
    BY <1>2 DEF Monitor, CheckTimeout, MonMqtt, MonSend, MonSendFails, MonPush, MonDisc,
         MonDiscClose, MonSuspend, MonRec, MonRecClose, MonRecPush, MonAlive, MonLoop, MonNet,
         MonRecConnect, MonRecSend, MonAliveResult, Close, ConnectNetwork, Send
  <2> QED
    BY <1>1, <2>1, <2>2
<1>3. CASE ProcRead
  BY <1>3, RangeFacts DEF ProcRead, DownOK
<1>4. CASE Process /\ ~ProcRead
  <2>1. UNCHANGED down /\ (UNCHANGED pkt \/ pkt' = NoPacket)
    BY <1>4 DEF Process, ProcLost, ProcProtect, ProcLeave, HandlePingresp,
         ProcTop, ProcPing, SendPubrel, HandlePublish, HandleConnack, HandleSuback,
         HandleUnsuback, HandlePuback, Send, Again
  <2> QED
    BY <1>1, <2>1, NoPacketTyped DEF DownOK
<1>5. CASE Con \/ ConAlready \/ Demo
  <2>1. UNCHANGED <<down, pkt>>
    BY <1>5, TaskFrames
  <2> QED
    BY <1>1, <2>1
<1>6. CASE Tick \/ LinkBreak \/ BrokerSilent
  <2>1. UNCHANGED <<down, pkt>>
    BY <1>6 DEF Tick, LinkBreak, BrokerSilent
  <2> QED
    BY <1>1, <2>1
<1>7. CASE BrokerAnswer
  <2>1. PICK a \in Answers(Head(up)) : down' = down \o a[2]
    BY <1>7 DEF BrokerAnswer
  <2>2. Head(up) \in Range(up) /\ Head(up) \in PacketSet
    BY <1>7, RangeFacts DEF BrokerAnswer, UpOK
  <2>3. a[2] \in Seq(PacketSet)
    BY <2>1, <2>2, AnswersTyped DEF UpOK, RequestType, TopicsOK
  <2> QED
    BY <1>7, <2>1, <2>3, RangeConcat DEF BrokerAnswer, DownOK
<1>8. ASSUME NEW code \in {"accepted", "kept", "refused"}, BrokerConnect(code)
      PROVE  DownOK'
  <2>1. Connack(code) \in PacketSet
    BY DEF Connack, Packet, PacketSet, PacketType
  <2> QED
    BY <1>8, <2>1, RangeFacts DEF BrokerConnect, DownOK
<1>9. ASSUME NEW topic \in Topics, NEW qos \in 1..2, BrokerPublish(topic, qos)
      PROVE  DownOK'
  <2>1. Packet("PUBLISH", inbound + 1, topic, qos, "none") \in PacketSet
    BY BoundsAssumption DEF Packet, PacketSet, PacketType, ScalarsOK
  <2> QED
    BY <1>9, <2>1, RangeFacts DEF BrokerPublish, DownOK
<1> QED
  BY <1>2, <1>3, <1>4, <1>5, <1>6, <1>7, <1>8, <1>9 DEF Next, Environment

\* The topic table and the broker's session hold topics.
LEMMA TopicsStep ==
  ASSUME UpOK, DownOK, TopicsOK, ScalarsOK, QueueOK, Next
  PROVE  TopicsOK'
<1> USE DEF session, queue, errors, tcp, broker, process, application
<1>1. CASE BrokerAnswer
  <2>1. PICK a \in Answers(Head(up)) : granted' = a[1]
    BY <1>1 DEF BrokerAnswer
  <2>2. Head(up) \in Range(up) /\ Head(up) \in PacketSet
    BY <1>1, RangeFacts DEF BrokerAnswer, UpOK
  <2>3. a[1] \subseteq Topics
    BY <2>1, <2>2, AnswersTyped DEF UpOK, RequestType, TopicsOK
  <2> QED
    BY <1>1, <2>1, <2>3 DEF BrokerAnswer, TopicsOK
<1>2. ASSUME NEW code \in {"accepted", "kept", "refused"}, BrokerConnect(code)
      PROVE  TopicsOK'
  BY <1>2 DEF BrokerConnect, TopicsOK
<1>3. CASE HandleSuback
  <2>1. UNCHANGED granted
    BY <1>3 DEF HandleSuback
  <2>2. UNCHANGED topictable
           \/ \E i \in Match("SUBSCRIBE", pkt.id, {pkt.qos}) : SubackCb(i)
    BY <1>3 DEF HandleSuback
  <2>3. ASSUME NEW i \in Match("SUBSCRIBE", pkt.id, {pkt.qos})
        PROVE  sendqueue[i].topic \in Topics
    BY MatchInQueue, RangeFacts DEF Fits, QueueOK
  <2> QED
    BY <2>1, <2>2, <2>3 DEF SubackCb, TopicsOK
<1>4. CASE HandleUnsuback
  BY <1>4 DEF HandleUnsuback, UnsubackCb, TopicsOK
<1>5. CASE HandleConnack
  <2>1. UNCHANGED granted
    BY <1>5 DEF HandleConnack
  <2>2. topictable' \subseteq topictable
    BY <1>5 DEF HandleConnack, ConackCb
  <2> QED
    BY <2>1, <2>2 DEF TopicsOK
<1>6. CASE Monitor
  <2>1. UNCHANGED <<topictable, granted>>
    BY <1>6, TaskFrames
  <2> QED
    BY <2>1 DEF TopicsOK
<1>7. CASE Process /\ ~HandleConnack /\ ~HandleSuback /\ ~HandleUnsuback
  <2>1. UNCHANGED <<topictable, granted>>
    BY <1>7 DEF Process, ProcLost, ProcProtect, ProcRead, ProcLeave, HandlePingresp,
         ProcTop, ProcPing, SendPubrel, HandlePublish, HandlePuback
  <2> QED
    BY <2>1 DEF TopicsOK
<1>8. CASE Con \/ ConAlready \/ Demo
  <2>1. UNCHANGED granted /\ topictable' \subseteq topictable
    BY <1>8 DEF Con, ConAlready, Demo, InitCfg, ConReturn, OpBegin, OpReturn, Disc,
         DiscReturn, Del, Deinit, DelRefused, OpPush, OpSend, DiscSend
  <2> QED
    BY <2>1 DEF TopicsOK
<1>9. CASE Tick \/ LinkBreak \/ BrokerSilent \/ \E topic \in Topics, qos \in 1..2 : BrokerPublish(topic, qos)
  <2>1. UNCHANGED <<topictable, granted>>
    BY <1>9 DEF Tick, LinkBreak, BrokerSilent, BrokerPublish
  <2> QED
    BY <2>1 DEF TopicsOK
<1> QED
  BY <1>1, <1>2, <1>3, <1>4, <1>5, <1>6, <1>7, <1>8, <1>9 DEF Next, Environment

TypesInv == ScalarsOK /\ FlagsOK /\ QueueOK /\ UpOK /\ DownOK /\ TopicsOK

\* TypesInv holds throughout.
LEMMA TypesInvariant == Spec => []TypesInv
<1>1. Init => TypesInv
  <2> SUFFICES ASSUME Init PROVE TypesInv
    OBVIOUS
  <2>1. ScalarsOK
    BY ScriptAssumption, SettingsAssumption, BoundsAssumption
       DEF Init, ScalarsOK, LimitsInv, State, MonPc, ProcPc, AppPc, Tests
  <2>2. FlagsOK
    BY Zenon DEF Init, FlagsOK
  <2>3. UpOK /\ DownOK /\ TopicsOK
    BY NoPacketTyped DEF Init, UpOK, DownOK, TopicsOK
  <2>4. QueueOK
    BY NoPacketTyped DEF Init, QueueOK
  <2> QED
    BY <2>1, <2>2, <2>3, <2>4 DEF TypesInv
<1>2. TypesInv /\ [Next]_vars => TypesInv'
  <2> SUFFICES ASSUME TypesInv, [Next]_vars PROVE TypesInv'
    OBVIOUS
  <2>1. CASE Next
    <3>1. ScalarsOK'
      BY <2>1, MonitorKeepsScalars, ProcessKeepsScalars, DemoKeepsScalars,
         EnvironmentKeepsScalars DEF Next, TypesInv
    <3>2. FlagsOK' /\ QueueOK' /\ UpOK' /\ DownOK' /\ TopicsOK'
      BY <2>1, FlagsStep, QueueTyped, UpStep, DownStep, TopicsStep DEF TypesInv
    <3> QED
      BY <3>1, <3>2 DEF TypesInv
  <2>2. CASE UNCHANGED vars
    BY <2>2 DEF vars, session, queue, errors, tcp, broker, process, application, TypesInv,
       ScalarsOK, LimitsInv, FlagsOK, QueueOK, UpOK, DownOK, TopicsOK
  <2> QED
    BY <2>1, <2>2
<1> QED
  BY <1>1, <1>2, PTL DEF Spec

-----------------------------------------------------------------------------
(* Identifiers.                                                            *)

\* Identifiers are given out in OpPush, and anew in a fresh client.
LEMMA NextPacketId ==
  ASSUME Next
  PROVE  \/ UNCHANGED next_packetid
         \/ OpPush /\ next_packetid' = next_packetid + 1
         \/ Con /\ sendqueue' = << >>
<1> USE DEF session, queue, errors, tcp, broker, process, application
<1>1. CASE Monitor \/ Process \/ Tick \/ Environment
  BY <1>1, TaskFrames
<1>2. CASE ConAlready \/ Demo
  BY <1>2 DEF ConAlready, Demo, ConReturn, OpBegin, OpReturn, Disc, OpPush,
         DiscReturn, Del, Deinit, DelRefused, OpSend, DiscSend
<1>3. CASE Con
  BY <1>3 DEF Con, InitCfg
<1> QED
  BY <1>1, <1>2, <1>3 DEF Next

\* A step keeps the identifiers in the queue apart.
LEMMA IdsStep ==
  ASSUME TypesInv, PacketIdsUnique, Next
  PROVE  PacketIdsUnique'
<1>q. sendqueue \in Seq(NodeSet) /\ Len(sendqueue) \in Nat /\ next_packetid \in Nat
  BY DEF TypesInv, QueueOK, ScalarsOK
<1>1. CASE UNCHANGED next_packetid /\ Thins(sendqueue', sendqueue)
  <2>1. PICK f \in [1..Len(sendqueue') -> 1..Len(sendqueue)] :
          /\ \A i, j \in 1..Len(sendqueue') : f[i] = f[j] => i = j
          /\ \A i \in 1..Len(sendqueue') : /\ sendqueue'[i].type = sendqueue[f[i]].type
                                           /\ sendqueue'[i].id = sendqueue[f[i]].id
    BY <1>1 DEF Thins
  <2> SUFFICES ASSUME NEW i \in 1..Len(sendqueue'), NEW j \in 1..Len(sendqueue'),
                      sendqueue'[i].type # "CONNECT"
               PROVE  /\ sendqueue'[i].id < next_packetid
                      /\ sendqueue'[j].type # "CONNECT" /\ sendqueue'[i].id = sendqueue'[j].id
                            => i = j
    BY <1>1 DEF PacketIdsUnique
  <2>2. f[i] \in 1..Len(sendqueue) /\ f[j] \in 1..Len(sendqueue)
    BY <2>1
  <2>3. /\ sendqueue[f[i]].id < next_packetid
        /\ sendqueue[f[j]].type # "CONNECT" /\ sendqueue[f[i]].id = sendqueue[f[j]].id
              => f[i] = f[j]
    BY <2>1, <2>2 DEF PacketIdsUnique
  <2> QED
    BY <2>1, <2>3
<1>2. CASE UNCHANGED next_packetid /\ (MonPush \/ MonRecPush)
  <2>1. sendqueue' = Append(sendqueue, ConnectNode)
    BY <1>2 DEF MonPush, MonRecPush
  <2>2. ConnectNode.type = "CONNECT"
    BY DEF ConnectNode, Node
  <2>3. /\ Len(sendqueue') = Len(sendqueue) + 1 /\ sendqueue'[Len(sendqueue) + 1] = ConnectNode
        /\ \A i \in 1..Len(sendqueue) : sendqueue'[i] = sendqueue[i]
    BY <1>q, <2>1
  <2> QED
    BY <1>q, <1>2, <2>2, <2>3 DEF PacketIdsUnique
<1>3. CASE OpPush /\ next_packetid' = next_packetid + 1
  <2> DEFINE n == Node(TypeOf(request.op), next_packetid, request.topic, request.qos)
  <2>1. n.id = next_packetid
    BY DEF Node
  <2>2. sendqueue' = sendqueue \/ sendqueue' = Append(sendqueue, n)
    BY <1>3 DEF OpPush
  <2> HIDE DEF n
  <2>3. \A i \in 1..Len(sendqueue) : sendqueue[i].id \in Nat
    <3>1. \A i \in 1..Len(sendqueue) : sendqueue[i] \in NodeSet
      BY <1>q
    <3>2. \A m \in NodeSet : m.id \in Nat
      BY DEF NodeSet
    <3> QED
      BY <3>1, <3>2
  <2>4. CASE sendqueue' = sendqueue
    BY <1>q, <1>3, <2>3, <2>4 DEF PacketIdsUnique
  <2>5. CASE sendqueue' = Append(sendqueue, n)
    <3>1. /\ Len(sendqueue') = Len(sendqueue) + 1 /\ sendqueue'[Len(sendqueue) + 1] = n
          /\ \A i \in 1..Len(sendqueue) : sendqueue'[i] = sendqueue[i]
      BY <1>q, <2>5
    <3> QED
      BY <1>q, <1>3, <2>1, <2>3, <3>1 DEF PacketIdsUnique
  <2> QED
    BY <2>2, <2>4, <2>5
<1>4. CASE sendqueue' = << >>
  BY <1>4 DEF PacketIdsUnique
<1>5. CASE OpPush /\ UNCHANGED next_packetid
  BY <1>q, <1>5 DEF OpPush
<1> QED
  BY <1>q, <1>1, <1>2, <1>3, <1>4, <1>5, NextPacketId, QueueShrinks DEF Pushes

\* The requests that wait for an answer have different identifiers, all of
\* them given out before: no SUBACK, UNSUBACK, PUBACK or PUBCOMP can be taken
\* for the answer to another request.
THEOREM IdentifiersUnique == Spec => []PacketIdsUnique
<1>1. Init => PacketIdsUnique
  BY DEF Init, PacketIdsUnique
<1>2. TypesInv /\ PacketIdsUnique /\ [Next]_vars => PacketIdsUnique'
  <2>1. ASSUME PacketIdsUnique, UNCHANGED vars PROVE PacketIdsUnique'
    BY <2>1 DEF vars, queue, PacketIdsUnique
  <2> QED
    BY <2>1, IdsStep
<1> QED
  BY <1>1, <1>2, TypesInvariant, PTL DEF Spec

-----------------------------------------------------------------------------
(* The connection: invariants.                                             *)

\* No CONNECT waits for its answer.
NoConnect == \A n \in Range(sendqueue) : n.type # "CONNECT"

\* One at most does.
AtMostOneConnect ==
    \A i, j \in 1..Len(sendqueue) :
        sendqueue[i].type = "CONNECT" /\ sendqueue[j].type = "CONNECT" => i = j

\* Whoever may send a CONNECT, or takes the client for connected, or has
\* thrown the CONNECT away ...
NoneExpected ==
    \/ state \in {"NET_CONNECTING", "NET_CONNECTED", "CONNECTED", "RECONNECTING"}
    \/ mon \in {"send", "push", "disc_wait", "suspend", "rec_wait", "rec_delay",
                "rec_send", "rec_push"}
    \/ proc = "lost"
    \/ ~Quiet
    \/ conmsg = FALSE

\* ... knows that none waits.
NothingPending == NoneExpected => NoConnect

\* From the CONNECT's way out to its place in the queue nobody else moves `state'.
ConnectGoesOut ==
    mon \in {"send", "push", "rec_send", "rec_push"} =>
        state = "CONNECTING" /\ Quiet /\ proc # "lost" /\ conmsg = TRUE

\* Before that only the user's disconnect does.
ReconnectBegins ==
    mon \in {"rec_wait", "rec_delay"} =>
        /\ proc # "lost"
        /\ state \in {"CONNECTING", "DISCONNECTED"}
        /\ state = "DISCONNECTED" => conmsg = FALSE

\* What cmmqtt_clientalive can overwrite.
LostOverwrites ==
    /\ proc = "lost" => \/ state \in {"CONNECTED", "DISCONNECTED"}
                        \/ state = "INITIALED" /\ suspended = TRUE
    /\ mon \in {"disc_wait", "suspend"} => state \in {"DISCONNECTED", "RECONNECTING"}

ConnectInv ==
    /\ AtMostOneConnect /\ NothingPending /\ ConnectGoesOut /\ ReconnectBegins
    /\ LostOverwrites
    /\ conmsg = FALSE => state # "CONNECTED"

\* A queue from which nodes were taken holds no CONNECT it did not hold.
LEMMA ThinsConnect ==
  ASSUME sendqueue \in Seq(NodeSet), sendqueue' \in Seq(NodeSet), Thins(sendqueue', sendqueue)
  PROVE  /\ NoConnect => NoConnect'
         /\ AtMostOneConnect => AtMostOneConnect'
<1>1. Range(sendqueue) = {sendqueue[i] : i \in 1..Len(sendqueue)}
  BY RangeFacts
<1>2. Range(sendqueue)' = {sendqueue'[i] : i \in 1..Len(sendqueue')}
  BY RangeFacts
<1>3. PICK f \in [1..Len(sendqueue') -> 1..Len(sendqueue)] :
        /\ \A i, j \in 1..Len(sendqueue') : f[i] = f[j] => i = j
        /\ \A i \in 1..Len(sendqueue') : sendqueue'[i].type = sendqueue[f[i]].type
  BY DEF Thins
<1>4. NoConnect => NoConnect'
  BY <1>1, <1>2, <1>3 DEF NoConnect
<1>5. ASSUME AtMostOneConnect,
             NEW i \in 1..Len(sendqueue'), NEW j \in 1..Len(sendqueue'),
             sendqueue'[i].type = "CONNECT", sendqueue'[j].type = "CONNECT"
      PROVE  i = j
  <2>1. f[i] \in 1..Len(sendqueue) /\ f[j] \in 1..Len(sendqueue)
    BY <1>3
  <2>2. f[i] = f[j]
    BY <1>3, <1>5, <2>1 DEF AtMostOneConnect
  <2> QED
    BY <1>3, <2>2
<1> QED
  BY <1>4, <1>5 DEF AtMostOneConnect

\* No CONNECT waits: none is found, and the first one queued is the only one.
LEMMA NoConnectFacts ==
  ASSUME sendqueue \in Seq(NodeSet), NoConnect
  PROVE  /\ AtMostOneConnect
         /\ Match("CONNECT", 0, {0}) = {}
         /\ \A i \in 1..Len(sendqueue) : sendqueue[i].type # "CONNECT"
<1>1. Range(sendqueue) = {sendqueue[i] : i \in 1..Len(sendqueue)}
  BY RangeFacts
<1>2. \A i \in 1..Len(sendqueue) : sendqueue[i].type # "CONNECT"
  BY <1>1 DEF NoConnect
<1> QED
  BY <1>2, MatchInQueue DEF AtMostOneConnect, Fits

\* The only CONNECT has been taken out of the queue.
LEMMA ConnectLeaves ==
  ASSUME sendqueue \in Seq(NodeSet), AtMostOneConnect,
         NEW i \in 1..Len(sendqueue), sendqueue[i].type = "CONNECT",
         \/ sendqueue' = RemoveAt(sendqueue, i)
         \/ \E k \in i..Len(sendqueue) : sendqueue' = SubSeq(sendqueue, k + 1, Len(sendqueue))
  PROVE  NoConnect'
<1> DEFINE s == sendqueue
           t == sendqueue'
<1>1. Len(s) \in Nat
  OBVIOUS
<1>2. CASE t = RemoveAt(s, i)
  <2>1. /\ t \in Seq(NodeSet) /\ Len(t) = Len(s) - 1
        /\ \A k \in 1..(Len(s) - 1) : t[k] = s[IF k < i THEN k ELSE k + 1]
    BY <1>2, RemoveAtIndex
  <2>2. Range(t) = {t[k] : k \in 1..Len(t)}
    BY <2>1, RangeFacts
  <2>3. ASSUME NEW k \in 1..(Len(s) - 1) PROVE t[k].type # "CONNECT"
    <3>1. /\ (IF k < i THEN k ELSE k + 1) \in 1..Len(s)
          /\ (IF k < i THEN k ELSE k + 1) # i
      BY <1>1
    <3> QED
      BY <2>1, <3>1 DEF AtMostOneConnect
  <2> QED
    BY <2>1, <2>2, <2>3 DEF NoConnect
<1>3. ASSUME NEW k \in i..Len(s), t = SubSeq(s, k + 1, Len(s))
      PROVE  NoConnect'
  <2>1. /\ t \in Seq(NodeSet) /\ Len(t) = Len(s) - k
        /\ \A j \in 1..(Len(s) - k) : t[j] = s[k + j]
    BY <1>3, SubSeqProperties
  <2>2. Range(t) = {t[j] : j \in 1..Len(t)}
    BY <2>1, RangeFacts
  <2>3. ASSUME NEW j \in 1..(Len(s) - k) PROVE t[j].type # "CONNECT"
    <3>1. k + j \in 1..Len(s) /\ k + j # i
      BY <1>1
    <3> QED
      BY <2>1, <3>1 DEF AtMostOneConnect
  <2> QED
    BY <2>1, <2>2, <2>3 DEF NoConnect
<1> QED
  BY <1>2, <1>3

\* A node that is no CONNECT is queued, or a CONNECT where there was none.
LEMMA PushConnect ==
  ASSUME sendqueue \in Seq(NodeSet), NEW n \in NodeSet, sendqueue' = Append(sendqueue, n)
  PROVE  /\ NoConnect => AtMostOneConnect'
         /\ n.type # "CONNECT" => (NoConnect => NoConnect') /\ (AtMostOneConnect => AtMostOneConnect')
<1> DEFINE s == sendqueue
           t == sendqueue'
<1>1. /\ Len(t) = Len(s) + 1 /\ t[Len(s) + 1] = n /\ Len(s) \in Nat
      /\ \A i \in 1..Len(s) : t[i] = s[i]
  OBVIOUS
<1>2. Range(sendqueue)' = Range(sendqueue) \cup {n}
  BY RangeFacts
<1>3. NoConnect => \A i \in 1..Len(s) : s[i].type # "CONNECT"
  BY NoConnectFacts
<1>4. NoConnect => AtMostOneConnect'
  BY <1>1, <1>3 DEF AtMostOneConnect
<1>5. n.type # "CONNECT" => (NoConnect => NoConnect')
  BY <1>2 DEF NoConnect
<1>6. n.type # "CONNECT" => (AtMostOneConnect => AtMostOneConnect')
  BY <1>1 DEF AtMostOneConnect
<1> QED
  BY <1>4, <1>5, <1>6

\* What a step may do to the CONNECTs in the queue.
LEMMA ConnectsShrink ==
  ASSUME TypesInv, Next, ~MonPush, ~MonRecPush
  PROVE  /\ NoConnect => NoConnect'
         /\ AtMostOneConnect => AtMostOneConnect'
<1>1. sendqueue \in Seq(NodeSet) /\ QueueOK /\ ScalarsOK
  BY DEF TypesInv, QueueOK
<1>2. CASE ~OpPush
  <2>1. sendqueue' \in Seq(NodeSet) /\ Thins(sendqueue', sendqueue)
    BY <1>1, <1>2, QueueShrinks DEF Pushes
  <2> QED
    BY <1>1, <2>1, ThinsConnect
<1>3. CASE OpPush
  <2>1. step \in 1..Len(Script)
    BY <1>1, <1>3, ScriptAssumption DEF OpPush, ScalarsOK, LimitsInv
  <2> DEFINE n == Node(TypeOf(request.op), next_packetid, request.topic, request.qos)
  <2>2. n \in NodeSet /\ n.type # "CONNECT"
    BY <1>1, <2>1, RequestTyped DEF Node, NodeSet, ScalarsOK
  <2>3. sendqueue' = sendqueue \/ sendqueue' = Append(sendqueue, n)
    BY <1>3 DEF OpPush
  <2> HIDE DEF n
  <2>4. CASE sendqueue' = sendqueue
    BY <2>4 DEF NoConnect, AtMostOneConnect
  <2>5. CASE sendqueue' = Append(sendqueue, n)
    BY <1>1, <2>2, <2>5, PushConnect
  <2> QED
    BY <2>3, <2>4, <2>5
<1> QED
  BY <1>2, <1>3

\* The monitor preserves ConnectInv.
LEMMA MonitorKeepsConnect ==
  ASSUME TypesInv, SocketInv, ConnectInv, Monitor
  PROVE  ConnectInv'
<1>q. sendqueue \in Seq(NodeSet)
  BY DEF TypesInv, QueueOK
<1>n. Next
  BY DEF Next
<1>f. conmsg \in BOOLEAN
  BY DEF TypesInv, FlagsOK
<1> USE <1>q, <1>f DEF ConnectInv, NothingPending, NoneExpected, ConnectGoesOut, ReconnectBegins, LostOverwrites, Quiet,
            session, queue, errors, tcp, broker, process, application
<1>c. ~MonPush /\ ~MonRecPush => (NoConnect => NoConnect') /\ AtMostOneConnect'
  BY <1>n, ConnectsShrink
<1>1. CASE CheckTimeout
  <2>0. mon # "push" /\ mon # "rec_push"
    BY <1>1 DEF CheckTimeout
  <2>1. (NoConnect => NoConnect') /\ AtMostOneConnect'
    BY <1>c, <2>0 DEF MonPush, MonRecPush
  <2>2. CASE state' = state
    BY <1>1, <2>1, <2>2 DEF CheckTimeout
  <2>3. CASE state' = "RECONNECTING" /\ state' # state
    <3>1. PICK k \in 0..Len(sendqueue) : /\ sendqueue' = SubSeq(sendqueue, k + 1, Len(sendqueue))
                                         /\ NodeTimeoutCb(k)
      BY <1>1 DEF CheckTimeout
    <3>2. PICK i \in 1..k : sendqueue[i].type = "CONNECT"
      BY <2>3, <3>1 DEF NodeTimeoutCb
    <3>3. i \in 1..Len(sendqueue) /\ k \in i..Len(sendqueue)
      BY <3>1, <3>2
    <3>4. NoConnect'
      BY <3>1, <3>2, <3>3, ConnectLeaves
    <3>5. ~NoConnect
      BY <3>2, <3>3, NoConnectFacts
    <3> QED
      BY <1>1, <2>1, <2>3, <3>4, <3>5 DEF CheckTimeout
  <2> QED
    BY <1>1, <2>2, <2>3 DEF CheckTimeout, NodeTimeoutCb
<1>2. CASE MonMqtt
  BY <1>2, <1>c DEF MonMqtt, MonPush, MonRecPush, SocketInv, UnansweredInv
<1>3. CASE MonSend
  BY <1>3, <1>c DEF MonSend, MonPush, MonRecPush
<1>4. CASE MonSendFails
  BY <1>4, <1>c DEF MonSendFails, MonPush, MonRecPush
<1>5. CASE MonPush
  <2>1. ConnectNode \in NodeSet
    BY DEF ConnectNode, Node, NodeSet
  <2>2. NoConnect
    BY <1>5 DEF MonPush
  <2>3. AtMostOneConnect'
    BY <1>5, <2>1, <2>2, PushConnect DEF MonPush
  <2> QED
    BY <1>5, <2>3 DEF MonPush
<1>6. CASE MonDisc
  <2>1. NoConnect'
    BY <1>6, NoPacketTyped DEF MonDisc, NoConnect
  <2> QED
    BY <1>6, <1>c, <2>1 DEF MonDisc, MonPush, MonRecPush, SendsOver
<1>7. CASE MonDiscClose
  BY <1>7, <1>c DEF MonDiscClose, MonPush, MonRecPush
<1>8. CASE MonSuspend
  BY <1>8, <1>c DEF MonSuspend, MonPush, MonRecPush
<1>9. CASE MonRec
  BY <1>9, <1>c DEF MonRec, MonPush, MonRecPush
<1>10. CASE MonRecClose
  BY <1>10, <1>c DEF MonRecClose, MonPush, MonRecPush
<1>11. CASE MonRecPush
  <2>1. ConnectNode \in NodeSet
    BY DEF ConnectNode, Node, NodeSet
  <2>2. NoConnect
    BY <1>11 DEF MonRecPush
  <2>3. AtMostOneConnect'
    BY <1>11, <2>1, <2>2, PushConnect DEF MonRecPush
  <2> QED
    BY <1>11, <2>3 DEF MonRecPush
<1>12. CASE MonAlive
  BY <1>12, <1>c DEF MonAlive, Tests, MonPush, MonRecPush
<1>13. CASE MonLoop
  BY <1>13, <1>c DEF MonLoop, Tests, MonPush, MonRecPush
<1>14. ASSUME NEW result \in NetworkResult, MonNet(result) PROVE ConnectInv'
  BY <1>14, <1>c DEF MonNet, ConnectNetwork, NetworkResult, MonPush, MonRecPush, SocketInv, OpeningInv
<1>15. ASSUME NEW result \in NetworkResult, MonRecConnect(result) PROVE ConnectInv'
  BY <1>15, <1>c DEF MonRecConnect, ConnectNetwork, NetworkResult, MonPush, MonRecPush, OthersSettled, SendsOver
<1>16. ASSUME NEW b \in BOOLEAN, MonRecSend(b) PROVE ConnectInv'
  BY <1>16, <1>c DEF MonRecSend, MonPush, MonRecPush
<1>17. ASSUME NEW b \in BOOLEAN, MonAliveResult(b) PROVE ConnectInv'
  BY <1>17, <1>c DEF MonAliveResult, MonPush, MonRecPush
<1> QED
  BY <1>1, <1>2, <1>3, <1>4, <1>5, <1>6, <1>7, <1>8, <1>9, <1>10, <1>11, <1>12, <1>13, <1>14, <1>15, <1>16, <1>17 DEF Monitor

\* The processing task preserves ConnectInv.
LEMMA ProcessKeepsConnect ==
  ASSUME TypesInv, SocketInv, ConnectInv, Process
  PROVE  ConnectInv'
<1>q. sendqueue \in Seq(NodeSet)
  BY DEF TypesInv, QueueOK
<1>n. Next
  BY DEF Next
<1> USE <1>q DEF ConnectInv, NothingPending, NoneExpected, ConnectGoesOut, ReconnectBegins, LostOverwrites, Quiet,
            session, queue, errors, tcp, broker, process, application
<1>c. CASE ~MonPush /\ ~MonRecPush
  <2>0. (NoConnect => NoConnect') /\ AtMostOneConnect'
    BY <1>n, <1>c, ConnectsShrink
  <2>1. CASE ProcLost
    BY <2>1, <2>0 DEF ProcLost, Runs
  <2>2. CASE ProcProtect \/ ProcRead \/ ProcLeave
    BY <2>2, <2>0 DEF ProcProtect, ProcRead, ProcLeave, Runs
  <2>3. CASE HandleConnack
    <3>0. /\ proc = "handle" /\ proc' = "read"
          /\ UNCHANGED <<mon, app, suspended, conmsg>>
      BY <2>3 DEF HandleConnack, ConackCb, Runs, Handles, Again
    <3>1. CASE Match("CONNECT", 0, {0}) = {}
      <4>1. UNCHANGED state
        BY <2>3, <3>1 DEF HandleConnack
      <4> QED
        BY <2>0, <3>0, <4>1
    <3>2. ASSUME NEW i \in Match("CONNECT", 0, {0}), ConackCb(i) PROVE ConnectInv'
      <4>1. i \in 1..Len(sendqueue) /\ sendqueue[i].type = "CONNECT"
        BY MatchInQueue DEF Fits
      <4>2. ~NoConnect
        BY <4>1, NoConnectFacts
      <4>3. NoConnect'
        <5>1. CASE sendqueue' = << >>
          BY <5>1, NoPacketTyped DEF NoConnect
        <5>2. CASE sendqueue' = RemoveAt(sendqueue, i)
          BY <4>1, <5>2, ConnectLeaves
        <5> QED
          BY <3>2, <5>1, <5>2 DEF ConackCb
      <4>4. state' \in {"DISCONNECTED", "CONNECTED"}
        BY <3>2 DEF ConackCb
      <4> QED
        BY <2>0, <3>0, <4>2, <4>3, <4>4
    <3> QED
      BY <2>3, <3>1, <3>2 DEF HandleConnack
  <2>4. CASE HandleSuback \/ HandleUnsuback
    <3>1. /\ proc = "handle" /\ proc' = "read"
          /\ UNCHANGED <<state, mon, app, suspended, conmsg>>
      BY <2>4 DEF HandleSuback, HandleUnsuback, Runs, Handles, Again
    <3> QED
      BY <2>0, <3>1
  <2>5. CASE HandlePuback
    BY <2>5, <2>0 DEF HandlePuback, Runs, Handles, Again
  <2>6. CASE HandlePingresp
    BY <2>6, <2>0 DEF HandlePingresp, Runs, Again
  <2>7. ASSUME NEW b \in BOOLEAN, ProcTop(b) PROVE ConnectInv'
    BY <2>7, <2>0 DEF ProcTop, Runs
  <2>8. ASSUME NEW b \in BOOLEAN, ProcPing(b) PROVE ConnectInv'
    BY <2>8, <2>0 DEF ProcPing, Runs
  <2>9. ASSUME NEW b \in BOOLEAN, SendPubrel(b) PROVE ConnectInv'
    BY <2>9, <2>0 DEF SendPubrel, Runs, Again
  <2>10. ASSUME NEW b \in BOOLEAN, HandlePublish(b) PROVE ConnectInv'
    BY <2>10, <2>0 DEF HandlePublish, Runs, Again
  <2> QED
    BY <2>1, <2>2, <2>3, <2>4, <2>5, <2>6, <2>7, <2>8, <2>9, <2>10 DEF Process
<1>d. CASE MonPush \/ MonRecPush
  BY <1>d, MonitorKeepsConnect DEF Monitor
<1> QED
  BY <1>c, <1>d

\* The demo preserves ConnectInv.
LEMMA DemoKeepsConnect ==
  ASSUME TypesInv, SocketInv, ConnectInv, Con \/ ConAlready \/ Demo
  PROVE  ConnectInv'
<1>q. sendqueue \in Seq(NodeSet)
  BY DEF TypesInv, QueueOK
<1>n. Next
  BY DEF Next
<1> USE <1>q DEF ConnectInv, NothingPending, NoneExpected, ConnectGoesOut, ReconnectBegins, LostOverwrites, Quiet,
            session, queue, errors, tcp, broker, process, application
<1>c. CASE ~MonPush /\ ~MonRecPush
  <2>0. (NoConnect => NoConnect') /\ AtMostOneConnect'
    BY <1>n, <1>c, ConnectsShrink
  <2>1. CASE Con
    <3>1. NoConnect'
      BY <2>1, NoPacketTyped DEF Con, InitCfg, NoConnect
    <3> QED
      BY <2>1, <2>0, <3>1 DEF Con, InitCfg
  <2>2. CASE ConAlready \/ ConReturn
    BY <2>2, <2>0 DEF ConAlready, ConReturn
  <2>3. CASE OpBegin
    BY <2>3, <2>0 DEF OpBegin
  <2>4. CASE OpPush
    BY <2>4, <2>0 DEF OpPush
  <2>5. CASE OpReturn \/ Disc \/ DiscReturn
    BY <2>5, <2>0 DEF OpReturn, Disc, DiscReturn
  <2>6. CASE Del
    <3>1. NoConnect'
      BY <2>6, NoPacketTyped DEF Del, Deinit, NoConnect
    <3> QED
      BY <2>6, <2>0, <3>1 DEF Del, Deinit
  <2>7. CASE DelRefused
    BY <2>7, <2>0 DEF DelRefused
  <2>8. ASSUME NEW ok \in BOOLEAN, OpSend(ok) PROVE ConnectInv'
    BY <2>8, <2>0 DEF OpSend
  <2>9. ASSUME NEW ok \in BOOLEAN, DiscSend(ok) PROVE ConnectInv'
    BY <2>9, <2>0 DEF DiscSend
  <2> QED
    BY <2>1, <2>2, <2>3, <2>4, <2>5, <2>6, <2>7, <2>8, <2>9 DEF Demo
<1>d. CASE MonPush \/ MonRecPush
  BY <1>d, MonitorKeepsConnect DEF Monitor
<1> QED
  BY <1>c, <1>d

\* Time, the network and the broker preserve ConnectInv.
LEMMA EnvironmentKeepsConnect ==
  ASSUME TypesInv, SocketInv, ConnectInv, Tick \/ Environment
  PROVE  ConnectInv'
<1>n. Next
  BY DEF Next
<1>c. CASE ~MonPush /\ ~MonRecPush
  <2>0. (NoConnect => NoConnect') /\ AtMostOneConnect'
    BY <1>n, <1>c, ConnectsShrink DEF ConnectInv
  <2>1. UNCHANGED <<state, mon, proc, app, suspended, conmsg>>
    BY TaskFrames
  <2> QED
    BY <2>0, <2>1 DEF ConnectInv, NothingPending, NoneExpected, ConnectGoesOut, ReconnectBegins, LostOverwrites, Quiet
<1>d. CASE MonPush \/ MonRecPush
  BY <1>d, MonitorKeepsConnect DEF Monitor
<1> QED
  BY <1>c, <1>d

\* ConnectInv holds throughout.
LEMMA ConnectInvariant == Spec => []ConnectInv
<1>1. Init => ConnectInv
  BY NoPacketTyped, NoConnectFacts DEF Init, ConnectInv, NothingPending, NoneExpected, ConnectGoesOut, ReconnectBegins,
     LostOverwrites, NoConnect, AtMostOneConnect
<1>2. TypesInv /\ SocketInv /\ ConnectInv /\ [Next]_vars => ConnectInv'
  <2> SUFFICES ASSUME TypesInv, SocketInv, ConnectInv, [Next]_vars PROVE ConnectInv'
    OBVIOUS
  <2>1. CASE Next
    BY <2>1, MonitorKeepsConnect, ProcessKeepsConnect, DemoKeepsConnect, EnvironmentKeepsConnect
       DEF Next
  <2>2. CASE UNCHANGED vars
    BY <2>2 DEF vars, session, queue, errors, tcp, broker, process, application,
       ConnectInv, NothingPending, NoneExpected, ConnectGoesOut, ReconnectBegins, LostOverwrites, Quiet,
       NoConnect, AtMostOneConnect
  <2> QED
    BY <2>1, <2>2
<1> QED
  BY <1>1, <1>2, TypesInvariant, SocketInvariant, PTL DEF Spec

-----------------------------------------------------------------------------
(* The connection on the wire: invariants.                                 *)

\* Nothing is in flight without an open socket; an idle client has none.
ClosedIsEmpty ==
    /\ sock # "open" => link = FALSE /\ up = << >> /\ down = << >>
    /\ state \in {"UNINITIALED", "INITIALED"} => sock # "open"

\* A packet that is being handled.
InHand == IF proc = "handle" THEN {pkt} ELSE {}

\* What has come from the broker and has not had its effect.
Incoming == Range(down) \cup InHand

\* Until the broker has seen the CONNECT there is nothing to read.
Unseen == down = << >> /\ accepted = FALSE /\ proc \notin {"handle", "pubrel"}

\* A CONNECT is on its way to the broker.
ConnectSent == \E p \in Range(up) : p.type = "CONNECT"

OneConnectSent ==
    \A i, j \in 1..Len(up) : up[i].type = "CONNECT" /\ up[j].type = "CONNECT" => i = j

\* It is the first packet of its connection that is answered, and the only
\* one of its kind.
ConnectFirst ==
    /\ mon \in {"send", "rec_send"} => Unseen /\ ~ConnectSent
    /\ ConnectSent => Unseen /\ state # "CONNECTED"
    /\ OneConnectSent

\* A CONNACK that accepts is true.
ConnackTrue ==
    \A p \in Incoming : p.type = "CONNACK" /\ p.code # "refused" => accepted = TRUE

WireInv ==
    /\ ClosedIsEmpty /\ ConnectFirst /\ ConnackTrue
    /\ state = "CONNECTED" => sock = "open" /\ accepted = TRUE

\* What a step may do to the CONNECT on its way.
LEMMA ConnectSentStep ==
  ASSUME TypesInv, ConnectFirst, Next
  PROVE  /\ OneConnectSent'
         /\ ConnectSent' => ConnectSent \/ (mon # mon' /\ mon' \in {"push", "rec_push"})
         /\ ConnectSent /\ up # << >> /\ Head(up).type = "CONNECT" /\ up' = Tail(up) => ~ConnectSent'
<1>t. up \in Seq(PacketSet) /\ Len(up) \in Nat
  BY DEF TypesInv, UpOK
<1>r. Range(up) = {up[i] : i \in 1..Len(up)}
  BY <1>t, RangeFacts
<1>o. OneConnectSent
  BY DEF ConnectFirst, OneConnectSent
<1>1. CASE UNCHANGED up
  BY <1>1, <1>o, <1>t DEF OneConnectSent, ConnectSent
<1>2. CASE up' = << >>
  BY <1>2, NoPacketTyped DEF OneConnectSent, ConnectSent
<1>3. CASE up # << >> /\ up' = Tail(up)
  <2>1. /\ Len(up') = Len(up) - 1 /\ up' \in Seq(PacketSet)
        /\ \A i \in 1..(Len(up) - 1) : up'[i] = up[i + 1]
        /\ Head(up) = up[1] /\ Len(up) # 0
    BY <1>t, <1>3
  <2>2. OneConnectSent'
    <3> SUFFICES ASSUME NEW i \in 1..Len(up'), NEW j \in 1..Len(up'),
                        up'[i].type = "CONNECT", up'[j].type = "CONNECT"
                 PROVE  i = j
      BY DEF OneConnectSent
    <3>1. /\ i + 1 \in 1..Len(up) /\ up[i + 1].type = "CONNECT"
          /\ j + 1 \in 1..Len(up) /\ up[j + 1].type = "CONNECT"
      BY <1>t, <2>1
    <3>2. i + 1 = j + 1
      BY <1>o, <3>1 DEF OneConnectSent
    <3> QED
      BY <3>2
  <2>3. Range(up)' = {up'[i] : i \in 1..Len(up')}
    BY <2>1, RangeFacts
  <2>4. ConnectSent' => ConnectSent
    BY <1>t, <1>r, <2>1, <2>3 DEF ConnectSent
  <2>5. Head(up).type = "CONNECT" => ~ConnectSent'
    <3>1. ASSUME Head(up).type = "CONNECT", NEW i \in 1..Len(up'), up'[i].type = "CONNECT"
          PROVE  FALSE
      <4>1. i + 1 \in 1..Len(up) /\ 1 \in 1..Len(up) /\ up[i + 1].type = "CONNECT" /\ up[1].type = "CONNECT"
        BY <1>t, <2>1, <3>1
      <4>2. i + 1 = 1
        BY <1>o, <4>1 DEF OneConnectSent
      <4> QED
        BY <4>2
    <3> QED
      BY <2>3, <3>1 DEF ConnectSent
  <2> QED
    BY <2>2, <2>4, <2>5
<1>4. ASSUME NEW p \in PacketSet, Sends(p)
      PROVE  OneConnectSent' /\ (ConnectSent' => ConnectSent \/ (mon # mon' /\ mon' \in {"push", "rec_push"}))
  <2>1. /\ Len(up') = Len(up) + 1 /\ up'[Len(up) + 1] = p
        /\ \A i \in 1..Len(up) : up'[i] = up[i]
    BY <1>t, <1>4 DEF Sends
  <2>2. Range(up)' = Range(up) \cup {p}
    BY <1>t, <1>4, RangeFacts DEF Sends
  <2>3. ConnectSent' => ConnectSent \/ (mon # mon' /\ mon' \in {"push", "rec_push"})
    BY <1>4, <2>2 DEF ConnectSent, Sends
  <2>4. CASE p.type # "CONNECT"
    BY <1>t, <1>o, <2>1, <2>3, <2>4 DEF OneConnectSent
  <2>5. CASE p.type = "CONNECT"
    <3>1. ~ConnectSent
      BY <1>4, <2>5 DEF Sends, ConnectFirst
    <3>2. \A i \in 1..Len(up) : up[i].type # "CONNECT"
      BY <1>r, <3>1 DEF ConnectSent
    <3> QED
      BY <1>t, <2>1, <2>3, <3>2 DEF OneConnectSent
  <2> QED
    BY <2>3, <2>4, <2>5
<1>5. ASSUME NEW p \in PacketSet, Sends(p)
      PROVE  up' # Tail(up) \/ up = << >>
  BY <1>t, <1>5 DEF Sends
<1> QED
  BY <1>1, <1>2, <1>3, <1>4, <1>5, UpStep DEF TypesInv

\* The monitor preserves WireInv.
LEMMA MonitorKeepsWire ==
  ASSUME TypesInv, SocketInv, ConnectInv, WireInv, Monitor
  PROVE  WireInv'
<1>n. Next
  BY DEF Next
<1>c. OneConnectSent' /\ (ConnectSent' => ConnectSent \/ (mon # mon' /\ mon' \in {"push", "rec_push"}))
  BY <1>n, ConnectSentStep DEF WireInv
<1>e. \A s : s = << >> => Range(s) = {}
  BY NoPacketTyped
<1>u. up' = << >> => ~ConnectSent'
  BY <1>e DEF ConnectSent
<1>d. down' = << >> => Range(down)' = {}
  BY <1>e
<1> USE <1>c, <1>u, <1>d DEF WireInv, ClosedIsEmpty, ConnectFirst, ConnackTrue, Unseen, Incoming, InHand,
            session, queue, errors, tcp, broker, process, application
<1>1. CASE CheckTimeout
  <2>1. state' \in {state, "RECONNECTING"}
    BY <1>1 DEF CheckTimeout, NodeTimeoutCb
  <2> QED
    BY <1>1, <2>1 DEF CheckTimeout
<1>2. CASE MonMqtt
  BY <1>2 DEF MonMqtt, Close, SocketInv, UnansweredInv
<1>3. CASE MonSend
  BY <1>3 DEF MonSend, Send, ConnectInv, ConnectGoesOut
<1>4. CASE MonSendFails
  BY <1>4 DEF MonSendFails, Close
<1>5. CASE MonPush
  BY <1>5 DEF MonPush
<1>6. CASE MonDisc
  BY <1>6 DEF MonDisc
<1>7. CASE MonDiscClose
  BY <1>7 DEF MonDiscClose, Close, SocketInv, ProtectInv, ConnectInv, LostOverwrites
<1>8. CASE MonSuspend
  BY <1>8 DEF MonSuspend, SocketInv, ClosedInv
<1>9. CASE MonRec
  BY <1>9 DEF MonRec
<1>10. CASE MonRecClose
  BY <1>10 DEF MonRecClose, Close, SocketInv, ProtectInv, ConnectInv, ReconnectBegins
<1>11. CASE MonRecPush
  BY <1>11 DEF MonRecPush
<1>12. CASE MonAlive
  BY <1>12 DEF MonAlive
<1>13. CASE MonLoop
  BY <1>13 DEF MonLoop
<1>14. ASSUME NEW result \in NetworkResult, MonNet(result) PROVE WireInv'
  BY <1>14 DEF MonNet, ConnectNetwork, NetworkResult, SocketInv, OpeningInv
<1>15. ASSUME NEW result \in NetworkResult, MonRecConnect(result) PROVE WireInv'
  BY <1>15 DEF MonRecConnect, ConnectNetwork, NetworkResult, SocketInv, ClosedInv, HandlingInv,
               ConnectInv, ReconnectBegins
<1>16. ASSUME NEW b \in BOOLEAN, MonRecSend(b) PROVE WireInv'
  BY <1>16 DEF MonRecSend, Send, ConnectInv, ConnectGoesOut
<1>17. ASSUME NEW b \in BOOLEAN, MonAliveResult(b) PROVE WireInv'
  BY <1>17 DEF MonAliveResult
<1> QED
  BY <1>1, <1>2, <1>3, <1>4, <1>5, <1>6, <1>7, <1>8, <1>9, <1>10, <1>11, <1>12, <1>13, <1>14, <1>15, <1>16, <1>17 DEF Monitor

\* The processing task preserves WireInv.
LEMMA ProcessKeepsWire ==
  ASSUME TypesInv, SocketInv, ConnectInv, WireInv, Process
  PROVE  WireInv'
<1>n. Next
  BY DEF Next
<1>m. UNCHANGED mon
  BY TaskFrames
<1>c. OneConnectSent' /\ (ConnectSent' => ConnectSent)
  BY <1>n, <1>m, ConnectSentStep DEF WireInv
<1> USE <1>c, <1>m DEF WireInv, ClosedIsEmpty, ConnectFirst, ConnackTrue, Unseen, Incoming, InHand,
            session, queue, errors, tcp, broker, process, application
<1>1. CASE ProcLost
  BY <1>1 DEF ProcLost, Runs
<1>2. CASE ProcProtect \/ ProcLeave
  BY <1>2 DEF ProcProtect, ProcLeave, Runs
<1>3. CASE ProcRead
  <2>1. /\ Head(down) \in Range(down) /\ Range(Tail(down)) \subseteq Range(down) /\ down # << >>
    BY <1>3, RangeFacts DEF ProcRead, TypesInv, DownOK
  <2>2. /\ pkt' = Head(down) /\ down' = Tail(down) /\ proc' = "handle" /\ proc = "read" /\ sock = "open"
        /\ UNCHANGED <<state, sock, link, up, accepted>>
    BY <1>3 DEF ProcRead, Runs
  <2>3. Incoming' \subseteq Incoming
    BY <2>1, <2>2
  <2> QED
    BY <2>1, <2>2, <2>3
<1>4. CASE HandleConnack
  <2>1. /\ proc = "handle" /\ pkt.type = "CONNACK" /\ proc' = "read"
        /\ UNCHANGED <<sock, link, up, down, accepted>>
    BY <1>4 DEF HandleConnack, Handles, Runs, Again
  <2>2. \/ state' = state
        \/ state' = "DISCONNECTED"
        \/ state' = "CONNECTED" /\ pkt.code # "refused"
    BY <1>4 DEF HandleConnack, ConackCb
  <2>3. sock = "open"
    BY <2>1 DEF SocketInv, HandlingInv
  <2> QED
    BY <2>1, <2>2, <2>3
<1>5. CASE HandleSuback \/ HandleUnsuback
  <2>1. proc = "handle" /\ proc' = "read" /\ UNCHANGED <<state, sock, link, up, down, accepted>>
    BY <1>5 DEF HandleSuback, HandleUnsuback, Handles, Runs, Again
  <2> QED
    BY <2>1
<1>6. CASE HandlePuback
  BY <1>6 DEF HandlePuback, Handles, Runs, Again
<1>7. CASE HandlePingresp
  BY <1>7 DEF HandlePingresp, Runs, Again
<1>8. ASSUME NEW b \in BOOLEAN, ProcTop(b) PROVE WireInv'
  BY <1>8 DEF ProcTop, Runs
<1>9. ASSUME NEW b \in BOOLEAN, ProcPing(b) PROVE WireInv'
  BY <1>9 DEF ProcPing, Runs, Send
<1>10. ASSUME NEW b \in BOOLEAN, SendPubrel(b) PROVE WireInv'
  BY <1>10 DEF SendPubrel, Runs, Again, Send
<1>11. ASSUME NEW b \in BOOLEAN, HandlePublish(b) PROVE WireInv'
  BY <1>11 DEF HandlePublish, Runs, Again, Send
<1> QED
  BY <1>1, <1>2, <1>3, <1>4, <1>5, <1>6, <1>7, <1>8, <1>9, <1>10, <1>11 DEF Process

\* The demo preserves WireInv.
LEMMA DemoKeepsWire ==
  ASSUME TypesInv, SocketInv, ConnectInv, WireInv, Con \/ ConAlready \/ Demo
  PROVE  WireInv'
<1>n. Next
  BY DEF Next
<1> USE DEF WireInv, ClosedIsEmpty, ConnectFirst, ConnackTrue, Unseen, Incoming, InHand,
            session, queue, errors, tcp, broker, process, application
<1>c. OneConnectSent' /\ (ConnectSent' => ConnectSent \/ (mon # mon' /\ mon' \in {"push", "rec_push"}))
  BY <1>n, ConnectSentStep
<1> USE <1>c
<1>1. CASE Con
  BY <1>1 DEF Con, InitCfg
<1>2. CASE ConAlready \/ ConReturn
  BY <1>2 DEF ConAlready, ConReturn
<1>3. CASE OpBegin
  BY <1>3 DEF OpBegin
<1>4. CASE OpPush
  BY <1>4 DEF OpPush
<1>5. CASE OpReturn \/ Disc \/ DiscReturn \/ DelRefused
  BY <1>5 DEF OpReturn, Disc, DiscReturn, DelRefused
<1>6. CASE Del
  BY <1>6 DEF Del, Deinit
<1>7. ASSUME NEW ok \in BOOLEAN, OpSend(ok) PROVE WireInv'
  BY <1>7 DEF OpSend, Send
<1>8. ASSUME NEW ok \in BOOLEAN, DiscSend(ok) PROVE WireInv'
  BY <1>8 DEF DiscSend, Send
<1> QED
  BY <1>1, <1>2, <1>3, <1>4, <1>5, <1>6, <1>7, <1>8 DEF Demo

\* Time, the network and the broker preserve WireInv.
LEMMA EnvironmentKeepsWire ==
  ASSUME TypesInv, SocketInv, ConnectInv, WireInv, Tick \/ Environment
  PROVE  WireInv'
<1>n. Next
  BY DEF Next
<1>m. UNCHANGED <<mon, proc, pkt, state, sock>>
  BY TaskFrames
<1>c. OneConnectSent' /\ (ConnectSent' => ConnectSent)
  BY <1>n, <1>m, ConnectSentStep DEF WireInv
<1>t. up \in Seq(PacketSet) /\ down \in Seq(PacketSet) /\ pkt \in PacketSet /\ granted \subseteq Topics
  BY DEF TypesInv, UpOK, DownOK, TopicsOK
<1>l. link => sock = "open"
  BY DEF WireInv, ClosedIsEmpty
<1> USE <1>m, <1>c DEF WireInv, ClosedIsEmpty, ConnectFirst, ConnackTrue, Unseen, Incoming, InHand,
            session, queue, errors, tcp, broker, process, application
<1>1. CASE Tick
  BY <1>1 DEF Tick
<1>2. CASE LinkBreak
  BY <1>2 DEF LinkBreak
<1>3. CASE BrokerSilent
  BY <1>3, <1>l DEF BrokerSilent
<1>4. CASE BrokerAnswer
  <2>1. PICK a \in Answers(Head(up)) : down' = down \o a[2]
    BY <1>4 DEF BrokerAnswer
  <2>2. Head(up) \in Range(up) /\ Head(up) \in PacketSet
    BY <1>4, <1>t, RangeFacts DEF BrokerAnswer
  <2>3. /\ Head(up).type = "PUBLISH" => Head(up).qos \in 0..2
        /\ Head(up).type = "SUBSCRIBE" => Head(up).topic \in Topics
    BY <2>2 DEF TypesInv, UpOK, RequestType
  <2>4. /\ a[2] \in Seq(PacketSet)
        /\ \A q \in Range(a[2]) : q.type # "CONNACK"
    <3>1. /\ a[2] \in Seq(PacketSet)
          /\ \/ Range(a[2]) = {} /\ a[1] = granted
             \/ \E q \in PacketSet : Answers1(Head(up), a, q) /\ Range(a[2]) = {q}
      BY <1>t, <2>1, <2>2, <2>3, AnswersTyped
    <3>2. CASE Range(a[2]) = {}
      BY <3>1, <3>2
    <3>3. ASSUME NEW q \in PacketSet, Answers1(Head(up), a, q), Range(a[2]) = {q}
          PROVE  \A r \in Range(a[2]) : r.type # "CONNACK"
      BY <3>3 DEF Answers1
    <3> QED
      BY <3>1, <3>2, <3>3
  <2>5. Range(down') = Range(down) \cup Range(a[2])
    BY <1>t, <2>1, <2>4, RangeConcat
  <2>6. link /\ accepted /\ UNCHANGED accepted
    BY <1>4 DEF BrokerAnswer
  <2>7. accepted = TRUE
    BY <2>6, Zenon DEF TypesInv, FlagsOK
  <2> QED
    BY <1>l, <2>4, <2>5, <2>6, <2>7
<1>5. ASSUME NEW code \in {"accepted", "kept", "refused"}, BrokerConnect(code) PROVE WireInv'
  <2>1. Head(up) \in Range(up) /\ Head(up).type = "CONNECT" /\ up # << >> /\ link
    BY <1>5, <1>t, RangeFacts DEF BrokerConnect
  <2>2. ConnectSent
    BY <2>1 DEF ConnectSent
  <2>3. ~ConnectSent'
    BY <1>5, <1>n, <2>1, <2>2, ConnectSentStep DEF BrokerConnect
  <2>4. mon \notin {"send", "rec_send"} /\ state # "CONNECTED" /\ down = << >> /\ proc # "handle"
    BY <2>2
  <2>5. Connack(code) \in PacketSet /\ Connack(code).code = code
    BY DEF Connack, Packet, PacketSet, PacketType
  <2>6. Range(down)' = {Connack(code)}
    <3>1. Range(Append(down, Connack(code))) = Range(down) \cup {Connack(code)}
      BY <1>t, <2>5, RangeFacts
    <3>2. down' = Append(down, Connack(code))
      BY <1>5 DEF BrokerConnect
    <3>3. Range(down) = {}
      BY <2>4, NoPacketTyped
    <3> QED
      BY <3>1, <3>2, <3>3
  <2>7. code # "refused" => accepted' = TRUE
    BY <1>5, Zenon DEF BrokerConnect
  <2> QED
    BY <1>l, <2>1, <2>3, <2>4, <2>5, <2>6, <2>7
<1>6. ASSUME NEW topic \in Topics, NEW qos \in 1..2, BrokerPublish(topic, qos) PROVE WireInv'
  <2> DEFINE p == Packet("PUBLISH", inbound + 1, topic, qos, "none")
  <2>1. p \in PacketSet /\ p.type = "PUBLISH"
    BY BoundsAssumption DEF Packet, PacketSet, PacketType, TypesInv, ScalarsOK
  <2>2. down' = Append(down, p) /\ link /\ accepted /\ UNCHANGED <<accepted, up, link>>
    BY <1>6 DEF BrokerPublish
  <2> HIDE DEF p
  <2>3. Range(down)' = Range(down) \cup {p}
    BY <1>t, <2>1, <2>2, RangeFacts
  <2>4. accepted = TRUE
    BY <2>2, Zenon DEF TypesInv, FlagsOK
  <2> QED
    BY <1>l, <2>1, <2>2, <2>3, <2>4
<1> QED
  BY <1>1, <1>2, <1>3, <1>4, <1>5, <1>6 DEF Environment

\* WireInv holds throughout.
LEMMA WireInvariant == Spec => []WireInv
<1>1. Init => WireInv
  BY NoPacketTyped DEF Init, WireInv, ClosedIsEmpty, ConnectFirst, ConnackTrue, Unseen, Incoming, InHand,
     OneConnectSent, ConnectSent
<1>2. TypesInv /\ SocketInv /\ ConnectInv /\ WireInv /\ [Next]_vars => WireInv'
  <2> SUFFICES ASSUME TypesInv, SocketInv, ConnectInv, WireInv, [Next]_vars PROVE WireInv'
    OBVIOUS
  <2>1. CASE Next
    BY <2>1, MonitorKeepsWire, ProcessKeepsWire, DemoKeepsWire, EnvironmentKeepsWire
       DEF Next
  <2>2. CASE UNCHANGED vars
    BY <2>2 DEF vars, session, queue, errors, tcp, broker, process, application,
       WireInv, ClosedIsEmpty, ConnectFirst, ConnackTrue, Unseen, Incoming, InHand, OneConnectSent, ConnectSent
  <2> QED
    BY <2>1, <2>2
<1> QED
  BY <1>1, <1>2, TypesInvariant, SocketInvariant, ConnectInvariant, PTL DEF Spec

-----------------------------------------------------------------------------
(* The topic table: invariants.                                            *)

\* The broker holds t, or was asked to give it up.
Held(t) == t \in granted \/ Requested("unsub", t)

\* What a SUBACK of this id would be taken to be about.
Subscribing(id) ==
    {n.topic : n \in {n \in Range(sendqueue) : n.type = "SUBSCRIBE" /\ n.id = id}}
    \cup IF app = "push" /\ request.op = "sub" /\ next_packetid = id THEN {request.topic} ELSE {}

\* An identifier in use was given out, or is about to be.
GivenOut(id) == id < next_packetid \/ (id = next_packetid /\ app = "push")

\* A SUBSCRIBE on its way is the one the client means by its identifier.
SubscribeKnown ==
    \A p \in Range(up) : p.type = "SUBSCRIBE" =>
        GivenOut(p.id) /\ Subscribing(p.id) \subseteq {p.topic}

\* A SUBACK that grants is true.
SubackTrue ==
    \A p \in Incoming : p.type = "SUBACK" =>
        /\ GivenOut(p.id)
        /\ p.qos # 128 => \A t \in Subscribing(p.id) : Held(t)

\* The broker only drops what it was asked to.
UnsubscribeAsked == \A p \in Range(up) : p.type = "UNSUBSCRIBE" => Requested("unsub", p.topic)

\* Only what the demo asked for is waited for.
SubscribeAsked ==
    \A n \in Range(sendqueue) : n.type = "SUBSCRIBE" => Requested("sub", n.topic)

\* The table of a session that the broker has kept.
TableTrue == state = "CONNECTED" \/ ~CleanSession => \A t \in topictable : Held(t)

\* The first run begins with the first request.
FirstRun == sessions = 0 /\ app \in {"idle", "con_wait"} => step = 1

TableInv ==
    /\ SubscribeKnown /\ SubackTrue /\ UnsubscribeAsked /\ SubscribeAsked
    /\ TableTrue /\ FirstRun

\* A run of the demo only moves on from request to request.
LEMMA RequestedStays ==
  ASSUME TypesInv, FirstRun, Next, NEW op, NEW t, Requested(op, t)
  PROVE  Requested(op, t)'
<1> USE DEF session, queue, errors, tcp, broker, process, application
<1>1. step \in Nat /\ sessions \in Nat /\ Len(Script) \in Nat
  BY ScriptAssumption, BoundsAssumption DEF TypesInv, ScalarsOK
<1>2. (step' >= step /\ sessions' = sessions) \/ sessions' > 0
  <2>1. CASE UNCHANGED <<step, sessions>>
    BY <1>1, <2>1
  <2>2. CASE Con \/ Demo
    BY <1>1, <2>2 DEF Con, Demo, ConReturn, OpBegin, OpReturn, Disc, OpPush,
         DiscReturn, Del, DelRefused, OpSend, DiscSend, FirstRun
  <2>3. CASE ConAlready
    BY <1>1, <2>3 DEF ConAlready, FirstRun
  <2> QED
    BY <2>1, <2>2, <2>3, TaskFrames DEF Next
<1>3. step' \in Nat /\ sessions' \in Nat
  <2>1. ScalarsOK'
    BY MonitorKeepsScalars, ProcessKeepsScalars, DemoKeepsScalars,
       EnvironmentKeepsScalars DEF Next, TypesInv
  <2> QED
    BY <1>1, <2>1, BoundsAssumption DEF ScalarsOK
<1> QED
  BY <1>1, <1>2, <1>3 DEF Requested

\* The demo alone changes app and step; it leaves "push" by OpPush and comes
\* to it by OpSend.
LEMMA ApplicationStep ==
  ASSUME Next
  PROVE  \/ UNCHANGED <<app, step>>
         \/ app # "push" /\ app' # "push" /\ ~OpPush
         \/ OpPush
         \/ app = "send" /\ app' = "push" /\ UNCHANGED step
<1> USE DEF session, queue, errors, tcp, broker, process, application
<1>1. CASE Con \/ ConAlready \/ (Demo /\ ~OpPush)
  BY <1>1 DEF Con, ConAlready, Demo, ConReturn, OpBegin, OpReturn, Disc, OpPush,
         DiscReturn, Del, DelRefused, OpSend, DiscSend
<1> QED
  BY <1>1, TaskFrames DEF Next

\* What an identifier stands for does not change while it is in use.
LEMMA KnownStays ==
  ASSUME TypesInv, Next, ~Con, NEW id \in Nat, GivenOut(id)
  PROVE  GivenOut(id)' /\ Subscribing(id)' \subseteq Subscribing(id)
<1>q. sendqueue \in Seq(NodeSet) /\ next_packetid \in Nat /\ next_packetid' \in Nat
  BY NextPacketId DEF TypesInv, QueueOK, ScalarsOK
<1>r. Range(sendqueue) = {sendqueue[i] : i \in 1..Len(sendqueue)}
  BY <1>q, RangeFacts
<1>1. CASE ~OpPush
  <2>1. UNCHANGED next_packetid
    BY <1>1, NextPacketId
  <2>2. ASSUME NEW n \in Range(sendqueue)', n.type = "SUBSCRIBE"
        PROVE  \E m \in Range(sendqueue) : m.type = "SUBSCRIBE" /\ m.id = n.id /\ m.topic = n.topic
    <3>1. CASE MonPush \/ MonRecPush
      <4>1. sendqueue' = Append(sendqueue, ConnectNode)
        BY <3>1 DEF MonPush, MonRecPush
      <4>2. ConnectNode \in NodeSet /\ ConnectNode.type = "CONNECT"
        BY DEF ConnectNode, Node, NodeSet
      <4>3. Range(sendqueue)' = Range(sendqueue) \cup {ConnectNode}
        BY <1>q, <4>1, <4>2, RangeFacts
      <4> QED
        BY <2>2, <4>2, <4>3
    <3>2. CASE ~MonPush /\ ~MonRecPush
      <4>1. sendqueue' \in Seq(NodeSet) /\ Thins(sendqueue', sendqueue)
        BY <1>1, <1>q, <3>2, QueueShrinks DEF Pushes
      <4>2. Range(sendqueue)' = {sendqueue'[i] : i \in 1..Len(sendqueue')}
        BY <4>1, RangeFacts
      <4>3. PICK f \in [1..Len(sendqueue') -> 1..Len(sendqueue)] :
              \A i \in 1..Len(sendqueue') : /\ sendqueue'[i].type = sendqueue[f[i]].type
                                            /\ sendqueue'[i].id = sendqueue[f[i]].id
                                            /\ sendqueue'[i].topic = sendqueue[f[i]].topic
        BY <4>1 DEF Thins
      <4>4. PICK i \in 1..Len(sendqueue') : n = sendqueue'[i]
        BY <4>2
      <4>5. sendqueue[f[i]] \in Range(sendqueue)
        BY <1>r, <4>3
      <4> QED
        BY <2>2, <4>3, <4>4, <4>5
    <3> QED
      BY <3>1, <3>2
  <2>3. app' = "push" => \/ UNCHANGED <<app, request>>
                         \/ app = "send"
    BY <1>1, ApplicationStep DEF request
  <2>4. GivenOut(id)'
    BY <1>1, <1>q, <2>1, ApplicationStep DEF GivenOut
  <2>5. ASSUME NEW t \in Subscribing(id)' PROVE t \in Subscribing(id)
    <3>1. CASE \E n \in Range(sendqueue)' : n.type = "SUBSCRIBE" /\ n.id = id /\ n.topic = t
      BY <2>2, <3>1 DEF Subscribing
    <3>2. CASE app' = "push" /\ request'.op = "sub" /\ next_packetid' = id /\ t = request'.topic
      <4>1. app # "send"
        BY <1>q, <2>1, <3>2 DEF GivenOut
      <4> QED
        BY <2>1, <2>3, <3>2, <4>1 DEF Subscribing
    <3> QED
      BY <2>5, <3>1, <3>2 DEF Subscribing
  <2> QED
    BY <2>4, <2>5
<1>2. CASE OpPush
  <2>1. app = "push" /\ app' = "wait" /\ step \in 1..Len(Script)
    BY <1>2, ScriptAssumption DEF OpPush, TypesInv, ScalarsOK, LimitsInv
  <2> DEFINE n == Node(TypeOf(request.op), next_packetid, request.topic, request.qos)
  <2>2. /\ n \in NodeSet /\ n.id = next_packetid /\ n.topic = request.topic
        /\ n.type = "SUBSCRIBE" => request.op = "sub"
    <3>1. n \in NodeSet /\ n.id = next_packetid /\ n.topic = request.topic /\ n.type = TypeOf(request.op)
      BY <2>1, RequestTyped DEF Node, NodeSet, TypesInv, ScalarsOK
    <3>2. request.op \in {"sub", "pub", "unsub"}
      BY <2>1, RequestTyped
    <3> QED
      BY <3>1, <3>2 DEF TypeOf
  <2>3. sendqueue' = sendqueue \/ sendqueue' = Append(sendqueue, n)
    BY <1>2 DEF OpPush
  <2> HIDE DEF n
  <2>4. Range(sendqueue)' \subseteq Range(sendqueue) \cup {n}
    BY <1>q, <2>2, <2>3, RangeFacts
  <2>5. next_packetid' = next_packetid + 1
    BY <1>2 DEF OpPush
  <2> QED
    BY <1>q, <2>1, <2>2, <2>4, <2>5 DEF GivenOut, Subscribing
<1> QED
  BY <1>1, <1>2

\* The packets from the broker: only the broker adds to them.
LEMMA IncomingStep ==
  ASSUME TypesInv, WireInv, Next
  PROVE  \/ Incoming' \subseteq Incoming
         \/ \E p \in PacketSet : p.type # "SUBACK" /\ Incoming' \subseteq Incoming \cup {p}
         \/ BrokerAnswer
<1>t. up \in Seq(PacketSet) /\ down \in Seq(PacketSet) /\ pkt \in PacketSet
  BY DEF TypesInv, UpOK, DownOK
<1> USE DEF session, queue, errors, tcp, broker, process, application
<1>1. CASE Monitor
  <2>1. UNCHANGED <<proc, pkt>>
    BY <1>1, TaskFrames
  <2>2. UNCHANGED down \/ down' = << >>
    BY <1>1 DEF Monitor, CheckTimeout, MonMqtt, MonSend, MonSendFails, MonPush, MonDisc,
         MonDiscClose, MonSuspend, MonRec, MonRecClose, MonRecPush, MonAlive, MonLoop, MonNet,
         MonRecConnect, MonRecSend, MonAliveResult, Close, ConnectNetwork, Send
  <2> QED
    BY <2>1, <2>2, NoPacketTyped DEF Incoming, InHand
<1>2. CASE ProcRead
  <2>1. /\ Head(down) \in Range(down) /\ Range(Tail(down)) \subseteq Range(down)
    BY <1>2, <1>t, RangeFacts DEF ProcRead
  <2>2. pkt' = Head(down) /\ down' = Tail(down) /\ proc' = "handle"
    BY <1>2 DEF ProcRead
  <2> QED
    BY <2>1, <2>2 DEF Incoming, InHand
<1>3. CASE Process /\ ~ProcRead
  <2>1. UNCHANGED down /\ proc' # "handle"
    BY <1>3 DEF Process, ProcLost, ProcProtect, ProcLeave, HandlePingresp,
         ProcTop, ProcPing, SendPubrel, HandlePublish, HandleConnack, HandleSuback,
         HandleUnsuback, HandlePuback, Send, Again
  <2> QED
    BY <2>1 DEF Incoming, InHand
<1>4. CASE Con \/ ConAlready \/ Demo
  <2>1. UNCHANGED <<down, pkt>> /\ proc' \in {proc, "top", "dead"}
    BY <1>4 DEF Con, ConAlready, Demo, InitCfg, ConReturn, OpBegin, OpReturn, Disc,
         DiscReturn, Del, Deinit, DelRefused, OpPush, OpSend, DiscSend, Send
  <2> QED
    BY <2>1 DEF Incoming, InHand
<1>5. CASE Tick \/ LinkBreak \/ BrokerSilent
  <2>1. UNCHANGED <<down, pkt, proc>>
    BY <1>5 DEF Tick, LinkBreak, BrokerSilent
  <2> QED
    BY <2>1 DEF Incoming, InHand
<1>6. ASSUME NEW code \in {"accepted", "kept", "refused"}, BrokerConnect(code)
      PROVE  \E p \in PacketSet : p.type # "SUBACK" /\ Incoming' \subseteq Incoming \cup {p}
  <2>1. Connack(code) \in PacketSet /\ Connack(code).type = "CONNACK"
    BY DEF Connack, Packet, PacketSet, PacketType
  <2>2. down' = Append(down, Connack(code)) /\ UNCHANGED <<pkt, proc>>
    BY <1>6 DEF BrokerConnect
  <2>3. Range(down)' = Range(down) \cup {Connack(code)}
    BY <1>t, <2>1, <2>2, RangeFacts
  <2> QED
    BY <2>1, <2>2, <2>3 DEF Incoming, InHand
<1>7. ASSUME NEW topic \in Topics, NEW qos \in 1..2, BrokerPublish(topic, qos)
      PROVE  \E p \in PacketSet : p.type # "SUBACK" /\ Incoming' \subseteq Incoming \cup {p}
  <2> DEFINE p == Packet("PUBLISH", inbound + 1, topic, qos, "none")
  <2>1. p \in PacketSet /\ p.type = "PUBLISH"
    BY BoundsAssumption DEF Packet, PacketSet, PacketType, TypesInv, ScalarsOK
  <2>2. down' = Append(down, p) /\ UNCHANGED <<pkt, proc>>
    BY <1>7 DEF BrokerPublish
  <2> HIDE DEF p
  <2>3. Range(down)' = Range(down) \cup {p}
    BY <1>t, <2>1, <2>2, RangeFacts
  <2> QED
    BY <2>1, <2>2, <2>3 DEF Incoming, InHand
<1> QED
  BY <1>1, <1>2, <1>3, <1>4, <1>5, <1>6, <1>7 DEF Next, Environment

\* The broker's session: only the broker changes it.
LEMMA GrantedStep ==
  ASSUME Next
  PROVE  \/ UNCHANGED granted
         \/ BrokerAnswer
         \/ BrokerConnect("accepted") /\ granted' = {}
<1> USE DEF session, queue, errors, tcp, broker, process, application
<1>1. CASE LinkBreak \/ BrokerSilent \/ Tick \/ \E topic \in Topics, qos \in 1..2 : BrokerPublish(topic, qos)
  BY <1>1 DEF LinkBreak, BrokerSilent, Tick, BrokerPublish
<1>2. ASSUME NEW code \in {"accepted", "kept", "refused"}, BrokerConnect(code)
      PROVE  UNCHANGED granted \/ (BrokerConnect("accepted") /\ granted' = {})
  BY <1>2 DEF BrokerConnect
<1> QED
  BY <1>1, <1>2, TaskFrames DEF Next, Environment

\* The answer of the broker, with the packet it answers.
LEMMA AnswerStep ==
  ASSUME TypesInv, BrokerAnswer
  PROVE  /\ Head(up) \in Range(up)
         /\ \/ UNCHANGED granted /\ Incoming' = Incoming
            \/ \E a \in Answers(Head(up)), q \in PacketSet :
                  Answers1(Head(up), a, q) /\ granted' = a[1] /\ Incoming' = Incoming \cup {q}
<1>t. up \in Seq(PacketSet) /\ down \in Seq(PacketSet) /\ granted \subseteq Topics
  BY DEF TypesInv, UpOK, DownOK, TopicsOK
<1>1. PICK a \in Answers(Head(up)) : granted' = a[1] /\ down' = down \o a[2]
  BY DEF BrokerAnswer
<1>2. Head(up) \in Range(up) /\ Head(up) \in PacketSet
  BY <1>t, RangeFacts DEF BrokerAnswer
<1>3. /\ Head(up).type = "PUBLISH" => Head(up).qos \in 0..2
      /\ Head(up).type = "SUBSCRIBE" => Head(up).topic \in Topics
  BY <1>2 DEF TypesInv, UpOK, RequestType
<1>4. /\ a[2] \in Seq(PacketSet)
      /\ \/ Range(a[2]) = {} /\ a[1] = granted
         \/ \E q \in PacketSet : Answers1(Head(up), a, q) /\ Range(a[2]) = {q}
  BY <1>t, <1>1, <1>2, <1>3, AnswersTyped
<1>5. Range(down') = Range(down) \cup Range(a[2])
  BY <1>t, <1>1, <1>4, RangeConcat
<1>6. UNCHANGED <<pkt, proc>>
  BY DEF BrokerAnswer, process
<1> QED
  BY <1>1, <1>2, <1>4, <1>5, <1>6 DEF Incoming, InHand

\* A subscription stays held, unless the broker begins a clean session.
LEMMA HeldStays ==
  ASSUME TypesInv, TableInv, Next, NEW t, Held(t), ~(BrokerConnect("accepted") /\ granted' = {})
  PROVE  Held(t)'
<1>1. Requested("unsub", t) => Requested("unsub", t)'
  BY RequestedStays DEF TableInv
<1>2. CASE UNCHANGED granted
  BY <1>1, <1>2 DEF Held
<1>3. CASE BrokerAnswer
  <2>1. /\ Head(up) \in Range(up)
        /\ \/ UNCHANGED granted
           \/ \E a \in Answers(Head(up)), q \in PacketSet : Answers1(Head(up), a, q) /\ granted' = a[1]
    BY <1>3, AnswerStep
  <2>2. ASSUME NEW a, NEW q, Answers1(Head(up), a, q), granted' = a[1]
        PROVE  Held(t)'
    <3>1. CASE Head(up).type # "UNSUBSCRIBE"
      BY <1>1, <2>2, <3>1 DEF Held, Answers1
    <3>2. CASE Head(up).type = "UNSUBSCRIBE"
      <4>1. t = Head(up).topic => Requested("unsub", t)
        BY <2>1, <3>2 DEF TableInv, UnsubscribeAsked
      <4>3. granted \ {Head(up).topic} \subseteq granted'
        BY <2>2, <3>2 DEF Answers1
      <4> QED
        BY <1>1, <4>1, <4>3 DEF Held
    <3> QED
      BY <3>1, <3>2
  <2> QED
    BY <1>2, <2>1, <2>2
<1> QED
  BY <1>2, <1>3, GrantedStep

\* What is on its way to the broker stays what the client means.
LEMMA UpMeansStep ==
  ASSUME TypesInv, PacketIdsUnique, TableInv, Next, ~Con
  PROVE  SubscribeKnown' /\ UnsubscribeAsked'
<1>t. up \in Seq(PacketSet) /\ \A p \in Range(up) : p.id \in Nat
  <2>1. up \in Seq(PacketSet)
    BY DEF TypesInv, UpOK
  <2>2. \A p \in PacketSet : p.id \in Nat
    BY DEF PacketSet
  <2> QED
    BY <2>1, <2>2, RangeFacts
<1>1. ASSUME NEW p \in Range(up)
      PROVE  /\ p.type = "SUBSCRIBE" => GivenOut(p.id)' /\ Subscribing(p.id)' \subseteq {p.topic}
             /\ p.type = "UNSUBSCRIBE" => Requested("unsub", p.topic)'
  <2>1. ASSUME p.type = "SUBSCRIBE" PROVE GivenOut(p.id)' /\ Subscribing(p.id)' \subseteq {p.topic}
    <3>1. GivenOut(p.id) /\ Subscribing(p.id) \subseteq {p.topic}
      BY <2>1 DEF TableInv, SubscribeKnown
    <3> QED
      BY <1>t, <3>1, KnownStays
  <2>2. ASSUME p.type = "UNSUBSCRIBE" PROVE Requested("unsub", p.topic)'
    <3>1. Requested("unsub", p.topic)
      BY <2>2 DEF TableInv, UnsubscribeAsked
    <3> QED
      BY <3>1, RequestedStays DEF TableInv
  <2> QED
    BY <2>1, <2>2
<1>2. CASE Range(up)' \subseteq Range(up)
  BY <1>1, <1>2 DEF SubscribeKnown, UnsubscribeAsked
<1>3. ASSUME NEW p \in PacketSet, Sends(p)
      PROVE  SubscribeKnown' /\ UnsubscribeAsked'
  <2>1. Range(up)' = Range(up) \cup {p}
    BY <1>t, <1>3, RangeFacts DEF Sends
  <2>2. CASE p.type \notin RequestType
    BY <1>1, <2>1, <2>2 DEF SubscribeKnown, UnsubscribeAsked, RequestType
  <2>3. CASE p.type \in RequestType
    <3>1. app = "send" /\ app' = "push" /\ p = RequestPacket
      BY <1>3, <2>3 DEF Sends
    <3>2. ~OpPush /\ step \in 1..Len(Script)
      BY <3>1, ScriptAssumption DEF OpPush, TypesInv, ScalarsOK, LimitsInv
    <3>3. UNCHANGED <<next_packetid, step, request>>
      BY <3>1, <3>2, NextPacketId, ApplicationStep DEF request
    <3>4. p.id = next_packetid /\ p.topic = request.topic /\ p.type = TypeOf(request.op)
      BY <3>1 DEF RequestPacket, Packet
    <3>5. GivenOut(p.id)'
      BY <3>1, <3>3, <3>4 DEF GivenOut
    <3>6. Subscribing(p.id)' \subseteq {p.topic}
      <4>1. PacketIdsUnique'
        BY IdsStep
      <4>2. ASSUME NEW n \in Range(sendqueue)', n.type = "SUBSCRIBE" PROVE n.id # p.id
        <5>1. sendqueue' \in Seq(NodeSet)
          BY QueueTyped DEF TypesInv, QueueOK
        <5>2. PICK i \in 1..Len(sendqueue') : n = sendqueue'[i]
          BY <5>1, RangeFacts
        <5>3. sendqueue'[i].id < next_packetid'
          BY <4>1, <4>2, <5>2 DEF PacketIdsUnique
        <5>4. next_packetid' \in Nat
          BY <3>3 DEF TypesInv, ScalarsOK
        <5> QED
          BY <3>3, <3>4, <5>2, <5>3, <5>4
      <4> QED
        BY <3>3, <3>4, <4>2 DEF Subscribing
    <3>7. p.type = "UNSUBSCRIBE" => Requested("unsub", p.topic)'
      <4>1. p.type = "UNSUBSCRIBE" => request.op = "unsub"
        <5>1. request.op \in {"sub", "pub", "unsub"}
          BY <3>2, RequestTyped
        <5> QED
          BY <3>4, <5>1 DEF TypeOf
      <4>2. step' \in 1..Len(Script) /\ step' <= step'
        BY <3>2, <3>3, ScriptAssumption
      <4> QED
        BY <3>3, <3>4, <4>1, <4>2 DEF Requested, request
    <3> QED
      BY <1>1, <2>1, <3>5, <3>6, <3>7 DEF SubscribeKnown, UnsubscribeAsked
  <2> QED
    BY <2>2, <2>3
<1>4. CASE UNCHANGED up \/ up' = << >> \/ (up # << >> /\ up' = Tail(up))
  <2>1. Range(up)' \subseteq Range(up)
    BY <1>4, <1>t, RangeFacts, NoPacketTyped
  <2> QED
    BY <1>2, <2>1
<1> QED
  BY <1>3, <1>4, UpStep DEF TypesInv

\* A SUBACK on its way, or in hand, stays true.
LEMMA SubackStep ==
  ASSUME TypesInv, PacketIdsUnique, WireInv, TableInv, Next, ~Con
  PROVE  SubackTrue'
<1>t. \A p \in Incoming : p \in PacketSet /\ p.id \in Nat
  <2>1. down \in Seq(PacketSet) /\ pkt \in PacketSet
    BY DEF TypesInv, DownOK
  <2>2. \A p \in PacketSet : p.id \in Nat
    BY DEF PacketSet
  <2> QED
    BY <2>1, <2>2, RangeFacts DEF Incoming, InHand
<1>1. ASSUME NEW p \in Incoming, p.type = "SUBACK",
             p.qos # 128 => \A t \in Subscribing(p.id) : Held(t) => Held(t)'
      PROVE  /\ GivenOut(p.id)'
             /\ p.qos # 128 => \A t \in Subscribing(p.id)' : Held(t)'
  <2>1. /\ GivenOut(p.id)
        /\ p.qos # 128 => \A t \in Subscribing(p.id) : Held(t)
    BY <1>1 DEF TableInv, SubackTrue
  <2>2. GivenOut(p.id)' /\ Subscribing(p.id)' \subseteq Subscribing(p.id)
    BY <1>t, <2>1, KnownStays
  <2> QED
    BY <1>1, <2>1, <2>2
<1>2. CASE ~(BrokerConnect("accepted") /\ granted' = {})
  <2>1. \A t : Held(t) => Held(t)'
    BY <1>2, HeldStays
  <2>2. CASE \/ Incoming' \subseteq Incoming
             \/ \E p \in PacketSet : p.type # "SUBACK" /\ Incoming' \subseteq Incoming \cup {p}
    BY <1>1, <2>1, <2>2 DEF SubackTrue
  <2>3. CASE BrokerAnswer
    <3>1. /\ Head(up) \in Range(up)
          /\ \/ Incoming' = Incoming
             \/ \E a \in Answers(Head(up)), q \in PacketSet :
                   Answers1(Head(up), a, q) /\ granted' = a[1] /\ Incoming' = Incoming \cup {q}
      BY <2>3, AnswerStep
    <3>2. ASSUME NEW a, NEW q \in PacketSet,
                 Answers1(Head(up), a, q), granted' = a[1], Incoming' = Incoming \cup {q},
                 q.type = "SUBACK"
          PROVE  /\ GivenOut(q.id)'
                 /\ q.qos # 128 => \A t \in Subscribing(q.id)' : Held(t)'
      <4>1. Head(up).type = "SUBSCRIBE" /\ q.id = Head(up).id
        BY <3>2 DEF Answers1
      <4>2. GivenOut(q.id) /\ Subscribing(q.id) \subseteq {Head(up).topic}
        BY <3>1, <4>1 DEF TableInv, SubscribeKnown
      <4>3. q.id \in Nat
        BY DEF PacketSet
      <4>4. GivenOut(q.id)' /\ Subscribing(q.id)' \subseteq {Head(up).topic}
        BY <4>2, <4>3, KnownStays
      <4>5. q.qos # 128 => Head(up).topic \in granted'
        BY <3>2 DEF Answers1
      <4> QED
        BY <4>4, <4>5 DEF Held
    <3>3. CASE Incoming' = Incoming
      BY <1>1, <2>1, <3>3 DEF SubackTrue
    <3>4. ASSUME NEW a, NEW q \in PacketSet,
                 Answers1(Head(up), a, q), granted' = a[1], Incoming' = Incoming \cup {q}
          PROVE  SubackTrue'
      BY <1>1, <2>1, <3>2, <3>4 DEF SubackTrue
    <3> QED
      BY <3>1, <3>3, <3>4
  <2> QED
    BY <2>2, <2>3, IncomingStep
<1>3. CASE BrokerConnect("accepted") /\ granted' = {}
  <2>1. Head(up) \in Range(up) /\ Head(up).type = "CONNECT"
    BY <1>3, RangeFacts DEF BrokerConnect, TypesInv, UpOK
  <2>2. down = << >> /\ proc # "handle"
    BY <2>1 DEF WireInv, ConnectFirst, ConnectSent, Unseen
  <2>3. Incoming = {}
    BY <2>2, NoPacketTyped DEF Incoming, InHand
  <2>4. ~BrokerAnswer
    BY <1>3 DEF BrokerConnect, BrokerAnswer
  <2> QED
    BY <2>3, <2>4, IncomingStep DEF SubackTrue
<1> QED
  BY <1>2, <1>3

\* What waits for a SUBACK was asked for.
LEMMA SubscribeAskedStep ==
  ASSUME TypesInv, TableInv, Next
  PROVE  SubscribeAsked'
<1>q. sendqueue \in Seq(NodeSet)
  BY DEF TypesInv, QueueOK
<1>1. ASSUME NEW n \in Range(sendqueue), n.type = "SUBSCRIBE"
      PROVE  Requested("sub", n.topic)'
  <2>1. Requested("sub", n.topic)
    BY <1>1 DEF TableInv, SubscribeAsked
  <2> QED
    BY <2>1, RequestedStays DEF TableInv
<1>2. CASE MonPush \/ MonRecPush
  <2>1. sendqueue' = Append(sendqueue, ConnectNode)
    BY <1>2 DEF MonPush, MonRecPush
  <2>2. ConnectNode \in NodeSet /\ ConnectNode.type = "CONNECT"
    BY DEF ConnectNode, Node, NodeSet
  <2>3. Range(sendqueue)' = Range(sendqueue) \cup {ConnectNode}
    BY <1>q, <2>1, <2>2, RangeFacts
  <2> QED
    BY <1>1, <2>2, <2>3 DEF SubscribeAsked
<1>3. CASE OpPush
  <2>1. step \in 1..Len(Script) /\ step' = step
    BY <1>3, ScriptAssumption DEF OpPush, TypesInv, ScalarsOK, LimitsInv
  <2>2. PICK n \in NodeSet : /\ n = Node(TypeOf(request.op), next_packetid, request.topic, request.qos)
                             /\ n.topic = request.topic /\ n.type = TypeOf(request.op)
    <3> DEFINE m == Node(TypeOf(request.op), next_packetid, request.topic, request.qos)
    <3>1. m \in NodeSet /\ m.topic = request.topic /\ m.type = TypeOf(request.op)
      BY <2>1, RequestTyped DEF Node, NodeSet, TypesInv, ScalarsOK
    <3> HIDE DEF m
    <3>2. \E n \in NodeSet : n = m /\ n.topic = request.topic /\ n.type = TypeOf(request.op)
      BY <3>1
    <3> QED
      BY <3>2 DEF m
  <2>3. sendqueue' = sendqueue \/ sendqueue' = Append(sendqueue, n)
    BY <1>3, <2>2 DEF OpPush
  <2>4. Range(sendqueue)' \subseteq Range(sendqueue) \cup {n}
    <3>1. n \in NodeSet
      BY <2>2
    <3>2. Range(Append(sendqueue, n)) = Range(sendqueue) \cup {n}
      BY <1>q, <3>1, RangeFacts
    <3> QED
      BY <2>3, <3>2
  <2>5. n.type = "SUBSCRIBE" => request.op = "sub"
    <3>1. request.op \in {"sub", "pub", "unsub"}
      BY <2>1, RequestTyped
    <3> QED
      BY <2>2, <3>1 DEF TypeOf
  <2>6. n.type = "SUBSCRIBE" => Requested("sub", n.topic)'
    <3>1. step' \in 1..Len(Script) /\ step' <= step'
      BY <2>1, ScriptAssumption
    <3> QED
      BY <2>1, <2>2, <2>5, <3>1 DEF Requested, request
  <2> QED
    BY <1>1, <2>4, <2>6 DEF SubscribeAsked
<1>4. CASE ~Pushes
  <2>1. sendqueue' \in Seq(NodeSet) /\ Thins(sendqueue', sendqueue)
    BY <1>4, <1>q, QueueShrinks
  <2>2. PICK f \in [1..Len(sendqueue') -> 1..Len(sendqueue)] :
          \A i \in 1..Len(sendqueue') : /\ sendqueue'[i].type = sendqueue[f[i]].type
                                        /\ sendqueue'[i].topic = sendqueue[f[i]].topic
    BY <2>1 DEF Thins
  <2>3. ASSUME NEW n \in Range(sendqueue)', n.type = "SUBSCRIBE"
        PROVE  Requested("sub", n.topic)'
    <3>1. PICK i \in 1..Len(sendqueue') : n = sendqueue'[i]
      BY <2>1, RangeFacts
    <3>2. sendqueue[f[i]] \in Range(sendqueue)
      BY <1>q, <2>2, RangeFacts
    <3> QED
      BY <1>1, <2>2, <2>3, <3>1, <3>2
  <2> QED
    BY <2>3 DEF SubscribeAsked
<1> QED
  BY <1>2, <1>3, <1>4 DEF Pushes

\* The topic table of a session the broker has kept stays true.
LEMMA TableTrueStep ==
  ASSUME TypesInv, WireInv, TableInv, Next, ~Con
  PROVE  TableTrue'
<1> USE DEF session, queue, errors, tcp, broker, process, application
<1>q. sendqueue \in Seq(NodeSet)
  BY DEF TypesInv, QueueOK
<1>1. CASE BrokerConnect("accepted") /\ granted' = {}
  <2>1. Head(up) \in Range(up) /\ Head(up).type = "CONNECT"
    BY <1>1, RangeFacts DEF BrokerConnect, TypesInv, UpOK
  <2>2. state' # "CONNECTED" /\ UNCHANGED <<topictable, step, sessions>>
    BY <1>1, <2>1 DEF WireInv, ConnectFirst, ConnectSent, BrokerConnect
  <2>3. CASE CleanSession
    BY <2>2, <2>3 DEF TableTrue
  <2>4. CASE ~CleanSession /\ granted = {}
    BY <1>1, <2>2, <2>4 DEF TableTrue, TableInv, Held, Requested
  <2> QED
    BY <1>1, <2>3, <2>4 DEF BrokerConnect
<1>2. CASE ~(BrokerConnect("accepted") /\ granted' = {})
  <2>h. \A t : Held(t) => Held(t)'
    BY <1>2, HeldStays
  <2>1. CASE HandleConnack
    <3>1. \/ UNCHANGED <<state, topictable>>
          \/ state' = "DISCONNECTED" /\ UNCHANGED topictable
          \/ topictable' = {}
          \/ ~CleanSession /\ UNCHANGED topictable
      BY <2>1 DEF HandleConnack, ConackCb
    <3> QED
      BY <2>h, <3>1 DEF TableTrue, TableInv
  <2>2. CASE HandleSuback
    <3>1. UNCHANGED state
      BY <2>2 DEF HandleSuback
    <3>2. UNCHANGED topictable
             \/ \E i \in Match("SUBSCRIBE", pkt.id, {pkt.qos}) : SubackCb(i)
      BY <2>2 DEF HandleSuback
    <3>3. ASSUME NEW i \in Match("SUBSCRIBE", pkt.id, {pkt.qos})
          PROVE  Held(sendqueue[i].topic) /\ sendqueue[i].topic \in Subscribing(pkt.id)
      <4>1. /\ i \in 1..Len(sendqueue) /\ sendqueue[i].type = "SUBSCRIBE" /\ sendqueue[i].id = pkt.id
            /\ sendqueue[i].qos = pkt.qos
        BY MatchInQueue DEF Fits
      <4>2. sendqueue[i] \in Range(sendqueue) /\ sendqueue[i] \in NodeSet
        BY <1>q, <4>1, RangeFacts
      <4>3. \A n \in NodeSet : n.qos # 128
        BY DEF NodeSet
      <4>4. pkt \in Incoming /\ pkt.type = "SUBACK"
        BY <2>2 DEF HandleSuback, Handles, Runs, Incoming, InHand
      <4>5. sendqueue[i].topic \in Subscribing(pkt.id)
        BY <4>1, <4>2 DEF Subscribing
      <4> QED
        BY <4>1, <4>2, <4>3, <4>4, <4>5 DEF TableInv, SubackTrue
    <3>4. ASSUME NEW i \in Match("SUBSCRIBE", pkt.id, {pkt.qos}), SubackCb(i),
                 NEW t \in topictable', state = "CONNECTED" \/ ~CleanSession
          PROVE  Held(t)
      BY <3>3, <3>4 DEF SubackCb, TableInv, TableTrue
    <3> QED
      BY <2>h, <3>1, <3>2, <3>4 DEF TableTrue, TableInv
  <2>3. CASE HandleUnsuback
    <3>1. UNCHANGED state /\ topictable' \subseteq topictable
      BY <2>3 DEF HandleUnsuback, UnsubackCb
    <3> QED
      BY <2>h, <3>1 DEF TableTrue, TableInv
  <2>4. CASE Monitor
    <3>1. UNCHANGED topictable /\ (state' = state \/ state' # "CONNECTED")
      BY <2>4 DEF Monitor, CheckTimeout, NodeTimeoutCb, MonMqtt, MonSend, MonSendFails, MonPush, MonDisc,
         MonDiscClose, MonSuspend, MonRec, MonRecClose, MonRecPush, MonAlive, MonLoop, MonNet,
         MonRecConnect, MonRecSend, MonAliveResult
    <3> QED
      BY <2>h, <3>1 DEF TableTrue, TableInv
  <2>5. CASE Process /\ ~HandleConnack /\ ~HandleSuback /\ ~HandleUnsuback
    <3>1. UNCHANGED topictable /\ (state' = state \/ state' # "CONNECTED")
      BY <2>5 DEF Process, ProcLost, ProcProtect, ProcRead, ProcLeave, HandlePingresp,
         ProcTop, ProcPing, SendPubrel, HandlePublish, HandlePuback
    <3> QED
      BY <2>h, <3>1 DEF TableTrue, TableInv
  <2>6. CASE ConAlready \/ Demo
    <3>1. topictable' \subseteq topictable /\ (state' = state \/ state' # "CONNECTED")
      BY <2>6 DEF ConAlready, Demo, ConReturn, OpBegin, OpReturn, Disc, OpPush,
         DiscReturn, Del, Deinit, DelRefused, OpSend, DiscSend
    <3> QED
      BY <2>h, <3>1 DEF TableTrue, TableInv
  <2>7. CASE Tick \/ Environment
    <3>1. UNCHANGED <<topictable, state>>
      BY <2>7, TaskFrames
    <3> QED
      BY <2>h, <3>1 DEF TableTrue, TableInv
  <2> QED
    BY <2>1, <2>2, <2>3, <2>4, <2>5, <2>6, <2>7 DEF Next
<1> QED
  BY <1>1, <1>2

\* A step keeps FirstRun.
LEMMA FirstRunStep ==
  ASSUME TypesInv, TableInv, Next
  PROVE  FirstRun'
<1> USE DEF session, queue, errors, tcp, broker, process, application
<1>0. step \in Nat /\ sessions \in Nat
  BY ScriptAssumption, BoundsAssumption DEF TypesInv, ScalarsOK
<1>1. CASE ~(Con \/ ConAlready \/ Demo)
  <2>1. UNCHANGED <<app, step, sessions>>
    BY <1>1, TaskFrames DEF Next
  <2> QED
    BY <2>1 DEF FirstRun, TableInv
<1>2. CASE Con \/ ConAlready \/ Demo
  BY <1>0, <1>2 DEF Con, ConAlready, Demo, ConReturn, OpBegin, OpReturn, Disc, OpPush,
         DiscReturn, Del, DelRefused, OpSend, DiscSend, FirstRun, TableInv
<1> QED
  BY <1>1, <1>2

\* cmmqtt_init_cfg begins with nothing in flight.
LEMMA ConKeepsTable ==
  ASSUME TypesInv, WireInv, TableInv, Con
  PROVE  SubscribeKnown' /\ SubackTrue' /\ UnsubscribeAsked' /\ TableTrue'
<1>1. up' = << >> /\ down' = << >> /\ proc' = "top" /\ topictable' = {}
  BY DEF Con, InitCfg, WireInv, ClosedIsEmpty
<1>2. Range(up)' = {} /\ Incoming' = {}
  BY <1>1, NoPacketTyped DEF Incoming, InHand
<1> QED
  BY <1>1, <1>2 DEF SubscribeKnown, SubackTrue, UnsubscribeAsked, TableTrue

\* TableInv holds throughout.
LEMMA TableInvariant == Spec => []TableInv
<1>1. Init => TableInv
  BY NoPacketTyped DEF Init, TableInv, SubscribeKnown, SubackTrue, UnsubscribeAsked, SubscribeAsked,
     TableTrue, FirstRun, Incoming, InHand
<1>2. TypesInv /\ PacketIdsUnique /\ WireInv /\ TableInv /\ [Next]_vars => TableInv'
  <2> SUFFICES ASSUME TypesInv, PacketIdsUnique, WireInv, TableInv, [Next]_vars PROVE TableInv'
    OBVIOUS
  <2>1. CASE Next
    <3>1. SubscribeAsked' /\ FirstRun'
      BY <2>1, SubscribeAskedStep, FirstRunStep
    <3>2. CASE Con
      BY <3>1, <3>2, ConKeepsTable DEF TableInv
    <3>3. CASE ~Con
      BY <2>1, <3>1, <3>3, UpMeansStep, SubackStep, TableTrueStep DEF TableInv
    <3> QED
      BY <3>2, <3>3
  <2>2. CASE UNCHANGED vars
    <3>1. /\ Incoming' = Incoming /\ \A id : GivenOut(id)' = GivenOut(id)
          /\ \A op, t : Requested(op, t)' = Requested(op, t)
      BY <2>2 DEF vars, queue, tcp, process, application, Incoming, InHand, GivenOut, Requested
    <3>2. /\ \A id : Subscribing(id)' = Subscribing(id)
          /\ \A t : Held(t)' = Held(t)
      BY <2>2, <3>1 DEF vars, queue, broker, application, Subscribing, Held, request
    <3> QED
      BY <2>2, <3>1, <3>2 DEF vars, session, queue, tcp, application, TableInv, SubscribeKnown,
         SubackTrue, UnsubscribeAsked, SubscribeAsked, TableTrue, FirstRun
  <2> QED
    BY <2>1, <2>2
<1> QED
  BY <1>1, <1>2, TypesInvariant, IdentifiersUnique, WireInvariant, PTL DEF Spec

-----------------------------------------------------------------------------
(* Theorems                                                                *)

\* queuemutex is not stranded: whatever the script, the limits and the
\* bounds, the processing task that cmmqtt_suspendtask stops does not hold
\* the mutex.
THEOREM MutexIsNotStranded == Spec => []LockNotStranded
<1>1. SocketInv => LockNotStranded
  BY DEF SocketInv, MutexInv, SuspendedInv, LockNotStranded
<1> QED
  BY <1>1, SocketInvariant, PTL

\* The socket is not closed or replaced while the processing task handles a
\* packet it has read from it.
THEOREM PacketHandledOnItsSocket == Spec => []HandledOnItsSocket
<1>1. SocketInv => HandledOnItsSocket
  BY DEF SocketInv, HandlingInv, HandledOnItsSocket
<1> QED
  BY <1>1, SocketInvariant, PTL

\* Every variable keeps its type, for every script and every setting: the
\* attempts counted on the paths through cmmqtt_reconnect never exceed
\* cmmqtt_max_connecttimes, the PINGREQs counted in cmmqtt_clientalive never
\* exceed CMMQTT_MAX_PINGLOST, although both are reset from another task.
THEOREM MqttTypeCorrect == Spec => []TypeOK
<1>1. TypesInv => TypeOK
  BY DEF TypesInv, TypeOK, ScalarsOK, FlagsOK, QueueOK, UpOK, DownOK, TopicsOK
<1> QED
  BY <1>1, TypesInvariant, PTL

\* At most one CONNECT waits for its CONNACK: whoever sends one knows that
\* the one before has been answered, has timed out or was thrown away.
THEOREM OneConnectAtMost == Spec => []OneConnectPending
<1>1. TypesInv /\ ConnectInv => OneConnectPending
  <2> SUFFICES ASSUME TypesInv, ConnectInv PROVE OneConnectPending
    OBVIOUS
  <2> DEFINE C == {i \in 1..Len(sendqueue) : sendqueue[i].type = "CONNECT"}
  <2>1. \A i, j \in C : i = j
    BY DEF ConnectInv, AtMostOneConnect
  <2> HIDE DEF C
  <2>2. CASE C = {}
    BY <2>2, FS_EmptySet DEF OneConnectPending, C
  <2>3. ASSUME NEW i \in C PROVE OneConnectPending
    <3>1. C = {i}
      BY <2>1
    <3>2. Cardinality(C) = 1
      BY <3>1, FS_Singleton
    <3> QED
      BY <3>2 DEF OneConnectPending, C
  <2> QED
    BY <2>2, <2>3
<1> QED
  BY <1>1, TypesInvariant, ConnectInvariant, PTL

\* Once mqtt_disc_demo has thrown the CONNECT message away the client is not
\* CONNECTED again: the CONNACK of an attempt that was under way finds no
\* CONNECT in the queue.
THEOREM DisconnectIsFinal == Spec => []DiscIsFinal
<1>1. TypesInv /\ ConnectInv => DiscIsFinal
  BY Zenon DEF TypesInv, FlagsOK, ConnectInv, DiscIsFinal
<1> QED
  BY <1>1, TypesInvariant, ConnectInvariant, PTL

\* A client that calls itself CONNECTED has an open socket on which the
\* broker accepted its CONNECT; a CONNACK of an earlier socket is never
\* taken for one of this socket.
THEOREM ConnectedIsAccepted == Spec => []ConnectedMeansAccepted
<1>1. WireInv => ConnectedMeansAccepted
  BY DEF WireInv, ConnectedMeansAccepted
<1> QED
  BY <1>1, WireInvariant, PTL

\* A topic in the topic table of a connected client is a subscription of
\* the broker's session, or the demo has asked to give it up.
THEOREM TableIsTrue == Spec => []TableMatchesSession
<1>1. TableInv => TableMatchesSession
  BY DEF TableInv, TableTrue, TableMatchesSession, Held
<1> QED
  BY <1>1, TableInvariant, PTL

\* The topic of a subscription reported as made.
ReportedHeld ==
    sub_error # "ok" /\ sub_error' = "ok" => \E t \in Topics : Requested("sub", t) /\ Held(t)

\* sub_error becomes CMMQTT_SUB_OK only for a subscription the demo asked for
\* and the broker has granted, unless it was asked to give it up since: no
\* SUBACK is taken for the answer to another SUBSCRIBE.
THEOREM SubscribeReportedIsHeld == Spec => [][ReportedHeld]_vars
<1>1. ASSUME TypesInv, TableInv, Next PROVE ReportedHeld
  <2> SUFFICES ASSUME sub_error # "ok", sub_error' = "ok"
               PROVE  \E t \in Topics : Requested("sub", t) /\ Held(t)
    BY DEF ReportedHeld
  <2>1. HandleSuback
    <3> USE DEF session, queue, errors, tcp, broker, process, application
    <3>1. ~Monitor
      BY DEF Monitor, CheckTimeout, MonMqtt, MonSend, MonSendFails, MonPush, MonDisc,
         MonDiscClose, MonSuspend, MonRec, MonRecClose, MonRecPush, MonAlive, MonLoop, MonNet,
         MonRecConnect, MonRecSend, MonAliveResult, ConnectNetwork
    <3>2. Process => HandleSuback
      BY DEF Process, ProcLost, ProcProtect, ProcRead, ProcLeave, HandlePingresp, ProcTop,
         ProcPing, SendPubrel, HandlePublish, HandleConnack, HandleUnsuback, HandlePuback
    <3>3. ~(Con \/ ConAlready \/ Demo)
      BY DEF Con, ConAlready, Demo, ConReturn, OpBegin, OpReturn, Disc, OpPush,
         DiscReturn, Del, DelRefused, OpSend, DiscSend
    <3>4. ~(Tick \/ Environment)
      BY DEF Tick, Environment, LinkBreak, BrokerAnswer, BrokerSilent, BrokerConnect,
         BrokerPublish
    <3> QED
      BY <1>1, <3>1, <3>2, <3>3, <3>4 DEF Next
  <2>2. Match("SUBSCRIBE", pkt.id, {pkt.qos}) # {}
    BY <2>1 DEF HandleSuback
  <2>3. PICK i \in Match("SUBSCRIBE", pkt.id, {pkt.qos}) : TRUE
    BY <2>2
  <2>4. /\ i \in 1..Len(sendqueue) /\ sendqueue[i].type = "SUBSCRIBE"
        /\ sendqueue[i].id = pkt.id /\ sendqueue[i].qos = pkt.qos
    BY MatchInQueue DEF Fits
  <2>5. sendqueue[i] \in Range(sendqueue) /\ sendqueue[i] \in NodeSet
    BY <1>1, <2>4, RangeFacts DEF TypesInv, QueueOK
  <2>6. sendqueue[i].topic \in Topics
    BY <1>1, <2>4, <2>5 DEF TypesInv, QueueOK
  <2>7. pkt \in Incoming /\ pkt.type = "SUBACK"
    BY <2>1 DEF HandleSuback, Handles, Runs, Incoming, InHand
  <2>8. \A n \in NodeSet : n.qos # 128
    BY DEF NodeSet
  <2>9. sendqueue[i].topic \in Subscribing(pkt.id)
    BY <2>4, <2>5 DEF Subscribing
  <2>10. Held(sendqueue[i].topic)
    BY <1>1, <2>4, <2>5, <2>7, <2>8, <2>9 DEF TableInv, SubackTrue
  <2>11. Requested("sub", sendqueue[i].topic)
    BY <1>1, <2>4, <2>5 DEF TableInv, SubscribeAsked
  <2> QED
    BY <2>6, <2>10, <2>11
<1>2. TypesInv /\ TableInv /\ [Next]_vars => [ReportedHeld]_vars
  BY <1>1
<1> QED
  BY <1>2, TypesInvariant, TableInvariant, PTL DEF Spec
=============================================================================
