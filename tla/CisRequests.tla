---------------------------- MODULE CisRequests ----------------------------
(***************************************************************************)
(* Requests of the server and their answers in the LwM2M client            *)
(* (src/src/demo/dm/ciscore): the lists of requests, of notifications and  *)
(* of observations, filled by management_handleRequest (cis_management.c,  *)
(* cis_objects.c, cis_observe.c) and by the application's cis_response and *)
(* cis_notify (cis_core.c), and emptied by packet_step (cis_packet.c).     *)
(*                                                                         *)
(* The pump and the application are two tasks.  The pump owns requestList  *)
(* and observedList; notifyList is shared.  The application answers late,  *)
(* twice or never, with a value, with none, or with one that is refused.   *)
(* The server repeats, reorders and loses its messages; it uses a message  *)
(* id once.  There is always memory.  An answer counts as sent when it is  *)
(* handed to packet_send, whose result the code does not look at.          *)
(***************************************************************************)
EXTENDS CisList, FiniteSets, TLC

CONSTANTS
    Kinds,       \* the requests the server makes, of AllKinds
    Objects,     \* what they are about: uris of objects or instances,
    Resources,   \* and uris of resources
    AttributeCount, \* resources of an object that hold values
    ActionCount, \* and that are executed
    Results,     \* what the application answers, of AllResults
    Values,      \* and with which value, of AllValues
    Unserializable, \* some values cannot be serialized (an empty opaque, say)
    StartMid,    \* nextMid, which cis_init draws at random
    MaxObserves, \* bound: observes the client takes for new ones
    MaxMessages, \* bound: requests of the server
    MaxCalls,    \* bound: calls of the application
    MaxLosses    \* bound: lost registrations

AllKinds == {"read", "discover", "write", "execute", "observe", "cancel", "params"}
AllResults == {"content", "continue", "refused", "wronguri"}
AllValues == {"none", "valid", "invalid"}  \* invalid: of no type, or of no resource

Uris == Objects \cup Resources

\* The values a report holds.
Capacity(uri) == IF uri \in Resources THEN 1 ELSE AttributeCount

\* The resources a discover collects, of the one instance of an object.
Links == AttributeCount + ActionCount

ASSUME RequestsAssumption ==
    /\ Kinds \subseteq AllKinds /\ Results \subseteq AllResults
    /\ Values \subseteq AllValues /\ Unserializable \in BOOLEAN
    /\ AttributeCount \in Nat \ {0} /\ ActionCount \in Nat
    /\ StartMid \in Nat /\ MaxCalls \in Nat /\ MaxLosses \in Nat /\ MaxObserves \in Nat
    /\ MaxMessages \in Nat /\ MaxMessages < Width

VARIABLES
    pc,             \* where the pump is
    ready,          \* stateStep = PUMP_STATE_READY
    requestList,    \* sorted by id, see Request
    notifyList,     \* sorted by id, see Notice
    observedList,   \* a set of observations
    nextObserveNum, nextMid, nextNotifyId,
    call,           \* the notification of a call in progress, << >> if none
    asked,          \* what the application was asked and has not answered
    accepted,       \* observations the application has agreed to, by their id
    started,        \* the ones it has notified values of
    messages,       \* what the server has sent since the client registered
    acked,          \* message ids of those an answer was handed to packet_send for
    reports,        \* message ids of the reports sent since
    serverMid,      \* the server's next message id
    losses,
    event,          \* the last event or RST of the pump's last step, and its id
    fault           \* a NULL pointer was followed

pumpVars == <<ready, requestList, observedList, nextObserveNum, nextMid, losses>>
noteVars == <<notifyList, nextNotifyId, call>>
appVars  == <<asked, accepted, started>>
netVars  == <<messages, acked, reports, serverMid>>
vars == <<pc, pumpVars, noteVars, appVars, netVars, event, fault>>

Messages == [mid : 1 .. MaxMessages, kind : Kinds, uri : Uris]
Asked == [id : Nat, kind : Kinds, uri : Uris]
Requests == [id : Nat, type : Kinds, uri : Uris, values : Nat]
Notices == [id : Nat, isResponse : BOOLEAN, mid : Nat, result : AllResults,
            value : AllValues]
Observations == [uri : Uris, msgid : Nat, lastMid : Nat, report : Nat]
Events == [type : {"NONE", "RESPONSE_SUCCESS", "RESPONSE_FAILED", "NOTIFY_SUCCESS",
                   "NOTIFY_FAILED", "RESET"}, mid : Nat]

None == [type |-> "NONE", mid |-> 0]

RequestsInit ==
    /\ pc = "notify" /\ ready = TRUE
    /\ requestList = << >> /\ notifyList = << >> /\ observedList = {}
    /\ nextObserveNum = 0 /\ nextMid = StartMid /\ nextNotifyId = 0
    /\ call = << >> /\ asked = {} /\ accepted = {} /\ started = {}
    /\ messages = {} /\ acked = {} /\ reports = {} /\ serverMid = 1 /\ losses = 0
    /\ event = None /\ fault = FALSE
-----------------------------------------------------------------------------
(***************************************************************************)
(* Observations.                                                           *)
(***************************************************************************)
\* prv_findObserved.
Observed(uri) == {o \in observedList : o.uri = uri}

New(uri) == [uri |-> uri, msgid |-> 0, lastMid |-> 0, report |-> 0]

\* Mutant: an observation that exists is not looked for.
GetObservedNew(uri) == New(uri)

\* prv_getObserved: the observation of uri, a new one if there is none.
GetObserved(uri) ==
    IF Observed(uri) = {} THEN New(uri) ELSE CHOOSE o \in Observed(uri) : TRUE

\* observe_findByMsgid.
ByMsgid(id) == {o \in observedList : o.msgid = id}

\* The observations whose last report has message id mid.
ResetOnly(mid) == {o \in observedList : o.lastMid = mid}

\* observe_cancel for a RST.  0 is MESSAGEID_INVALID, for which the observation
\* is looked for by an uri, here NULL.
Cancel(mid) ==
    IF mid = 0
    THEN /\ fault' = (observedList # {})
         /\ UNCHANGED observedList
    ELSE /\ observedList' = observedList \ ResetOnly(mid)
         /\ UNCHANGED fault
-----------------------------------------------------------------------------
(***************************************************************************)
(* packet_step: the notifications, then the requests that are too old.     *)
(***************************************************************************)
Event(type, mid) == event' = [type |-> type, mid |-> mid]

Sent(r) == acked' = acked \cup {r.id % Width}

\* object_asynAckReadData: what was collected is sent if it can be serialized.
AsynAckReadData(r, result, values) ==
    \/ Sent(r)
    \/ result = "content" /\ values > 0 /\ Unserializable /\ UNCHANGED acked

\* An answer that ends a read or discover without adding to it: an error, or
\* "send message for notify data before".
EndsRead(n) == n.result = "refused" \/ (n.result = "content" /\ n.value = "none")

\* prv_notifyReadReport refuses the value: it is invalid, missing, or all
\* attributes of the object are occupied.  One resource is written over.
ReadRefused(r, n) ==
    n.value # "valid" \/ (r.uri \in Objects /\ r.values >= AttributeCount)

\* prv_notifyReadReport: the values are collected, the last one sends them all.
\* With a value that is refused nothing is sent.
ReadReport(r, n) ==
    \/ EndsRead(n) /\ AsynAckReadData(r, n.result, r.values)
    \/ /\ ~EndsRead(n)
       /\ ReadRefused(r, n) \/ n.result = "continue"
       /\ UNCHANGED acked
    \/ /\ ~EndsRead(n) /\ ~ReadRefused(r, n) /\ n.result = "content"
       /\ AsynAckReadData(r, n.result, r.values + 1)

\* prv_notifyDiscoverReport: links are collected, whatever the value; one too
\* many is a failure, for which nothing is sent and the links are freed.
LinksFull(r) == r.values >= Links

DiscoverReport(r, n) ==
    \/ EndsRead(n) /\ AsynAckReadData(r, n.result, r.values)
    \/ ~EndsRead(n) /\ (LinksFull(r) \/ n.result = "continue") /\ UNCHANGED acked
    \/ /\ ~EndsRead(n) /\ ~LinksFull(r) /\ n.result = "content"
       /\ AsynAckReadData(r, n.result, r.values + 1)

\* respData after an answer "continue".
Collected(r, n) ==
    CASE r.type = "read" /\ ReadRefused(r, n)     -> r.values
      [] r.type = "read" /\ ~ReadRefused(r, n)    ->
             IF r.uri \in Resources THEN 1 ELSE r.values + 1
      [] r.type = "discover" /\ LinksFull(r)      -> 0
      [] r.type = "discover" /\ ~LinksFull(r)     -> r.values + 1
      [] OTHER                                    -> r.values

\* object_asynAckNodata.
AsynAckNodata(r) == Sent(r) /\ UNCHANGED observedList

\* observe_asynAckNodata.  A cancel removes the observation whatever the result
\* is; about an observation that is gone nothing is sent, nor for a request
\* without a token, which only observe_setParameters lets through.
ObserveAck(r, result) ==
    \/ /\ r.type = "observe" /\ result = "content"
       /\ LET o == GetObserved(r.uri)
          IN  observedList' = (observedList \ {o}) \cup {[o EXCEPT !.msgid = r.id]}
       /\ Sent(r)
    \/ /\ r.type = "observe" /\ result # "content"
       /\ AsynAckNodata(r)
    \/ /\ r.type \in {"cancel", "params"} /\ Observed(r.uri) = {}
       /\ UNCHANGED <<observedList, acked>>
    \/ /\ r.type \in {"cancel", "params"} /\ Observed(r.uri) # {}
       /\ observedList' = (IF r.type = "cancel" THEN observedList \ Observed(r.uri) ELSE observedList)
       /\ Sent(r)
    \/ /\ r.type = "params"
       /\ UNCHANGED <<observedList, acked>>

\* What an answer to request r does and sends, by the type of the request.
AsynAck(r, n) ==
    CASE r.type = "read" -> ReadReport(r, n) /\ UNCHANGED observedList
      [] r.type = "discover" -> DiscoverReport(r, n) /\ UNCHANGED observedList
      [] r.type \in {"write", "execute"} -> AsynAckNodata(r)
      [] OTHER -> ObserveAck(r, n.result)

\* The event of an answer: success whatever the report's own result was.  The
\* failure of a discover is reported before that.
AnswerEvent(r, n) ==
    \/ /\ n.result # "continue" \/ r.type = "read"
       /\ Event("RESPONSE_SUCCESS", n.mid)
    \/ /\ n.result = "continue" /\ r.type = "discover" /\ LinksFull(r)
       /\ Event("RESPONSE_FAILED", n.mid)
    \/ /\ n.result = "continue" /\ r.type # "read"
       /\ ~(r.type = "discover" /\ LinksFull(r))
       /\ UNCHANGED event

\* A response of the application.
HandleResponse(n) ==
    LET i == cis_list_find(requestList, n.mid)
        remove == requestList' = cis_list_remove(requestList, n.mid)
    IN  \/ /\ i = 0
           /\ Event("RESPONSE_FAILED", n.mid)
           /\ UNCHANGED <<requestList, observedList, acked>>
        \/ /\ i # 0 /\ n.result = "wronguri"
           /\ Event("RESPONSE_FAILED", n.mid)
           /\ remove /\ UNCHANGED <<observedList, acked>>
        \/ /\ i # 0 /\ n.result # "wronguri"
           /\ AsynAck(requestList[i], n)
           /\ IF n.result # "continue" THEN remove
              ELSE requestList' = [requestList EXCEPT ![i].values =
                                       Collected(requestList[i], n)]
           /\ AnswerEvent(requestList[i], n)

\* "it's all occupied": no place for one more value in the report of o.
Full(o) == o.report = Capacity(o.uri)

\* prv_notifyObserveReport for observation o: the value joins the report if it
\* is valid and there is room for it, and the report is sent when it is complete
\* and can be serialized.
Report(o, n) ==
    LET refused == \/ n.value = "invalid"
                   \/ n.value = "none" /\ n.result = "continue"
                   \/ n.value = "valid" /\ Full(o)
        report == IF n.value = "valid" THEN o.report + 1 ELSE o.report
        others == observedList \ {o}
    IN  \/ refused /\ UNCHANGED <<observedList, nextMid, reports>>
        \/ /\ ~refused /\ n.result = "continue"
           /\ observedList' = others \cup {[o EXCEPT !.report = report]}
           /\ UNCHANGED <<nextMid, reports>>
        \/ /\ ~refused /\ n.result = "content" /\ report > 0
           /\ observedList' = others \cup {[o EXCEPT !.report = 0, !.lastMid = nextMid]}
           /\ nextMid' = nextMid + 1
           /\ reports' = reports \cup {nextMid}
        \/ /\ ~refused /\ n.result = "content" /\ report > 0 /\ Unserializable
           /\ observedList' = others \cup {[o EXCEPT !.report = 0]}
           /\ UNCHANGED <<nextMid, reports>>
        \/ /\ ~refused /\ n.result = "content" /\ report = 0
           /\ UNCHANGED <<observedList, nextMid, reports>>

\* A notification of the application.
HandleNotify(n) ==
    \/ /\ ByMsgid(n.mid) = {} \/ n.result = "wronguri"
       /\ Event("NOTIFY_FAILED", n.mid)
       /\ UNCHANGED <<observedList, nextMid, reports>>
    \/ /\ n.result # "wronguri"
       /\ \E o \in ByMsgid(n.mid) : Report(o, n)
       /\ Event("NOTIFY_SUCCESS", n.mid)

\* One round of the loop over the notifications; it ends with the unlinking by id,
\* under the lock.  The application adds behind, so that this is the head.
Handle ==
    /\ pc = "notify" /\ notifyList # << >>
    /\ IF Head(notifyList).isResponse
       THEN HandleResponse(Head(notifyList)) /\ UNCHANGED <<nextMid, reports>>
       ELSE HandleNotify(Head(notifyList)) /\ UNCHANGED <<requestList, acked>>
    /\ notifyList' = cis_list_remove(notifyList, Head(notifyList).id)
    /\ UNCHANGED <<pc, ready, nextObserveNum, losses, nextNotifyId, call, appVars, messages,
                   serverMid, fault>>

HandleDone ==
    /\ pc = "notify" /\ notifyList = << >>
    /\ pc' = "rest" /\ event' = None
    /\ UNCHANGED <<pumpVars, noteVars, appVars, netVars, fault>>

\* A request is found to be older than CIS_CONFIG_CALLBACK_TIMEOUT.
Expire(mid) ==
    /\ pc = "rest" /\ event' = None
    /\ \E i \in DOMAIN requestList :
          /\ requestList[i].id % Width = mid
          /\ requestList' = cis_list_remove(requestList, requestList[i].id)
    /\ UNCHANGED <<pc, ready, observedList, nextObserveNum, nextMid, losses, noteVars,
                   appVars, netVars, fault>>
-----------------------------------------------------------------------------
(***************************************************************************)
(* packet_read: one packet of the server, if there is one.                 *)
(***************************************************************************)
ReadNothing ==
    /\ pc = "rest" /\ pc' = "notify" /\ event' = None
    /\ UNCHANGED <<pumpVars, noteVars, appVars, netVars, fault>>

\* A request that waits for the application's answer.
WithRequest(id, kind, uri) ==
    cis_list_add(requestList, [id |-> id, type |-> kind, uri |-> uri, values |-> 0])

\* Mutant: the list is not searched for the message id first.
PushUnchecked(id, kind, uri) == requestList' = WithRequest(id, kind, uri)

\* packet_asynPushRequest.
Push(id, kind, uri) ==
    IF cis_list_find(requestList, id) # 0 THEN UNCHANGED requestList
    ELSE requestList' = WithRequest(id, kind, uri)

\* The callback of a request: the application takes it (206) or answers at once.
Ask(id, m, mayPush) ==
    \/ /\ asked' = asked \cup {[id |-> id, kind |-> m.kind, uri |-> m.uri]}
       /\ IF mayPush THEN Push(id, m.kind, m.uri) ELSE UNCHANGED requestList
       /\ UNCHANGED acked
    \/ acked' = acked \cup {m.mid} /\ UNCHANGED <<asked, requestList>>

\* object_read, object_discover, object_write, object_execute.
ReadRequest(m) ==
    /\ m.kind \in {"read", "discover", "write", "execute"}
    /\ Ask(m.mid, m, TRUE)
    /\ UNCHANGED <<observedList, nextObserveNum>>

\* observe_handleRequest for an observe: one that is in the list already (for all
\* cis_list_find_u16 can tell) is a repetition and keeps its id.
ReadObserve(m) ==
    /\ m.kind = "observe"
    /\ LET i == cis_list_find_u16(requestList, m.mid)
       IN  IF i # 0
           THEN Ask(requestList[i].id, m, FALSE) /\ UNCHANGED nextObserveNum
           ELSE nextObserveNum < MaxObserves
                /\ Ask((nextObserveNum + 1) * Width + m.mid, m, TRUE)
                /\ nextObserveNum' = nextObserveNum + 1
    /\ UNCHANGED observedList

\* The same for the end of an observation: 404 if there is none.
ReadCancel(m) ==
    /\ m.kind = "cancel"
    /\ IF Observed(m.uri) = {}
       THEN acked' = acked \cup {m.mid} /\ UNCHANGED <<asked, requestList>>
       ELSE Ask(m.mid, m, TRUE)
    /\ UNCHANGED <<observedList, nextObserveNum>>

\* observe_setParameters: the observation is made before the application is asked.
ReadParams(m) ==
    /\ m.kind = "params"
    /\ observedList' = observedList \cup {GetObserved(m.uri)}
    /\ Ask(m.mid, m, TRUE)
    /\ UNCHANGED nextObserveNum

\* management_handleRequest of a message of the server, which may be late or repeated.
ReadMessage ==
    /\ pc = "rest" /\ pc' = "notify" /\ event' = None
    /\ ready
    /\ \E m \in messages : ReadRequest(m) \/ ReadObserve(m) \/ ReadCancel(m) \/ ReadParams(m)
    /\ UNCHANGED <<ready, nextMid, losses, noteVars, accepted, started, messages, reports,
                   serverMid, fault>>

\* prv_handleReset: the server refuses a report, now or some reports later.
ReadReset ==
    /\ pc = "rest" /\ pc' = "notify"
    /\ \E mid \in reports : Cancel(mid) /\ Event("RESET", mid)
    /\ UNCHANGED <<ready, requestList, nextObserveNum, nextMid, losses, noteVars, appVars,
                   netVars>>
-----------------------------------------------------------------------------
(***************************************************************************)
(* The other cases of the pump: the registration is lost and regained.     *)
(***************************************************************************)
\* Mutant: the requests of the old registration are kept.
LoseKeepingRequests ==
    /\ pc = "notify" /\ ready /\ ~fault /\ losses < MaxLosses
    /\ ready' = FALSE /\ losses' = losses + 1
    /\ notifyList' = << >> /\ observedList' = {}
    /\ messages' = {} /\ acked' = {} /\ reports' = {}
    /\ UNCHANGED <<pc, requestList, nextObserveNum, nextMid, nextNotifyId, call, appVars,
                   serverMid, event, fault>>

\* PUMP_STATE_DISCONNECTED: observations, requests and notifications are freed.
\* What the application is about to hand over is not.
Lose ==
    /\ pc = "notify" /\ ready /\ ~fault /\ losses < MaxLosses
    /\ ready' = FALSE /\ losses' = losses + 1
    /\ requestList' = << >> /\ notifyList' = << >> /\ observedList' = {}
    /\ messages' = {} /\ acked' = {} /\ reports' = {}
    /\ UNCHANGED <<pc, nextObserveNum, nextMid, nextNotifyId, call, appVars, serverMid,
                   event, fault>>

Regain ==
    /\ pc = "notify" /\ ~ready
    /\ ready' = TRUE
    /\ UNCHANGED <<pc, requestList, observedList, nextObserveNum, nextMid, losses,
                   noteVars, appVars, netVars, event, fault>>
-----------------------------------------------------------------------------
(***************************************************************************)
(* The application, in a task of its own.                                  *)
(***************************************************************************)
\* The first part of cis_response and of cis_notify.
BeginCall(isResponse, mid, result, value) ==
    /\ call = << >> /\ ready /\ nextNotifyId < MaxCalls
    /\ nextNotifyId' = nextNotifyId + 1
    /\ call' = <<[id |-> nextNotifyId + 1, isResponse |-> isResponse, mid |-> mid,
                  result |-> result, value |-> value]>>
    /\ UNCHANGED <<pc, pumpVars, notifyList, netVars, event, fault>>

\* cis_response to something the application was asked; the answer to a read or
\* discover carries values.
Respond ==
    \E a \in asked, result \in Results :
        /\ result = "continue" => a.kind \in {"read", "discover"}
        /\ \E value \in (IF /\ a.kind \in {"read", "discover"}
                             /\ result \in {"content", "continue"}
                          THEN Values ELSE {"none"}) :
              BeginCall(TRUE, a.id, result, value)
        /\ asked' = (IF result = "continue" THEN asked ELSE asked \ {a})
        /\ accepted' = (IF a.kind = "observe" /\ result = "content"
                        THEN accepted \cup {[id |-> a.id, uri |-> a.uri]} ELSE accepted)
        /\ UNCHANGED started

\* cis_notify for an observation: one more value of a report, its last value, or
\* its end.
Notify ==
    \E a \in accepted, result \in Results \ {"refused"} :
        /\ \E value \in (IF result = "wronguri" THEN {"none"} ELSE Values) :
              BeginCall(FALSE, a.id, result, value)
        /\ started' = started \cup {a.id}
        /\ UNCHANGED <<asked, accepted>>

\* The second part, under the lock.
EndCall ==
    /\ call # << >> /\ call' = << >>
    /\ notifyList' = cis_list_add(notifyList, call[1])
    /\ UNCHANGED <<pc, pumpVars, nextNotifyId, appVars, netVars, event, fault>>

\* The server sends a request.
ServerRequest ==
    /\ ready /\ serverMid <= MaxMessages
    /\ \E kind \in Kinds, uri \in Uris :
          messages' = messages \cup {[mid |-> serverMid, kind |-> kind, uri |-> uri]}
    /\ serverMid' = serverMid + 1
    /\ UNCHANGED <<pc, pumpVars, noteVars, appVars, acked, reports, event, fault>>

Pump ==
    /\ ~fault
    /\ \/ Handle \/ HandleDone \/ (\E mid \in 1 .. MaxMessages : Expire(mid))
       \/ ReadNothing \/ ReadMessage \/ ReadReset

RequestsNext == Pump \/ Lose \/ Regain \/ Respond \/ Notify \/ EndCall \/ ServerRequest

RequestsSpec == RequestsInit /\ [][RequestsNext]_vars
-----------------------------------------------------------------------------
(***************************************************************************)
(* Properties.                                                             *)
(***************************************************************************)
\* The state of the lists, and of what the two sides know.
RequestsTypeOK ==
    /\ pc \in {"notify", "rest"}
    /\ ready \in BOOLEAN /\ fault \in BOOLEAN
    /\ requestList \in Seq(Requests) /\ notifyList \in Seq(Notices)
    /\ observedList \in SUBSET Observations
    /\ \A o \in observedList : o.report <= Capacity(o.uri)
    /\  nextObserveNum \in Nat /\ nextMid \in Nat
    /\ nextNotifyId \in 0 .. MaxCalls /\ losses \in 0 .. MaxLosses
    /\ call = << >> \/ call[1] \in Notices
    /\ asked \in SUBSET Asked
    /\ messages \in SUBSET Messages
    /\ event \in Events

\* No two requests and no two notifications have the same id, although messages
\* are repeated and observes come in again: packet_asynRemoveRequest, which does
\* not look whether it has found anything, always frees the request it was
\* called for, and so does the removal of a notification.
IdsAreUnique ==
    /\ \A i, j \in DOMAIN requestList : i < j => requestList[i].id < requestList[j].id
    /\ \A i, j \in DOMAIN notifyList : i < j => notifyList[i].id < notifyList[j].id
    /\ call # << >> => \A i \in DOMAIN notifyList : notifyList[i].id < call[1].id

\* However observes, cancels, parameters and RSTs are mixed, an uri has at most
\* one observation, and its id is one that the application has agreed to, for
\* that uri and since the last registration: a report never goes out under the
\* token of another observation.
ObservationsAreAgreed ==
    \A o \in observedList :
        /\ Observed(o.uri) = {o}
        /\ o.msgid # 0 =>
              /\ [id |-> o.msgid, uri |-> o.uri] \in accepted
              /\ [mid |-> o.msgid % Width, kind |-> "observe", uri |-> o.uri] \in messages

\* Nothing is sent in answer to a request of an earlier registration, although the
\* application may still answer it, and its answer may be handed over after the
\* lists were emptied.
AnswersAreFresh == acked \subseteq {m.mid : m \in messages}

\* CIS_EVENT_RESPONSE_SUCCESS of a final answer ("response ok" in onemo_dm_demo.c)
\* means that it was sent.  The code does not keep it: prv_notifyReadReport logs
\* "ERROR:notify read response failed" and sends nothing, and packet_step reports
\* success all the same.
SuccessWasSent ==
    [][Handle /\ event'.type = "RESPONSE_SUCCESS" /\ Head(notifyList).result # "continue" =>
          Head(notifyList).mid % Width \in acked']_vars

\* "find observed_obj which lastMid=mid and remove it from list" (cis_observe.c,
\* observe_cancel): after a RST the observation whose last report it refuses is gone,
\* and every other one is still there.  The code does not keep it: a report may have the
\* message id 0, which observe_cancel takes for MESSAGEID_INVALID.
ResetRemoves ==
    [][ReadReset => observedList' = {o \in observedList : o.lastMid # event'.mid}]_vars

\* "malloc data memory in first call of observe" (cis_packet.c): the report of an
\* observation for which nothing has been notified yet is empty.  The code does not keep
\* it: an observe that comes in again keeps what was collected for the one before.
FirstReportIsEmpty ==
    \A o \in observedList : o.msgid # 0 /\ o.msgid \notin started => o.report = 0
=============================================================================
