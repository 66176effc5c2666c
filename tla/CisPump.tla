------------------------------ MODULE CisPump ------------------------------
(***************************************************************************)
(* The pump of the LwM2M client (src/src/demo/dm/ciscore): cis_pump of     *)
(* cis_core.c with the registration (cis_registration.c), the bootstrap    *)
(* (cis_bootstrap.c), the CoAP transactions (cis_transaction.c) and the    *)
(* connection handling of cis_management.c that it drives.                 *)
(*                                                                         *)
(* One call of cis_pump is one case of its switch on stateStep and then,   *)
(* unless the case returns early, registration_step, transaction_step and  *)
(* packet_read; pc says which of these comes next.  Packets come in        *)
(* between (the receive thread) and so do the calls of the application.    *)
(*                                                                         *)
(* Time is abstract: a transaction is due, a bootstrap times out and a     *)
(* registration grows old whenever the environment says so.  A message id  *)
(* (and the token made from it) is the number of the request on its        *)
(* socket, for answers only come on the socket of the request.             *)
(*                                                                         *)
(* Branches that nothing reaches are left out: PUMP_STATE_HALT (no adapter *)
(* raises cisnet_event_unknow), STATE_CREATE_FAILED (the pump only runs    *)
(* when the network is attached) and STATE_CONNECT_PENDING (cisnet_connect *)
(* reports before it returns).                                             *)
(***************************************************************************)
EXTENDS Naturals, Sequences

CONSTANTS
    MaxRetransmit,     \* COAP_MAX_RETRANSMIT, 4
    MaxMid,            \* bound: requests on one socket
    MaxInbox           \* bound: packets waiting on one socket

ASSUME PumpAssumption ==
    /\ MaxRetransmit \in Nat
    /\ MaxMid \in Nat /\ MaxMid >= 2
    /\ MaxInbox \in Nat \ {0}

VARIABLES
    bootstrapEnabled, \* ctx->bootstrapEanbled and
    isDM,             \* ctx->isDM (a client that registers again by itself), set by cis_init
    allocFails,       \* whether cis_malloc may fail in this behaviour
    pc,               \* where the pump thread is
    registerEnabled, stateStep,
    status,           \* status of ctx->server and ctx->bootstrapServer, "NULL": no such
    sessionH,         \* whether that server has a network context
    location,         \* whether ctx->server has a location
    transactionList,
    nextMid,
    age,              \* how old the registration is, against its lifetime
    warning,          \* ctx->lifetimeWarnningTime: 0, a time or INFINITE_TIMEOUT
    event,            \* the last event reported to the application
    sent,             \* requests that have left on the socket
    confirmed,        \* the ids of those the remote side has granted
    inbox,            \* packets received and not read, oldest first
    forgotten         \* whether a DELETE was freed without its callback

netVars == <<sent, confirmed, inbox, nextMid>>
regVars == <<location, age, warning>>
settings == <<bootstrapEnabled, isDM, allocFails>>
client == <<pc, registerEnabled, stateStep, status, sessionH, location, transactionList,
            nextMid, age, warning, event, sent, confirmed, inbox, forgotten>>
vars == <<settings, client>>

Servers == {"server", "bootstrap"}
Granted == {"REGISTERED", "REG_UPDATE_NEEDED", "REG_UPDATE_NEEDED_WITHOBJECTS",
            "REG_UPDATE_PENDING"}
Statuses == Granted \cup
    {"NULL", "CREATED", "CONNECTED", "CONNECT_FAILED", "REG_PENDING", "REG_FAILED",
     "DEREG_PENDING", "BS_HOLD_OFF", "BS_INITIATED", "BS_PENDING", "BS_FINISHED", "BS_FAILED"}
States == {"INITIAL", "BOOTSTRAPPING", "CONNECTING", "REGISTER_REQUIRED", "REGISTERING",
           "READY", "DISCONNECTED", "UNREGISTER"}
Kinds == {"bs", "reg", "update", "dereg"}
Transactions == [srv : Servers, mid : 0 .. MaxMid - 1, kind : Kinds,
                 ackReceived : BOOLEAN, retransCounter : 0 .. MaxRetransmit + 2]
Answers == [type : {"ack", "rst"}, mid : 0 .. MaxMid - 1, code : {"none"}]
           \cup [type : {"piggyback", "separate"}, mid : 0 .. MaxMid - 1,
                 code : {"ok", "error", "unauthorized"}]
Commands == [type : {"write", "finish"}]
-----------------------------------------------------------------------------
PumpInit ==
    /\ bootstrapEnabled \in BOOLEAN /\ isDM \in BOOLEAN /\ allocFails \in BOOLEAN
    /\ pc = "switch" /\ registerEnabled = FALSE /\ stateStep = "INITIAL"
    /\ status = [s \in Servers |-> "NULL"]
    /\ sessionH = [s \in Servers |-> FALSE]
    /\ location = FALSE
    /\ transactionList = {}
    /\ nextMid = [s \in Servers |-> 0]
    /\ age = "fresh" /\ warning = "zero" /\ event = "none"
    /\ sent = [s \in Servers |-> {}]
    /\ confirmed = [s \in Servers |-> {}]
    /\ inbox = [s \in Servers |-> << >>]
    /\ forgotten = FALSE

\* A case of the switch runs, and the pump returns early or goes on.
Case(state) == pc = "switch" /\ registerEnabled /\ stateStep = state
ReturnEarly == pc' = "switch" /\ UNCHANGED registerEnabled
GoOn == pc' = "registration_step" /\ UNCHANGED registerEnabled

SetStatus(s, st) == status' = [status EXCEPT ![s] = st]

\* What an allocation can come to.
Allocation == {TRUE} \cup (IF allocFails THEN {FALSE} ELSE {})

\* cisnet_disconnect and cisnet_destroy of every session in S: the socket goes,
\* and with it what was sent and received on it.  The event the adapter raises
\* only reaches a server that is being freed.
CloseSessions(S) ==
    /\ sessionH' = [s \in Servers |-> s \notin S /\ sessionH[s]]
    /\ nextMid' = [s \in Servers |-> IF s \in S THEN 0 ELSE nextMid[s]]
    /\ sent' = [s \in Servers |-> IF s \in S THEN {} ELSE sent[s]]
    /\ confirmed' = [s \in Servers |-> IF s \in S THEN {} ELSE confirmed[s]]
    /\ inbox' = [s \in Servers |-> IF s \in S THEN << >> ELSE inbox[s]]

\* management_destoryServer of every server in S.
DestroyServers(S) ==
    /\ CloseSessions(S)
    /\ status' = [s \in Servers |-> IF s \in S THEN "NULL" ELSE status[s]]
    /\ location' = (IF "server" \in S THEN FALSE ELSE location)

\* transaction_remove and transaction_removeAll free without a callback.
FreeTransactions(T) ==
    /\ transactionList' = transactionList \ T
    /\ forgotten' = (forgotten \/ \E t \in T : t.kind = "dereg" /\ t.retransCounter > 0)

\* transaction_new and the first transaction_send.  Without memory for the
\* packet the transaction stays in the list, unsent (buffered = FALSE).
StartTransaction(s, kind, buffered) ==
    LET t == [srv |-> s, mid |-> nextMid[s], kind |-> kind, ackReceived |-> FALSE,
              retransCounter |-> IF buffered THEN 2 ELSE 0]
    IN  /\ nextMid[s] < MaxMid
        /\ transactionList' = transactionList \cup {t}
        /\ nextMid' = [nextMid EXCEPT ![s] = @ + 1]
        /\ sent' = (IF buffered
                    THEN [sent EXCEPT ![s] = @ \cup {[mid |-> t.mid, kind |-> kind]}]
                    ELSE sent)
        /\ UNCHANGED <<confirmed, inbox, forgotten>>
-----------------------------------------------------------------------------
(***************************************************************************)
(* The cases of the switch, in the order of a client's life.               *)
(***************************************************************************)
\* PUMP_STATE_INITIAL, and PUMP_STATE_BOOTSTRAPPING without bootstrap.
PumpInitial ==
    /\ \/ Case("INITIAL") /\ stateStep' = "BOOTSTRAPPING"
       \/ Case("BOOTSTRAPPING") /\ ~bootstrapEnabled /\ stateStep' = "CONNECTING"
    /\ ReturnEarly
    /\ UNCHANGED <<status, sessionH, transactionList, event, forgotten, netVars, regVars>>

\* bootstrap_init makes the server, bootstrap_create its network context.
BootstrapCreate ==
    /\ Case("BOOTSTRAPPING") /\ bootstrapEnabled /\ status["bootstrap"] = "NULL"
    /\ SetStatus("bootstrap", "CREATED")
    /\ sessionH' = [sessionH EXCEPT !["bootstrap"] = TRUE]
    /\ event' = "BOOTSTRAP_START"
    /\ ReturnEarly
    /\ UNCHANGED <<stateStep, transactionList, forgotten, netVars, regVars>>

\* bootstrap_connect: cisnet_connect fails without a socket or a thread, and
\* otherwise raises cisnet_event_connected, handled here, before it returns.
BootstrapConnect ==
    /\ Case("BOOTSTRAPPING") /\ status["bootstrap"] = "CREATED"
    /\ \E st \in {"CONNECTED", "CONNECT_FAILED"} : SetStatus("bootstrap", st)
    /\ ReturnEarly
    /\ UNCHANGED <<stateStep, sessionH, transactionList, event, forgotten, netVars, regVars>>

\* bootstrap_step and prv_requestBootstrap.
BootstrapRequest ==
    /\ Case("BOOTSTRAPPING") /\ status["bootstrap"] = "CONNECTED"
    /\ \/ \E buffered \in Allocation :
             /\ StartTransaction("bootstrap", "bs", buffered)
             /\ SetStatus("bootstrap", IF buffered THEN "BS_INITIATED" ELSE "BS_HOLD_OFF")
       \/ /\ allocFails
          /\ SetStatus("bootstrap", "BS_FAILED")
          /\ UNCHANGED <<transactionList, forgotten, netVars>>
    /\ GoOn
    /\ UNCHANGED <<stateStep, sessionH, event, regVars>>

\* Nothing to do but wait.
BootstrapWait ==
    /\ Case("BOOTSTRAPPING")
    /\ status["bootstrap"] \in {"BS_HOLD_OFF", "BS_INITIATED", "BS_PENDING"}
    /\ GoOn
    /\ UNCHANGED <<stateStep, status, sessionH, transactionList, event, forgotten,
                   netVars, regVars>>

\* CIS_CONFIG_BOOTSTRAP_TIMEOUT seconds since the connection.
BootstrapTimeout ==
    /\ Case("BOOTSTRAPPING") /\ status["bootstrap"] = "BS_PENDING"
    /\ SetStatus("bootstrap", "BS_FAILED")
    /\ GoOn
    /\ UNCHANGED <<stateStep, sessionH, transactionList, event, forgotten, netVars, regVars>>

\* bootstrap_destory.
BootstrapDestroy ==
    /\ FreeTransactions({t \in transactionList : t.srv = "bootstrap"})
    /\ DestroyServers({"bootstrap"})

\* STATE_BS_FINISHED, and STATE_BS_FAILED, which a failed connection is too.
BootstrapEnd ==
    /\ Case("BOOTSTRAPPING")
    /\ \/ /\ status["bootstrap"] = "BS_FINISHED"
          /\ stateStep' = "CONNECTING" /\ event' = "BOOTSTRAP_SUCCESS"
       \/ /\ status["bootstrap"] \in {"BS_FAILED", "CONNECT_FAILED"}
          /\ stateStep' = "INITIAL" /\ event' = "BOOTSTRAP_FAILED"
    /\ BootstrapDestroy
    /\ ReturnEarly
    /\ UNCHANGED <<age, warning>>

\* management_makeServerList and management_createNetwork.
ConnectingCreate ==
    /\ Case("CONNECTING") /\ status["server"] = "NULL"
    /\ SetStatus("server", "CREATED")
    /\ sessionH' = [sessionH EXCEPT !["server"] = TRUE]
    /\ ReturnEarly
    /\ UNCHANGED <<stateStep, transactionList, event, forgotten, netVars, regVars>>

\* The bootstrap server has written no account of a server.
ConnectingNoServer ==
    /\ Case("CONNECTING") /\ status["server"] = "NULL" /\ bootstrapEnabled
    /\ stateStep' = "INITIAL"
    /\ ReturnEarly
    /\ UNCHANGED <<status, sessionH, transactionList, event, forgotten, netVars, regVars>>

\* management_connectServer.
ConnectingConnect ==
    /\ Case("CONNECTING") /\ status["server"] = "CREATED"
    /\ \/ SetStatus("server", "CONNECTED") /\ UNCHANGED stateStep
       \/ SetStatus("server", "CONNECT_FAILED") /\ stateStep' = "INITIAL"
    /\ ReturnEarly
    /\ UNCHANGED <<sessionH, transactionList, event, forgotten, netVars, regVars>>

ConnectingConnected ==
    /\ Case("CONNECTING") /\ status["server"] = "CONNECTED"
    /\ stateStep' = "REGISTER_REQUIRED" /\ event' = "CONNECT_SUCCESS"
    /\ ReturnEarly
    /\ UNCHANGED <<status, sessionH, transactionList, forgotten, netVars, regVars>>

\* prv_deleteServer frees both servers.
ConnectingFailed ==
    /\ Case("CONNECTING") /\ status["server"] = "CONNECT_FAILED"
    /\ DestroyServers(Servers)
    /\ stateStep' = "INITIAL" /\ event' = "CONNECT_FAILED"
    /\ ReturnEarly
    /\ UNCHANGED <<transactionList, forgotten, age, warning>>

\* registration_start and prv_register.  When memory fails nothing has changed,
\* or the registration waits unsent; the pump then returns and comes back here.
RegisterRequired ==
    /\ Case("REGISTER_REQUIRED")
    /\ \/ /\ status["server"] = "CONNECTED"
          /\ StartTransaction("server", "reg", TRUE)
          /\ SetStatus("server", "REG_PENDING")
          /\ stateStep' = "REGISTERING"
          /\ GoOn
       \/ /\ status["server"] = "CONNECTED" /\ allocFails
          /\ \/ StartTransaction("server", "reg", FALSE) /\ SetStatus("server", "REG_PENDING")
             \/ UNCHANGED <<status, transactionList, forgotten, netVars>>
          /\ ReturnEarly
          /\ UNCHANGED stateStep
       \/ /\ status["server"] = "REG_PENDING"
          /\ stateStep' = "REGISTERING"
          /\ GoOn
          /\ UNCHANGED <<status, transactionList, forgotten, netVars>>
    /\ UNCHANGED <<sessionH, event, regVars>>

\* PUMP_STATE_REGISTERING with registration_getStatus.
Registering ==
    /\ Case("REGISTERING")
    /\ \/ status["server"] \in Granted /\ stateStep' = "READY" /\ ReturnEarly
       \/ status["server"] = "REG_FAILED" /\ stateStep' = "DISCONNECTED" /\ ReturnEarly
       \/ status["server"] = "REG_PENDING" /\ UNCHANGED stateStep /\ GoOn
    /\ UNCHANGED <<status, sessionH, transactionList, event, forgotten, netVars, regVars>>

\* PUMP_STATE_READY.
Ready ==
    /\ Case("READY")
    /\ \/ status["server"] \notin Granted /\ stateStep' = "DISCONNECTED" /\ ReturnEarly
       \/ status["server"] \in Granted /\ UNCHANGED stateStep /\ GoOn
    /\ UNCHANGED <<status, sessionH, transactionList, event, forgotten, netVars, regVars>>

\* PUMP_STATE_DISCONNECTED: servers, transactions (observations, requests and
\* notifications too) go, and the client connects again.
Disconnected ==
    /\ Case("DISCONNECTED")
    /\ DestroyServers(Servers)
    /\ FreeTransactions(transactionList)
    /\ stateStep' = "CONNECTING"
    /\ ReturnEarly
    /\ UNCHANGED <<event, age, warning>>

\* There is something to DELETE: the server has given a location and the
\* registration has neither failed nor is it on its way.
MustDeregister ==
    /\ location
    /\ status["server"] \notin {"CREATED", "CONNECTED", "REG_PENDING", "DEREG_PENDING",
                                "REG_FAILED"}

\* PUMP_STATE_UNREGISTER, registration_deregister.
Unregister ==
    /\ Case("UNREGISTER")
    /\ pc' = "unregister"
    /\ IF MustDeregister
       THEN \/ \E buffered \in Allocation :
                 /\ StartTransaction("server", "dereg", buffered)
                 /\ IF buffered THEN SetStatus("server", "DEREG_PENDING") ELSE UNCHANGED status
            \/ allocFails /\ UNCHANGED <<status, transactionList, forgotten, netVars>>
       ELSE UNCHANGED <<status, transactionList, forgotten, netVars>>
    /\ UNCHANGED <<registerEnabled, stateStep, sessionH, event, regVars>>

\* Mutant: the transactions survive the server they belong to.
UnregisterDoneKeepingTransactions ==
    /\ pc = "unregister"
    /\ DestroyServers(Servers)
    /\ registerEnabled' = isDM
    /\ stateStep' = "CONNECTING" /\ event' = "UNREG_DONE"
    /\ pc' = "switch"
    /\ UNCHANGED <<transactionList, forgotten, age, warning>>

\* The rest of the case.
UnregisterDone ==
    /\ pc = "unregister"
    /\ DestroyServers(Servers)
    /\ FreeTransactions(transactionList)
    /\ registerEnabled' = isDM
    /\ stateStep' = "CONNECTING" /\ event' = "UNREG_DONE"
    /\ pc' = "switch"
    /\ UNCHANGED <<age, warning>>
-----------------------------------------------------------------------------
(***************************************************************************)
(* registration_step.                                                      *)
(***************************************************************************)
Step(here, next) == pc = here /\ pc' = next /\ UNCHANGED <<registerEnabled, sessionH>>

NeedsUpdate == {"REG_UPDATE_NEEDED", "REG_UPDATE_NEEDED_WITHOBJECTS"}

\* prv_updateRegistration waits for every transaction to end, and for memory.
UpdateRegistration ==
    /\ status["server"] \in NeedsUpdate
    /\ \/ /\ transactionList = {}
          /\ \E buffered \in Allocation : StartTransaction("server", "update", buffered)
          /\ SetStatus("server", "REG_UPDATE_PENDING")
       \/ /\ transactionList # {} \/ allocFails
          /\ UNCHANGED <<status, transactionList, forgotten, netVars>>
    /\ UNCHANGED <<stateStep, event, warning>>

\* Near its end the registration has to be updated: the application is told,
\* again and again, and may ask for it (dm_onEvent of onemo_dm_demo.c does).
WarnUpdateNeeded ==
    /\ status["server"] = "REGISTERED" /\ age = "near"
    /\ event' = "UPDATE_NEED" /\ warning' = "time"
    /\ \/ UNCHANGED status
       \/ stateStep = "READY" /\ SetStatus("server", "REG_UPDATE_NEEDED")
    /\ UNCHANGED <<stateStep, transactionList, forgotten, netVars>>

\* Mutant: the client reports the timeout and stays.
LifetimeExpiredStays ==
    /\ status["server"] = "REGISTERED" /\ age = "expired" /\ warning # "infinite"
    /\ event' = "LIFETIME_TIMEOUT" /\ warning' = "infinite"
    /\ UNCHANGED <<stateStep, status, transactionList, forgotten, netVars>>

\* Mutant: an expired registration is dropped without being ended.
LifetimeExpiredDropped ==
    /\ status["server"] = "REGISTERED" /\ age = "expired" /\ warning # "infinite"
    /\ event' = "LIFETIME_TIMEOUT" /\ warning' = "infinite"
    /\ stateStep' = "DISCONNECTED"
    /\ UNCHANGED <<status, transactionList, forgotten, netVars>>

\* The registration has expired: the application is told once, and it ends.
LifetimeExpired ==
    /\ status["server"] = "REGISTERED" /\ age = "expired" /\ warning # "infinite"
    /\ event' = "LIFETIME_TIMEOUT" /\ warning' = "infinite"
    /\ stateStep' = "UNREGISTER"
    /\ UNCHANGED <<status, transactionList, forgotten, netVars>>

RegistrationIdle ==
    /\ \/ status["server"] \notin NeedsUpdate \cup {"REGISTERED"}
       \/ /\ status["server"] = "REGISTERED"
          /\ \/ age = "fresh"
             \/ age = "near" /\ warning = "time"
             \/ age = "expired" /\ warning = "infinite"
    /\ UNCHANGED <<stateStep, status, event, warning, transactionList, forgotten, netVars>>

RegistrationStep ==
    /\ Step("registration_step", "transaction_step")
    /\ UpdateRegistration \/ WarnUpdateNeeded \/ LifetimeExpired \/ RegistrationIdle
    /\ UNCHANGED <<location, age>>
-----------------------------------------------------------------------------
(***************************************************************************)
(* Transactions.  The callback of a transaction gets the result of the     *)
(* answer, or "timeout" when there is none (message = NULL).               *)
(***************************************************************************)
\* prv_handleRegistrationReply and prv_handleRegistrationUpdateReply.
RegistrationReply(kind, result) ==
    IF status["server"] = (IF kind = "reg" THEN "REG_PENDING" ELSE "REG_UPDATE_PENDING")
    THEN /\ age' = "fresh" /\ warning' = "zero"
         /\ SetStatus("server", IF result = "ok" THEN "REGISTERED" ELSE "REG_FAILED")
         /\ location' = (location \/ (kind = "reg" /\ result = "ok"))
         /\ event' = CASE kind = "reg" /\ result = "ok" -> "REG_SUCCESS"
                       [] kind = "reg" /\ result = "error" -> "REG_FAILED"
                       [] kind = "reg" /\ result = "timeout" -> "REG_TIMEOUT"
                       [] kind # "reg" /\ result = "ok" -> "UPDATE_SUCCESS"
                       [] kind # "reg" /\ result = "error" -> "UPDATE_FAILED"
                       [] OTHER -> "UPDATE_TIMEOUT"
    ELSE UNCHANGED <<status, event, regVars>>

\* prv_handleBootstrapReply.
BootstrapReply(result) ==
    /\ IF status["bootstrap"] = "BS_INITIATED"
       THEN SetStatus("bootstrap", IF result = "ok" THEN "BS_PENDING" ELSE "BS_FAILED")
       ELSE UNCHANGED status
    /\ UNCHANGED <<event, regVars>>

\* Mutant: a transaction that is given up is removed without its callback.
FinishSilently(t, result) ==
    /\ transactionList' = transactionList \ {t}
    /\ IF result = "timeout" THEN UNCHANGED <<status, event, regVars>>
       ELSE IF t.kind = "bs" THEN BootstrapReply(result) ELSE RegistrationReply(t.kind, result)
    /\ UNCHANGED forgotten

\* The callback, then transaction_remove.
Finish(t, result) ==
    /\ transactionList' = transactionList \ {t}
    /\ IF t.kind = "bs" THEN BootstrapReply(result) ELSE RegistrationReply(t.kind, result)
    /\ UNCHANGED forgotten

\* Transaction t stays, changed to u.
Keep(t, u) ==
    /\ transactionList' = (transactionList \ {t}) \cup {u}
    /\ UNCHANGED <<status, event, forgotten, regVars>>

\* cisnet_write of the packet once more (the first time, if there was no memory).
Retransmit(t) ==
    /\ sent' = [sent EXCEPT ![t.srv] = @ \cup {[mid |-> t.mid, kind |-> t.kind]}]
    /\ Keep(t, [t EXCEPT !.retransCounter = IF @ = 0 THEN 2 ELSE @ + 1])

\* transaction_send of a transaction that is due.
TransactionDue ==
    /\ Step("transaction_step", "packet_read")
    /\ \E t \in transactionList :
          IF t.ackReceived \/ t.retransCounter > MaxRetransmit + 1
          THEN Finish(t, "timeout") /\ UNCHANGED sent
          ELSE Retransmit(t)
    /\ UNCHANGED <<stateStep, confirmed, inbox, nextMid>>

\* No transaction is due.
TransactionWait ==
    /\ Step("transaction_step", "packet_read")
    /\ UNCHANGED <<stateStep, status, transactionList, event, forgotten, netVars, regVars>>

\* packet_read reads from the server, or from the bootstrap server if there is none.
ReadFrom == IF status["server"] # "NULL" THEN "server" ELSE "bootstrap"

ReadNothing ==
    /\ Step("packet_read", "switch")
    /\ inbox[ReadFrom] = << >>
    /\ UNCHANGED <<stateStep, status, transactionList, event, forgotten, netVars, regVars>>

\* Mutant: prv_checkFinished takes any answer to the client for the awaited one.
AnswersAny(t, m) == t.srv = ReadFrom /\ (m.type \in {"ack", "rst"} => ~t.ackReceived)

\* Whether packet m answers transaction t: an empty ACK and a RST by the
\* message id, unless t has had its ACK; a response by the token.
AnswersTo(t, m) ==
    /\ t.srv = ReadFrom /\ t.mid = m.mid
    /\ m.type \in {"ack", "rst"} => ~t.ackReceived

\* transaction_handleResponse.
ReadAnswer ==
    /\ Step("packet_read", "switch")
    /\ inbox[ReadFrom] # << >>
    /\ inbox' = [inbox EXCEPT ![ReadFrom] = Tail(@)]
    /\ LET m == Head(inbox[ReadFrom])
       IN  /\ m \in Answers
           /\ \/ \E t \in transactionList :
                    /\ AnswersTo(t, m)
                    /\ CASE m.type = "ack" -> Keep(t, [t EXCEPT !.ackReceived = TRUE])
                         [] m.type = "rst" -> Finish(t, "error")
                         [] m.code = "unauthorized" /\ MaxRetransmit > t.retransCounter ->
                               Keep(t, [t EXCEPT !.ackReceived = FALSE])
                         [] OTHER -> Finish(t, IF m.code = "ok" THEN "ok" ELSE "error")
              \/ /\ \A t \in transactionList : ~AnswersTo(t, m)
                 /\ UNCHANGED <<status, transactionList, event, forgotten, regVars>>
    /\ UNCHANGED <<stateStep, sent, confirmed, nextMid>>

\* A command of the bootstrap server: prv_checkServerStatus takes the first one
\* for the answer that was lost; bootstrap_handleFinish ends the bootstrap.
ReadCommand ==
    /\ Step("packet_read", "switch")
    /\ inbox[ReadFrom] # << >>
    /\ inbox' = [inbox EXCEPT ![ReadFrom] = Tail(@)]
    /\ LET m == Head(inbox[ReadFrom])
       IN  /\ m \in Commands
           /\ IF m.type = "write" /\ status["bootstrap"] \in {"BS_HOLD_OFF", "BS_INITIATED"}
              THEN SetStatus("bootstrap", "BS_PENDING")
              ELSE IF m.type = "finish" /\ status["bootstrap"] = "BS_PENDING"
              THEN SetStatus("bootstrap", "BS_FINISHED")
              ELSE UNCHANGED status
    /\ UNCHANGED <<stateStep, transactionList, event, forgotten, sent, confirmed, nextMid,
                   regVars>>
-----------------------------------------------------------------------------
(***************************************************************************)
(* The application, the remote side and time.                              *)
(***************************************************************************)
\* cis_register.
Register ==
    /\ pc = "switch" /\ ~registerEnabled
    /\ registerEnabled' = TRUE
    /\ UNCHANGED <<pc, stateStep, status, sessionH, transactionList, event, forgotten,
                   netVars, regVars>>

\* cis_unregister, between two calls of the pump.
RequestUnregister ==
    /\ pc = "switch" /\ registerEnabled
    /\ stateStep' = "UNREGISTER"
    /\ UNCHANGED <<pc, registerEnabled, status, sessionH, transactionList, event, forgotten,
                   netVars, regVars>>

\* One more request fits on the socket, and the DELETE after it.
RoomForUpdate == nextMid["server"] < MaxMid - 1

\* cis_update_reg: the application's, or the client's for new objects.
RequestUpdate ==
    /\ pc = "switch" /\ stateStep = "READY" /\ RoomForUpdate
    /\ status["server"] = "REGISTERED"
    /\ \E st \in NeedsUpdate : SetStatus("server", st)
    /\ UNCHANGED <<pc, registerEnabled, stateStep, sessionH, transactionList, event, forgotten,
                   netVars, regVars>>

\* The remote side answers a request, maybe once more or not at all, and in
\* any of the ways of CoAP; callbackRecvThread puts the packet in the list.
Answer(s) ==
    /\ Len(inbox[s]) < MaxInbox
    /\ \E r \in sent[s] : \E m \in {a \in Answers : a.mid = r.mid} :
          /\ inbox' = [inbox EXCEPT ![s] = Append(@, m)]
          /\ confirmed' = (IF m.code = "ok" THEN [confirmed EXCEPT ![s] = @ \cup {r.mid}]
                           ELSE confirmed)
    /\ UNCHANGED <<pc, registerEnabled, stateStep, status, sessionH, transactionList, nextMid,
                   event, sent, forgotten, regVars>>

\* The bootstrap server writes the account, or ends the bootstrap.
BootstrapCommand ==
    /\ sent["bootstrap"] # {} /\ Len(inbox["bootstrap"]) < MaxInbox
    /\ \E m \in Commands : inbox' = [inbox EXCEPT !["bootstrap"] = Append(@, m)]
    /\ UNCHANGED <<pc, registerEnabled, stateStep, status, sessionH, transactionList, nextMid,
                   event, sent, confirmed, forgotten, regVars>>

\* Time passes for the registration.
GrowOld ==
    /\ RoomForUpdate /\ status["server"] \in Granted
    /\ \/ age = "fresh" /\ age' \in {"near", "expired"}
       \/ age = "near" /\ age' = "expired"
    /\ UNCHANGED <<pc, registerEnabled, stateStep, status, sessionH, location, transactionList,
                   event, warning, forgotten, netVars>>

Bootstrapping ==
    \/ BootstrapCreate \/ BootstrapConnect \/ BootstrapRequest \/ BootstrapWait
    \/ BootstrapTimeout \/ BootstrapEnd

Connecting ==
    \/ ConnectingCreate \/ ConnectingNoServer \/ ConnectingConnect \/ ConnectingConnected
    \/ ConnectingFailed

Pump ==
    \/ PumpInitial \/ Bootstrapping \/ Connecting
    \/ RegisterRequired \/ Registering \/ Ready \/ Disconnected
    \/ Unregister \/ UnregisterDone
    \/ RegistrationStep \/ TransactionDue \/ TransactionWait
    \/ ReadNothing \/ ReadAnswer \/ ReadCommand

Environment ==
    \/ Register \/ RequestUnregister \/ RequestUpdate
    \/ (\E s \in Servers : Answer(s)) \/ BootstrapCommand \/ GrowOld

PumpNext == (Pump \/ Environment) /\ UNCHANGED settings

PumpSpec == PumpInit /\ [][PumpNext]_vars

\* dm_clientd calls the pump for ever; a transaction that is never answered is
\* due in the end, a bootstrap that never ends times out.
FairPumpSpec ==
    PumpSpec /\ WF_client(Pump) /\ SF_client(TransactionDue) /\ SF_client(BootstrapTimeout)
-----------------------------------------------------------------------------
(***************************************************************************)
(* Properties.                                                             *)
(***************************************************************************)
\* The state of the client, and what it has on the network.
PumpTypeOK ==
    /\ {bootstrapEnabled, isDM, allocFails} \subseteq BOOLEAN
    /\ pc \in {"switch", "unregister", "registration_step", "transaction_step", "packet_read"}
    /\ registerEnabled \in BOOLEAN
    /\ stateStep \in States
    /\ status \in [Servers -> Statuses]
    /\ sessionH \in [Servers -> BOOLEAN]
    /\ location \in BOOLEAN
    /\ transactionList \in SUBSET Transactions
    /\ nextMid \in [Servers -> 0 .. MaxMid]
    /\ age \in {"fresh", "near", "expired"}
    /\ warning \in {"zero", "time", "infinite"}
    /\ sent \in [Servers -> SUBSET [mid : 0 .. MaxMid - 1, kind : Kinds]]
    /\ confirmed \in [Servers -> SUBSET (0 .. MaxMid - 1)]
    /\ inbox \in [Servers -> Seq(Answers \cup Commands)]
    /\ \A s \in Servers : Len(inbox[s]) <= MaxInbox
    /\ forgotten \in BOOLEAN

\* No transaction outlives its server: transaction_send and the callbacks
\* follow transacP->server and its sessionH, in whatever order the server was
\* lost, left or bootstrapped.
NoDanglingTransaction ==
    \A t \in transactionList : status[t.srv] # "NULL" /\ sessionH[t.srv]

\* A registration or an update counts as done only when the remote side granted
\* the very request the client is waiting for: a late answer to an earlier one,
\* a duplicate or a RST never does it.
DoneWasGranted ==
    [][status'["server"] = "REGISTERED" /\ status["server"] # "REGISTERED" =>
          \E t \in transactionList \ transactionList' :
             t.srv = "server" /\ t.mid \in confirmed["server"]]_vars

\* What the client has, as its application can know it: st is the status of its
\* server, ev the last event.
LinkOf(st, ev) ==
    CASE st = "REG_UPDATE_PENDING" -> "updating"
      [] st \in Granted \ {"REG_UPDATE_PENDING"} -> "registered"
      [] st = "DEREG_PENDING" -> "leaving"
      [] st = "REG_PENDING" -> "connected"
      [] st = "CONNECTED" /\ ev = "CONNECT_SUCCESS" -> "connected"
      [] OTHER -> "down"

Link == LinkOf(status["server"], event)

Service == INSTANCE CisService WITH link <- Link

\* The pump implements the service its events promise.
ImplementsService == Service!ServiceSpec

\* However the answers are lost, a registration ends, accepted, refused or given up
\* after the last retransmission; so does an update; and so does a bootstrap, with a
\* server or with a failure.  (Without memory a transaction may stay unsent for ever.)
ExchangesEnd ==
    /\ (~allocFails /\ stateStep = "REGISTERING") ~> (stateStep # "REGISTERING")
    /\ (~allocFails /\ status["server"] = "REG_UPDATE_PENDING")
           ~> (status["server"] # "REG_UPDATE_PENDING")
    /\ (~allocFails /\ stateStep = "BOOTSTRAPPING") ~> (stateStep # "BOOTSTRAPPING")

\* A registration that has expired is renewed or left; it is not kept for ever.
ExpiredIsLeft ==
    (~allocFails /\ stateStep = "READY" /\ age = "expired")
        ~> (stateStep # "READY" \/ age = "fresh")

\* cis_transaction.c: the callback of a transaction "is called, when either the
\* result is received or a timeout occurs"; so for the DELETE of a client that
\* leaves, whose callback is prv_handleDeregistrationReply.  The code does not keep
\* it: UnregisterDone frees the transaction that Unregister has just sent.
CallbackIsCalled == ~forgotten

\* cis_transaction.c: a request with a token is "regular finished with
\* corresponding ACK.MID and response containing the token".  For that the pump
\* has to read from the socket on which the response comes.  The code does not keep it:
\* a failed connection leaves ctx->server behind when the client bootstraps again.
ReadsWhereItWaits == \A t \in transactionList : t.srv = ReadFrom
=============================================================================
