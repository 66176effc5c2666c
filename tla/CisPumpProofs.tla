--------------------------- MODULE CisPumpProofs ---------------------------
(***************************************************************************)
(* The pump of the LwM2M client, for every number of retransmissions and   *)
(* of requests: types; no transaction outlives its server; only a grant    *)
(* counts; and the pump implements the service of its events.              *)
(***************************************************************************)
EXTENDS CisPump, SequenceTheorems, TLAPS

\* The statuses of a server that was not asked for anything yet.
Fresh == {"NULL", "CREATED", "CONNECTED", "CONNECT_FAILED"}

\* A server has its network context for as long as it exists.
SessionsKnown == \A s \in Servers : sessionH[s] <=> status[s] # "NULL"

\* There is a bootstrap server only with bootstrap, and its transactions are gone
\* before the client connects.
BootstrapFirst ==
    /\ status["bootstrap"] # "NULL" => bootstrapEnabled
    /\ \A t \in transactionList : t.srv = "bootstrap" =>
          /\ status["bootstrap"] # "NULL"
          /\ stateStep \in {"BOOTSTRAPPING", "UNREGISTER"}

\* A server that was not asked yet has no transactions and no location.
ServerLast ==
    /\ \A t \in transactionList : t.srv = "server" => status["server"] \notin Fresh
    /\ location => status["server"] \notin Fresh

DanglingInv == SessionsKnown /\ BootstrapFirst /\ ServerLast
-----------------------------------------------------------------------------
(***************************************************************************)
(* Types.                                                                  *)
(***************************************************************************)
\* What a step can leave of the state, part by part.
ControlOK ==
    /\ {bootstrapEnabled, isDM, allocFails} \subseteq BOOLEAN
    /\ pc \in {"switch", "unregister", "registration_step", "transaction_step", "packet_read"}
    /\ registerEnabled \in BOOLEAN
    /\ stateStep \in States

RegistrationOK ==
    /\ location \in BOOLEAN
    /\ age \in {"fresh", "near", "expired"}
    /\ warning \in {"zero", "time", "infinite"}

ServersOK == status \in [Servers -> Statuses] /\ sessionH \in [Servers -> BOOLEAN]

ListOK ==
    /\ transactionList \in SUBSET Transactions
    /\ nextMid \in [Servers -> 0 .. MaxMid]
    /\ forgotten \in BOOLEAN

NetOK ==
    /\ sent \in [Servers -> SUBSET [mid : 0 .. MaxMid - 1, kind : Kinds]]
    /\ confirmed \in [Servers -> SUBSET (0 .. MaxMid - 1)]
    /\ inbox \in [Servers -> Seq(Answers \cup Commands)]
    /\ \A s \in Servers : Len(inbox[s]) <= MaxInbox

LEMMA TypeParts ==
    PumpTypeOK <=> ControlOK /\ RegistrationOK /\ ServersOK /\ ListOK /\ NetOK
  BY DEF PumpTypeOK, ControlOK, RegistrationOK, ServersOK, ListOK, NetOK

LEMMA PumpInitTyped == PumpInit => PumpTypeOK
  <1> SUFFICES ASSUME PumpInit PROVE ControlOK /\ RegistrationOK /\ ServersOK /\ ListOK /\ NetOK
    BY TypeParts
  <1>1. ControlOK /\ RegistrationOK /\ ServersOK
    BY DEF PumpInit, ControlOK, RegistrationOK, ServersOK, States, Statuses
  <1>2. ListOK
    <2>1. 0 \in 0 .. MaxMid
      BY PumpAssumption
    <2>2. transactionList \in SUBSET Transactions /\ forgotten \in BOOLEAN
      BY DEF PumpInit
    <2>3. nextMid \in [Servers -> 0 .. MaxMid]
      BY <2>1 DEF PumpInit
    <2> QED  BY <2>2, <2>3 DEF ListOK
  <1>3. NetOK
    <2>1. << >> \in Seq(Answers \cup Commands) /\ Len(<< >>) = 0
      BY EmptySeq
    <2> QED  BY <2>1, PumpAssumption DEF PumpInit, NetOK
  <1> QED  BY <1>1, <1>2, <1>3

\* A new transaction.
LEMMA StartTyped ==
    ASSUME ListOK, NetOK, NEW s \in Servers, NEW kind \in Kinds, NEW buffered \in BOOLEAN,
           StartTransaction(s, kind, buffered)
    PROVE  ListOK' /\ NetOK'
  <1> DEFINE t == [srv |-> s, mid |-> nextMid[s], kind |-> kind, ackReceived |-> FALSE,
                   retransCounter |-> IF buffered THEN 2 ELSE 0]
  <1>1. nextMid[s] \in 0 .. MaxMid - 1
    BY PumpAssumption DEF StartTransaction, ListOK
  <1>2. t \in Transactions
    BY <1>1, PumpAssumption DEF Transactions
  <1>3. transactionList' = transactionList \cup {t}
    BY DEF StartTransaction
  <1>4. nextMid' \in [Servers -> 0 .. MaxMid]
    BY <1>1, PumpAssumption DEF StartTransaction, ListOK
  <1>5. ListOK'
    BY <1>2, <1>3, <1>4 DEF StartTransaction, ListOK
  <1>6. sent' \in [Servers -> SUBSET [mid : 0 .. MaxMid - 1, kind : Kinds]]
    BY <1>1 DEF StartTransaction, NetOK
  <1> QED  BY <1>5, <1>6 DEF StartTransaction, NetOK

\* Servers go.
LEMMA DestroyTyped ==
    ASSUME RegistrationOK, ServersOK, nextMid \in [Servers -> 0 .. MaxMid], NetOK,
           NEW S \in SUBSET Servers, DestroyServers(S)
    PROVE  /\ location' \in BOOLEAN /\ ServersOK' /\ NetOK'
           /\ nextMid' \in [Servers -> 0 .. MaxMid]
  <1>1. << >> \in Seq(Answers \cup Commands) /\ Len(<< >>) = 0
    BY EmptySeq
  <1>2. location' \in BOOLEAN
    BY DEF DestroyServers, RegistrationOK
  <1>3. ServersOK'
    BY DEF DestroyServers, CloseSessions, ServersOK, Statuses
  <1>4. nextMid' \in [Servers -> 0 .. MaxMid]
    BY PumpAssumption DEF DestroyServers, CloseSessions
  <1>5. NetOK'
    BY <1>1, PumpAssumption DEF DestroyServers, CloseSessions, NetOK
  <1> QED  BY <1>2, <1>3, <1>4, <1>5

LEMMA FreeTyped ==
    ASSUME ListOK, NEW T, FreeTransactions(T)
    PROVE  transactionList' \in SUBSET Transactions /\ forgotten' \in BOOLEAN
  BY DEF FreeTransactions, ListOK

\* The callback of a transaction.
LEMMA FinishTyped ==
    ASSUME RegistrationOK, ServersOK, ListOK, NEW t, NEW result, Finish(t, result)
    PROVE  /\ RegistrationOK' /\ status' \in [Servers -> Statuses]
           /\ transactionList' \in SUBSET Transactions /\ forgotten' \in BOOLEAN
  BY DEF Finish, RegistrationReply, BootstrapReply, SetStatus, RegistrationOK, ServersOK,
         ListOK, regVars, Statuses, Granted, Servers

LEMMA KeepTyped ==
    ASSUME RegistrationOK, ServersOK, ListOK, NEW t, NEW u \in Transactions, Keep(t, u)
    PROVE  /\ RegistrationOK' /\ status' \in [Servers -> Statuses]
           /\ transactionList' \in SUBSET Transactions /\ forgotten' \in BOOLEAN
  BY DEF Keep, RegistrationOK, ServersOK, ListOK, regVars

\* The cases of the switch.
LEMMA SwitchTyped ==
    ASSUME PumpTypeOK, UNCHANGED settings,
           \/ PumpInitial \/ Bootstrapping \/ Connecting \/ RegisterRequired \/ Registering
           \/ Ready \/ Disconnected \/ Unregister \/ UnregisterDone
    PROVE  PumpTypeOK'
  <1> SUFFICES ControlOK' /\ RegistrationOK' /\ ServersOK' /\ ListOK' /\ NetOK'
    BY TypeParts DEF PumpTypeOK, ControlOK, RegistrationOK, ServersOK, ListOK, NetOK
  <1>0. ControlOK /\ RegistrationOK /\ ServersOK /\ ListOK /\ NetOK
    BY TypeParts
  <1>a. (UNCHANGED netVars) => nextMid' = nextMid /\ NetOK'
    BY <1>0 DEF netVars, NetOK
  <1>b. (UNCHANGED <<transactionList, forgotten, netVars>>) => ListOK' /\ NetOK'
    BY <1>0, <1>a DEF ListOK, netVars
  <1>c. (UNCHANGED regVars) => RegistrationOK'
    BY <1>0 DEF regVars, RegistrationOK
  <1>1. CASE PumpInitial
    <2>1. ControlOK'
      BY <1>0, <1>1 DEF PumpInitial, Case, ReturnEarly, ControlOK, settings, States
    <2> QED  BY <1>0, <1>1, <1>b, <1>c, <2>1 DEF PumpInitial, ServersOK
  <1>2. CASE BootstrapCreate
    <2>1. ControlOK'
      BY <1>0, <1>2 DEF BootstrapCreate, ReturnEarly, ControlOK, settings, States
    <2>2. ServersOK'
      BY <1>0, <1>2 DEF BootstrapCreate, SetStatus, ServersOK, Servers, Statuses
    <2> QED  BY <1>2, <1>b, <1>c, <2>1, <2>2 DEF BootstrapCreate
  <1>3. CASE BootstrapConnect
    <2>1. ControlOK'
      BY <1>0, <1>3 DEF BootstrapConnect, ReturnEarly, ControlOK, settings, States
    <2>2. ServersOK'
      BY <1>0, <1>3 DEF BootstrapConnect, SetStatus, ServersOK, Servers, Statuses
    <2> QED  BY <1>3, <1>b, <1>c, <2>1, <2>2 DEF BootstrapConnect
  <1>4. CASE BootstrapRequest
    <2>1. ControlOK'
      BY <1>0, <1>4 DEF BootstrapRequest, GoOn, ControlOK, settings, States
    <2>2. ServersOK'
      BY <1>0, <1>4 DEF BootstrapRequest, SetStatus, ServersOK, Servers, Statuses
    <2>3. ListOK' /\ NetOK'
      BY <1>0, <1>4, <1>b, StartTyped DEF BootstrapRequest, Allocation, Servers, Kinds
    <2> QED  BY <1>4, <1>c, <2>1, <2>2, <2>3 DEF BootstrapRequest
  <1>5. CASE BootstrapWait
    <2>1. ControlOK'
      BY <1>0, <1>5 DEF BootstrapWait, GoOn, ControlOK, settings, States
    <2> QED  BY <1>0, <1>5, <1>b, <1>c, <2>1 DEF BootstrapWait, ServersOK
  <1>6. CASE BootstrapTimeout
    <2>1. ControlOK'
      BY <1>0, <1>6 DEF BootstrapTimeout, GoOn, ControlOK, settings, States
    <2>2. ServersOK'
      BY <1>0, <1>6 DEF BootstrapTimeout, SetStatus, ServersOK, Servers, Statuses
    <2> QED  BY <1>6, <1>b, <1>c, <2>1, <2>2 DEF BootstrapTimeout
  <1>7. CASE BootstrapEnd
    <2>1. ControlOK'
      BY <1>0, <1>7 DEF BootstrapEnd, ReturnEarly, ControlOK, settings, States
    <2>2. {"bootstrap"} \in SUBSET Servers
      BY DEF Servers
    <2>3. /\ location' \in BOOLEAN /\ ServersOK' /\ NetOK'
          /\ nextMid' \in [Servers -> 0 .. MaxMid]
      BY <1>0, <1>7, <2>2, DestroyTyped DEF BootstrapEnd, BootstrapDestroy, ListOK
    <2>4. ListOK'
      BY <1>0, <1>7, <2>3, FreeTyped DEF BootstrapEnd, BootstrapDestroy, ListOK
    <2> QED  BY <1>0, <1>7, <2>1, <2>3, <2>4 DEF BootstrapEnd, RegistrationOK
  <1>8. CASE ConnectingCreate
    <2>1. ControlOK'
      BY <1>0, <1>8 DEF ConnectingCreate, ReturnEarly, ControlOK, settings, States
    <2>2. ServersOK'
      BY <1>0, <1>8 DEF ConnectingCreate, SetStatus, ServersOK, Servers, Statuses
    <2> QED  BY <1>8, <1>b, <1>c, <2>1, <2>2 DEF ConnectingCreate
  <1>9. CASE ConnectingNoServer
    <2>1. ControlOK'
      BY <1>0, <1>9 DEF ConnectingNoServer, ReturnEarly, ControlOK, settings, States
    <2> QED  BY <1>0, <1>9, <1>b, <1>c, <2>1 DEF ConnectingNoServer, ServersOK
  <1>10. CASE ConnectingConnect
    <2>1. ControlOK'
      BY <1>0, <1>10 DEF ConnectingConnect, ReturnEarly, ControlOK, settings, States
    <2>2. ServersOK'
      BY <1>0, <1>10 DEF ConnectingConnect, SetStatus, ServersOK, Servers, Statuses
    <2> QED  BY <1>10, <1>b, <1>c, <2>1, <2>2 DEF ConnectingConnect
  <1>11. CASE ConnectingConnected
    <2>1. ControlOK'
      BY <1>0, <1>11 DEF ConnectingConnected, ReturnEarly, ControlOK, settings, States
    <2> QED  BY <1>0, <1>11, <1>b, <1>c, <2>1 DEF ConnectingConnected, ServersOK
  <1>12. CASE ConnectingFailed
    <2>1. ControlOK'
      BY <1>0, <1>12 DEF ConnectingFailed, ReturnEarly, ControlOK, settings, States
    <2>2. /\ location' \in BOOLEAN /\ ServersOK' /\ NetOK'
          /\ nextMid' \in [Servers -> 0 .. MaxMid]
      BY <1>0, <1>12, DestroyTyped DEF ConnectingFailed, ListOK
    <2> QED  BY <1>0, <1>12, <2>1, <2>2 DEF ConnectingFailed, RegistrationOK, ListOK
  <1>13. CASE RegisterRequired
    <2>1. ControlOK'
      BY <1>0, <1>13 DEF RegisterRequired, Case, ReturnEarly, GoOn, ControlOK, settings, States
    <2>2. ServersOK'
      BY <1>0, <1>13 DEF RegisterRequired, SetStatus, ServersOK, Servers, Statuses
    <2>3. ListOK' /\ NetOK'
      BY <1>0, <1>13, <1>b, StartTyped DEF RegisterRequired, Servers, Kinds
    <2> QED  BY <1>13, <1>c, <2>1, <2>2, <2>3 DEF RegisterRequired
  <1>14. CASE Registering
    <2>1. ControlOK'
      BY <1>0, <1>14 DEF Registering, ReturnEarly, GoOn, ControlOK, settings, States
    <2> QED  BY <1>0, <1>14, <1>b, <1>c, <2>1 DEF Registering, ServersOK
  <1>15. CASE Ready
    <2>1. ControlOK'
      BY <1>0, <1>15 DEF Ready, ReturnEarly, GoOn, ControlOK, settings, States
    <2> QED  BY <1>0, <1>15, <1>b, <1>c, <2>1 DEF Ready, ServersOK
  <1>16. CASE Disconnected
    <2>1. ControlOK'
      BY <1>0, <1>16 DEF Disconnected, ReturnEarly, ControlOK, settings, States
    <2>2. /\ location' \in BOOLEAN /\ ServersOK' /\ NetOK'
          /\ nextMid' \in [Servers -> 0 .. MaxMid]
      BY <1>0, <1>16, DestroyTyped DEF Disconnected, ListOK
    <2>3. ListOK'
      BY <1>0, <1>16, <2>2, FreeTyped DEF Disconnected, ListOK
    <2> QED  BY <1>0, <1>16, <2>1, <2>2, <2>3 DEF Disconnected, RegistrationOK
  <1>17. CASE Unregister
    <2>1. ControlOK'
      BY <1>0, <1>17 DEF Unregister, ControlOK, settings
    <2>2. ServersOK'
      BY <1>0, <1>17 DEF Unregister, SetStatus, ServersOK, Servers, Statuses
    <2>3. ListOK' /\ NetOK'
      BY <1>0, <1>17, <1>b, StartTyped DEF Unregister, Allocation, Servers, Kinds
    <2> QED  BY <1>17, <1>c, <2>1, <2>2, <2>3 DEF Unregister
  <1>18. CASE UnregisterDone
    <2>1. ControlOK'
      BY <1>0, <1>18 DEF UnregisterDone, ControlOK, settings, States
    <2>2. /\ location' \in BOOLEAN /\ ServersOK' /\ NetOK'
          /\ nextMid' \in [Servers -> 0 .. MaxMid]
      BY <1>0, <1>18, DestroyTyped DEF UnregisterDone, ListOK
    <2>3. ListOK'
      BY <1>0, <1>18, <2>2, FreeTyped DEF UnregisterDone, ListOK
    <2> QED  BY <1>0, <1>18, <2>1, <2>2, <2>3 DEF UnregisterDone, RegistrationOK
  <1> QED
    BY <1>1, <1>2, <1>3, <1>4, <1>5, <1>6, <1>7, <1>8, <1>9, <1>10, <1>11, <1>12, <1>13,
       <1>14, <1>15, <1>16, <1>17, <1>18 DEF Bootstrapping, Connecting

\* registration_step, transaction_step and packet_read.
LEMMA StepsTyped ==
    ASSUME PumpTypeOK, UNCHANGED settings,
           \/ RegistrationStep \/ TransactionDue \/ TransactionWait
           \/ ReadNothing \/ ReadAnswer \/ ReadCommand
    PROVE  PumpTypeOK'
  <1> SUFFICES ControlOK' /\ RegistrationOK' /\ ServersOK' /\ ListOK' /\ NetOK'
    BY DEF PumpTypeOK, ControlOK, RegistrationOK, ServersOK, ListOK, NetOK
  <1>0. ControlOK /\ RegistrationOK /\ ServersOK /\ ListOK /\ NetOK
    BY TypeParts
  <1>b. (UNCHANGED <<transactionList, forgotten, netVars>>) => ListOK' /\ NetOK'
    BY <1>0 DEF ListOK, netVars, NetOK
  <1>c. (UNCHANGED regVars) => RegistrationOK'
    BY <1>0 DEF regVars, RegistrationOK
  <1>1. CASE RegistrationStep
    <2>1. ControlOK'
      BY <1>0, <1>1 DEF RegistrationStep, Step, UpdateRegistration, WarnUpdateNeeded,
         LifetimeExpired, RegistrationIdle, ControlOK, settings, States
    <2>2. ServersOK' /\ RegistrationOK'
      BY <1>0, <1>1 DEF RegistrationStep, Step, UpdateRegistration, WarnUpdateNeeded,
         LifetimeExpired, RegistrationIdle, SetStatus, ServersOK, RegistrationOK, Servers,
         Statuses, Granted
    <2>3. CASE UpdateRegistration
      BY <1>0, <1>b, <2>1, <2>2, <2>3, StartTyped DEF UpdateRegistration, Allocation, Servers, Kinds
    <2> QED
      BY <1>1, <1>b, <2>1, <2>2, <2>3
      DEF RegistrationStep, WarnUpdateNeeded, LifetimeExpired, RegistrationIdle
  <1>2. CASE TransactionDue
    <2>1. ControlOK'
      BY <1>0, <1>2 DEF TransactionDue, Step, ControlOK, settings
    <2>2. PICK t \in transactionList :
            IF t.ackReceived \/ t.retransCounter > MaxRetransmit + 1
            THEN Finish(t, "timeout") /\ UNCHANGED sent
            ELSE Retransmit(t)
      BY <1>2 DEF TransactionDue
    <2>3. t \in Transactions /\ t.srv \in Servers /\ t.mid \in 0 .. MaxMid - 1
          /\ t.kind \in Kinds /\ t.retransCounter \in 0 .. MaxRetransmit + 2
      BY <1>0 DEF ListOK, Transactions
    <2>4. CASE t.ackReceived \/ t.retransCounter > MaxRetransmit + 1
      <3>1. Finish(t, "timeout") /\ UNCHANGED sent
        BY <2>2, <2>4
      <3>2. /\ RegistrationOK' /\ status' \in [Servers -> Statuses]
            /\ transactionList' \in SUBSET Transactions /\ forgotten' \in BOOLEAN
        BY <1>0, <3>1, FinishTyped
      <3> QED  BY <1>0, <1>2, <2>1, <3>1, <3>2
               DEF TransactionDue, Step, ServersOK, ListOK, NetOK
    <2>5. CASE ~(t.ackReceived \/ t.retransCounter > MaxRetransmit + 1)
      <3> DEFINE u == [t EXCEPT !.retransCounter = IF @ = 0 THEN 2 ELSE @ + 1]
      <3>1. Retransmit(t)
        BY <2>2, <2>5
      <3>2. u \in Transactions
        BY <2>3, <2>5, PumpAssumption DEF Transactions
      <3>3. Keep(t, u) /\ sent' = [sent EXCEPT ![t.srv] = @ \cup {[mid |-> t.mid, kind |-> t.kind]}]
        BY <3>1 DEF Retransmit
      <3>4. /\ RegistrationOK' /\ status' \in [Servers -> Statuses]
            /\ transactionList' \in SUBSET Transactions /\ forgotten' \in BOOLEAN
        BY <1>0, <3>2, <3>3, KeepTyped
      <3>5. sent' \in [Servers -> SUBSET [mid : 0 .. MaxMid - 1, kind : Kinds]]
        BY <1>0, <2>3, <3>3 DEF NetOK
      <3> QED  BY <1>0, <1>2, <2>1, <3>4, <3>5
               DEF TransactionDue, Step, ServersOK, ListOK, NetOK
    <2> QED  BY <2>4, <2>5
  <1>3. CASE TransactionWait \/ ReadNothing
    <2>1. ControlOK'
      BY <1>0, <1>3 DEF TransactionWait, ReadNothing, Step, ControlOK, settings
    <2> QED  BY <1>0, <1>3, <1>b, <1>c, <2>1 DEF TransactionWait, ReadNothing, Step, ServersOK
  <1>r. ASSUME inbox[ReadFrom] # << >>, inbox' = [inbox EXCEPT ![ReadFrom] = Tail(@)]
        PROVE  /\ inbox' \in [Servers -> Seq(Answers \cup Commands)]
               /\ \A s \in Servers : Len(inbox'[s]) <= MaxInbox
    <2>1. ReadFrom \in Servers
      BY DEF ReadFrom, Servers
    <2>2. inbox[ReadFrom] \in Seq(Answers \cup Commands) /\ Len(inbox[ReadFrom]) <= MaxInbox
      BY <1>0, <2>1 DEF NetOK
    <2>3. /\ Tail(inbox[ReadFrom]) \in Seq(Answers \cup Commands)
          /\ Len(Tail(inbox[ReadFrom])) = Len(inbox[ReadFrom]) - 1
          /\ Len(inbox[ReadFrom]) \in Nat
      BY <1>r, <2>2, HeadTailProperties, LenProperties
    <2>4. Len(Tail(inbox[ReadFrom])) <= MaxInbox
      BY <2>2, <2>3, PumpAssumption
    <2> QED  BY <1>0, <1>r, <2>1, <2>3, <2>4 DEF NetOK
  <1>4. CASE ReadAnswer
    <2>1. ControlOK'
      BY <1>0, <1>4 DEF ReadAnswer, Step, ControlOK, settings
    <2>2. NetOK' /\ nextMid' = nextMid
      BY <1>0, <1>4, <1>r DEF ReadAnswer, NetOK
    <2> SUFFICES /\ RegistrationOK' /\ status' \in [Servers -> Statuses]
                 /\ transactionList' \in SUBSET Transactions /\ forgotten' \in BOOLEAN
      BY <1>0, <1>4, <2>1, <2>2 DEF ReadAnswer, Step, ServersOK, ListOK
    <2> DEFINE m == Head(inbox[ReadFrom])
    <2>3. CASE \E t \in transactionList :
                 /\ AnswersTo(t, m)
                 /\ CASE m.type = "ack" -> Keep(t, [t EXCEPT !.ackReceived = TRUE])
                      [] m.type = "rst" -> Finish(t, "error")
                      [] m.code = "unauthorized" /\ MaxRetransmit > t.retransCounter ->
                            Keep(t, [t EXCEPT !.ackReceived = FALSE])
                      [] OTHER -> Finish(t, IF m.code = "ok" THEN "ok" ELSE "error")
      <3>1. PICK t \in transactionList :
                 \/ \E b \in BOOLEAN : Keep(t, [t EXCEPT !.ackReceived = b])
                 \/ \E result : Finish(t, result)
        BY <2>3, Zenon
      <3>2. \A b \in BOOLEAN : [t EXCEPT !.ackReceived = b] \in Transactions
        BY <1>0 DEF ListOK, Transactions
      <3> QED  BY <1>0, <3>1, <3>2, KeepTyped, FinishTyped
    <2>4. CASE UNCHANGED <<status, transactionList, event, forgotten, regVars>>
      BY <1>0, <1>c, <2>4 DEF ServersOK, ListOK
    <2> QED  BY <1>4, <2>3, <2>4 DEF ReadAnswer
  <1>5. CASE ReadCommand
    <2>1. ControlOK'
      BY <1>0, <1>5 DEF ReadCommand, Step, ControlOK, settings
    <2>2. NetOK'
      BY <1>0, <1>5, <1>r DEF ReadCommand, NetOK
    <2>3. ServersOK'
      BY <1>0, <1>5 DEF ReadCommand, Step, SetStatus, ServersOK, Servers, Statuses
    <2> QED  BY <1>0, <1>5, <1>c, <2>1, <2>2, <2>3 DEF ReadCommand, ListOK
  <1> QED  BY <1>1, <1>2, <1>3, <1>4, <1>5

\* The application, the remote side and time.
LEMMA EnvironmentTyped ==
    ASSUME PumpTypeOK, UNCHANGED settings, Environment
    PROVE  PumpTypeOK'
  <1> SUFFICES ControlOK' /\ RegistrationOK' /\ ServersOK' /\ ListOK' /\ NetOK'
    BY DEF PumpTypeOK, ControlOK, RegistrationOK, ServersOK, ListOK, NetOK
  <1>0. ControlOK /\ RegistrationOK /\ ServersOK /\ ListOK /\ NetOK
    BY TypeParts
  <1>b. (UNCHANGED <<transactionList, forgotten, netVars>>) => ListOK' /\ NetOK'
    BY <1>0 DEF ListOK, netVars, NetOK
  <1>c. (UNCHANGED regVars) => RegistrationOK'
    BY <1>0 DEF regVars, RegistrationOK
  <1>1. CASE Register \/ RequestUnregister \/ RequestUpdate
    <2>1. ControlOK'
      BY <1>0, <1>1 DEF Register, RequestUnregister, RequestUpdate, ControlOK, settings, States
    <2>2. ServersOK'
      BY <1>0, <1>1 DEF Register, RequestUnregister, RequestUpdate, SetStatus, NeedsUpdate,
         ServersOK, Servers, Statuses, Granted
    <2> QED  BY <1>1, <1>b, <1>c, <2>1, <2>2 DEF Register, RequestUnregister, RequestUpdate
  <1>a. ASSUME NEW s \in Servers, NEW m \in Answers \cup Commands, Len(inbox[s]) < MaxInbox,
               inbox' = [inbox EXCEPT ![s] = Append(@, m)]
        PROVE  /\ inbox' \in [Servers -> Seq(Answers \cup Commands)]
               /\ \A r \in Servers : Len(inbox'[r]) <= MaxInbox
    <2>1. inbox[s] \in Seq(Answers \cup Commands)
      BY <1>0 DEF NetOK
    <2>2. /\ Append(inbox[s], m) \in Seq(Answers \cup Commands)
          /\ Len(Append(inbox[s], m)) = Len(inbox[s]) + 1
          /\ Len(inbox[s]) \in Nat
      BY <2>1, AppendProperties, LenProperties
    <2>3. Len(Append(inbox[s], m)) <= MaxInbox
      BY <1>a, <2>2, PumpAssumption
    <2> QED  BY <1>0, <1>a, <2>2, <2>3 DEF NetOK
  <1>2. ASSUME NEW s \in Servers, Answer(s)
        PROVE  ControlOK' /\ RegistrationOK' /\ ServersOK' /\ ListOK' /\ NetOK'
    <2>1. PICK r \in sent[s], m \in Answers :
             /\ inbox' = [inbox EXCEPT ![s] = Append(@, m)]
             /\ confirmed' = (IF m.code = "ok" THEN [confirmed EXCEPT ![s] = @ \cup {r.mid}]
                              ELSE confirmed)
      BY <1>2 DEF Answer
    <2>2. r.mid \in 0 .. MaxMid - 1
      BY <1>0, <1>2, <2>1 DEF NetOK
    <2>3. confirmed' \in [Servers -> SUBSET (0 .. MaxMid - 1)]
      BY <1>0, <2>1, <2>2 DEF NetOK
    <2>4. Len(inbox[s]) < MaxInbox
      BY <1>2 DEF Answer
    <2>5. NetOK'
      BY <1>0, <1>2, <1>a, <2>1, <2>3, <2>4 DEF Answer, NetOK
    <2> QED
      BY <1>0, <1>2, <1>c, <2>5 DEF Answer, ControlOK, settings, ServersOK, ListOK
  <1>3. CASE BootstrapCommand
    <2>1. "bootstrap" \in Servers
      BY DEF Servers
    <2>2. NetOK'
      BY <1>0, <1>3, <1>a, <2>1 DEF BootstrapCommand, NetOK
    <2> QED
      BY <1>0, <1>3, <1>c, <2>2 DEF BootstrapCommand, ControlOK, settings, ServersOK, ListOK
  <1>4. CASE GrowOld
    <2>1. ControlOK' /\ ServersOK' /\ RegistrationOK'
      BY <1>0, <1>4 DEF GrowOld, ControlOK, settings, ServersOK, RegistrationOK
    <2> QED  BY <1>4, <1>b, <2>1 DEF GrowOld
  <1> QED  BY <1>1, <1>2, <1>3, <1>4 DEF Environment

\* Every variable of the pump keeps its type: in particular retransCounter, which is
\* compared before and raised after a send, never passes MaxRetransmit + 2.
THEOREM PumpTypeCorrect == PumpSpec => []PumpTypeOK
  <1>1. PumpTypeOK /\ [PumpNext]_vars => PumpTypeOK'
    <2> SUFFICES ASSUME PumpTypeOK, [PumpNext]_vars PROVE PumpTypeOK'
      OBVIOUS
    <2>1. CASE PumpNext
      <3>1. (Pump \/ Environment) /\ UNCHANGED settings
        BY <2>1 DEF PumpNext
      <3> QED  BY <3>1, SwitchTyped, StepsTyped, EnvironmentTyped DEF Pump
    <2>2. CASE UNCHANGED vars
      BY <2>2 DEF PumpTypeOK, vars, settings, client
    <2> QED  BY <2>1, <2>2
  <1> QED  BY PumpInitTyped, <1>1, PTL DEF PumpSpec
-----------------------------------------------------------------------------
(***************************************************************************)
(* No dangling transaction.                                                *)
(***************************************************************************)
LEMMA DanglingInit == PumpInit => DanglingInv
  BY DEF PumpInit, DanglingInv, SessionsKnown, BootstrapFirst, ServerLast, Servers

\* A transaction starts on a server that is not fresh any more, or on the bootstrap
\* server during the bootstrap.
LEMMA StartList ==
    ASSUME NEW s, NEW kind, NEW buffered, StartTransaction(s, kind, buffered)
    PROVE  \A t \in transactionList' : t \in transactionList \/ t.srv = s
  BY DEF StartTransaction

\* The steps that change nothing of what the invariant speaks of.
LEMMA DanglingUnchanged ==
    ASSUME DanglingInv, bootstrapEnabled' = bootstrapEnabled, status' = status,
           sessionH' = sessionH, location' = location, transactionList' = transactionList,
           \/ stateStep' = stateStep
           \/ stateStep' = "UNREGISTER"
           \/ \A t \in transactionList : t.srv # "bootstrap"
    PROVE  DanglingInv'
  BY DEF DanglingInv, SessionsKnown, BootstrapFirst, ServerLast

LEMMA BootstrapDangling ==
    ASSUME PumpTypeOK, DanglingInv, UNCHANGED settings, Bootstrapping
    PROVE  DanglingInv'
  <1> USE DEF settings, Servers
  <1>0. status \in [Servers -> Statuses] /\ sessionH \in [Servers -> BOOLEAN]
    BY DEF PumpTypeOK
  <1>1. CASE BootstrapCreate
    BY <1>0, <1>1 DEF BootstrapCreate, SetStatus, regVars, DanglingInv, SessionsKnown,
       BootstrapFirst, ServerLast
  <1>2. CASE BootstrapConnect
    BY <1>0, <1>2 DEF BootstrapConnect, SetStatus, regVars, DanglingInv, SessionsKnown,
       BootstrapFirst, ServerLast
  <1>3. CASE BootstrapRequest
    <2>1. stateStep = "BOOTSTRAPPING" /\ stateStep' = stateStep
      BY <1>3 DEF BootstrapRequest, Case
    <2>2. \A t \in transactionList' : t \in transactionList \/ t.srv = "bootstrap"
      BY <1>3, StartList DEF BootstrapRequest
    <2> QED
      BY <1>0, <1>3, <2>1, <2>2 DEF BootstrapRequest, SetStatus, regVars, DanglingInv,
         SessionsKnown, BootstrapFirst, ServerLast
  <1>4. CASE BootstrapWait
    BY <1>4, DanglingUnchanged DEF BootstrapWait, regVars
  <1>5. CASE BootstrapTimeout
    BY <1>0, <1>5 DEF BootstrapTimeout, SetStatus, regVars, DanglingInv, SessionsKnown,
       BootstrapFirst, ServerLast
  <1>6. CASE BootstrapEnd
    <2>1. /\ status' = [s \in Servers |-> IF s = "bootstrap" THEN "NULL" ELSE status[s]]
          /\ sessionH' = [s \in Servers |-> s # "bootstrap" /\ sessionH[s]]
          /\ location' = location
          /\ transactionList' = {t \in transactionList : t.srv # "bootstrap"}
      BY <1>6 DEF BootstrapEnd, BootstrapDestroy, DestroyServers, CloseSessions,
         FreeTransactions
    <2> QED
      BY <1>0, <2>1 DEF DanglingInv, SessionsKnown, BootstrapFirst, ServerLast
  <1> QED  BY <1>1, <1>2, <1>3, <1>4, <1>5, <1>6 DEF Bootstrapping

\* Where nothing is left.
LEMMA DanglingNothing ==
    ASSUME DestroyServers(Servers), transactionList' = {}
    PROVE  DanglingInv'
  BY DEF DestroyServers, CloseSessions, DanglingInv, SessionsKnown, BootstrapFirst,
         ServerLast, Servers

LEMMA ConnectingDangling ==
    ASSUME PumpTypeOK, DanglingInv, UNCHANGED settings, Connecting
    PROVE  DanglingInv'
  <1> USE DEF settings, Servers
  <1>0. status \in [Servers -> Statuses] /\ sessionH \in [Servers -> BOOLEAN]
    BY DEF PumpTypeOK
  <1>s. \A t \in transactionList : t.srv \in Servers
    BY DEF PumpTypeOK, Transactions
  <1>a. \A t \in transactionList : t.srv # "bootstrap"
    BY DEF Connecting, ConnectingCreate, ConnectingNoServer, ConnectingConnect,
       ConnectingConnected, ConnectingFailed, Case, DanglingInv, BootstrapFirst
  <1>1. CASE ConnectingCreate
    BY <1>0, <1>1 DEF ConnectingCreate, SetStatus, regVars, DanglingInv, SessionsKnown,
       BootstrapFirst, ServerLast, Fresh
  <1>2. CASE ConnectingNoServer \/ ConnectingConnected
    BY <1>2, <1>a, DanglingUnchanged DEF ConnectingNoServer, ConnectingConnected, regVars
  <1>3. CASE ConnectingConnect
    BY <1>0, <1>3, <1>a DEF ConnectingConnect, SetStatus, regVars, DanglingInv, SessionsKnown,
       BootstrapFirst, ServerLast, Fresh
  <1>4. CASE ConnectingFailed
    <2>1. transactionList = {}
      BY <1>4, <1>a, <1>s DEF ConnectingFailed, DanglingInv, ServerLast, Fresh
    <2> QED  BY <1>4, <2>1, DanglingNothing DEF ConnectingFailed
  <1> QED  BY <1>1, <1>2, <1>3, <1>4 DEF Connecting

\* The other cases of the switch.
LEMMA RegisteredDangling ==
    ASSUME PumpTypeOK, DanglingInv, UNCHANGED settings,
           \/ PumpInitial \/ RegisterRequired \/ Registering \/ Ready \/ Disconnected
           \/ Unregister \/ UnregisterDone
    PROVE  DanglingInv'
  <1> USE DEF settings, Servers
  <1>0. status \in [Servers -> Statuses] /\ sessionH \in [Servers -> BOOLEAN]
    BY DEF PumpTypeOK
  <1>a. stateStep \notin {"BOOTSTRAPPING", "UNREGISTER"} =>
           \A t \in transactionList : t.srv # "bootstrap"
    BY DEF DanglingInv, BootstrapFirst
  <1>1. CASE PumpInitial
    <2>1. \A t \in transactionList : t.srv # "bootstrap"
      BY <1>1, <1>a DEF PumpInitial, Case, DanglingInv, BootstrapFirst
    <2> QED  BY <1>1, <2>1, DanglingUnchanged DEF PumpInitial, regVars
  <1>2. CASE RegisterRequired
    <2>1. \A t \in transactionList' : t \in transactionList \/ t.srv = "server"
      BY <1>2, StartList DEF RegisterRequired
    <2>2. \A t \in transactionList' : t.srv # "bootstrap"
      BY <1>2, <1>a, <2>1 DEF RegisterRequired, Case
    <2>3. CASE status' = [status EXCEPT !["server"] = "REG_PENDING"]
      BY <1>0, <1>2, <2>2, <2>3 DEF RegisterRequired, regVars, DanglingInv, SessionsKnown,
         BootstrapFirst, ServerLast, Fresh
    <2>4. CASE UNCHANGED <<status, transactionList>>
      BY <1>2, <1>a, <2>4, DanglingUnchanged DEF RegisterRequired, Case, regVars
    <2> QED  BY <1>2, <2>3, <2>4 DEF RegisterRequired, SetStatus
  <1>3. CASE Registering
    BY <1>3, <1>a, DanglingUnchanged DEF Registering, Case, regVars
  <1>4. CASE Ready
    BY <1>4, <1>a, DanglingUnchanged DEF Ready, Case, regVars
  <1>5. CASE Disconnected \/ UnregisterDone
    BY <1>5, DanglingNothing DEF Disconnected, UnregisterDone, FreeTransactions
  <1>6. CASE Unregister
    <2>1. CASE UNCHANGED <<status, transactionList>>
      BY <1>6, <2>1, DanglingUnchanged DEF Unregister, regVars
    <2>2. CASE ~UNCHANGED <<status, transactionList>>
      <3>1. \A t \in transactionList' : t \in transactionList \/ t.srv = "server"
        BY <1>6, StartList DEF Unregister
      <3>2. status["server"] \notin Fresh
        BY <1>6, <2>2 DEF Unregister, MustDeregister, DanglingInv, ServerLast
      <3>3. status' = status \/ status' = [status EXCEPT !["server"] = "DEREG_PENDING"]
        BY <1>6 DEF Unregister, SetStatus
      <3> QED
        BY <1>0, <1>6, <3>1, <3>2, <3>3 DEF Unregister, regVars, DanglingInv, SessionsKnown,
           BootstrapFirst, ServerLast, Fresh
    <2> QED  BY <2>1, <2>2
  <1> QED  BY <1>1, <1>2, <1>3, <1>4, <1>5, <1>6

\* A server in use stays in use: the answers, the timeouts and the application only move
\* it between the statuses of a server that was asked for something.
LEMMA DanglingInUse ==
    ASSUME PumpTypeOK, DanglingInv, bootstrapEnabled' = bootstrapEnabled,
           sessionH' = sessionH,
           stateStep' = stateStep \/ stateStep' = "UNREGISTER",
           \A t \in transactionList' : \E u \in transactionList : t.srv = u.srv,
           \E s \in Servers, st \in Statuses \ Fresh :
              status[s] \notin Fresh /\ status' = [status EXCEPT ![s] = st],
           location' = location \/ status'["server"] \notin Fresh
    PROVE  DanglingInv'
  <1> USE DEF Servers
  <1>0. status \in [Servers -> Statuses] /\ sessionH \in [Servers -> BOOLEAN]
    BY DEF PumpTypeOK
  <1> QED
    BY <1>0 DEF DanglingInv, SessionsKnown, BootstrapFirst, ServerLast, Fresh

\* The end of a transaction.
LEMMA FinishDangling ==
    ASSUME PumpTypeOK, DanglingInv, bootstrapEnabled' = bootstrapEnabled,
           sessionH' = sessionH, stateStep' = stateStep,
           NEW t \in transactionList, NEW result, Finish(t, result)
    PROVE  DanglingInv'
  <1>1. \A u \in transactionList' : u \in transactionList
    BY DEF Finish
  <1>2. CASE UNCHANGED <<status, location>>
    BY <1>1, <1>2 DEF DanglingInv, SessionsKnown, BootstrapFirst, ServerLast
  <1>3. CASE ~UNCHANGED <<status, location>>
    <2>1. status \in [Servers -> Statuses]
      BY DEF PumpTypeOK
    <2>2. CASE t.kind = "bs"
      <3>1. status["bootstrap"] = "BS_INITIATED"
            /\ \/ status' = [status EXCEPT !["bootstrap"] = "BS_PENDING"]
               \/ status' = [status EXCEPT !["bootstrap"] = "BS_FAILED"]
        BY <1>3, <2>2 DEF Finish, BootstrapReply, SetStatus, regVars
      <3>2. location' = location
        BY <2>2 DEF Finish, BootstrapReply, regVars
      <3> QED
        BY <1>1, <3>1, <3>2, DanglingInUse DEF Servers, Statuses, Fresh
    <2>3. CASE t.kind # "bs"
      <3>1. /\ status["server"] \in {"REG_PENDING", "REG_UPDATE_PENDING"}
            /\ \/ status' = [status EXCEPT !["server"] = "REGISTERED"]
               \/ status' = [status EXCEPT !["server"] = "REG_FAILED"]
        BY <1>3, <2>3 DEF Finish, RegistrationReply, SetStatus, regVars
      <3>2. status'["server"] \notin Fresh
        BY <2>1, <3>1 DEF Servers, Fresh
      <3> QED
        BY <1>1, <3>1, <3>2, DanglingInUse DEF Servers, Statuses, Granted, Fresh
    <2> QED  BY <2>2, <2>3
  <1> QED  BY <1>2, <1>3

LEMMA KeepDangling ==
    ASSUME DanglingInv, bootstrapEnabled' = bootstrapEnabled, sessionH' = sessionH,
           stateStep' = stateStep,
           NEW t \in transactionList, NEW u, u.srv = t.srv, Keep(t, u)
    PROVE  DanglingInv'
  BY DEF Keep, regVars, DanglingInv, SessionsKnown, BootstrapFirst, ServerLast

\* registration_step, transaction_step and packet_read.
LEMMA StepsDangling ==
    ASSUME PumpTypeOK, DanglingInv, UNCHANGED settings,
           \/ RegistrationStep \/ TransactionDue \/ TransactionWait
           \/ ReadNothing \/ ReadAnswer \/ ReadCommand
    PROVE  DanglingInv'
  <1>0. /\ status \in [Servers -> Statuses] /\ sessionH \in [Servers -> BOOLEAN]
        /\ transactionList \in SUBSET Transactions
    BY DEF PumpTypeOK
  <1>s. bootstrapEnabled' = bootstrapEnabled
    BY DEF settings
  <1>e. \A t \in transactionList : \A b :
           /\ [t EXCEPT !.ackReceived = b].srv = t.srv
           /\ [t EXCEPT !.retransCounter = b].srv = t.srv
    BY <1>0 DEF Transactions
  <1>1. CASE RegistrationStep
    <2>0. sessionH' = sessionH /\ location' = location
      BY <1>1 DEF RegistrationStep, Step
    <2>1. CASE UpdateRegistration /\ ~UNCHANGED <<status, transactionList>>
      <3>1. /\ status["server"] \in NeedsUpdate
            /\ status' = [status EXCEPT !["server"] = "REG_UPDATE_PENDING"]
            /\ stateStep' = stateStep
        BY <2>1 DEF UpdateRegistration, SetStatus
      <3>2. \A t \in transactionList' : t \in transactionList \/ t.srv = "server"
        BY <2>1, StartList DEF UpdateRegistration
      <3> QED
        BY <1>0, <1>s, <2>0, <3>1, <3>2 DEF DanglingInv, SessionsKnown, BootstrapFirst,
           ServerLast, Fresh, Servers, NeedsUpdate
    <2>2. CASE UNCHANGED <<status, transactionList>>
      <3>1. stateStep' = stateStep \/ stateStep' = "UNREGISTER"
        BY <1>1 DEF RegistrationStep, UpdateRegistration, WarnUpdateNeeded, LifetimeExpired,
           RegistrationIdle
      <3> QED  BY <1>s, <2>0, <2>2, <3>1, DanglingUnchanged
    <2>3. CASE WarnUpdateNeeded /\ ~UNCHANGED <<status, transactionList>>
      <3>1. /\ status["server"] = "REGISTERED"
            /\ status' = [status EXCEPT !["server"] = "REG_UPDATE_NEEDED"]
            /\ stateStep' = stateStep /\ transactionList' = transactionList
        BY <2>3 DEF WarnUpdateNeeded, SetStatus
      <3> QED
        BY <1>s, <2>0, <3>1, DanglingInUse DEF Servers, Statuses, Granted, Fresh
    <2> QED
      BY <1>1, <2>1, <2>2, <2>3 DEF RegistrationStep, LifetimeExpired, RegistrationIdle
  <1>2. CASE TransactionDue
    <2>1. sessionH' = sessionH /\ stateStep' = stateStep
      BY <1>2 DEF TransactionDue, Step
    <2>2. PICK t \in transactionList : Finish(t, "timeout") \/ Retransmit(t)
      BY <1>2 DEF TransactionDue
    <2>3. CASE Finish(t, "timeout")
      BY <1>s, <2>1, <2>3, FinishDangling
    <2>4. CASE Retransmit(t)
      BY <1>s, <1>e, <2>1, <2>4, KeepDangling DEF Retransmit
    <2> QED  BY <2>2, <2>3, <2>4
  <1>3. CASE TransactionWait \/ ReadNothing
    BY <1>3, <1>s, DanglingUnchanged DEF TransactionWait, ReadNothing, Step, regVars
  <1>4. CASE ReadAnswer
    <2>1. sessionH' = sessionH /\ stateStep' = stateStep
      BY <1>4 DEF ReadAnswer, Step
    <2> DEFINE m == Head(inbox[ReadFrom])
    <2>2. CASE \E t \in transactionList :
                 /\ AnswersTo(t, m)
                 /\ CASE m.type = "ack" -> Keep(t, [t EXCEPT !.ackReceived = TRUE])
                      [] m.type = "rst" -> Finish(t, "error")
                      [] m.code = "unauthorized" /\ MaxRetransmit > t.retransCounter ->
                            Keep(t, [t EXCEPT !.ackReceived = FALSE])
                      [] OTHER -> Finish(t, IF m.code = "ok" THEN "ok" ELSE "error")
      <3>1. PICK t \in transactionList :
                 \/ \E b \in BOOLEAN : Keep(t, [t EXCEPT !.ackReceived = b])
                 \/ \E result : Finish(t, result)
        BY <2>2, Zenon
      <3> QED  BY <1>s, <1>e, <2>1, <3>1, FinishDangling, KeepDangling
    <2>3. CASE UNCHANGED <<status, transactionList, event, forgotten, regVars>>
      BY <1>s, <2>1, <2>3, DanglingUnchanged DEF regVars
    <2> QED  BY <1>4, <2>2, <2>3 DEF ReadAnswer
  <1>5. CASE ReadCommand
    <2>1. /\ sessionH' = sessionH /\ stateStep' = stateStep /\ location' = location
          /\ transactionList' = transactionList
      BY <1>5 DEF ReadCommand, Step, regVars
    <2>2. CASE UNCHANGED status
      BY <1>s, <2>1, <2>2, DanglingUnchanged
    <2>3. CASE ~UNCHANGED status
      <3>1. /\ status["bootstrap"] \in {"BS_HOLD_OFF", "BS_INITIATED", "BS_PENDING"}
            /\ \/ status' = [status EXCEPT !["bootstrap"] = "BS_PENDING"]
               \/ status' = [status EXCEPT !["bootstrap"] = "BS_FINISHED"]
        BY <1>5, <2>3 DEF ReadCommand, SetStatus
      <3> QED  BY <1>s, <2>1, <3>1, DanglingInUse DEF Servers, Statuses, Fresh
    <2> QED  BY <2>2, <2>3
  <1> QED  BY <1>1, <1>2, <1>3, <1>4, <1>5

LEMMA EnvironmentDangling ==
    ASSUME PumpTypeOK, DanglingInv, UNCHANGED settings, Environment
    PROVE  DanglingInv'
  <1>s. bootstrapEnabled' = bootstrapEnabled
    BY DEF settings
  <1>1. CASE RequestUpdate
    <2>1. /\ status["server"] = "REGISTERED"
          /\ \E st \in NeedsUpdate : status' = [status EXCEPT !["server"] = st]
          /\ sessionH' = sessionH /\ stateStep' = stateStep /\ location' = location
          /\ transactionList' = transactionList
      BY <1>1 DEF RequestUpdate, SetStatus, regVars
    <2> QED
      BY <1>s, <2>1, DanglingInUse DEF Servers, Statuses, Granted, Fresh, NeedsUpdate
  <1>2. CASE ~RequestUpdate
    BY <1>2, <1>s, DanglingUnchanged
    DEF Environment, Register, RequestUnregister, Answer, BootstrapCommand, GrowOld, regVars
  <1> QED  BY <1>1, <1>2

\* The invariant holds always.
THEOREM DanglingInvHolds == PumpSpec => []DanglingInv
  <1>1. PumpTypeOK /\ DanglingInv /\ [PumpNext]_vars => DanglingInv'
    <2> SUFFICES ASSUME PumpTypeOK, DanglingInv, [PumpNext]_vars PROVE DanglingInv'
      OBVIOUS
    <2>1. CASE PumpNext
      <3>1. (Pump \/ Environment) /\ UNCHANGED settings
        BY <2>1 DEF PumpNext
      <3> QED
        BY <3>1, BootstrapDangling, ConnectingDangling, RegisteredDangling, StepsDangling,
           EnvironmentDangling DEF Pump
    <2>2. CASE UNCHANGED vars
      BY <2>2, DanglingUnchanged DEF vars, settings, client
    <2> QED  BY <2>1, <2>2
  <1> QED  BY DanglingInit, PumpTypeCorrect, <1>1, PTL DEF PumpSpec

\* No transaction outlives its server, however registration, update, bootstrap,
\* deregistration, failing connections and failing allocations follow each other:
\* transaction_send and the callbacks never follow the pointer to a freed server.
THEOREM NoTransactionDangles == PumpSpec => []NoDanglingTransaction
  <1>1. PumpTypeOK /\ DanglingInv => NoDanglingTransaction
    BY DEF PumpTypeOK, DanglingInv, SessionsKnown, BootstrapFirst, ServerLast,
           NoDanglingTransaction, Transactions, Servers, Fresh
  <1> QED  BY PumpTypeCorrect, DanglingInvHolds, <1>1, PTL
-----------------------------------------------------------------------------
(***************************************************************************)
(* Only a grant counts.                                                    *)
(***************************************************************************)
\* A positive answer that waits to be read was given by the remote side, on the
\* socket it waits at.
GrantsAreTrue ==
    \A s \in Servers : \A i \in 1 .. Len(inbox[s]) :
        inbox[s][i] \in Answers /\ inbox[s][i].code = "ok" => inbox[s][i].mid \in confirmed[s]

\* The steps that leave the sockets alone, but for what is sent.
LEMMA PumpKeepsInbox ==
    ASSUME PumpNext
    PROVE  \/ inbox' = inbox /\ confirmed' = confirmed
           \/ \E S \in SUBSET Servers : CloseSessions(S)
           \/ /\ ReadAnswer \/ ReadCommand
              /\ inbox[ReadFrom] # << >> /\ inbox' = [inbox EXCEPT ![ReadFrom] = Tail(@)]
              /\ confirmed' = confirmed
           \/ \E s \in Servers : Answer(s)
           \/ BootstrapCommand
  <1>1. CASE Bootstrapping
    BY <1>1 DEF Bootstrapping, BootstrapCreate, BootstrapConnect, BootstrapRequest,
       BootstrapWait, BootstrapTimeout, BootstrapEnd, BootstrapDestroy, DestroyServers,
       StartTransaction, netVars, Servers
  <1>2. CASE Connecting
    BY <1>2 DEF Connecting, ConnectingCreate, ConnectingNoServer, ConnectingConnect,
       ConnectingConnected, ConnectingFailed, DestroyServers, netVars
  <1>3. CASE PumpInitial \/ RegisterRequired \/ Registering \/ Ready
    BY <1>3 DEF PumpInitial, RegisterRequired, Registering, Ready, StartTransaction, netVars
  <1>4. CASE Disconnected \/ Unregister \/ UnregisterDone
    BY <1>4 DEF Disconnected, Unregister, UnregisterDone, DestroyServers, StartTransaction,
       netVars
  <1>5. CASE RegistrationStep
    BY <1>5 DEF RegistrationStep, UpdateRegistration, WarnUpdateNeeded, LifetimeExpired,
       RegistrationIdle, StartTransaction, netVars
  <1>6. CASE TransactionDue \/ TransactionWait \/ ReadNothing
    BY <1>6 DEF TransactionDue, TransactionWait, ReadNothing, netVars
  <1>7. CASE ReadAnswer \/ ReadCommand
    BY <1>7 DEF ReadAnswer, ReadCommand
  <1>8. CASE Register \/ RequestUnregister \/ RequestUpdate \/ GrowOld
    BY <1>8 DEF Register, RequestUnregister, RequestUpdate, GrowOld, netVars
  <1> QED
    BY <1>1, <1>2, <1>3, <1>4, <1>5, <1>6, <1>7, <1>8 DEF PumpNext, Pump, Environment

LEMMA AppendGrant ==
    ASSUME PumpTypeOK, GrantsAreTrue, NEW s \in Servers, NEW m \in Answers \cup Commands,
           inbox' = [inbox EXCEPT ![s] = Append(@, m)],
           \A r \in Servers : confirmed[r] \subseteq confirmed'[r],
           m \in Answers /\ m.code = "ok" => m.mid \in confirmed'[s]
    PROVE  GrantsAreTrue'
  <1>1. inbox \in [Servers -> Seq(Answers \cup Commands)]
    BY DEF PumpTypeOK
  <1>2. /\ Len(Append(inbox[s], m)) = Len(inbox[s]) + 1
        /\ \A i \in 1 .. Len(inbox[s]) : Append(inbox[s], m)[i] = inbox[s][i]
        /\ Append(inbox[s], m)[Len(inbox[s]) + 1] = m
        /\ Len(inbox[s]) \in Nat
    BY <1>1, AppendProperties, LenProperties
  <1> SUFFICES ASSUME NEW r \in Servers, NEW i \in 1 .. Len(inbox'[r]),
                      inbox'[r][i] \in Answers, inbox'[r][i].code = "ok"
               PROVE  inbox'[r][i].mid \in confirmed'[r]
    BY DEF GrantsAreTrue
  <1>3. CASE r # s
    BY <1>1, <1>3 DEF GrantsAreTrue
  <1>4. CASE r = s
    <2>1. inbox'[s] = Append(inbox[s], m)
      BY <1>1
    <2>2. CASE i \in 1 .. Len(inbox[s])
      BY <1>2, <1>4, <2>1, <2>2 DEF GrantsAreTrue
    <2>3. CASE i = Len(inbox[s]) + 1
      BY <1>2, <1>4, <2>1, <2>3
    <2> QED  BY <1>2, <1>4, <2>1, <2>2, <2>3
  <1> QED  BY <1>3, <1>4

LEMMA GrantsStep == PumpTypeOK /\ GrantsAreTrue /\ [PumpNext]_vars => GrantsAreTrue'
  <1> SUFFICES ASSUME PumpTypeOK, GrantsAreTrue, [PumpNext]_vars PROVE GrantsAreTrue'
    OBVIOUS
  <1>0. /\ inbox \in [Servers -> Seq(Answers \cup Commands)]
        /\ confirmed \in [Servers -> SUBSET (0 .. MaxMid - 1)]
    BY DEF PumpTypeOK
  <1>1. CASE inbox' = inbox /\ confirmed' = confirmed
    BY <1>1 DEF GrantsAreTrue
  <1>2. CASE \E S \in SUBSET Servers : CloseSessions(S)
    <2>1. PICK S \in SUBSET Servers : CloseSessions(S)
      BY <1>2
    <2>2. ASSUME NEW s \in Servers
          PROVE  \/ inbox'[s] = << >>
                 \/ inbox'[s] = inbox[s] /\ confirmed'[s] = confirmed[s]
      BY <1>0, <2>1 DEF CloseSessions
    <2>3. Len(<< >>) = 0
      BY EmptySeq
    <2> QED  BY <2>2, <2>3 DEF GrantsAreTrue
  <1>3. CASE /\ inbox[ReadFrom] # << >> /\ inbox' = [inbox EXCEPT ![ReadFrom] = Tail(@)]
             /\ confirmed' = confirmed
    <2>1. ReadFrom \in Servers
      BY DEF ReadFrom, Servers
    <2> DEFINE q == inbox[ReadFrom]
    <2>2. q \in Seq(Answers \cup Commands) /\ Len(q) \in Nat
      BY <1>0, <2>1, LenProperties
    <2>3. /\ Len(Tail(q)) = Len(q) - 1
          /\ \A i \in 1 .. Len(Tail(q)) : Tail(q)[i] = q[i + 1]
      BY <1>3, <2>2, HeadTailProperties
    <2>4. ASSUME NEW s \in Servers, NEW i \in 1 .. Len(inbox'[s])
          PROVE  \E j \in 1 .. Len(inbox[s]) : inbox'[s][i] = inbox[s][j]
      <3>1. CASE s # ReadFrom
        BY <1>0, <1>3, <2>4, <3>1
      <3>2. CASE s = ReadFrom
        <4>1. inbox'[s] = Tail(q)
          BY <1>0, <1>3, <3>2
        <4>2. i \in 1 .. Len(q) - 1 /\ Tail(q)[i] = q[i + 1]
          BY <2>3, <2>4, <4>1
        <4>3. i + 1 \in 1 .. Len(q)
          BY <2>2, <4>2
        <4> QED  BY <3>2, <4>1, <4>2, <4>3
      <3> QED  BY <3>1, <3>2
    <2> QED  BY <1>3, <2>4 DEF GrantsAreTrue
  <1>4. CASE \E s \in Servers : Answer(s)
    <2>1. PICK s \in Servers : Answer(s)
      BY <1>4
    <2>2. PICK r \in sent[s], m \in Answers :
             /\ m.mid = r.mid
             /\ inbox' = [inbox EXCEPT ![s] = Append(@, m)]
             /\ confirmed' = (IF m.code = "ok" THEN [confirmed EXCEPT ![s] = @ \cup {r.mid}]
                              ELSE confirmed)
      BY <2>1 DEF Answer
    <2>3. /\ \A x \in Servers : confirmed[x] \subseteq confirmed'[x]
          /\ m.code = "ok" => m.mid \in confirmed'[s]
      BY <1>0, <2>2
    <2> QED  BY <2>2, <2>3, AppendGrant
  <1>5. CASE BootstrapCommand
    <2>1. PICK m \in Commands : inbox' = [inbox EXCEPT !["bootstrap"] = Append(@, m)]
      BY <1>5 DEF BootstrapCommand
    <2>2. m \notin Answers
      <3>1. DOMAIN m = {"type"}
        BY <2>1 DEF Commands
      <3>2. \A a \in Answers : "mid" \in DOMAIN a
        BY DEF Answers
      <3> QED  BY <3>1, <3>2
    <2>3. confirmed' = confirmed /\ "bootstrap" \in Servers
      BY <1>5 DEF BootstrapCommand, Servers
    <2> QED  BY <2>1, <2>2, <2>3, AppendGrant
  <1>6. CASE UNCHANGED vars
    BY <1>1, <1>6 DEF vars, client
  <1> QED  BY <1>1, <1>2, <1>3, <1>4, <1>5, <1>6, PumpKeepsInbox

LEMMA GrantsInit == PumpInit => GrantsAreTrue
  <1> SUFFICES ASSUME PumpInit PROVE GrantsAreTrue
    OBVIOUS
  <1>1. \A s \in Servers : inbox[s] = << >>
    BY DEF PumpInit
  <1>2. Len(<< >>) = 0
    BY EmptySeq
  <1> QED  BY <1>1, <1>2 DEF GrantsAreTrue

\* Only the callbacks report a registration as done.
LEMMA OnlyCallbacksRegister ==
    ASSUME PumpTypeOK, PumpNext,
           status'["server"] = "REGISTERED", status["server"] # "REGISTERED"
    PROVE  TransactionDue \/ ReadAnswer
  <1>0. status \in [Servers -> Statuses]
    BY DEF PumpTypeOK
  <1>1. CASE Bootstrapping
    BY <1>0, <1>1 DEF Bootstrapping, BootstrapCreate, BootstrapConnect, BootstrapRequest,
       BootstrapWait, BootstrapTimeout, BootstrapEnd, BootstrapDestroy, DestroyServers,
       SetStatus, Servers
  <1>2. CASE Connecting
    BY <1>0, <1>2 DEF Connecting, ConnectingCreate, ConnectingNoServer, ConnectingConnect,
       ConnectingConnected, ConnectingFailed, DestroyServers, SetStatus, Servers
  <1>3. CASE PumpInitial \/ RegisterRequired \/ Registering \/ Ready
    BY <1>0, <1>3 DEF PumpInitial, RegisterRequired, Registering, Ready, SetStatus, Servers
  <1>4. CASE Disconnected \/ Unregister \/ UnregisterDone
    BY <1>0, <1>4 DEF Disconnected, Unregister, UnregisterDone, DestroyServers, SetStatus, Servers
  <1>5. CASE RegistrationStep
    BY <1>0, <1>5 DEF RegistrationStep, UpdateRegistration, WarnUpdateNeeded,
       LifetimeExpired, RegistrationIdle, SetStatus, Servers
  <1>6. CASE TransactionWait \/ ReadNothing \/ ReadCommand
    BY <1>0, <1>6 DEF TransactionWait, ReadNothing, ReadCommand, SetStatus, Servers
  <1>7. CASE Environment
    BY <1>0, <1>7 DEF Environment, Register, RequestUnregister, RequestUpdate, Answer,
       BootstrapCommand, GrowOld, SetStatus, NeedsUpdate, Servers
  <1> QED
    BY <1>1, <1>2, <1>3, <1>4, <1>5, <1>6, <1>7 DEF PumpNext, Pump

\* What has to be the case for a callback to do so.
LEMMA OnlyOkRegisters ==
    ASSUME PumpTypeOK, NEW t, NEW result, Finish(t, result),
           status'["server"] = "REGISTERED", status["server"] # "REGISTERED"
    PROVE  result = "ok" /\ status["server"] \in {"REG_PENDING", "REG_UPDATE_PENDING"}
  BY DEF PumpTypeOK, Finish, RegistrationReply, BootstrapReply, SetStatus, Servers

LEMMA GrantedStep ==
    ASSUME PumpTypeOK, GrantsAreTrue, PumpNext,
           status'["server"] = "REGISTERED", status["server"] # "REGISTERED"
    PROVE  \E t \in transactionList \ transactionList' :
              t.srv = "server" /\ t.mid \in confirmed["server"]
  <1>1. CASE TransactionDue
    <2>1. PICK t \in transactionList : Finish(t, "timeout") \/ Retransmit(t)
      BY <1>1 DEF TransactionDue
    <2> QED  BY <2>1, OnlyOkRegisters DEF Retransmit, Keep
  <1>2. CASE ReadAnswer
    <2> DEFINE m == Head(inbox[ReadFrom])
    <2>1. PICK t \in transactionList :
             /\ AnswersTo(t, m)
             /\ CASE m.type = "ack" -> Keep(t, [t EXCEPT !.ackReceived = TRUE])
                  [] m.type = "rst" -> Finish(t, "error")
                  [] m.code = "unauthorized" /\ MaxRetransmit > t.retransCounter ->
                        Keep(t, [t EXCEPT !.ackReceived = FALSE])
                  [] OTHER -> Finish(t, IF m.code = "ok" THEN "ok" ELSE "error")
      BY <1>2 DEF ReadAnswer
    <2>2. \/ \E u : Keep(t, u)
          \/ Finish(t, "error")
          \/ m.code = "ok" /\ Finish(t, "ok")
      BY <2>1, Zenon
    <2>3. m.code = "ok" /\ Finish(t, "ok")
      BY <2>2, OnlyOkRegisters DEF Keep
    <2>4. ReadFrom = "server"
      BY <2>3, OnlyOkRegisters DEF ReadFrom
    <2>5. t.srv = "server" /\ t.mid = m.mid
      BY <2>1, <2>4 DEF AnswersTo
    <2>6. m \in Answers /\ inbox["server"] # << >>
      BY <1>2, <2>4 DEF ReadAnswer
    <2>7. inbox["server"] \in Seq(Answers \cup Commands)
      BY DEF PumpTypeOK, Servers
    <2>8. m = inbox["server"][1] /\ 1 \in 1 .. Len(inbox["server"])
      BY <2>4, <2>6, <2>7, HeadTailProperties, LenProperties, EmptySeq
    <2>9. m.mid \in confirmed["server"]
      BY <2>3, <2>6, <2>8 DEF GrantsAreTrue, Servers
    <2> QED  BY <2>3, <2>5, <2>9 DEF Finish
  <1> QED  BY <1>1, <1>2, OnlyCallbacksRegister

\* A registration or an update only counts as done when the remote side has granted
\* the request it was waiting for, whatever is lost, repeated or late.
THEOREM OnlyGrantsCount == PumpSpec => DoneWasGranted
  <1>1. PumpTypeOK /\ GrantsAreTrue /\ [PumpNext]_vars =>
          [status'["server"] = "REGISTERED" /\ status["server"] # "REGISTERED" =>
             \E t \in transactionList \ transactionList' :
                t.srv = "server" /\ t.mid \in confirmed["server"]]_vars
    BY GrantedStep
  <1> QED  BY PumpTypeCorrect, GrantsInit, GrantsStep, <1>1, PTL DEF PumpSpec, DoneWasGranted
-----------------------------------------------------------------------------
(***************************************************************************)
(* The pump implements the service.                                        *)
(***************************************************************************)
\* What the server can be like in each state of the pump.
StatusFits ==
    /\ stateStep \in {"INITIAL", "BOOTSTRAPPING"} =>
          status["server"] \in {"NULL", "CONNECT_FAILED"}
    /\ stateStep = "CONNECTING" => status["server"] \in Fresh
    /\ stateStep = "REGISTER_REQUIRED" => status["server"] \in {"CONNECTED", "REG_PENDING"}
    /\ stateStep = "REGISTERING" =>
          status["server"] \in Granted \cup {"REG_PENDING", "REG_FAILED"}
    /\ stateStep = "READY" => status["server"] \in Granted \cup {"REG_FAILED"}
    /\ stateStep = "DISCONNECTED" => status["server"] = "REG_FAILED"

\* The steps after the switch only run in these states.
StepsRun ==
    pc \in {"registration_step", "transaction_step", "packet_read"} =>
        stateStep \in {"BOOTSTRAPPING", "REGISTERING", "READY", "UNREGISTER"}

\* A connection is reported when the pump is about to register, and no other event
\* comes before the registration has an answer.
ConnectionReported ==
    /\ event = "CONNECT_SUCCESS" =>
          /\ status["server"] \in {"CONNECTED", "REG_PENDING"}
          /\ stateStep \in {"REGISTER_REQUIRED", "REGISTERING", "UNREGISTER"}
    /\ stateStep = "REGISTER_REQUIRED" /\ status["server"] = "CONNECTED" =>
          event = "CONNECT_SUCCESS"

\* The statuses of bootstrap are not those of the server.
ServerKinds ==
    status["server"] \in Fresh \cup Granted \cup {"REG_PENDING", "REG_FAILED", "DEREG_PENDING"}

LinkInv == StatusFits /\ StepsRun /\ ConnectionReported /\ ServerKinds

LEMMA LinkInit == PumpInit => LinkInv
  BY DEF PumpInit, LinkInv, StatusFits, StepsRun, ConnectionReported, ServerKinds, Fresh,
         Servers

\* What the callbacks do to the server.
LEMMA FinishMoves ==
    ASSUME PumpTypeOK, NEW t, NEW result \in {"ok", "error", "timeout"}, Finish(t, result)
    PROVE  \/ status'["server"] = status["server"] /\ event' = event
           \/ /\ status["server"] = "REG_PENDING" /\ status'["server"] = "REGISTERED"
              /\ event' = "REG_SUCCESS"
           \/ /\ status["server"] = "REG_PENDING" /\ status'["server"] = "REG_FAILED"
              /\ event' \in {"REG_FAILED", "REG_TIMEOUT"}
           \/ /\ status["server"] = "REG_UPDATE_PENDING" /\ status'["server"] = "REGISTERED"
              /\ event' = "UPDATE_SUCCESS"
           \/ /\ status["server"] = "REG_UPDATE_PENDING" /\ status'["server"] = "REG_FAILED"
              /\ event' \in {"UPDATE_FAILED", "UPDATE_TIMEOUT"}
  BY DEF PumpTypeOK, Finish, RegistrationReply, BootstrapReply, SetStatus, Servers, regVars

\* What the link is.
LEMMA LinkValues ==
    ASSUME NEW st \in Statuses, NEW ev
    PROVE  /\ st = "REG_UPDATE_PENDING" => LinkOf(st, ev) = "updating"
           /\ st \in Granted \ {"REG_UPDATE_PENDING"} => LinkOf(st, ev) = "registered"
           /\ st = "DEREG_PENDING" => LinkOf(st, ev) = "leaving"
           /\ st = "REG_PENDING" => LinkOf(st, ev) = "connected"
           /\ st = "CONNECTED" /\ ev = "CONNECT_SUCCESS" => LinkOf(st, ev) = "connected"
           /\ st = "CONNECTED" /\ ev # "CONNECT_SUCCESS" => LinkOf(st, ev) = "down"
           /\ st \in Statuses \ (Granted \cup {"DEREG_PENDING", "REG_PENDING", "CONNECTED"}) =>
                 LinkOf(st, ev) = "down"
  BY DEF LinkOf, Statuses, Granted

\* An answer is kept in the transaction, ends it or is dropped.
LEMMA AnswerMoves ==
    ASSUME ReadAnswer
    PROVE  \/ \E t, u : Keep(t, u)
           \/ \E t : \E result \in {"ok", "error", "timeout"} : Finish(t, result)
           \/ UNCHANGED <<status, event>>
  <1> DEFINE m == Head(inbox[ReadFrom])
  <1>1. ASSUME NEW t \in transactionList,
               CASE m.type = "ack" -> Keep(t, [t EXCEPT !.ackReceived = TRUE])
                 [] m.type = "rst" -> Finish(t, "error")
                 [] m.code = "unauthorized" /\ MaxRetransmit > t.retransCounter ->
                       Keep(t, [t EXCEPT !.ackReceived = FALSE])
                 [] OTHER -> Finish(t, IF m.code = "ok" THEN "ok" ELSE "error")
        PROVE  (\E u : Keep(t, u)) \/ Finish(t, "error") \/ Finish(t, "ok")
    BY <1>1, Zenon
  <1>2. CASE UNCHANGED <<status, transactionList, event, forgotten, regVars>>
    BY <1>2
  <1> QED  BY <1>1, <1>2 DEF ReadAnswer

\* The steps that move the server, the state or the event, one by one.
LEMMA LinkStep ==
    ASSUME PumpTypeOK, DanglingInv, LinkInv, PumpNext
    PROVE  LinkInv'
  <1>0. status \in [Servers -> Statuses] /\ stateStep \in States
    BY DEF PumpTypeOK
  <1> USE DEF LinkInv, StatusFits, StepsRun, ConnectionReported, ServerKinds, Servers, Fresh, Granted
  <1>1. CASE Bootstrapping
    BY <1>0, <1>1 DEF Bootstrapping, BootstrapCreate, BootstrapConnect, BootstrapRequest,
       BootstrapWait, BootstrapTimeout, BootstrapEnd, BootstrapDestroy, DestroyServers,
       SetStatus, Case, ReturnEarly, GoOn
  <1>2. CASE Connecting
    BY <1>0, <1>2 DEF Connecting, ConnectingCreate, ConnectingNoServer, ConnectingConnect,
       ConnectingConnected, ConnectingFailed, DestroyServers, SetStatus, Case, ReturnEarly
  <1>3. CASE PumpInitial
    BY <1>0, <1>3 DEF PumpInitial, Case, ReturnEarly
  <1>4. CASE RegisterRequired
    BY <1>0, <1>4 DEF RegisterRequired, SetStatus, Case, ReturnEarly, GoOn
  <1>5. CASE Registering \/ Ready
    BY <1>0, <1>5 DEF Registering, Ready, Case, ReturnEarly, GoOn
  <1>6. CASE Disconnected \/ UnregisterDone
    BY <1>0, <1>6 DEF Disconnected, UnregisterDone, DestroyServers, Case, ReturnEarly
  <1>7. CASE Unregister
    BY <1>0, <1>7 DEF Unregister, MustDeregister, SetStatus, Case
  <1>8. CASE RegistrationStep
    BY <1>0, <1>8 DEF RegistrationStep, Step, UpdateRegistration, WarnUpdateNeeded,
       LifetimeExpired, RegistrationIdle, SetStatus, NeedsUpdate
  <1>9. CASE TransactionDue
    <2>1. PICK t \in transactionList : Finish(t, "timeout") \/ Retransmit(t)
      BY <1>9 DEF TransactionDue
    <2>2. CASE Finish(t, "timeout")
      BY <1>0, <1>9, <2>2, FinishMoves DEF TransactionDue, Step
    <2>3. CASE Retransmit(t)
      BY <1>0, <1>9, <2>3 DEF TransactionDue, Step, Retransmit, Keep
    <2> QED  BY <2>1, <2>2, <2>3
  <1>10. CASE TransactionWait \/ ReadNothing \/ ReadCommand
    BY <1>0, <1>10 DEF TransactionWait, ReadNothing, ReadCommand, SetStatus, Step
  <1>11. CASE ReadAnswer
    <2>1. \/ \E t, u : Keep(t, u)
          \/ \E t : \E result \in {"ok", "error", "timeout"} : Finish(t, result)
          \/ UNCHANGED <<status, event>>
      BY <1>11, AnswerMoves
    <2> QED  BY <1>0, <1>11, <2>1, FinishMoves DEF ReadAnswer, Step, Keep
  <1>12. CASE Environment
    BY <1>0, <1>12 DEF Environment, Register, RequestUnregister, RequestUpdate, Answer,
       BootstrapCommand, GrowOld, SetStatus, NeedsUpdate
  <1> QED
    BY <1>1, <1>2, <1>3, <1>4, <1>5, <1>6, <1>7, <1>8, <1>9, <1>10, <1>11, <1>12
    DEF PumpNext, Pump

\* Every step of the pump is a step of the service, or none.
LEMMA ServiceStep ==
    ASSUME PumpTypeOK, PumpTypeOK', DanglingInv, LinkInv, PumpNext
    PROVE  [Service!ServiceNext]_(Service!serviceVars)
  <1> DEFINE st == status["server"]
             link == LinkOf(st, event)
  <1>0. /\ status \in [Servers -> Statuses] /\ status' \in [Servers -> Statuses]
        /\ st \in Statuses /\ st' \in Statuses
    BY DEF PumpTypeOK, Servers
  <1>l. /\ st = "REG_UPDATE_PENDING" => link = "updating"
        /\ st \in Granted \ {"REG_UPDATE_PENDING"} => link = "registered"
        /\ st = "REG_PENDING" => link = "connected"
        /\ st = "CONNECTED" => link = (IF event = "CONNECT_SUCCESS" THEN "connected" ELSE "down")
        /\ st \in {"NULL", "CREATED", "CONNECT_FAILED", "REG_FAILED"} => link = "down"
    BY <1>0, LinkValues DEF Statuses, Granted
  <1>m. /\ st' = "REG_UPDATE_PENDING" => link' = "updating"
        /\ st' \in Granted \ {"REG_UPDATE_PENDING"} => link' = "registered"
        /\ st' = "DEREG_PENDING" => link' = "leaving"
        /\ st' = "REG_PENDING" => link' = "connected"
        /\ st' = "CONNECTED" =>
              link' = (IF event' = "CONNECT_SUCCESS" THEN "connected" ELSE "down")
        /\ st' \in {"NULL", "CREATED", "CONNECT_FAILED", "REG_FAILED"} => link' = "down"
    BY <1>0, LinkValues DEF Statuses, Granted
  <1>s. st' = st /\ event' = event => link' = link
    OBVIOUS
  <1> HIDE DEF link
  <1> SUFFICES \/ link' = link /\ event' = event
               \/ link = "down" /\ link' = "connected" /\ event' = "CONNECT_SUCCESS"
               \/ /\ link = "down" /\ link' = "down"
                  /\ event' \in {"BOOTSTRAP_START", "BOOTSTRAP_SUCCESS", "BOOTSTRAP_FAILED",
                                 "CONNECT_FAILED"}
               \/ link = "connected" /\ link' = "registered" /\ event' = "REG_SUCCESS"
               \/ link = "connected" /\ link' = "down" /\ event' \in {"REG_FAILED", "REG_TIMEOUT"}
               \/ /\ link = "registered" /\ link' = "registered"
                  /\ event' \in {"UPDATE_NEED", "LIFETIME_TIMEOUT"}
               \/ link = "registered" /\ link' = "updating" /\ event' = event
               \/ link = "updating" /\ link' = "registered" /\ event' = "UPDATE_SUCCESS"
               \/ /\ link = "updating" /\ link' = "down"
                  /\ event' \in {"UPDATE_FAILED", "UPDATE_TIMEOUT"}
               \/ link \in {"registered", "updating"} /\ link' = "leaving" /\ event' = event
               \/ link' = "down" /\ event' = "UNREG_DONE"
    BY DEF link, Link, Service!ServiceNext, Service!serviceVars, Service!Report,
           Service!Connected, Service!StillDown, Service!Registered,
           Service!RegistrationFailed, Service!Warned, Service!UpdateSent, Service!Updated,
           Service!UpdateFailed, Service!Leave, Service!Unregistered
  <1> USE DEF Servers, Fresh, Granted
  <1>1. CASE Bootstrapping
    <2>1. st' = st /\ st \in {"NULL", "CONNECT_FAILED"}
      BY <1>0, <1>1 DEF Bootstrapping, BootstrapCreate, BootstrapConnect, BootstrapRequest,
         BootstrapWait, BootstrapTimeout, BootstrapEnd, BootstrapDestroy, DestroyServers,
         SetStatus, Case, LinkInv, StatusFits
    <2>2. event' \in {event, "BOOTSTRAP_START", "BOOTSTRAP_SUCCESS", "BOOTSTRAP_FAILED"}
      BY <1>1 DEF Bootstrapping, BootstrapCreate, BootstrapConnect, BootstrapRequest,
         BootstrapWait, BootstrapTimeout, BootstrapEnd
    <2> QED  BY <1>l, <1>m, <2>1, <2>2
  <1>2. CASE Connecting
    <2>1. event # "CONNECT_SUCCESS" /\ st \in Fresh
      BY <1>2 DEF Connecting, ConnectingCreate, ConnectingNoServer, ConnectingConnect,
         ConnectingConnected, ConnectingFailed, Case, LinkInv, StatusFits, ConnectionReported
    <2> QED
      BY <1>0, <1>2, <1>l, <1>m, <2>1 DEF Connecting, ConnectingCreate, ConnectingNoServer,
         ConnectingConnect, ConnectingConnected, ConnectingFailed, DestroyServers, SetStatus
  <1>3. CASE PumpInitial \/ Registering \/ Ready
    BY <1>3, <1>s DEF PumpInitial, Registering, Ready
  <1>4. CASE RegisterRequired
    BY <1>0, <1>4, <1>l, <1>m, <1>s DEF RegisterRequired, SetStatus, Case, LinkInv,
       ConnectionReported
  <1>5. CASE Disconnected \/ UnregisterDone
    BY <1>0, <1>5, <1>l, <1>m DEF Disconnected, UnregisterDone, DestroyServers, Case, LinkInv,
       StatusFits
  <1>6. CASE Unregister
    <2>1. CASE st' = st /\ event' = event
      BY <1>s, <2>1
    <2>2. CASE MustDeregister /\ st' = "DEREG_PENDING" /\ event' = event
      <3>1. st \in Granted
        BY <2>2 DEF MustDeregister, DanglingInv, ServerLast, LinkInv, ServerKinds
      <3> QED  BY <1>l, <1>m, <2>2, <3>1
    <2> QED  BY <1>0, <1>6, <2>1, <2>2 DEF Unregister, SetStatus
  <1>7. CASE RegistrationStep
    BY <1>0, <1>7, <1>l, <1>m, <1>s DEF RegistrationStep, Step, UpdateRegistration,
       WarnUpdateNeeded, LifetimeExpired, RegistrationIdle, SetStatus, NeedsUpdate
  <1>8. ASSUME NEW t, NEW result \in {"ok", "error", "timeout"}, Finish(t, result)
        PROVE  \/ link' = link /\ event' = event
               \/ link = "connected" /\ link' = "registered" /\ event' = "REG_SUCCESS"
               \/ link = "connected" /\ link' = "down" /\ event' \in {"REG_FAILED", "REG_TIMEOUT"}
               \/ link = "updating" /\ link' = "registered" /\ event' = "UPDATE_SUCCESS"
               \/ /\ link = "updating" /\ link' = "down"
                  /\ event' \in {"UPDATE_FAILED", "UPDATE_TIMEOUT"}
    BY <1>8, <1>l, <1>m, <1>s, FinishMoves
  <1>9. CASE TransactionDue
    <2>1. PICK t \in transactionList : Finish(t, "timeout") \/ Retransmit(t)
      BY <1>9 DEF TransactionDue
    <2> QED  BY <1>s, <1>8, <2>1 DEF Retransmit, Keep
  <1>10. CASE TransactionWait \/ ReadNothing \/ ReadCommand
    BY <1>0, <1>10, <1>s DEF TransactionWait, ReadNothing, ReadCommand, SetStatus
  <1>11. CASE ReadAnswer
    <2>1. CASE st' = st /\ event' = event
      BY <1>s, <2>1
    <2> QED  BY <1>8, <1>11, <2>1, AnswerMoves DEF Keep
  <1>12. CASE Environment
    <2>1. CASE RequestUpdate
      BY <1>0, <1>l, <1>m, <2>1 DEF RequestUpdate, SetStatus, NeedsUpdate
    <2> QED
      BY <1>12, <1>s, <2>1 DEF Environment, Register, RequestUnregister, Answer,
         BootstrapCommand, GrowOld
  <1> QED
    BY <1>1, <1>2, <1>3, <1>4, <1>5, <1>6, <1>7, <1>9, <1>10, <1>11, <1>12 DEF PumpNext, Pump

\* The events tell the application, one for one, how its link to the server moves,
\* in every behaviour of the pump and of the network.
THEOREM PumpImplementsService == PumpSpec => ImplementsService
  <1>1. PumpInit => Service!ServiceInit
    BY LinkValues DEF PumpInit, Service!ServiceInit, Link, Servers, Statuses, Granted
  <1>2. LinkInv /\ UNCHANGED vars => LinkInv'
    BY DEF LinkInv, StatusFits, StepsRun, ConnectionReported, ServerKinds, vars, client
  <1>3. (UNCHANGED vars) => UNCHANGED Service!serviceVars
    BY DEF vars, client, Service!serviceVars, Link
  <1>4. PumpTypeOK /\ DanglingInv /\ LinkInv /\ [PumpNext]_vars => LinkInv'
    BY <1>2, LinkStep
  <1>5. PumpTypeOK /\ PumpTypeOK' /\ DanglingInv /\ LinkInv /\ [PumpNext]_vars
           => [Service!ServiceNext]_(Service!serviceVars)
    BY <1>3, ServiceStep
  <1> QED
    BY <1>1, <1>4, <1>5, LinkInit, PumpTypeCorrect, DanglingInvHolds, PTL
    DEF PumpSpec, ImplementsService, Service!ServiceSpec
=============================================================================
