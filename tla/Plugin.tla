------------------------------- MODULE Plugin -------------------------------
(***************************************************************************)
(* The plugin as the host sees it: plugin_init(), plugin_start(),          *)
(* plugin_reconfigure() and plugin_shutdown() in one thread of the host,   *)
(* plugin_operation() in others, and what they share with the threads of   *)
(* the client: m_client, m_config (module ClientConfig), m_activeConnection *)
(* and the life of the client and its connections.                         *)
(*                                                                         *)
(* The threads of a client appear as its monitoring thread, which sets and *)
(* clears m_activeConnection, and one lib60870 thread, which hands ASDUs   *)
(* to IEC104Client::handleASDU(); ClientConnections has them in full.      *)
(*                                                                         *)
(* Use of an object that does not exist is undefined; the model stops      *)
(* there and keeps which thread it was and which object it missed.         *)
(***************************************************************************)
EXTENDS ClientConfig, SequenceFilter

CONSTANTS
    Operators,            \* threads of the host that call plugin_operation()
    Requests,             \* what they may ask for
    Asdus,                \* what the outstation may send
    MaxReconfigurations,  \* a bound: the host may go on for ever
    NoClient, NoFault

Clients == 1..MaxReconfigurations + 1      \* in the order of their creation
Lib60870 == "lib60870"
Threads == Operators \cup {Lib60870}

Calls ==
    [entry : {"none", "init", "start", "reconfigure", "shutdown"},
     asset : BOOLEAN]      \* the configuration it is given has an "asset"

(* A command has its number of parameters and whether its time converts.   *)
IsRequest(r) ==
    \/ /\ r.operation = "IEC104Command" /\ r.type \in STRING
       /\ r.addr \in Addresses /\ r.count \in Nat /\ r.stamped \in BOOLEAN
    \/ r.operation \in {"CS104_Connection_sendInterrogationCommand",
                        "request_connection_status", "north_status"}

ASSUME PluginAssumption ==
    /\ MaxReconfigurations \in Nat
    /\ NoClient \notin Clients
    /\ Lib60870 \notin Operators
    /\ \A r \in Requests : IsRequest(r)
    /\ \A a \in Asdus : /\ a.elements \in Seq(Addresses)
                        /\ a.interrogated \in BOOLEAN

VARIABLES
    control,        \* where the host's thread is
    call,           \* the entry point it called last
    calls,          \* calls of plugin_reconfigure()
    client,         \* m_client
    created,        \* clients made so far
    monitor,        \* of each client: its monitoring thread
    connections,    \* its m_connections, each of which refers to it
    onConfig,       \* the clients whose m_config is that of the plugin
    commanded,      \* the commands the client made last has sent
    stuck,          \* the clients of which a connection waits for itself
    active,         \* m_activeConnection is not nullptr
    handler,        \* handleASDU() of the lib60870 thread
    thread,         \* of each operator: where it is in operation()
    since,          \* what happened since a thread tested a pointer
    fault           \* the thread that missed an object, and which

hostVars   == <<control, call, calls>>
answerVars == <<commanded, stuck>>
clientVars == <<client, created, monitor, connections, onConfig, answerVars>>
threadVars == <<handler, thread, since>>
vars == <<configVars, hostVars, clientVars, active, threadVars, fault>>

-----------------------------------------------------------------------------
(* Objects.                                                                *)

(* What refers to a client: m_client, and its own connections, be they in  *)
(* m_connections or kept by a command found.                               *)
Exists(c) ==
    c # NoClient /\ (client = c \/ connections[c] # <<>> \/ c \in stuck)

(* prepareConnections(): one list for all groups, a path letter for each.  *)
Paths(group) ==
    [j \in DOMAIN group.connections |->
        [group |-> group.index, path |-> IF j = 1 THEN "A" ELSE "B"]]
PreparedConnections ==
    FoldLeft(LAMBDA list, group : list \o Paths(group), <<>>, groups)

NoAsdu == [type |-> "none", elements |-> <<>>, interrogated |-> FALSE]
HandlerIdle ==
    [pc |-> "idle", asdu |-> NoAsdu, at |-> 1, found |-> FALSE,
     holds |-> FALSE, points |-> <<>>, labels |-> <<>>]

Busy == {o \in Operators : thread[o].pc # "idle"}
            \cup (IF handler.pc = "idle" THEN {} ELSE {Lib60870})

(* An event that threads between a test and a use have not seen.           *)
Happens(event) ==
    since' = [t \in Threads |->
                 IF t \in Busy THEN since[t] \cup {event} ELSE since[t]]

Misses(t, object) ==
    /\ fault' = [thread |-> t, object |-> object]
    /\ UNCHANGED threadVars

-----------------------------------------------------------------------------
(* The host's thread.  It calls plugin_start() once, after plugin_init()   *)
(* and before any plugin_reconfigure().                                    *)

HostCalls(entry, assetGiven) ==
    call' = [entry |-> entry, asset |-> assetGiven]

PluginInit ==
    /\ control = "new"
    /\ HostCalls("init", FALSE)
    /\ control' = "configuring"
    /\ UNCHANGED <<calls, configVars, clientVars, active, threadVars, fault>>

PluginStart ==
    /\ control = "idle" /\ call.entry = "init"
    /\ HostCalls("start", FALSE)
    /\ control' = "starting"
    /\ UNCHANGED <<calls, configVars, clientVars, active, threadVars, fault>>

PluginReconfigureRunning ==   \* faulty variant: the client is not stopped
    /\ control = "idle" /\ call.entry \in {"start", "reconfigure"}
    /\ calls < MaxReconfigurations
    /\ calls' = calls + 1
    /\ HostCalls("reconfigure", FALSE)
    /\ control' = "configuring"
    /\ UNCHANGED <<configVars, clientVars, active, threadVars, fault>>

PluginReconfigure ==
    /\ control = "idle" /\ call.entry \in {"start", "reconfigure"}
    /\ calls < MaxReconfigurations
    /\ calls' = calls + 1
    /\ \E a \in BOOLEAN : HostCalls("reconfigure", a)
    /\ control' = "stopping"
    /\ UNCHANGED <<configVars, clientVars, active, threadVars, fault>>

PluginShutdown ==
    /\ control = "idle"
    /\ HostCalls("shutdown", FALSE)
    /\ control' = "stopping"
    /\ UNCHANGED <<calls, configVars, clientVars, active, threadVars, fault>>

(* IEC104Client::stop() clears m_started ...                               *)
StopNoClient ==
    /\ control = "stopping" /\ client = NoClient
    /\ control' = "configuring"
    /\ UNCHANGED <<call, calls, configVars, clientVars, active, threadVars,
                   fault>>

StopClientStaysStarted ==   \* faulty variant: m_started is left set
    /\ control = "stopping" /\ client # NoClient
    /\ Happens("stop")
    /\ control' = "joining"
    /\ UNCHANGED <<call, calls, configVars, clientVars, active, handler,
                   thread, fault>>

StopClient ==
    /\ control = "stopping" /\ client # NoClient
    /\ monitor' = [monitor EXCEPT ![client] = "stopping"]
    /\ Happens("stop")
    /\ control' = "joining"
    /\ UNCHANGED <<call, calls, configVars, client, created, connections,
                   onConfig, answerVars, active, handler, thread, fault>>

(* ... and joins; IEC104::stop() then lets go of the client.               *)
JoinMonitor ==
    /\ control = "joining" /\ monitor[client] = "ended"
    /\ client' = NoClient
    /\ control' = "configuring"
    /\ UNCHANGED <<call, calls, configVars, created, monitor, connections,
                   onConfig, answerVars, active, threadVars, fault>>

AfterImportAnyway == "starting"   \* faulty variant: no test of "asset"

AfterImport == IF call.asset THEN "starting" ELSE "idle"

DeletePlugin ==
    /\ control = "configuring" /\ call.entry = "shutdown"
    /\ control' = "deleted"
    /\ UNCHANGED <<call, calls, configVars, clientVars, active, threadVars,
                   fault>>

(* setJsonConfig() is called if the configuration has the three documents. *)
KeepConfig ==
    /\ control = "configuring" /\ call.entry # "shutdown"
    /\ control' = AfterImport
    /\ UNCHANGED <<call, calls, configVars, clientVars, active, threadVars,
                   fault>>

BeginImport ==
    /\ control = "configuring" /\ call.entry # "shutdown"
    /\ \E d \in Documents : SetJsonConfig(d)
    /\ onConfig' = {}
    /\ control' = "importing"
    /\ UNCHANGED <<call, calls, client, created, monitor, connections,
                   answerVars, active, threadVars, fault>>

ImportStep ==
    /\ control = "importing" /\ Import
    /\ UNCHANGED <<hostVars, clientVars, active, threadVars, fault>>

EndImport ==
    /\ control = "importing" /\ step = "ready"
    /\ control' = AfterImport
    /\ UNCHANGED <<call, calls, configVars, clientVars, active, threadVars,
                   fault>>

(* IEC104::start() makes the client, and m_client is set, ...              *)
MakeClient ==
    /\ control = "starting"
    /\ created' = created + 1
    /\ client' = created + 1
    /\ onConfig' = onConfig \cup {created + 1}
    /\ commanded' = {}
    /\ control' = "launching"
    /\ UNCHANGED <<call, calls, configVars, monitor, connections, stuck,
                   active, threadVars, fault>>

(* ... before IEC104Client::start() gives it connections and its thread.   *)
LaunchClient ==
    /\ control = "launching"
    /\ connections' = [connections EXCEPT ![client] = PreparedConnections]
    /\ monitor' = [monitor EXCEPT ![client] = "running"]
    /\ control' = "idle"
    /\ UNCHANGED <<call, calls, configVars, client, created, onConfig,
                   answerVars, active, threadVars, fault>>

HostReturns ==
    \/ StopNoClient \/ StopClient \/ JoinMonitor
    \/ DeletePlugin \/ KeepConfig \/ BeginImport \/ ImportStep \/ EndImport
    \/ MakeClient \/ LaunchClient

Host ==
    \/ PluginInit \/ PluginStart \/ PluginReconfigure \/ PluginShutdown
    \/ HostReturns

-----------------------------------------------------------------------------
(* The monitoring thread of client c.  m_started is read between two polls *)
(* only, so that a poll may still choose a connection after it was cleared. *)

MonitorActivates(c) ==
    /\ monitor[c] \in {"running", "stopping"}
    /\ ~active /\ connections[c] # <<>>
    /\ active' = TRUE
    /\ UNCHANGED <<configVars, hostVars, clientVars, threadVars, fault>>

MonitorLoses(c) ==
    /\ monitor[c] \in {"running", "stopping"}
    /\ active
    /\ active' = FALSE
    /\ Happens("loss")
    /\ UNCHANGED <<configVars, hostVars, clientVars, handler, thread, fault>>

(* From here to its end the thread holds m_activeConnectionMtx.            *)
MonitorLeaves(c) ==
    /\ monitor[c] = "stopping"
    /\ monitor' = [monitor EXCEPT ![c] = "leaving"]
    /\ active' = FALSE
    /\ Happens("loss")
    /\ UNCHANGED <<configVars, hostVars, client, created, connections,
                   onConfig, answerVars, handler, thread, fault>>

(* The list of outstanding commands is cleared, then m_connections.        *)
MonitorCloses(c) ==
    /\ monitor[c] = "leaving"
    /\ monitor' = [monitor EXCEPT ![c] = "closing"]
    /\ UNCHANGED <<configVars, hostVars, client, created, connections,
                   onConfig, answerVars, active, threadVars, fault>>

(* A connection nobody else refers to is destroyed: its lib60870 thread is *)
(* told to end, and joined when the ASDU it is handling is done.  A handler *)
(* that has found an outstanding command refers to its connection: the     *)
(* monitoring thread does not wait for it, and at the end of the element   *)
(* the destructor runs in the handler's thread, which is to be joined.     *)
(* The handler never gets to sendData(), and is not followed any further.  *)
HandlerEnds(c) ==
    \/ /\ handler.pc = "idle"
       /\ UNCHANGED <<handler, stuck>>
    \/ /\ handler.holds
       /\ handler' = HandlerIdle
       /\ stuck' = stuck \cup {c}

MonitorEndsKeepingList(c) ==   \* faulty variant: m_connections is kept
    /\ monitor[c] = "closing" /\ HandlerEnds(c)
    /\ monitor' = [monitor EXCEPT ![c] = "ended"]
    /\ UNCHANGED <<configVars, hostVars, client, created, connections,
                   onConfig, commanded, active, thread, since, fault>>

MonitorEnds(c) ==
    /\ monitor[c] = "closing" /\ HandlerEnds(c)
    /\ monitor' = [monitor EXCEPT ![c] = "ended"]
    /\ connections' = [connections EXCEPT ![c] = <<>>]
    /\ UNCHANGED <<configVars, hostVars, client, created, onConfig,
                   commanded, active, thread, since, fault>>

MonitorExit(c) == MonitorLeaves(c) \/ MonitorCloses(c) \/ MonitorEnds(c)

Monitor(c) == MonitorActivates(c) \/ MonitorLoses(c) \/ MonitorExit(c)

-----------------------------------------------------------------------------
(* IEC104Client::handleASDU() in the lib60870 thread.                      *)

HandledTypes ==
    {"M_SP_NA_1", "M_SP_TB_1", "M_DP_NA_1", "M_DP_TB_1", "M_ST_NA_1",
     "M_ST_TB_1", "M_ME_NA_1", "M_ME_TD_1", "M_ME_NB_1", "M_ME_TE_1",
     "M_ME_NC_1", "M_ME_TF_1", "C_SC_NA_1", "C_SC_TA_1", "C_DC_NA_1",
     "C_DC_TA_1", "C_RC_NA_1", "C_RC_TA_1", "C_SE_NA_1", "C_SE_TA_1",
     "C_SE_NB_1", "C_SE_TB_1", "C_SE_NC_1", "C_SE_TC_1"}

PointTypes ==
    {"M_SP_NA_1", "M_SP_TA_1", "M_SP_TB_1",
     "M_DP_NA_1", "M_DP_TA_1", "M_DP_TB_1"}

Element == handler.asdu.elements[handler.at]

Receive ==
    /\ handler.pc = "idle"
    /\ \E c \in Clients : /\ connections[c] # <<>>
                          /\ monitor[c] \in {"running", "stopping", "leaving"}
    /\ \E a \in Asdus : handler' = [HandlerIdle EXCEPT !.pc = "element",
                                                       !.asdu = a]
    /\ UNCHANGED <<configVars, hostVars, clientVars, active, thread, since,
                   fault>>

(* The list of the client, until it is cleared, has the commands it sent   *)
(* but for those that were answered or have timed out.                     *)
MayBeOutstanding(type, a) ==
    /\ [type |-> type, addr |-> a] \in commanded
    /\ monitor[created] # "closing"

(* checkExchangeDataLayer() returns a pointer to the label, and            *)
(* checkForOutstandingCommand() a shared_ptr kept until the next element.  *)
FindLabel ==
    /\ handler.pc = "element" /\ handler.at <= Len(handler.asdu.elements)
    /\ \E holds \in IF MayBeOutstanding(handler.asdu.type, Element)
                     THEN BOOLEAN ELSE {FALSE} :
          handler' = [handler EXCEPT
                         !.pc = "found",
                         !.found = Accepts(Element, handler.asdu.type),
                         !.holds = holds]
    /\ Lookup(Element)
    /\ UNCHANGED <<hostVars, clientVars, active, thread, since, fault>>

(* handle_M_...() and handle_C_...() make a data object; its value, quality *)
(* and time are left out.                                                  *)
DataObject(asdu, a) ==
    [do_type |-> asdu.type, do_address |-> a,
     do_cot |-> asdu.interrogated]

AddPointUnlabelled(h) ==   \* faulty variant: no "if (label)" in the switch
    [h EXCEPT !.points = Append(@, DataObject(h.asdu, Element)),
              !.labels = IF h.found
                         THEN Append(@, definition[Element].label) ELSE @]

AddPoint(h) ==
    IF h.found
    THEN [h EXCEPT !.points = Append(@, DataObject(h.asdu, Element)),
                   !.labels = Append(@, definition[Element].label)]
    ELSE h

(* isAsduTriggerGi() tests m_activeConnection, the value, which must be 0, *)
(* and whether a GI is requested already (both in the choice of a value).  *)
(* It reads m_activeConnection a second time for the latter; the model     *)
(* has one read, and the window from there to the use in RequestGi.        *)
MayTrigger ==
    /\ Element \in triggers /\ handler.asdu.type \in PointTypes
    /\ ~handler.asdu.interrogated

TakeElement ==
    /\ handler.pc = "found"
    /\ LET h == IF handler.asdu.type \in HandledTypes
                THEN AddPoint(handler) ELSE handler
           requests == handler.found /\ handler.asdu.type \in HandledTypes
                         /\ MayTrigger /\ active
       IN \E value \in IF requests THEN {0, 1} ELSE {1} :
             /\ handler' = [h EXCEPT
                               !.pc = IF value = 0 THEN "request"
                                      ELSE "element",
                               !.at = @ + 1,
                               !.holds = FALSE]
             /\ since' = IF value = 0
                         THEN [since EXCEPT ![Lib60870] = {}] ELSE since
    /\ UNCHANGED <<configVars, hostVars, clientVars, active, thread, fault>>

(* m_activeConnection->setGiRequested(true)                                *)
RequestGi ==
    /\ handler.pc = "request"
    /\ IF active
       THEN /\ handler' = [handler EXCEPT !.pc = "element"]
            /\ UNCHANGED <<thread, since, fault>>
       ELSE Misses(Lib60870, "connection")
    /\ UNCHANGED <<configVars, hostVars, clientVars, active>>

(* sendData(): one reading for each data object, with the label beside it. *)
SendData ==
    /\ handler.pc = "element" /\ handler.at > Len(handler.asdu.elements)
    /\ handler' = HandlerIdle
    /\ UNCHANGED <<configVars, hostVars, clientVars, active, thread, since,
                   fault>>

HandleAsdu == FindLabel \/ TakeElement \/ RequestGi \/ SendData

-----------------------------------------------------------------------------
(* IEC104::operation() in thread o.                                        *)

OperatorIdle ==
    [pc |-> "idle", request |-> [operation |-> "none"], client |-> NoClient]

(* The type a command is looked up with, whatever the type it is sent as.  *)
LookedUpAs ==
    [C_SC_NA_1 |-> "C_SC_NA_1", C_SC_TA_1 |-> "C_SC_NA_1",
     C_DC_NA_1 |-> "C_DC_NA_1", C_DC_TA_1 |-> "C_DC_NA_1",
     C_RC_NA_1 |-> "C_RC_NA_1", C_RC_TA_1 |-> "C_RC_NA_1",
     C_SE_NA_1 |-> "C_SE_NA_1", C_SE_TA_1 |-> "C_SE_NA_1",
     C_SE_NB_1 |-> "C_SE_NB_1", C_SE_TB_1 |-> "C_SE_NB_1",
     C_SE_NC_1 |-> "C_SE_NC_1", C_SE_TC_1 |-> "C_SE_NC_1"]

(* The conversions of m_singleCommandOperation() and its like.             *)
WithTime(type) == LookedUpAs[type] # type
IsConverted(r) ==
    r.type \in DOMAIN LookedUpAs /\ r.count > 8
        /\ (WithTime(r.type) => r.stamped)

StopUnderWay == control = "joining"

(* if (m_client == nullptr) return false                                   *)
TestClientNever(o) == TRUE   \* faulty variant: the test is missing

TestClient(o) == client # NoClient

Operation(o) ==
    /\ thread[o].pc = "idle"
    /\ control \notin {"new", "deleted"} /\ call.entry # "init"
    /\ TestClient(o)
    /\ \E r \in Requests :
          thread' = [thread EXCEPT ![o] = [@ EXCEPT !.pc = "tested",
                                                    !.request = r]]
    /\ since' = [since EXCEPT ![o] = IF StopUnderWay THEN {"stop"} ELSE {}]
    /\ UNCHANGED <<configVars, hostVars, clientVars, active, handler, fault>>

Goes(o, pc) ==
    /\ thread' = [thread EXCEPT ![o] =
                     IF pc = "idle" THEN OperatorIdle
                     ELSE [@ EXCEPT !.pc = pc, !.client = client]]
    /\ UNCHANGED <<handler, since, fault>>

(* A command that is malformed is rejected before m_client is used.        *)
UsesClient(r) == r.operation = "IEC104Command" => IsConverted(r)

RejectCommand(o) ==
    /\ thread[o].pc = "tested" /\ control # "deleted"
    /\ ~UsesClient(thread[o].request)
    /\ Goes(o, "idle")
    /\ UNCHANGED <<configVars, hostVars, clientVars, active>>

(* Else a method of *m_client is called, m_client being read once more.    *)
OperationMisses(o) ==
    /\ thread[o].pc = "tested" /\ client = NoClient
    /\ UsesClient(thread[o].request) \/ control = "deleted"
    /\ Misses(o, "client")
    /\ UNCHANGED <<configVars, hostVars, clientVars, active>>

SendCommand(o) ==
    /\ thread[o].pc = "tested" /\ client # NoClient
    /\ LET r == thread[o].request IN
       /\ r.operation = "IEC104Command" /\ IsConverted(r)
       /\ Lookup(r.addr)
       /\ Goes(o, IF Accepts(r.addr, LookedUpAs[r.type])
                  THEN "sending" ELSE "idle")
    /\ UNCHANGED <<hostVars, clientVars, active>>

(* request_connection_status is done in this step: it reports what the     *)
(* client has stored, and a stop during that report is left out.           *)
SendOther(o) ==
    /\ thread[o].pc = "tested" /\ client # NoClient
    /\ thread[o].request.operation # "IEC104Command"
    /\ Goes(o, CASE thread[o].request.operation
                       = "CS104_Connection_sendInterrogationCommand"
                      -> "sending"
                 [] thread[o].request.operation = "north_status"
                      -> IF active THEN "request" ELSE "idle"
                 [] OTHER -> "idle")
    /\ UNCHANGED <<configVars, hostVars, clientVars, active>>

(* Under m_activeConnectionMtx; without a connection nothing is sent.  The *)
(* entry in the list and the sending are one step.                         *)
Sent(o) ==
    LET r == thread[o].request IN
    IF r.operation = "IEC104Command" /\ active /\ thread[o].client = created
    THEN {[type |-> r.type, addr |-> r.addr]} ELSE {}

EndSending(o) ==
    /\ thread[o].pc = "sending"
    /\ IF Exists(thread[o].client)
       THEN /\ monitor[thread[o].client] \notin {"leaving", "closing"}
            /\ \E sent \in SUBSET Sent(o) : commanded' = commanded \cup sent
            /\ Goes(o, "idle")
       ELSE Misses(o, "client") /\ UNCHANGED commanded
    /\ UNCHANGED <<configVars, hostVars, client, created, monitor,
                   connections, onConfig, stuck, active>>

(* scheduleGI() tests and uses m_activeConnection without that mutex.      *)
ScheduleGi(o) ==
    /\ thread[o].pc = "request"
    /\ IF ~Exists(thread[o].client) THEN Misses(o, "client")
       ELSE IF ~active THEN Misses(o, "connection")
       ELSE Goes(o, "idle")
    /\ UNCHANGED <<configVars, hostVars, clientVars, active>>

Operator(o) ==
    \/ Operation(o)
    \/ RejectCommand(o) \/ OperationMisses(o)
    \/ SendCommand(o) \/ SendOther(o)
    \/ EndSending(o) \/ ScheduleGi(o)

-----------------------------------------------------------------------------

Init ==
    /\ ConfigInit
    /\ control = "new"
    /\ call = [entry |-> "none", asset |-> FALSE]
    /\ calls = 0
    /\ client = NoClient
    /\ created = 0
    /\ monitor = [c \in Clients |-> "none"]
    /\ connections = [c \in Clients |-> <<>>]
    /\ onConfig = {}
    /\ commanded = {} /\ stuck = {}
    /\ active = FALSE
    /\ handler = HandlerIdle
    /\ thread = [o \in Operators |-> OperatorIdle]
    /\ since = [t \in Threads |-> {}]
    /\ fault = NoFault

Next ==
    /\ fault = NoFault
    /\ \/ Host
       \/ \E c \in Clients : Monitor(c)
       \/ Receive \/ HandleAsdu
       \/ \E o \in Operators : Operator(o)

(* The host's thread goes on once it is in a call, the monitoring thread   *)
(* that is to end (there is one at most) looks at m_started again, and an  *)
(* ASDU is handled to its end.  Nobody need call the plugin or send.       *)
Fairness ==
    /\ WF_vars(fault = NoFault /\ HostReturns)
    /\ WF_vars(fault = NoFault /\ \E c \in Clients : MonitorExit(c))
    /\ WF_vars(fault = NoFault /\ HandleAsdu)

Safety == Init /\ [][Next]_vars
Spec == Safety /\ Fairness

-----------------------------------------------------------------------------
(* Properties.                                                             *)

TypeOK ==
    /\ ConfigTypeOK
    /\ control \in {"new", "idle", "configuring", "importing", "starting",
                    "launching", "stopping", "joining", "deleted"}
    /\ call \in Calls
    /\ calls \in 0..MaxReconfigurations
    /\ client \in Clients \cup {NoClient}
    /\ created \in 0..MaxReconfigurations + 1
    /\ monitor \in [Clients -> {"none", "running", "stopping", "leaving",
                                "closing", "ended"}]
    /\ DOMAIN connections = Clients
    /\ onConfig \subseteq Clients /\ stuck \subseteq Clients
    /\ \A sent \in commanded : sent.addr \in Addresses
    /\ active \in BOOLEAN
    /\ handler.pc \in {"idle", "element", "found", "request"}
    /\ handler.holds \in BOOLEAN
    /\ handler.asdu \in Asdus \cup {NoAsdu}
    /\ \A o \in Operators :
          thread[o].pc \in {"idle", "tested", "sending", "request"}
    /\ since \in [Threads -> SUBSET {"stop", "loss"}]

(* A client that was replaced is gone: its thread was joined, and no       *)
(* connection, which would keep it alive and the outstation connected, is  *)
(* left (IEC104::stop(), the end of _monitoringThread()).  The exception   *)
(* is the one ExitReleases of OutstandingCommands shows: a connection that *)
(* handles the answer to a command when m_connections is cleared stays for *)
(* ever, and its client with it; but only of a client that has sent one.   *)
OnlyCurrentClientLives ==
    /\ \A c \in 1..created :
          c # client => monitor[c] = "ended" /\ (Exists(c) => c \in stuck)
    /\ created \in stuck => commanded # {}

(* Between two calls of the host a client runs exactly when the last one   *)
(* asked for it, with the connections of the configuration imported last,  *)
(* and that import is over: it may have ended early, at a faulty element,  *)
(* and the client then runs on what was imported before it.                *)
RunsOnCurrentConfig ==
    control = "idle" =>
        /\ step = "ready"
        /\ client # NoClient <=> call.entry = "start" \/ call.asset
        /\ client # NoClient => /\ monitor[client] = "running"
                                /\ client \in onConfig
                                /\ connections[client] = PreparedConnections

(* The unlocked tests of m_client and m_activeConnection protect their     *)
(* uses but for one window each: a thread misses the client only if a stop *)
(* overlaps its operation, and the active connection only if the monitor   *)
(* gave that up after the test.                                            *)
MissesOnlyOverlapped ==
    fault # NoFault =>
        IF fault.object = "client" THEN "stop" \in since[fault.thread]
        ELSE "loss" \in since[fault.thread]

(* The object setJsonConfig() fills is looked up, without a lock, by the   *)
(* threads of the client made with it: one made before the end of the      *)
(* import would look up and insert in lists half made, as would one made   *)
(* before, if the import did not begin with an object of its own.  Instead *)
(* the configuration sees the steps of ClientConfig only, so that what     *)
(* holds of it alone holds of it in the plugin.                            *)
ImportsUndisturbed == ConfigSpec

(* What handleASDU() collects is what the exchange definitions accept of   *)
(* the elements seen so far, in their order, each with the label of its    *)
(* address; a label it points to stays where it is until it is copied.     *)
Recognised ==
    IF handler.asdu.type \notin HandledTypes THEN <<>>
    ELSE KeptOfFirst(handler.at - 1, handler.asdu.elements,
                     {a \in Addresses : Accepts(a, handler.asdu.type)})

ReadingsStayLabelled ==
    handler.pc # "idle" =>
        /\ handler.points = [i \in DOMAIN Recognised |->
                                DataObject(handler.asdu, Recognised[i])]
        /\ handler.labels = [i \in DOMAIN Recognised |->
                                definition[Recognised[i]].label]
        /\ handler.pc = "found" =>
              handler.found = Accepts(Element, handler.asdu.type)

(* A command that was let through by its type without time is accepted,    *)
(* with the type it was sent as, when its answer comes back; else the      *)
(* answer is dropped unseen and the command times out.                     *)
AnswersAreRecognised ==
    \A o \in Operators :
        LET r == thread[o].request IN
        /\ thread[o].pc = "sending" /\ r.operation = "IEC104Command"
        /\ "stop" \notin since[o]
        => Accepts(r.addr, r.type) /\ r.type \in HandledTypes

(* An entry point that was called returns: joins end, imports end.         *)
CallsReturn ==
    control \notin {"new", "idle", "deleted"}
        ~> control \in {"idle", "deleted"} \/ fault # NoFault
=============================================================================
