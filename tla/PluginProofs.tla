---------------------------- MODULE PluginProofs ----------------------------
(***************************************************************************)
(* Proofs about Plugin, for any number of reconfigurations and of threads  *)
(* of the host, all documents, requests and ASDUs: the plugin drives its   *)
(* configuration as ClientConfig says, at most one client lives, and what  *)
(* the unlocked uses of m_client and m_activeConnection may miss.          *)
(***************************************************************************)
EXTENDS Plugin, ClientConfigProofs, SequenceFilterProofs

-----------------------------------------------------------------------------
(* The inductive invariant.                                                *)

Live == {"running", "stopping", "leaving", "closing"}

LifeTypes ==
    /\ control \in {"new", "idle", "configuring", "importing", "starting",
                    "launching", "stopping", "joining", "deleted"}
    /\ call \in Calls
    /\ calls \in 0..MaxReconfigurations
    /\ client \in Clients \cup {NoClient}
    /\ created \in 0..MaxReconfigurations + 1
    /\ monitor \in [Clients -> Live \cup {"none", "ended"}]
    /\ \E S : connections \in [Clients -> S]
    /\ onConfig \subseteq Clients

(* The host's calls: each makes one client at most.                        *)
CallsInv ==
    /\ created <= calls + 1
    /\ control = "new" => call.entry = "none"
    /\ control \notin {"idle", "launching"} /\ call.entry = "reconfigure" =>
           created <= calls
    /\ call.entry \in {"none", "init"} =>
           created = 0 /\ calls = 0 /\ client = NoClient
    /\ control = "starting" /\ call.entry = "start" => created = 0
    /\ call.asset => call.entry = "reconfigure"
    /\ control \in {"starting", "launching"} =>
           call.entry = "start" \/ call.asset
    /\ control \in {"stopping", "joining", "configuring", "importing"} =>
           call.entry # "start"

(* Where the host's thread is tells whether there is a client, and what    *)
(* its monitoring thread may be doing.                                     *)
ClientInv ==
    /\ control \in {"new", "configuring", "importing", "starting",
                    "deleted"} => client = NoClient
    /\ control \in {"joining", "launching"} => client # NoClient
    /\ client # NoClient => client = created /\ client \in onConfig
    /\ control = "idle" =>
           (client # NoClient <=> call.entry = "start" \/ call.asset)

MonitorOK(c) ==
    /\ monitor[c] \in Live => c = client
    /\ connections[c] # <<>> => monitor[c] \in Live
    /\ monitor[c] = "none" <=> \/ c > created
                               \/ control = "launching" /\ c = client
    /\ monitor[c] = "running" => control \in {"idle", "stopping"}
    /\ monitor[c] \in {"stopping", "leaving", "closing"} =>
           control = "joining"
    /\ c = client /\ control \in {"idle", "stopping"} =>
           monitor[c] = "running"

MonitorsInv == \A c \in Clients : MonitorOK(c)

LifeInv ==
    /\ LifeTypes
    /\ CallsInv
    /\ ClientInv
    /\ MonitorsInv
    /\ step # "ready" => control = "importing"

lifeVars ==
    <<step, hostVars, client, created, monitor, connections, onConfig>>

-----------------------------------------------------------------------------

LEMMA LifeInitInv == Init => LifeInv
<1> SUFFICES ASSUME Init PROVE LifeInv
  OBVIOUS
<1>1. LifeTypes
  <2>1. connections \in [Clients -> {<<>>}]
    BY DEF Init
  <2>2. \E S : connections \in [Clients -> S]
    BY <2>1
  <2> QED BY <2>2, PluginAssumption DEF Init, LifeTypes, Calls, Live
<1>2. CallsInv /\ ClientInv
  BY DEF Init, CallsInv, ClientInv
<1>3. MonitorsInv
  BY DEF Init, MonitorsInv, MonitorOK, Live, Clients
<1> QED BY <1>1, <1>2, <1>3 DEF LifeInv, Init, ConfigInit

(* The calls of the host.                                                  *)
LEMMA HostCallsLife ==
    ASSUME LifeInv,
           \/ PluginInit
           \/ PluginStart
           \/ PluginReconfigure
           \/ PluginShutdown
    PROVE  LifeInv'
<1> USE DEF LifeInv, clientVars, configVars
<1>1. CASE PluginInit
  <2> USE <1>1 DEF PluginInit, HostCalls
  <2>1. LifeTypes'
    BY DEF LifeTypes, Calls, Live
  <2>2. CallsInv'
    BY DEF CallsInv, ClientInv, LifeTypes, Calls
  <2>3. ClientInv'
    BY DEF CallsInv, ClientInv, LifeTypes, Calls
  <2>4. MonitorsInv'
    <3> SUFFICES ASSUME NEW c \in Clients PROVE MonitorOK(c)'
      BY DEF MonitorsInv
    <3>1. MonitorOK(c)
      BY DEF MonitorsInv
    <3> QED
      BY <3>1, PluginAssumption
         DEF MonitorOK, ClientInv, CallsInv, LifeTypes, Live
  <2> QED BY <2>1, <2>2, <2>3, <2>4
<1>2. CASE PluginStart
  <2> USE <1>2 DEF PluginStart, HostCalls
  <2>1. LifeTypes'
    BY DEF LifeTypes, Calls, Live
  <2>2. CallsInv'
    BY DEF CallsInv, ClientInv, LifeTypes, Calls
  <2>3. ClientInv'
    BY DEF CallsInv, ClientInv, LifeTypes, Calls
  <2>4. MonitorsInv'
    <3> SUFFICES ASSUME NEW c \in Clients PROVE MonitorOK(c)'
      BY DEF MonitorsInv
    <3>1. MonitorOK(c)
      BY DEF MonitorsInv
    <3> QED
      BY <3>1, PluginAssumption
         DEF MonitorOK, ClientInv, CallsInv, LifeTypes, Live
  <2> QED BY <2>1, <2>2, <2>3, <2>4
<1>3. CASE PluginReconfigure
  <2> USE <1>3 DEF PluginReconfigure, HostCalls
  <2>1. LifeTypes'
    <3>1. calls' \in 0..MaxReconfigurations
      BY PluginAssumption DEF LifeTypes
    <3>2. call' \in Calls
      BY DEF Calls
    <3> QED BY <3>1, <3>2 DEF LifeTypes
  <2>2. CallsInv'
    BY DEF CallsInv, ClientInv, LifeTypes, Calls
  <2>3. ClientInv'
    BY DEF CallsInv, ClientInv, LifeTypes, Calls
  <2>4. MonitorsInv'
    <3> SUFFICES ASSUME NEW c \in Clients PROVE MonitorOK(c)'
      BY DEF MonitorsInv
    <3>1. MonitorOK(c)
      BY DEF MonitorsInv
    <3> QED
      BY <3>1, PluginAssumption
         DEF MonitorOK, ClientInv, CallsInv, LifeTypes, Live
  <2> QED BY <2>1, <2>2, <2>3, <2>4
<1>4. CASE PluginShutdown
  <2> USE <1>4 DEF PluginShutdown, HostCalls
  <2>1. LifeTypes'
    BY DEF LifeTypes, Calls, Live
  <2>2. CallsInv'
    BY DEF CallsInv, ClientInv, LifeTypes, Calls
  <2>3. ClientInv'
    BY DEF CallsInv, ClientInv, LifeTypes, Calls
  <2>4. MonitorsInv'
    <3> SUFFICES ASSUME NEW c \in Clients PROVE MonitorOK(c)'
      BY DEF MonitorsInv
    <3>1. MonitorOK(c)
      BY DEF MonitorsInv
    <3> QED
      BY <3>1, PluginAssumption
         DEF MonitorOK, ClientInv, CallsInv, LifeTypes, Live
  <2> QED BY <2>1, <2>2, <2>3, <2>4
<1> QED BY <1>1, <1>2, <1>3, <1>4

(* What a call does when it must neither stop nor start a client.          *)
LEMMA HostPassesLife ==
    ASSUME LifeInv,
           \/ StopNoClient
           \/ DeletePlugin
           \/ KeepConfig
           \/ BeginImport
           \/ ImportStep
           \/ EndImport
    PROVE  LifeInv'
<1> USE DEF LifeInv, clientVars, configVars
<1>1. CASE StopNoClient
  <2> USE <1>1 DEF StopNoClient
  <2>1. LifeTypes'
    BY DEF LifeTypes, Calls, Live
  <2>2. CallsInv'
    BY DEF CallsInv, ClientInv, LifeTypes, Calls
  <2>3. ClientInv'
    BY DEF CallsInv, ClientInv, LifeTypes, Calls
  <2>4. MonitorsInv'
    <3> SUFFICES ASSUME NEW c \in Clients PROVE MonitorOK(c)'
      BY DEF MonitorsInv
    <3>1. MonitorOK(c)
      BY DEF MonitorsInv
    <3> QED
      BY <3>1, PluginAssumption
         DEF MonitorOK, ClientInv, CallsInv, LifeTypes, Live
  <2> QED BY <2>1, <2>2, <2>3, <2>4
<1>2. CASE DeletePlugin
  <2> USE <1>2 DEF DeletePlugin
  <2>1. LifeTypes'
    BY DEF LifeTypes, Calls, Live
  <2>2. CallsInv'
    BY DEF CallsInv, ClientInv, LifeTypes, Calls
  <2>3. ClientInv'
    BY DEF CallsInv, ClientInv, LifeTypes, Calls
  <2>4. MonitorsInv'
    <3> SUFFICES ASSUME NEW c \in Clients PROVE MonitorOK(c)'
      BY DEF MonitorsInv
    <3>1. MonitorOK(c)
      BY DEF MonitorsInv
    <3> QED
      BY <3>1, PluginAssumption
         DEF MonitorOK, ClientInv, CallsInv, LifeTypes, Live
  <2> QED BY <2>1, <2>2, <2>3, <2>4
<1>3. CASE KeepConfig
  <2> USE <1>3 DEF KeepConfig, AfterImport
  <2>1. LifeTypes'
    BY DEF LifeTypes, Calls, Live
  <2>2. CallsInv'
    BY DEF CallsInv, ClientInv, LifeTypes, Calls
  <2>3. ClientInv'
    BY DEF CallsInv, ClientInv, LifeTypes, Calls
  <2>4. MonitorsInv'
    <3> SUFFICES ASSUME NEW c \in Clients PROVE MonitorOK(c)'
      BY DEF MonitorsInv
    <3>1. MonitorOK(c)
      BY DEF MonitorsInv
    <3> QED
      BY <3>1, PluginAssumption
         DEF MonitorOK, ClientInv, CallsInv, LifeTypes, Live
  <2> QED BY <2>1, <2>2, <2>3, <2>4
<1>4. CASE BeginImport
  <2> USE <1>4 DEF BeginImport, SetJsonConfig
  <2>1. LifeTypes'
    BY DEF LifeTypes, Calls, Live
  <2>2. CallsInv'
    BY DEF CallsInv, ClientInv, LifeTypes, Calls
  <2>3. ClientInv'
    BY DEF CallsInv, ClientInv, LifeTypes, Calls
  <2>4. MonitorsInv'
    <3> SUFFICES ASSUME NEW c \in Clients PROVE MonitorOK(c)'
      BY DEF MonitorsInv
    <3>1. MonitorOK(c)
      BY DEF MonitorsInv
    <3> QED
      BY <3>1, PluginAssumption
         DEF MonitorOK, ClientInv, CallsInv, LifeTypes, Live
  <2> QED BY <2>1, <2>2, <2>3, <2>4
<1>5. CASE ImportStep
  <2> USE <1>5 DEF ImportStep, hostVars
  <2>1. LifeTypes'
    BY DEF LifeTypes, Calls, Live
  <2>2. CallsInv'
    BY DEF CallsInv, ClientInv, LifeTypes, Calls
  <2>3. ClientInv'
    BY DEF CallsInv, ClientInv, LifeTypes, Calls
  <2>4. MonitorsInv'
    <3> SUFFICES ASSUME NEW c \in Clients PROVE MonitorOK(c)'
      BY DEF MonitorsInv
    <3>1. MonitorOK(c)
      BY DEF MonitorsInv
    <3> QED
      BY <3>1, PluginAssumption
         DEF MonitorOK, ClientInv, CallsInv, LifeTypes, Live
  <2> QED BY <2>1, <2>2, <2>3, <2>4
<1>6. CASE EndImport
  <2> USE <1>6 DEF EndImport, AfterImport
  <2>1. LifeTypes'
    BY DEF LifeTypes, Calls, Live
  <2>2. CallsInv'
    BY DEF CallsInv, ClientInv, LifeTypes, Calls
  <2>3. ClientInv'
    BY DEF CallsInv, ClientInv, LifeTypes, Calls
  <2>4. MonitorsInv'
    <3> SUFFICES ASSUME NEW c \in Clients PROVE MonitorOK(c)'
      BY DEF MonitorsInv
    <3>1. MonitorOK(c)
      BY DEF MonitorsInv
    <3> QED
      BY <3>1, PluginAssumption
         DEF MonitorOK, ClientInv, CallsInv, LifeTypes, Live
  <2> QED BY <2>1, <2>2, <2>3, <2>4
<1> QED BY <1>1, <1>2, <1>3, <1>4, <1>5, <1>6

(* What a call does to stop and to start a client.                         *)
LEMMA HostLife ==
    ASSUME LifeInv,
           \/ StopClient
           \/ JoinMonitor
           \/ MakeClient
           \/ LaunchClient
    PROVE  LifeInv'
<1> USE DEF LifeInv, clientVars, configVars
<1>1. CASE StopClient
  <2> USE <1>1 DEF StopClient
  <2>1. LifeTypes'
    BY DEF LifeTypes, Calls, Live
  <2>2. CallsInv'
    BY DEF CallsInv, ClientInv, LifeTypes, Calls
  <2>3. ClientInv'
    BY DEF CallsInv, ClientInv, LifeTypes, Calls
  <2>4. MonitorsInv'
    <3> SUFFICES ASSUME NEW c \in Clients PROVE MonitorOK(c)'
      BY DEF MonitorsInv
    <3>1. MonitorOK(c)
      BY DEF MonitorsInv
    <3> QED
      BY <3>1, PluginAssumption
         DEF MonitorOK, ClientInv, CallsInv, LifeTypes, Live
  <2> QED BY <2>1, <2>2, <2>3, <2>4
<1>2. CASE JoinMonitor
  <2> USE <1>2 DEF JoinMonitor
  <2>1. LifeTypes'
    BY DEF LifeTypes, Calls, Live
  <2>2. CallsInv'
    BY DEF CallsInv, ClientInv, LifeTypes, Calls
  <2>3. ClientInv'
    BY DEF CallsInv, ClientInv, LifeTypes, Calls
  <2>4. MonitorsInv'
    <3> SUFFICES ASSUME NEW c \in Clients PROVE MonitorOK(c)'
      BY DEF MonitorsInv
    <3>1. MonitorOK(c)
      BY DEF MonitorsInv
    <3> QED
      BY <3>1, PluginAssumption
         DEF MonitorOK, ClientInv, CallsInv, LifeTypes, Live
  <2> QED BY <2>1, <2>2, <2>3, <2>4
<1>3. CASE MakeClient
  <2> USE <1>3 DEF MakeClient
  <2>1. /\ call.entry \in {"start", "reconfigure"}
        /\ created <= calls
        /\ calls \in 0..MaxReconfigurations
        /\ created \in 0..MaxReconfigurations + 1
    BY DEF CallsInv, LifeTypes
  <2>2. /\ created + 1 \in Clients /\ created + 1 \in 1..calls + 1
        /\ created + 1 \in 0..MaxReconfigurations + 1
    BY <2>1, PluginAssumption DEF Clients
  <2>3. LifeTypes'
    BY <2>2 DEF LifeTypes
  <2>4. CallsInv'
    BY <2>1, <2>2 DEF CallsInv
  <2>5. ClientInv'
    BY <2>2, PluginAssumption DEF ClientInv, LifeTypes
  <2>6. MonitorsInv'
    <3> SUFFICES ASSUME NEW c \in Clients PROVE MonitorOK(c)'
      BY DEF MonitorsInv
    <3>1. MonitorOK(c) /\ client = NoClient /\ c \in Int
      BY DEF MonitorsInv, ClientInv, Clients
    <3>2. monitor[c] \notin Live /\ connections[c] = <<>>
      BY <3>1, PluginAssumption DEF MonitorOK
    <3>3. monitor[c] = "none" <=> c > created
      BY <3>1 DEF MonitorOK
    <3>4. c > created <=> c > created + 1 \/ c = created + 1
      BY <2>1, <3>1
    <3> QED BY <3>2, <3>3, <3>4 DEF MonitorOK, Live
  <2> QED BY <2>3, <2>4, <2>5, <2>6
<1>4. CASE LaunchClient
  <2> USE <1>4 DEF LaunchClient
  <2>1. LifeTypes'
    <3>1. PICK S : connections \in [Clients -> S]
      BY DEF LifeTypes
    <3>2. connections' \in [Clients -> S \cup {PreparedConnections}]
      BY <3>1
    <3>3. \E R : connections' \in [Clients -> R]
      BY <3>2
    <3>4. monitor' \in [Clients -> Live \cup {"none", "ended"}]
      BY DEF LifeTypes, Live
    <3> QED BY <3>3, <3>4 DEF LifeTypes
  <2>2. CallsInv'
    BY DEF CallsInv, ClientInv, LifeTypes, Calls
  <2>3. ClientInv'
    BY DEF CallsInv, ClientInv, LifeTypes, Calls
  <2>4. MonitorsInv'
    <3> SUFFICES ASSUME NEW c \in Clients PROVE MonitorOK(c)'
      BY DEF MonitorsInv
    <3>1. MonitorOK(c)
      BY DEF MonitorsInv
    <3> QED
      BY <3>1, PluginAssumption
         DEF MonitorOK, ClientInv, CallsInv, LifeTypes, Live
  <2> QED BY <2>1, <2>2, <2>3, <2>4
<1> QED BY <1>1, <1>2, <1>3, <1>4

LEMMA MonitorLife ==
    ASSUME LifeInv, NEW c \in Clients, Monitor(c)
    PROVE  LifeInv'
<1> USE DEF LifeInv, LifeTypes, CallsInv, ClientInv, MonitorsInv, MonitorOK,
            clientVars, configVars, hostVars
<1>1. CASE MonitorActivates(c) \/ MonitorLoses(c)
  BY <1>1 DEF MonitorActivates, MonitorLoses
<1>2. CASE MonitorLeaves(c)
  BY <1>2 DEF MonitorLeaves, Live
<1>3. CASE MonitorCloses(c)
  BY <1>3 DEF MonitorCloses, Live
<1>4. CASE MonitorEnds(c)
  BY <1>4 DEF MonitorEnds, Live
<1> QED BY <1>1, <1>2, <1>3, <1>4 DEF Monitor, MonitorExit

(* The lib60870 thread and the operators leave all of it alone.            *)
LEMMA OthersKeepLife ==
    ASSUME Receive \/ HandleAsdu \/ \E o \in Operators : Operator(o)
    PROVE  UNCHANGED <<lifeVars, groups>>
<1> USE DEF lifeVars, hostVars, clientVars, configVars, imported, documents
<1>1. CASE Receive
  BY <1>1 DEF Receive
<1>2. CASE HandleAsdu
  BY <1>2 DEF HandleAsdu, FindLabel, TakeElement, RequestGi, SendData, Lookup
<1>3. CASE \E o \in Operators : Operator(o)
  BY <1>3 DEF Operator, Operation, RejectCommand, OperationMisses,
              SendCommand, SendOther, EndSending, ScheduleGi, Lookup
<1> QED BY <1>1, <1>2, <1>3

-----------------------------------------------------------------------------
(* The threads that use the client, m_config and m_activeConnection.       *)

HandlerStates(P, Q) ==
    [pc : {"idle", "element", "found", "request"},
     asdu : Asdus \cup {NoAsdu}, at : Nat \ {0}, found : BOOLEAN,
     holds : BOOLEAN, points : P, labels : Q]

HandlerInv ==
    /\ \E P, Q : handler \in HandlerStates(P, Q)
    /\ handler.pc # "idle" =>
           handler.asdu \in Asdus /\ \E c \in Clients : connections[c] # <<>>
    /\ handler.pc = "request" => active \/ "loss" \in since[Lib60870]

ThreadStates ==
    [pc : {"idle", "tested", "sending", "request"},
     request : Requests \cup {[operation |-> "none"]},
     client : Clients \cup {NoClient}]

(* A thread in operation() that no stop has overlapped has tested the      *)
(* client that is still there.                                             *)
Unstopped(o) ==
    "stop" \notin since[o] =>
        /\ client # NoClient /\ control # "joining"
        /\ thread[o].pc # "tested" => thread[o].client = client

Recognisable(o) ==
    LET r == thread[o].request IN
    /\ thread[o].pc = "sending" /\ r.operation = "IEC104Command"
    /\ "stop" \notin since[o]
    => Accepts(r.addr, r.type) /\ r.type \in HandledTypes

OperatorOK(o) ==
    thread[o].pc # "idle" =>
        /\ thread[o].request \in Requests
        /\ thread[o].pc # "tested" => thread[o].client # NoClient
        /\ thread[o].pc = "request" => active \/ "loss" \in since[o]
        /\ Unstopped(o)
        /\ Recognisable(o)

ThreadInv ==
    /\ thread \in [Operators -> ThreadStates]
    /\ since \in [Threads -> SUBSET {"stop", "loss"}]
    /\ \A o \in Operators : OperatorOK(o)

-----------------------------------------------------------------------------
(* The lib60870 thread.                                                    *)

(* A thread that handles an ASDU belongs to a client that is there, so the *)
(* host is not importing a configuration.                                  *)
LEMMA HandlerNeedsClient ==
    ASSUME LifeInv, HandlerInv, handler.pc # "idle"
    PROVE  /\ client # NoClient /\ step = "ready"
           /\ control \in {"idle", "stopping", "joining"}
<1>1. PICK c \in Clients : connections[c] # <<>>
  BY DEF HandlerInv
<1>2. MonitorOK(c)
  BY DEF LifeInv, MonitorsInv
<1>3. monitor[c] \in Live /\ c = client
  BY <1>1, <1>2 DEF MonitorOK
<1>4. client # NoClient
  BY <1>3, PluginAssumption
<1>5. control \in {"idle", "stopping", "joining"}
  BY <1>2, <1>3 DEF MonitorOK, Live
<1> QED BY <1>4, <1>5 DEF LifeInv

(* What a turn of the loop does: an element of a type that is handled and  *)
(* that was found gets a data object and a label, in step.                 *)
LEMMA ElementTaken ==
    ASSUME HandlerInv, TakeElement
    PROVE  /\ \E R, S : handler' \in HandlerStates(R, S)
           /\ handler'.asdu = handler.asdu
           /\ handler'.pc \in {"request", "element"}
           /\ handler'.pc = "request" => active
           /\ handler'.at = handler.at + 1
           /\ ~handler'.holds
           /\ handler.found /\ handler.asdu.type \in HandledTypes =>
                  /\ handler'.points = Append(handler.points,
                                              DataObject(handler.asdu, Element))
                  /\ handler'.labels = Append(handler.labels,
                                              definition[Element].label)
           /\ ~(handler.found /\ handler.asdu.type \in HandledTypes) =>
                  UNCHANGED <<handler.points, handler.labels>>
<1> DEFINE x == Append(handler.points, DataObject(handler.asdu, Element))
           y == Append(handler.labels, definition[Element].label)
           added == [handler EXCEPT !.points = x, !.labels = y]
           adds == handler.found /\ handler.asdu.type \in HandledTypes
           h == IF handler.asdu.type \in HandledTypes
                THEN AddPoint(handler) ELSE handler
           requests == adds /\ MayTrigger /\ active
           at == handler.at + 1
<1>1. PICK P, Q : handler \in HandlerStates(P, Q)
  BY DEF HandlerInv
<1>2. (adds => h = added) /\ (~adds => h = handler)
  BY DEF AddPoint
<1>3. PICK value \in {0, 1} :
          /\ handler' = [h EXCEPT
                             !.pc = IF value = 0 THEN "request"
                                    ELSE "element",
                             !.at = @ + 1,
                             !.holds = FALSE]
          /\ value = 0 => active
  <2>1. \E value \in IF requests THEN {0, 1} ELSE {1} :
           handler' = [h EXCEPT
                          !.pc = IF value = 0 THEN "request"
                                 ELSE "element",
                          !.at = @ + 1,
                          !.holds = FALSE]
    BY Zenon DEF TakeElement
  <2>2. requests => active
    OBVIOUS
  <2> HIDE DEF h, requests
  <2>3. CASE requests
    BY <2>1, <2>2, <2>3
  <2>4. CASE ~requests
    BY <2>1, <2>4
  <2> QED BY <2>3, <2>4
<1> DEFINE pc == IF value = 0 THEN "request" ELSE "element"
<1>4. pc \in {"request", "element"} /\ (pc = "request" => active)
  BY <1>3
<1>5. /\ adds => h \in HandlerStates(P \cup {x}, Q \cup {y})
                 /\ h.points = x /\ h.labels = y
      /\ ~adds => h \in HandlerStates(P, Q)
                  /\ h.points = handler.points /\ h.labels = handler.labels
      /\ h.asdu = handler.asdu /\ h.at = handler.at
  <2> HIDE DEF h, adds, x, y
  <2>1. /\ added \in HandlerStates(P \cup {x}, Q \cup {y})
        /\ added.points = x /\ added.labels = y
        /\ added.asdu = handler.asdu /\ added.at = handler.at
    BY <1>1 DEF HandlerStates
  <2> QED BY <1>1, <1>2, <2>1
<1>6. handler.at \in Nat /\ at \in Nat \ {0}
  BY <1>1 DEF HandlerStates
<1>7. handler' = [h EXCEPT !.pc = pc, !.at = at, !.holds = FALSE]
  BY <1>3, <1>5
<1>8. PICK R, S : h \in HandlerStates(R, S)
  BY <1>5
<1> HIDE DEF h, pc, at
<1>9. /\ handler' \in HandlerStates(R, S)
      /\ handler'.pc = pc /\ handler'.at = at /\ handler'.asdu = h.asdu
      /\ handler'.points = h.points /\ handler'.labels = h.labels
      /\ ~handler'.holds
  BY <1>4, <1>6, <1>7, <1>8 DEF HandlerStates
<1> QED BY <1>4, <1>5, <1>9 DEF at

(* What the lookup in the list of commands may add.                        *)
LEMMA LabelFound ==
    ASSUME FindLabel
    PROVE  \E holds \in BOOLEAN :
              /\ handler' = [handler EXCEPT
                                !.pc = "found",
                                !.found = Accepts(Element, handler.asdu.type),
                                !.holds = holds]
              /\ holds => commanded # {}
<1> DEFINE new(holds) ==
              [handler EXCEPT !.pc = "found",
                              !.found = Accepts(Element, handler.asdu.type),
                              !.holds = holds]
           may == MayBeOutstanding(handler.asdu.type, Element)
<1>1. \E holds \in IF may THEN BOOLEAN ELSE {FALSE} : handler' = new(holds)
  BY Zenon DEF FindLabel
<1>2. may => commanded # {}
  BY DEF MayBeOutstanding
<1> HIDE DEF may, new
<1>3. \E holds \in BOOLEAN : handler' = new(holds) /\ (holds => may)
  <2>1. CASE may
    BY <1>1, <2>1
  <2>2. CASE ~may
    BY <1>1, <2>2
  <2> QED BY <2>1, <2>2
<1> QED BY <1>2, <1>3, Zenon DEF new

LEMMA HandlerStepInv ==
    ASSUME LifeInv, HandlerInv, ThreadInv, Receive \/ HandleAsdu
    PROVE  HandlerInv'
<1> USE DEF clientVars
<1>1. PICK P, Q : handler \in HandlerStates(P, Q)
  BY DEF HandlerInv
<1>2. CASE Receive
  <2>1. PICK a \in Asdus : handler' = [HandlerIdle EXCEPT !.pc = "element",
                                                          !.asdu = a]
    BY <1>2 DEF Receive
  <2>2. handler' = [pc |-> "element", asdu |-> a, at |-> 1, found |-> FALSE,
                    holds |-> FALSE, points |-> <<>>, labels |-> <<>>]
    BY <2>1 DEF HandlerIdle
  <2>3. /\ handler' \in HandlerStates({<<>>}, {<<>>})
        /\ handler'.pc = "element" /\ handler'.asdu = a
    BY <2>2 DEF HandlerStates
  <2>4. \E c \in Clients : connections'[c] # <<>>
    BY <1>2 DEF Receive
  <2> QED BY <2>3, <2>4 DEF HandlerInv
<1>3. CASE FindLabel
  <2>1. PICK holds \in BOOLEAN :
           handler' = [handler EXCEPT
                          !.pc = "found",
                          !.found = Accepts(Element, handler.asdu.type),
                          !.holds = holds]
    BY <1>3, LabelFound, Zenon
  <2>2. /\ handler' \in HandlerStates(P, Q)
        /\ handler'.pc = "found" /\ handler'.asdu = handler.asdu
    BY <1>1, <2>1 DEF HandlerStates, Accepts, Defined, IsMessageTypeMatching
  <2>3. handler.pc # "idle" /\ UNCHANGED connections
    BY <1>3 DEF FindLabel
  <2> QED BY <2>2, <2>3 DEF HandlerInv
<1>4. CASE TakeElement
  <2>1. /\ \E R, S : handler' \in HandlerStates(R, S)
        /\ handler'.asdu = handler.asdu
        /\ handler'.pc \in {"request", "element"}
        /\ handler'.pc = "request" => active
    BY <1>4, ElementTaken, Zenon
  <2>2. handler.pc # "idle" /\ UNCHANGED <<connections, active>>
    BY <1>4 DEF TakeElement
  <2> QED BY <2>1, <2>2 DEF HandlerInv
<1>5. CASE RequestGi
  <2>1. UNCHANGED <<connections, active, since>>
    BY <1>5 DEF RequestGi, Misses, threadVars
  <2>2. CASE handler' = [handler EXCEPT !.pc = "element"]
    <3>1. /\ handler' \in HandlerStates(P, Q)
          /\ handler'.pc = "element" /\ handler'.asdu = handler.asdu
      BY <1>1, <2>2 DEF HandlerStates
    <3> QED BY <1>5, <2>1, <3>1 DEF HandlerInv, RequestGi
  <2>3. CASE UNCHANGED handler
    BY <2>1, <2>3 DEF HandlerInv
  <2> QED BY <1>5, <2>2, <2>3 DEF RequestGi, Misses, threadVars
<1>6. CASE SendData
  <2>1. handler' \in HandlerStates({<<>>}, {<<>>}) /\ handler'.pc = "idle"
    BY <1>6 DEF SendData, HandlerIdle, HandlerStates
  <2> QED BY <2>1 DEF HandlerInv
<1> QED BY <1>2, <1>3, <1>4, <1>5, <1>6 DEF HandleAsdu

LEMMA OthersKeepHandler ==
    ASSUME \/ Host
           \/ \E c \in Clients : Monitor(c)
           \/ \E o \in Operators : Operator(o)
    PROVE  UNCHANGED handler \/ handler' = HandlerIdle
BY DEF Host, HostReturns, HandlerEnds, PluginInit, PluginStart,
       PluginReconfigure, PluginShutdown, StopNoClient, StopClient, JoinMonitor, DeletePlugin,
       KeepConfig, BeginImport, ImportStep, EndImport, MakeClient,
       LaunchClient, Monitor, MonitorExit, MonitorActivates, MonitorLoses,
       MonitorLeaves, MonitorCloses, MonitorEnds, Operator, Operation,
       RejectCommand, OperationMisses, SendCommand, SendOther, EndSending,
       ScheduleGi, Goes, Misses, clientVars, threadVars

(* Its list of connections is cleared when the thread was joined, and it   *)
(* learns that the active connection was given up.                         *)
LEMMA HandlerKeptInv ==
    ASSUME LifeInv, HandlerInv, ThreadInv,
           \/ Host
           \/ \E c \in Clients : Monitor(c)
           \/ \E o \in Operators : Operator(o)
    PROVE  HandlerInv'
<1> USE DEF clientVars, threadVars
<1>1. UNCHANGED handler \/ handler' = HandlerIdle
  BY OthersKeepHandler
<1>8. handler' = HandlerIdle => HandlerInv'
  <2>1. /\ HandlerIdle \in HandlerStates({<<>>}, {<<>>})
        /\ HandlerIdle.pc = "idle"
    BY DEF HandlerIdle, HandlerStates
  <2> QED BY <2>1 DEF HandlerInv
<1>2. SUFFICES ASSUME handler.pc # "idle", handler' # HandlerIdle
      PROVE  /\ UNCHANGED connections
             /\ \/ /\ UNCHANGED active
                   /\ "loss" \in since[Lib60870] =>
                          "loss" \in since'[Lib60870]
                \/ active'
                \/ "loss" \in since'[Lib60870]
  BY <1>1, <1>8, Zenon DEF HandlerInv
<1>3. control \in {"idle", "stopping", "joining"}
  BY <1>2, HandlerNeedsClient
<1>4. /\ Lib60870 \in Threads /\ Lib60870 \in Busy
      /\ since \in [Threads -> SUBSET {"stop", "loss"}]
      /\ \A o \in Operators : o # Lib60870
  BY <1>2, PluginAssumption DEF Threads, Busy, ThreadInv
<1>5. CASE Host
  <2>1. UNCHANGED <<connections, active>>
    BY <1>3, <1>5
       DEF Host, HostReturns, PluginInit, PluginStart, PluginReconfigure,
           PluginShutdown, StopNoClient, StopClient, JoinMonitor,
           DeletePlugin, KeepConfig, BeginImport, ImportStep, EndImport,
           MakeClient, LaunchClient
  <2>2. UNCHANGED since \/ Happens("stop")
    BY <1>5
       DEF Host, HostReturns, PluginInit, PluginStart, PluginReconfigure,
           PluginShutdown, StopNoClient, StopClient, JoinMonitor,
           DeletePlugin, KeepConfig, BeginImport, ImportStep, EndImport,
           MakeClient, LaunchClient
  <2>3. "loss" \in since[Lib60870] => "loss" \in since'[Lib60870]
    BY <1>4, <2>2 DEF Happens
  <2> QED BY <2>1, <2>3
<1>6. CASE \E c \in Clients : Monitor(c)
  <2>1. UNCHANGED connections
    BY <1>2, <1>6 DEF Monitor, MonitorExit, MonitorActivates, MonitorLoses,
                      MonitorLeaves, MonitorCloses, MonitorEnds, HandlerEnds
  <2>2. \/ UNCHANGED <<active, since>>
        \/ active'
        \/ Happens("loss")
    BY <1>6 DEF Monitor, MonitorExit, MonitorActivates, MonitorLoses,
                MonitorLeaves, MonitorCloses, MonitorEnds
  <2>3. Happens("loss") => "loss" \in since'[Lib60870]
    BY <1>4 DEF Happens
  <2> QED BY <2>1, <2>2, <2>3
<1>7. CASE \E o \in Operators : Operator(o)
  <2>1. UNCHANGED <<connections, active>>
    BY <1>7 DEF Operator, Operation, RejectCommand, OperationMisses,
                SendCommand, SendOther, EndSending, ScheduleGi
  <2>2. \/ UNCHANGED since
        \/ \E o \in Operators : \E stops \in {{"stop"}, {}} :
              since' = [since EXCEPT ![o] = stops]
    BY <1>7 DEF Operator, Operation, RejectCommand, OperationMisses,
                SendCommand, SendOther, EndSending, ScheduleGi, Goes, Misses
  <2>3. since'[Lib60870] = since[Lib60870]
    BY <1>4, <2>2
  <2> QED BY <2>1, <2>3
<1> QED BY <1>5, <1>6, <1>7

-----------------------------------------------------------------------------
(* The configuration: the plugin imports into it and looks things up in    *)
(* it, never both at a time.                                               *)

Looks ==
    \E a \in Addresses : step = "ready" /\ Lookup(a)

Stable ==
    /\ UNCHANGED groups
    /\ \A a \in Addresses : /\ Defined(a)' <=> Defined(a)
                            /\ Defined(a) => UNCHANGED definition[a]

LEMMA RequestsHaveAddresses ==
    ASSUME NEW r \in Requests, r.operation = "IEC104Command"
    PROVE  r.addr \in Addresses
<1>1. IsRequest(r)
  BY PluginAssumption
<1> QED BY <1>1 DEF IsRequest

LEMMA OperatorConfigures ==
    ASSUME LifeInv, ThreadInv, NEW o \in Operators, Operator(o)
    PROVE  Looks \/ UNCHANGED configVars
<1>1. CASE SendCommand(o)
  <2> DEFINE r == thread[o].request
  <2>1. /\ thread[o].pc = "tested" /\ client # NoClient
        /\ r.operation = "IEC104Command" /\ Lookup(r.addr)
    BY <1>1 DEF SendCommand
  <2>2. r \in Requests
    BY <2>1 DEF ThreadInv, OperatorOK
  <2>3. step = "ready"
    BY <2>1 DEF LifeInv, ClientInv
  <2>4. r.addr \in Addresses
    BY <2>1, <2>2, RequestsHaveAddresses
  <2> QED BY <2>1, <2>3, <2>4 DEF Looks
<1>2. CASE ~SendCommand(o)
  BY <1>2 DEF Operator, Operation, RejectCommand, OperationMisses, SendOther,
              EndSending, ScheduleGi
<1> QED BY <1>1, <1>2

LEMMA HandlerConfigures ==
    ASSUME LifeInv, HandlerInv, Receive \/ HandleAsdu
    PROVE  Looks \/ UNCHANGED configVars
<1>1. CASE FindLabel
  <2>1. /\ handler.pc = "element" /\ Lookup(Element)
        /\ handler.at <= Len(handler.asdu.elements)
    BY <1>1 DEF FindLabel
  <2>2. step = "ready"
    BY <2>1, HandlerNeedsClient
  <2>3. handler.asdu \in Asdus /\ handler.at \in Nat \ {0}
    BY <2>1 DEF HandlerInv, HandlerStates
  <2>4. handler.asdu.elements \in Seq(Addresses)
    BY <2>3, PluginAssumption
  <2>5. Element \in Addresses
    BY <2>1, <2>3, <2>4, ElementOfSeq, LenProperties DEF Element
  <2> QED BY <2>1, <2>2, <2>5 DEF Looks
<1>2. CASE ~FindLabel
  BY <1>2 DEF HandleAsdu, Receive, TakeElement, RequestGi, SendData
<1> QED BY <1>1, <1>2

LEMMA OthersConfigure ==
    ASSUME \/ Host /\ ~BeginImport /\ ~ImportStep
           \/ \E c \in Clients : Monitor(c)
    PROVE  UNCHANGED configVars
BY DEF Host, HostReturns, PluginInit, PluginStart, PluginReconfigure,
       PluginShutdown, StopNoClient, StopClient, JoinMonitor, DeletePlugin,
       KeepConfig, EndImport, MakeClient, LaunchClient, Monitor, MonitorExit,
       MonitorActivates, MonitorLoses, MonitorLeaves, MonitorCloses,
       MonitorEnds

(* Every step of the plugin is one of its configuration or none.           *)
LEMMA StepsConfigure ==
    ASSUME LifeInv, HandlerInv, ThreadInv, [Next]_vars
    PROVE  /\ [ConfigNext]_configVars
           /\ ~BeginImport /\ ~ImportStep =>
                  Looks \/ UNCHANGED configVars
<1>1. Looks => ConfigNext
  BY DEF Looks, ConfigNext
<1>2. BeginImport \/ ImportStep => ConfigNext
  BY DEF BeginImport, ImportStep, ConfigNext
<1>3. CASE Host
  BY <1>2, <1>3, OthersConfigure
<1>4. CASE \E c \in Clients : Monitor(c)
  BY <1>4, OthersConfigure
<1>5. CASE Receive \/ HandleAsdu
  BY <1>1, <1>5, HandlerConfigures
<1>6. CASE \E o \in Operators : Operator(o)
  BY <1>1, <1>6, OperatorConfigures
<1>7. CASE UNCHANGED vars
  BY <1>7 DEF vars
<1> QED BY <1>3, <1>4, <1>5, <1>6, <1>7 DEF Next

LEMMA DefinitionsStable ==
    ASSUME ConfigInv, Looks \/ UNCHANGED configVars
    PROVE  Stable
<1>1. CASE Looks
  BY <1>1, LookupInv DEF Looks, Stable, Lookup, imported
<1>2. CASE UNCHANGED configVars
  BY <1>2 DEF configVars, imported, exchanged, Stable, Defined
<1> QED BY <1>1, <1>2

-----------------------------------------------------------------------------
(* The threads of the host in operation().                                 *)

(* A type that is looked up as one without time is accepted as it is: what *)
(* the missing break adds is a type no command is looked up as.            *)
LEMMA AnswerAccepted ==
    ASSUME NEW a \in Addresses, NEW type \in DOMAIN LookedUpAs,
           Accepts(a, LookedUpAs[type])
    PROVE  Accepts(a, type) /\ type \in HandledTypes
<1>1. type \in HandledTypes
  BY DEF LookedUpAs, HandledTypes
<1>2. LookedUpAs[type] # "C_SE_TC_1"
  BY SMTT(30) DEF LookedUpAs
<1>3. \E info \in Informations : type \in info /\ LookedUpAs[type] \in info
  BY SMTT(60) DEF LookedUpAs, Informations
<1>4. PICK info \in Informations : type \in info /\ LookedUpAs[type] \in info
  BY <1>3
<1>5. definition[a].type \in info
  BY <1>2, <1>4, MatchingIsSameInformation DEF Accepts
<1>6. IsMessageTypeMatching(definition[a].type, type)
  BY <1>4, <1>5, MatchingIsSameInformation
<1> QED BY <1>1, <1>6 DEF Accepts

(* What a thread relies on survives a step that it does not take, if the   *)
(* step tells it of a stop or of the loss of the active connection.        *)
LEMMA OperatorKept ==
    ASSUME NEW o \in Operators, OperatorOK(o), thread'[o] = thread[o],
           thread[o].pc # "idle" /\ "stop" \notin since'[o] =>
               /\ "stop" \notin since[o] /\ Stable
               /\ UNCHANGED client /\ control' # "joining",
           thread[o].pc = "request" =>
               \/ UNCHANGED active /\ "loss" \notin since[o]
               \/ active'
               \/ "loss" \in since'[o]
    PROVE  OperatorOK(o)'
<1> SUFFICES ASSUME thread[o].pc # "idle" PROVE OperatorOK(o)'
  BY DEF OperatorOK
<1>1. /\ thread[o].request \in Requests
      /\ thread[o].pc # "tested" => thread[o].client # NoClient
      /\ thread[o].pc = "request" => active \/ "loss" \in since[o]
      /\ Unstopped(o)
      /\ Recognisable(o)
  BY DEF OperatorOK
<1>2. thread[o].pc = "request" => active' \/ "loss" \in since'[o]
  BY <1>1
<1>3. Unstopped(o)'
  BY <1>1 DEF Unstopped
<1>4. Recognisable(o)'
  <2> SUFFICES ASSUME thread[o].pc = "sending",
                      thread[o].request.operation = "IEC104Command",
                      "stop" \notin since'[o]
               PROVE  /\ Accepts(thread[o].request.addr,
                                 thread[o].request.type)'
                      /\ thread[o].request.type \in HandledTypes
    BY DEF Recognisable
  <2>1. Stable /\ "stop" \notin since[o]
    OBVIOUS
  <2>2. /\ Accepts(thread[o].request.addr, thread[o].request.type)
        /\ thread[o].request.type \in HandledTypes
    BY <1>1, <2>1 DEF Recognisable
  <2>3. thread[o].request.addr \in Addresses
    BY <1>1, RequestsHaveAddresses
  <2> QED BY <2>1, <2>2, <2>3 DEF Accepts, Stable
<1> QED BY <1>1, <1>2, <1>3, <1>4 DEF OperatorOK

LEMMA HostKeepsThreads ==
    ASSUME LifeInv, ConfigInv, ThreadInv, Host
    PROVE  ThreadInv'
<1>1. UNCHANGED <<thread, active>>
  BY DEF Host, HostReturns, PluginInit, PluginStart, PluginReconfigure,
         PluginShutdown, StopNoClient, StopClient, JoinMonitor, DeletePlugin,
         KeepConfig, BeginImport, ImportStep, EndImport, MakeClient,
         LaunchClient, threadVars
<1>2. since \in [Threads -> SUBSET {"stop", "loss"}]
  BY DEF ThreadInv
<1>3. CASE StopClient
  <2>1. Happens("stop")
    BY <1>3 DEF StopClient
  <2>2. since' \in [Threads -> SUBSET {"stop", "loss"}]
    BY <1>2, <2>1 DEF Happens
  <2>3. ASSUME NEW o \in Operators, thread[o].pc # "idle"
        PROVE  since'[o] = since[o] \cup {"stop"}
    BY <1>2, <2>1, <2>3 DEF Happens, Busy, Threads
  <2>4. ASSUME NEW o \in Operators PROVE OperatorOK(o)'
    <3>1. CASE thread[o].pc = "idle"
      BY <1>1, <3>1 DEF OperatorOK
    <3>2. CASE thread[o].pc # "idle"
      BY <1>1, <2>3, <3>2, OperatorKept DEF ThreadInv
    <3> QED BY <3>1, <3>2
  <2> QED BY <1>1, <2>2, <2>4 DEF ThreadInv
<1>4. CASE ~StopClient
  <2>1. UNCHANGED since
    BY <1>4 DEF Host, HostReturns, PluginInit, PluginStart,
         PluginReconfigure, PluginShutdown, StopNoClient, JoinMonitor,
         DeletePlugin, KeepConfig, BeginImport, ImportStep, EndImport,
         MakeClient, LaunchClient, threadVars
  <2>2. \/ control = "joining" \/ client = NoClient
        \/ Stable /\ UNCHANGED client /\ control' # "joining"
    <3>1. CASE JoinMonitor
      BY <3>1 DEF JoinMonitor
    <3>2. CASE BeginImport \/ ImportStep \/ MakeClient
      BY <3>2 DEF BeginImport, ImportStep, MakeClient, LifeInv, ClientInv
    <3>3. CASE ~JoinMonitor /\ ~BeginImport /\ ~ImportStep /\ ~MakeClient
      <4>1. Stable
        BY <3>3, OthersConfigure, DefinitionsStable
      <4>2. UNCHANGED client /\ control' # "joining"
        BY <1>4, <3>3
           DEF Host, HostReturns, PluginInit, PluginStart, PluginReconfigure,
               PluginShutdown, StopNoClient, DeletePlugin, KeepConfig,
               EndImport, LaunchClient, AfterImport, clientVars
      <4> QED BY <4>1, <4>2
    <3> QED BY <3>1, <3>2, <3>3
  <2>3. ASSUME NEW o \in Operators PROVE OperatorOK(o)'
    <3>1. OperatorOK(o)
      BY DEF ThreadInv
    <3>2. thread[o].pc # "idle" /\ "stop" \notin since'[o] =>
              /\ "stop" \notin since[o] /\ Stable
              /\ UNCHANGED client /\ control' # "joining"
      BY <2>1, <2>2, <3>1 DEF OperatorOK, Unstopped
    <3> QED BY <1>1, <2>1, <3>1, <3>2, OperatorKept
  <2> QED BY <1>1, <1>2, <2>1, <2>3 DEF ThreadInv
<1> QED BY <1>3, <1>4

LEMMA MonitorKeepsThreads ==
    ASSUME LifeInv, ConfigInv, ThreadInv, NEW c \in Clients, Monitor(c)
    PROVE  ThreadInv'
<1> USE DEF clientVars, threadVars, hostVars
<1>1. UNCHANGED <<thread, client, control>>
  BY DEF Monitor, MonitorExit, MonitorActivates, MonitorLoses,
         MonitorLeaves, MonitorCloses, MonitorEnds
<1>2. \/ UNCHANGED <<active, since>>
      \/ active' /\ UNCHANGED since
      \/ Happens("loss")
  BY DEF Monitor, MonitorExit, MonitorActivates, MonitorLoses,
         MonitorLeaves, MonitorCloses, MonitorEnds
<1>3. Stable
  BY OthersConfigure, DefinitionsStable
<1>4. since \in [Threads -> SUBSET {"stop", "loss"}]
  BY DEF ThreadInv
<1>5. since' \in [Threads -> SUBSET {"stop", "loss"}]
  BY <1>2, <1>4 DEF Happens
<1>6. ASSUME NEW o \in Operators PROVE OperatorOK(o)'
  <2>1. OperatorOK(o)
    BY DEF ThreadInv
  <2>2. CASE thread[o].pc = "idle"
    BY <1>1, <2>2 DEF OperatorOK
  <2>3. CASE thread[o].pc # "idle"
    <3>1. Happens("loss") => since'[o] = since[o] \cup {"loss"}
      BY <1>4, <2>3 DEF Happens, Busy, Threads
    <3>2. "stop" \notin since'[o] =>
              /\ "stop" \notin since[o] /\ Stable
              /\ UNCHANGED client /\ control' # "joining"
      BY <1>1, <1>2, <1>3, <2>1, <2>3, <3>1 DEF OperatorOK, Unstopped
    <3>3. \/ UNCHANGED active /\ "loss" \notin since[o]
          \/ active'
          \/ "loss" \in since'[o]
      BY <1>2, <3>1
    <3> QED BY <1>1, <2>1, <3>2, <3>3, OperatorKept
  <2> QED BY <2>2, <2>3
<1> QED BY <1>1, <1>5, <1>6 DEF ThreadInv

LEMMA HandlerKeepsThreads ==
    ASSUME LifeInv, ConfigInv, HandlerInv, ThreadInv, Receive \/ HandleAsdu
    PROVE  ThreadInv'
<1> USE DEF clientVars, threadVars, hostVars
<1>1. UNCHANGED <<thread, client, control, active>>
  BY DEF Receive, HandleAsdu, FindLabel, TakeElement, RequestGi, SendData,
         Misses
<1>2. Stable
  BY HandlerConfigures, DefinitionsStable
<1>3. \/ UNCHANGED since
      \/ since' = [since EXCEPT ![Lib60870] = {}]
  BY DEF Receive, HandleAsdu, FindLabel, TakeElement, RequestGi, SendData,
         Misses
<1>4. since \in [Threads -> SUBSET {"stop", "loss"}]
  BY DEF ThreadInv
<1>5. since' \in [Threads -> SUBSET {"stop", "loss"}]
  BY <1>3, <1>4
<1>6. ASSUME NEW o \in Operators PROVE OperatorOK(o)'
  <2>1. OperatorOK(o) /\ since'[o] = since[o]
    BY <1>3, <1>4, PluginAssumption DEF ThreadInv, Threads
  <2>2. thread[o].pc # "idle" /\ "stop" \notin since'[o] =>
            /\ "stop" \notin since[o] /\ Stable
            /\ UNCHANGED client /\ control' # "joining"
    BY <1>1, <1>2, <2>1 DEF OperatorOK, Unstopped
  <2> QED BY <1>1, <2>1, <2>2, OperatorKept
<1> QED BY <1>1, <1>5, <1>6 DEF ThreadInv

(* What an operator's own step makes of its state.                         *)
LEMMA OperatorOwnStep ==
    ASSUME LifeInv, ConfigInv, ThreadInv, NEW o \in Operators, Operator(o),
           Stable
    PROVE  /\ thread' \in [Operators -> ThreadStates]
           /\ OperatorOK(o)'
<1> USE DEF clientVars, threadVars, hostVars
<1>1. /\ thread \in [Operators -> ThreadStates]
      /\ since \in [Threads -> SUBSET {"stop", "loss"}]
      /\ o \in Threads /\ OperatorOK(o)
      /\ client \in Clients \cup {NoClient}
  BY DEF ThreadInv, Threads, LifeInv, LifeTypes
<1>2. CASE Operation(o)
  <2>1. PICK r \in Requests :
            thread' = [thread EXCEPT ![o] = [@ EXCEPT !.pc = "tested",
                                                      !.request = r]]
    BY <1>2 DEF Operation
  <2>2. /\ client # NoClient /\ UNCHANGED <<client, control>>
        /\ since' = [since EXCEPT ![o] = IF StopUnderWay THEN {"stop"}
                                         ELSE {}]
    BY <1>2 DEF Operation, TestClient
  <2>3. thread' \in [Operators -> ThreadStates]
    BY <1>1, <2>1 DEF ThreadStates
  <2>4. thread'[o].pc = "tested" /\ thread'[o].request = r
    BY <1>1, <2>1 DEF ThreadStates
  <2>5. "stop" \notin since'[o] => control # "joining"
    BY <1>1, <2>2 DEF StopUnderWay
  <2> QED
    BY <2>2, <2>3, <2>4, <2>5 DEF OperatorOK, Unstopped, Recognisable
<1>3. ASSUME Goes(o, "idle")
      PROVE  thread' \in [Operators -> ThreadStates] /\ OperatorOK(o)'
  <2>1. thread' = [thread EXCEPT ![o] = OperatorIdle]
    BY <1>3 DEF Goes
  <2>2. OperatorIdle \in ThreadStates /\ OperatorIdle.pc = "idle"
    BY DEF OperatorIdle, ThreadStates
  <2> QED BY <1>1, <2>1, <2>2 DEF OperatorOK
<1>4. ASSUME NEW pc \in {"sending", "request"}, Goes(o, pc),
             thread[o].pc = "tested", client # NoClient,
             UNCHANGED <<client, control, active>>,
             pc = "request" => active,
             pc = "sending" /\ thread[o].request.operation = "IEC104Command"
                 => Accepts(thread[o].request.addr, thread[o].request.type)
                        /\ thread[o].request.type \in HandledTypes
      PROVE  thread' \in [Operators -> ThreadStates] /\ OperatorOK(o)'
  <2>1. thread' = [thread EXCEPT ![o] = [@ EXCEPT !.pc = pc,
                                                  !.client = client]]
    BY <1>4 DEF Goes
  <2>2. UNCHANGED since
    BY <1>4 DEF Goes
  <2>3. thread' \in [Operators -> ThreadStates]
    BY <1>1, <2>1 DEF ThreadStates
  <2>4. /\ thread'[o].pc = pc /\ thread'[o].client = client
        /\ thread'[o].request = thread[o].request
    BY <1>1, <2>1 DEF ThreadStates
  <2>5. thread[o].request \in Requests /\ Unstopped(o)
    BY <1>1, <1>4 DEF OperatorOK
  <2>6. Unstopped(o)'
    BY <1>4, <2>2, <2>4, <2>5 DEF Unstopped
  <2>7. Recognisable(o)'
    <3> SUFFICES ASSUME pc = "sending",
                        thread[o].request.operation = "IEC104Command"
                 PROVE  /\ Accepts(thread[o].request.addr,
                                   thread[o].request.type)'
                        /\ thread[o].request.type \in HandledTypes
      BY <2>4 DEF Recognisable
    <3>1. thread[o].request.addr \in Addresses
      BY <2>5, RequestsHaveAddresses
    <3> QED BY <1>4, <2>4, <3>1 DEF Accepts, Stable
  <2>8. thread'[o].pc = "request" => active'
    BY <1>4, <2>4
  <2> QED BY <1>4, <2>3, <2>4, <2>5, <2>6, <2>7, <2>8 DEF OperatorOK
<1>5. CASE RejectCommand(o)
  BY <1>3, <1>5 DEF RejectCommand
<1>6. CASE OperationMisses(o) \/ EndSending(o) \/ ScheduleGi(o)
  <2>1. Goes(o, "idle") \/ UNCHANGED <<thread, since>>
    BY <1>6 DEF OperationMisses, EndSending, ScheduleGi, Misses
  <2>2. UNCHANGED <<client, control, active>>
    BY <1>6 DEF OperationMisses, EndSending, ScheduleGi
  <2>3. ASSUME UNCHANGED <<thread, since>> PROVE OperatorOK(o)'
    BY <1>1, <2>2, <2>3, OperatorKept DEF OperatorOK, Unstopped
  <2> QED BY <1>1, <1>3, <2>1, <2>3
<1>7. CASE SendCommand(o)
  <2> DEFINE r == thread[o].request
  <2>1. /\ thread[o].pc = "tested" /\ client # NoClient
        /\ UNCHANGED <<client, control, active>>
        /\ r.operation = "IEC104Command" /\ IsConverted(r)
        /\ Goes(o, IF Accepts(r.addr, LookedUpAs[r.type])
                   THEN "sending" ELSE "idle")
    BY <1>7 DEF SendCommand
  <2>2. r.addr \in Addresses
    BY <1>1, <2>1, RequestsHaveAddresses DEF OperatorOK
  <2>3. r.type \in DOMAIN LookedUpAs
    BY <2>1 DEF IsConverted
  <2>4. CASE Accepts(r.addr, LookedUpAs[r.type])
    <3>1. Accepts(r.addr, r.type) /\ r.type \in HandledTypes
      BY <2>2, <2>3, <2>4, AnswerAccepted
    <3> QED BY <1>4, <2>1, <2>4, <3>1
  <2>5. CASE ~Accepts(r.addr, LookedUpAs[r.type])
    BY <1>3, <2>1, <2>5
  <2> QED BY <2>4, <2>5
<1>8. CASE SendOther(o)
  <2>1. /\ thread[o].pc = "tested" /\ client # NoClient
        /\ thread[o].request.operation # "IEC104Command"
        /\ UNCHANGED <<client, control, active>>
    BY <1>8 DEF SendOther
  <2>2. \/ Goes(o, "sending")
        \/ Goes(o, "request") /\ active
        \/ Goes(o, "idle")
    BY <1>8 DEF SendOther
  <2> QED BY <1>3, <1>4, <2>1, <2>2
<1> QED
  BY <1>2, <1>5, <1>6, <1>7, <1>8 DEF Operator

LEMMA OperatorKeepsThreads ==
    ASSUME LifeInv, ConfigInv, ThreadInv, NEW o \in Operators, Operator(o)
    PROVE  ThreadInv'
<1> USE DEF clientVars, threadVars, hostVars
<1>1. Stable
  BY OperatorConfigures, DefinitionsStable
<1>2. UNCHANGED <<client, control, active>>
  BY DEF Operator, Operation, RejectCommand, OperationMisses, SendCommand,
         SendOther, EndSending, ScheduleGi
<1>3. thread' \in [Operators -> ThreadStates] /\ OperatorOK(o)'
  BY <1>1, OperatorOwnStep
<1>4. /\ since \in [Threads -> SUBSET {"stop", "loss"}]
      /\ thread \in [Operators -> ThreadStates]
      /\ o \in Threads
  BY DEF ThreadInv, Threads
<1>5. \/ UNCHANGED since
      \/ \E stops \in {{"stop"}, {}} : since' = [since EXCEPT ![o] = stops]
  BY DEF Operator, Operation, RejectCommand, OperationMisses, SendCommand,
         SendOther, EndSending, ScheduleGi, Goes, Misses
<1>6. since' \in [Threads -> SUBSET {"stop", "loss"}]
  BY <1>4, <1>5
<1>7. \/ UNCHANGED thread
      \/ \E state : thread' = [thread EXCEPT ![o] = state]
  BY DEF Operator, Operation, RejectCommand, OperationMisses, SendCommand,
         SendOther, EndSending, ScheduleGi, Goes, Misses
<1>8. ASSUME NEW p \in Operators, p # o PROVE OperatorOK(p)'
  <2>1. thread'[p] = thread[p] /\ since'[p] = since[p] /\ OperatorOK(p)
    BY <1>4, <1>5, <1>7, <1>8 DEF ThreadInv, Threads
  <2>2. thread[p].pc # "idle" /\ "stop" \notin since'[p] =>
            /\ "stop" \notin since[p] /\ Stable
            /\ UNCHANGED client /\ control' # "joining"
    BY <1>1, <1>2, <2>1 DEF OperatorOK, Unstopped
  <2> QED BY <1>2, <2>1, <2>2, OperatorKept
<1> QED BY <1>3, <1>6, <1>8 DEF ThreadInv

-----------------------------------------------------------------------------
(* What a thread may miss.                                                 *)

LEMMA MissesOverlapped ==
    ASSUME LifeInv, HandlerInv, ThreadInv, MissesOnlyOverlapped, [Next]_vars
    PROVE  MissesOnlyOverlapped'
<1> USE DEF clientVars, threadVars, hostVars
<1>1. CASE UNCHANGED vars
  BY <1>1 DEF vars, MissesOnlyOverlapped
<1>2. CASE fault' = NoFault
  BY <1>2 DEF MissesOnlyOverlapped
<1>3. ASSUME NEW t, NEW object, Misses(t, object),
             object = "client" => "stop" \in since[t],
             object # "client" => "loss" \in since[t]
      PROVE  MissesOnlyOverlapped'
  BY <1>3 DEF Misses, MissesOnlyOverlapped
<1>4. CASE RequestGi
  BY <1>1, <1>2, <1>3, <1>4, Zenon DEF RequestGi, HandlerInv, Next
<1>5. ASSUME NEW o \in Operators,
             \/ OperationMisses(o)
             \/ EndSending(o)
             \/ ScheduleGi(o)
      PROVE  fault' = fault \/ MissesOnlyOverlapped'
  <2>1. thread[o].pc \in {"tested", "sending", "request"} /\ OperatorOK(o)
    BY <1>5 DEF OperationMisses, EndSending, ScheduleGi, ThreadInv
  <2>2. CASE OperationMisses(o)
    <3>1. "stop" \in since[o]
      BY <2>1, <2>2 DEF OperatorOK, Unstopped, OperationMisses
    <3> QED BY <1>3, <2>2, <3>1 DEF OperationMisses
  <2>3. thread[o].pc # "tested" /\ ~Exists(thread[o].client) =>
            "stop" \in since[o]
    BY <2>1 DEF OperatorOK, Unstopped, Exists
  <2>4. CASE EndSending(o)
    BY <1>3, <2>3, <2>4 DEF EndSending, Goes
  <2>5. CASE ScheduleGi(o)
    BY <1>3, <2>1, <2>3, <2>5 DEF ScheduleGi, Goes, OperatorOK
  <2> QED BY <1>5, <2>2, <2>4, <2>5
<1>6. CASE /\ fault = NoFault
           /\ \/ Host
              \/ \E c \in Clients : Monitor(c)
              \/ Receive
              \/ HandleAsdu /\ ~RequestGi
  <2>1. UNCHANGED fault
    BY <1>6
       DEF Host, HostReturns, PluginInit, PluginStart, PluginReconfigure,
           PluginShutdown, StopNoClient, StopClient, JoinMonitor,
           DeletePlugin, KeepConfig, BeginImport, ImportStep, EndImport,
           MakeClient, LaunchClient, Monitor, MonitorExit, MonitorActivates,
           MonitorLoses, MonitorLeaves, MonitorCloses, MonitorEnds, Receive,
           HandleAsdu, FindLabel, TakeElement, SendData
  <2> QED BY <1>2, <1>6, <2>1
<1>7. ASSUME fault = NoFault, NEW o \in Operators, Operator(o)
      PROVE  MissesOnlyOverlapped'
  <2>1. CASE \/ Operation(o)
             \/ RejectCommand(o)
             \/ SendCommand(o)
             \/ SendOther(o)
    <3>1. UNCHANGED fault
      BY <2>1 DEF Operation, RejectCommand, SendCommand, SendOther, Goes
    <3> QED BY <1>2, <1>7, <3>1
  <2>2. CASE \/ OperationMisses(o)
             \/ EndSending(o)
             \/ ScheduleGi(o)
    BY <1>2, <1>5, <1>7, <2>2
  <2> QED BY <1>7, <2>1, <2>2 DEF Operator
<1> QED BY <1>1, <1>4, <1>6, <1>7 DEF Next

-----------------------------------------------------------------------------
(* The connections of a running client.                                    *)

RunsInv ==
    \A c \in Clients :
        monitor[c] = "running" => connections[c] = PreparedConnections

LEMMA PreparedFromGroups ==
    ASSUME UNCHANGED groups
    PROVE  UNCHANGED PreparedConnections
BY DEF PreparedConnections, FoldLeft, MapThenFoldSet

LEMMA RunsStepInv ==
    ASSUME LifeInv, ConfigInv, HandlerInv, ThreadInv, RunsInv, [Next]_vars
    PROVE  RunsInv'
<1> SUFFICES ASSUME NEW c \in Clients, monitor'[c] = "running"
             PROVE  connections'[c] = PreparedConnections'
  BY DEF RunsInv
<1>1. CASE LaunchClient /\ c = client
  <2>1. UNCHANGED PreparedConnections
    BY <1>1, PreparedFromGroups
       DEF LaunchClient, configVars, imported
  <2>2. connections'[c] = PreparedConnections
    BY <1>1 DEF LaunchClient, LifeInv, LifeTypes
  <2> QED BY <2>1, <2>2
<1>2. CASE ~(LaunchClient /\ c = client)
  <2>1. monitor[c] = "running" /\ connections'[c] = connections[c]
    <3>1. CASE Host
      BY <1>2, <3>1
         DEF Host, HostReturns, PluginInit, PluginStart, PluginReconfigure,
             PluginShutdown, StopNoClient, StopClient, JoinMonitor,
             DeletePlugin, KeepConfig, BeginImport, ImportStep, EndImport,
             MakeClient, LaunchClient, clientVars, LifeInv, LifeTypes
    <3>2. CASE \E d \in Clients : Monitor(d)
      BY <3>2
         DEF Monitor, MonitorExit, MonitorActivates, MonitorLoses,
             MonitorLeaves, MonitorCloses, MonitorEnds, clientVars, LifeInv,
             LifeTypes
    <3>3. CASE Receive \/ HandleAsdu \/ \E o \in Operators : Operator(o)
      BY <3>3, OthersKeepLife DEF lifeVars, clientVars
    <3>4. CASE UNCHANGED vars
      BY <3>4 DEF vars, clientVars
    <3> QED BY <3>1, <3>2, <3>3, <3>4 DEF Next
  <2>2. control \in {"idle", "stopping"}
    BY <2>1 DEF LifeInv, MonitorsInv, MonitorOK
  <2>3. ~BeginImport /\ ~ImportStep
    BY <2>2 DEF BeginImport, ImportStep
  <2>4. Stable
    BY <2>3, StepsConfigure, DefinitionsStable
  <2>5. UNCHANGED PreparedConnections
    BY <2>4, PreparedFromGroups DEF Stable
  <2> QED BY <2>1, <2>5 DEF RunsInv
<1> QED BY <1>1, <1>2

-----------------------------------------------------------------------------
(* The readings of the ASDU that is handled.                               *)

(* The loop stays within the ASDU, with the readings it ought to have.     *)
LabelsInv ==
    /\ ReadingsStayLabelled
    /\ handler.pc # "idle" => handler.at <= Len(handler.asdu.elements) + 1
    /\ handler.pc = "found" => handler.at <= Len(handler.asdu.elements)

Accepted == {a \in Addresses : Accepts(a, handler.asdu.type)}

LEMMA HandlerTyped ==
    ASSUME HandlerInv, LabelsInv, handler.pc # "idle"
    PROVE  /\ handler.asdu.elements \in Seq(Addresses)
           /\ handler.at \in 1..Len(handler.asdu.elements) + 1
           /\ handler.at - 1 \in 0..Len(handler.asdu.elements)
<1>1. handler.at \in Nat \ {0}
  BY DEF HandlerInv, HandlerStates
<1>2. handler.asdu.elements \in Seq(Addresses)
  BY PluginAssumption DEF HandlerInv
<1>3. Len(handler.asdu.elements) \in Nat
  BY <1>2, LenProperties
<1> QED BY <1>1, <1>2, <1>3 DEF LabelsInv

(* What is recognised is a list of accepted addresses.                     *)
LEMMA RecognisedAccepted ==
    ASSUME HandlerInv, LabelsInv, handler.pc # "idle"
    PROVE  /\ Recognised \in Seq(Addresses)
           /\ \A i \in DOMAIN Recognised : Recognised[i] \in Accepted
<1> DEFINE elements == handler.asdu.elements
           K == KeptOfFirst(handler.at - 1, elements, Accepted)
<1>1. elements \in Seq(Addresses) /\ handler.at - 1 \in 0..Len(elements)
  BY HandlerTyped
<1>2. CASE handler.asdu.type \notin HandledTypes
  <2>1. Recognised = <<>>
    BY <1>2 DEF Recognised
  <2> QED BY <2>1
<1>3. CASE handler.asdu.type \in HandledTypes
  <2>1. Recognised = K
    BY <1>3 DEF Recognised, Accepted
  <2> HIDE DEF elements
  <2>2. K \in Seq(Addresses)
    BY <1>1, KeptType, Zenon
  <2>3. \A i \in DOMAIN K : K[i] \in Accepted
    BY <1>1, KeptWithin, Zenon
  <2> QED BY <2>1, <2>2, <2>3
<1> QED BY <1>2, <1>3

(* A step that leaves the lists and the definitions alone leaves what is   *)
(* recognised, and the labels it is given.                                 *)
LEMMA LabelsKept ==
    ASSUME HandlerInv, LabelsInv, Stable, handler.pc # "idle",
           UNCHANGED <<handler.asdu, handler.at, handler.points,
                       handler.labels>>,
           handler'.pc = "found" =>
               /\ handler.at <= Len(handler.asdu.elements)
               /\ handler'.found = Accepts(Element, handler.asdu.type)
    PROVE  LabelsInv'
<1>1. /\ handler.asdu.elements \in Seq(Addresses)
      /\ handler.at \in 1..Len(handler.asdu.elements) + 1
  BY HandlerTyped
<1>2. \A a \in Addresses : \A t : Accepts(a, t)' = Accepts(a, t)
  BY DEF Stable, Accepts, Defined
<1>3. Accepted' = Accepted
  BY <1>2 DEF Accepted
<1>4. Recognised' = Recognised
  BY <1>3 DEF Recognised, Accepted
<1>5. \A i \in DOMAIN Recognised :
         definition'[Recognised[i]].label = definition[Recognised[i]].label
  BY RecognisedAccepted DEF Accepted, Accepts, Stable
<1>6. handler'.pc = "found" => Element \in Addresses
  BY <1>1 DEF Element
<1>7. handler.points' = [i \in DOMAIN Recognised' |->
                            DataObject(handler.asdu, Recognised[i])']
  BY <1>4 DEF LabelsInv, ReadingsStayLabelled, DataObject
<1>8. handler.labels' = [i \in DOMAIN Recognised' |->
                            definition'[Recognised'[i]].label]
  BY <1>4, <1>5 DEF LabelsInv, ReadingsStayLabelled
<1>9. handler'.pc = "found" =>
         handler'.found = Accepts(Element, handler.asdu.type)'
  <2>1. Element' = Element /\ handler'.asdu.type = handler.asdu.type
    BY DEF Element
  <2>2. ASSUME handler'.pc = "found"
        PROVE  Accepts(Element, handler.asdu.type)'
                   = Accepts(Element, handler.asdu.type)
    BY <1>2, <1>6, <2>1, <2>2
  <2> QED BY <2>2
<1> QED BY <1>7, <1>8, <1>9 DEF LabelsInv, ReadingsStayLabelled

(* The values F has at the elements of the sequence R.                     *)
Mapped(F, R) == [i \in DOMAIN R |-> F[R[i]]]

LEMMA AppendMapped ==
    ASSUME NEW V, NEW R \in Seq(V), NEW e \in V, NEW F
    PROVE  Append(Mapped(F, R), F[e]) = Mapped(F, Append(R, e))
<1> DEFINE both == Append(R, e)
           p == Mapped(F, R)
           mapped == Mapped(F, both)
           W == {F[v] : v \in V}
<1> USE DEF Mapped
<1>1. /\ Len(R) \in Nat /\ DOMAIN R = 1..Len(R)
      /\ \A i \in 1..Len(R) : R[i] \in V
  OBVIOUS
<1>2. p \in Seq(W) /\ Len(p) = Len(R) /\ F[e] \in W
  <2>1. p \in [1..Len(R) -> W]
    BY <1>1
  <2> QED BY <1>1, <2>1
<1>3. /\ both \in Seq(V) /\ Len(both) = Len(R) + 1
      /\ DOMAIN both = 1..Len(R) + 1
      /\ both[Len(R) + 1] = e
      /\ \A i \in 1..Len(R) : both[i] = R[i]
  OBVIOUS
<1>4. /\ Append(p, F[e]) \in Seq(W)
      /\ DOMAIN Append(p, F[e]) = 1..Len(R) + 1
      /\ Append(p, F[e])[Len(R) + 1] = F[e]
      /\ \A i \in 1..Len(R) : Append(p, F[e])[i] = p[i]
  BY <1>2
<1>5. ASSUME NEW i \in 1..Len(R) + 1
      PROVE  Append(p, F[e])[i] = mapped[i]
  <2>1. CASE i = Len(R) + 1
    BY <1>3, <1>4, <2>1
  <2>2. CASE i \in 1..Len(R)
    <3>1. p[i] = F[R[i]]
      BY <1>1, <2>2
    <3>2. mapped[i] = F[both[i]]
      BY <1>3
    <3> QED BY <1>3, <1>4, <2>2, <3>1, <3>2
  <2> QED BY <1>1, <2>1, <2>2
<1>6. DOMAIN mapped = 1..Len(R) + 1
  BY <1>3
<1>7. Append(p, F[e]) = [i \in 1..Len(R) + 1 |-> Append(p, F[e])[i]]
  BY <1>4
<1> QED BY <1>3, <1>5, <1>7

(* Once an element is taken what is recognised has it too, if it was       *)
(* found, and the data objects and labels keep in step.                    *)
LEMMA LabelsOfTaken ==
    ASSUME HandlerInv, LabelsInv, TakeElement
    PROVE  LabelsInv'
<1> DEFINE elements == handler.asdu.elements
           at == handler.at
           type == handler.asdu.type
           R == Recognised
           objects == [a \in Addresses |-> DataObject(handler.asdu, a)]
           labels == [a \in Addresses |-> definition[a].label]
<1>1. handler.pc = "found" /\ UNCHANGED configVars
  BY DEF TakeElement
<1>2. /\ elements \in Seq(Addresses) /\ at \in 1..Len(elements)
      /\ Element \in Addresses /\ Len(elements) \in Nat
  <2>1. /\ elements \in Seq(Addresses) /\ at \in 1..Len(elements) + 1
        /\ at <= Len(elements)
    BY <1>1, HandlerTyped DEF LabelsInv
  <2> QED BY <2>1 DEF Element
<1>3. /\ handler'.asdu = handler.asdu /\ handler'.at = at + 1
      /\ handler'.pc \in {"request", "element"}
      /\ handler.found /\ type \in HandledTypes =>
             /\ handler'.points = Append(handler.points,
                                         DataObject(handler.asdu, Element))
             /\ handler'.labels = Append(handler.labels,
                                         definition[Element].label)
      /\ ~(handler.found /\ type \in HandledTypes) =>
             UNCHANGED <<handler.points, handler.labels>>
  BY ElementTaken, Zenon
<1>4. UNCHANGED definition /\ Accepted' = Accepted
  BY <1>1, <1>3 DEF configVars, exchanged, Accepted, Accepts, Defined
<1>5. handler.found <=> Element \in Accepted
  BY <1>1, <1>2 DEF LabelsInv, ReadingsStayLabelled, Accepted
<1>6. /\ R \in Seq(Addresses)
      /\ handler.points = Mapped(objects, R)
      /\ handler.labels = Mapped(labels, R)
  <2>1. R \in Seq(Addresses)
    BY <1>1, RecognisedAccepted
  <2>2. \A i \in DOMAIN R : R[i] \in Addresses
    BY <2>1
  <2> QED BY <1>1, <2>1, <2>2 DEF LabelsInv, ReadingsStayLabelled, Mapped
<1>7. /\ handler.found /\ type \in HandledTypes =>
             Recognised' = Append(R, Element)
      /\ ~(handler.found /\ type \in HandledTypes) => Recognised' = R
  <2>1. CASE type \notin HandledTypes
    BY <1>3, <2>1 DEF Recognised
  <2>2. CASE type \in HandledTypes
    <3>1. R = KeptOfFirst(at - 1, elements, Accepted)
      BY <2>2 DEF Recognised, Accepted
    <3>2. Recognised' = KeptOfFirst(at, elements, Accepted)
      <4>1. (at + 1) - 1 = at
        BY <1>2
      <4>2. Recognised' = KeptOfFirst((at + 1) - 1, elements, Accepted')
        BY <1>3, <2>2 DEF Recognised, Accepted
      <4> QED BY <1>4, <4>1, <4>2
    <3> HIDE DEF R, elements, at
    <3>3. /\ elements[at] \in Accepted =>
                 KeptOfFirst(at, elements, Accepted)
                     = Append(KeptOfFirst(at - 1, elements, Accepted),
                              elements[at])
          /\ elements[at] \notin Accepted =>
                 KeptOfFirst(at, elements, Accepted)
                     = KeptOfFirst(at - 1, elements, Accepted)
      BY <1>2, KeptOfNext, Zenon
    <3>4. elements[at] = Element
      BY DEF elements, at, Element
    <3> QED BY <1>5, <2>2, <3>1, <3>2, <3>3, <3>4
  <2> QED BY <2>1, <2>2
<1>8. /\ handler'.points = Mapped(objects, Recognised')
      /\ handler'.labels = Mapped(labels, Recognised')
      /\ Recognised' \in Seq(Addresses)
  <2>1. /\ objects[Element] = DataObject(handler.asdu, Element)
        /\ labels[Element] = definition[Element].label
    BY <1>2
  <2> HIDE DEF objects, labels, R
  <2>2. CASE handler.found /\ type \in HandledTypes
    <3>1. Append(handler.points, objects[Element])
            = Mapped(objects, Append(R, Element))
      BY <1>2, <1>6, AppendMapped, Zenon
    <3>2. Append(handler.labels, labels[Element])
            = Mapped(labels, Append(R, Element))
      BY <1>2, <1>6, AppendMapped, Zenon
    <3>3. Append(R, Element) \in Seq(Addresses)
      BY <1>2, <1>6
    <3> QED BY <1>3, <1>7, <2>1, <2>2, <3>1, <3>2, <3>3
  <2>3. CASE ~(handler.found /\ type \in HandledTypes)
    BY <1>3, <1>6, <1>7, <2>3
  <2> QED BY <2>2, <2>3
<1>9. \A i \in DOMAIN Recognised' :
         /\ objects[Recognised'[i]]
                = DataObject(handler.asdu, Recognised'[i])
         /\ labels[Recognised'[i]] = definition[Recognised'[i]].label
  <2>1. \A i \in DOMAIN Recognised' : Recognised'[i] \in Addresses
    BY <1>8
  <2> QED BY <2>1
<1>10. ReadingsStayLabelled'
  <2>1. handler'.points = [i \in DOMAIN Recognised' |->
                              DataObject(handler.asdu, Recognised'[i])]
    BY <1>8, <1>9 DEF Mapped
  <2>2. handler'.labels = [i \in DOMAIN Recognised' |->
                              definition[Recognised'[i]].label]
    BY <1>8, <1>9 DEF Mapped
  <2> QED BY <1>3, <1>4, <2>1, <2>2 DEF ReadingsStayLabelled, DataObject
<1> QED BY <1>2, <1>3, <1>10 DEF LabelsInv

LEMMA LabelsStepInv ==
    ASSUME LifeInv, ConfigInv, HandlerInv, ThreadInv, LabelsInv, [Next]_vars
    PROVE  LabelsInv'
<1>1. PICK P, Q : handler \in HandlerStates(P, Q)
  BY DEF HandlerInv
<1>2. handler.pc # "idle" => Stable
  <2>1. handler.pc # "idle" => ~BeginImport /\ ~ImportStep
    BY HandlerNeedsClient DEF BeginImport, ImportStep
  <2> QED BY <2>1, StepsConfigure, DefinitionsStable
<1>3. CASE Receive
  <2>1. PICK a \in Asdus : handler' = [HandlerIdle EXCEPT !.pc = "element",
                                                          !.asdu = a]
    BY <1>3 DEF Receive
  <2>2. handler' = [pc |-> "element", asdu |-> a, at |-> 1, found |-> FALSE,
                    holds |-> FALSE, points |-> <<>>, labels |-> <<>>]
    BY <2>1 DEF HandlerIdle
  <2>3. a.elements \in Seq(Addresses) /\ Len(a.elements) \in Nat
    BY PluginAssumption
  <2>4. Recognised' = <<>>
    <3>1. \A S : KeptOfFirst(0, a.elements, S) = <<>>
      BY <2>3, KeptOfNone, Zenon
    <3>2. 1 - 1 = 0
      OBVIOUS
    <3> QED BY <2>2, <3>1, <3>2 DEF Recognised
  <2> QED BY <2>2, <2>3, <2>4 DEF LabelsInv, ReadingsStayLabelled
<1>4. CASE FindLabel
  <2>1. handler.pc = "element" /\ handler.at <= Len(handler.asdu.elements)
    BY <1>4 DEF FindLabel
  <2>2. PICK holds \in BOOLEAN :
           handler' = [handler EXCEPT
                          !.pc = "found",
                          !.found = Accepts(Element, handler.asdu.type),
                          !.holds = holds]
    BY <1>4, LabelFound, Zenon
  <2>3. /\ UNCHANGED <<handler.asdu, handler.at, handler.points,
                       handler.labels>>
        /\ handler'.found = Accepts(Element, handler.asdu.type)
    BY <1>1, <2>2 DEF HandlerStates
  <2> QED BY <1>2, <2>1, <2>3, LabelsKept
<1>5. CASE TakeElement
  BY <1>5, LabelsOfTaken
<1>6. CASE RequestGi
  <2>1. CASE handler' = [handler EXCEPT !.pc = "element"]
    <3>1. /\ UNCHANGED <<handler.asdu, handler.at, handler.points,
                         handler.labels>>
          /\ handler'.pc = "element"
      BY <1>1, <2>1 DEF HandlerStates
    <3> QED BY <1>2, <1>6, <3>1, LabelsKept DEF RequestGi
  <2>2. CASE UNCHANGED handler
    BY <1>2, <1>6, <2>2, LabelsKept DEF RequestGi
  <2> QED BY <1>6, <2>1, <2>2 DEF RequestGi, Misses, threadVars
<1>7. CASE handler' = HandlerIdle
  BY <1>7 DEF HandlerIdle, LabelsInv, ReadingsStayLabelled
<1>8. CASE UNCHANGED handler
  <2>1. CASE handler.pc = "idle"
    BY <1>8, <2>1 DEF LabelsInv, ReadingsStayLabelled
  <2>2. CASE handler.pc # "idle"
    BY <1>2, <1>8, <2>2, LabelsKept DEF LabelsInv, ReadingsStayLabelled
  <2> QED BY <2>1, <2>2
<1>9. CASE \/ Host
           \/ \E c \in Clients : Monitor(c)
           \/ \E o \in Operators : Operator(o)
           \/ UNCHANGED vars
  BY <1>7, <1>8, <1>9, OthersKeepHandler DEF vars, threadVars
<1> QED
  BY <1>3, <1>4, <1>5, <1>6, <1>7, <1>9 DEF Next, HandleAsdu, SendData

-----------------------------------------------------------------------------
(* The commands a client sent and the connection that may be left for one. *)

AnswerInv ==
    /\ stuck \subseteq 1..created
    /\ created \in stuck => commanded # {}
    /\ handler.holds => handler.pc = "found" /\ commanded # {}
    /\ \A sent \in commanded : sent.addr \in Addresses

LEMMA HostKeepsAnswers ==
    ASSUME LifeInv, HandlerInv, AnswerInv, Host
    PROVE  AnswerInv'
<1> USE DEF clientVars, answerVars, threadVars
<1>1. CASE MakeClient
  <2>1. handler.pc = "idle"
    BY <1>1, HandlerNeedsClient DEF MakeClient
  <2>2. created \in Nat /\ created' = created + 1 /\ commanded' = {}
    BY <1>1 DEF MakeClient, LifeInv, LifeTypes
  <2>3. UNCHANGED <<stuck, handler>>
    BY <1>1 DEF MakeClient
  <2> QED BY <2>1, <2>2, <2>3 DEF AnswerInv
<1>2. CASE ~MakeClient
  <2>1. UNCHANGED <<created, commanded, stuck, handler>>
    BY <1>2
       DEF Host, HostReturns, PluginInit, PluginStart, PluginReconfigure,
           PluginShutdown, StopNoClient, StopClient, JoinMonitor,
           DeletePlugin, KeepConfig, BeginImport, ImportStep, EndImport,
           LaunchClient
  <2> QED BY <2>1 DEF AnswerInv
<1> QED BY <1>1, <1>2

(* The client whose monitoring thread ends is the one made last.           *)
LEMMA MonitorKeepsAnswers ==
    ASSUME LifeInv, AnswerInv, NEW c \in Clients, Monitor(c)
    PROVE  AnswerInv'
<1> USE DEF clientVars, answerVars, threadVars
<1>1. CASE MonitorEnds(c)
  <2>1. MonitorOK(c) /\ monitor[c] = "closing"
    BY <1>1 DEF LifeInv, MonitorsInv, MonitorEnds
  <2>2. c = created /\ created \in 1..created
    BY <2>1, PluginAssumption
       DEF MonitorOK, Live, LifeInv, ClientInv, Clients
  <2>3. UNCHANGED <<created, commanded>>
    BY <1>1 DEF MonitorEnds
  <2>4. \/ UNCHANGED <<handler, stuck>>
        \/ /\ handler.holds
           /\ handler' = HandlerIdle
           /\ stuck' = stuck \cup {c}
    BY <1>1 DEF MonitorEnds, HandlerEnds
  <2>5. ~HandlerIdle.holds
    BY DEF HandlerIdle
  <2> QED BY <2>2, <2>3, <2>4, <2>5 DEF AnswerInv
<1>2. CASE ~MonitorEnds(c)
  <2>1. UNCHANGED <<created, commanded, stuck, handler>>
    BY <1>2 DEF Monitor, MonitorExit, MonitorActivates, MonitorLoses,
                MonitorLeaves, MonitorCloses
  <2> QED BY <2>1 DEF AnswerInv
<1> QED BY <1>1, <1>2

LEMMA HandlerKeepsAnswers ==
    ASSUME HandlerInv, AnswerInv, Receive \/ HandleAsdu
    PROVE  AnswerInv'
<1> USE DEF clientVars, answerVars
<1>1. PICK P, Q : handler \in HandlerStates(P, Q)
  BY DEF HandlerInv
<1>2. UNCHANGED <<created, commanded, stuck>>
  BY DEF Receive, HandleAsdu, FindLabel, TakeElement, RequestGi, SendData
<1>3. handler'.holds => handler'.pc = "found" /\ commanded # {}
  <2>1. CASE Receive
    <3>1. PICK a \in Asdus : handler' = [HandlerIdle EXCEPT !.pc = "element",
                                                            !.asdu = a]
      BY <2>1 DEF Receive
    <3> QED BY <3>1 DEF HandlerIdle
  <2>2. CASE FindLabel
    <3>1. PICK holds \in BOOLEAN :
             /\ handler' = [handler EXCEPT
                               !.pc = "found",
                               !.found = Accepts(Element, handler.asdu.type),
                               !.holds = holds]
             /\ holds => commanded # {}
      BY <2>2, LabelFound, Zenon
    <3> QED BY <1>1, <3>1 DEF HandlerStates
  <2>3. CASE TakeElement
    BY <2>3, ElementTaken, Zenon
  <2>4. CASE RequestGi
    <3>1. ~handler.holds
      BY <2>4 DEF RequestGi, AnswerInv
    <3>2. \/ handler' = [handler EXCEPT !.pc = "element"]
          \/ UNCHANGED handler
      BY <2>4 DEF RequestGi, Misses, threadVars
    <3> QED BY <1>1, <3>1, <3>2 DEF HandlerStates
  <2>5. CASE SendData
    BY <2>5 DEF SendData, HandlerIdle
  <2> QED BY <2>1, <2>2, <2>3, <2>4, <2>5 DEF HandleAsdu
<1> QED BY <1>2, <1>3 DEF AnswerInv

LEMMA OperatorKeepsAnswers ==
    ASSUME ThreadInv, AnswerInv, NEW o \in Operators, Operator(o)
    PROVE  AnswerInv'
<1> USE DEF clientVars, answerVars
<1>1. UNCHANGED <<created, stuck, handler>>
  BY DEF Operator, Operation, RejectCommand, OperationMisses, SendCommand,
         SendOther, EndSending, ScheduleGi, Goes, Misses, threadVars
<1>2. ASSUME NEW sent \in SUBSET Sent(o), thread[o].pc = "sending",
             commanded' = commanded \cup sent
      PROVE  AnswerInv'
  <2>1. thread[o].request \in Requests
    BY <1>2 DEF ThreadInv, OperatorOK
  <2>2. ASSUME NEW k \in Sent(o) PROVE k.addr \in Addresses
    <3>1. /\ thread[o].request.operation = "IEC104Command"
          /\ k = [type |-> thread[o].request.type,
                  addr |-> thread[o].request.addr]
      BY DEF Sent
    <3> QED BY <2>1, <3>1, RequestsHaveAddresses
  <2> QED BY <1>1, <1>2, <2>2 DEF AnswerInv
<1>3. CASE UNCHANGED commanded
  BY <1>1, <1>3 DEF AnswerInv
<1>4. CASE EndSending(o)
  BY <1>2, <1>3, <1>4, Zenon DEF EndSending
<1>5. CASE ~EndSending(o)
  BY <1>3, <1>5 DEF Operator, Operation, RejectCommand, OperationMisses,
                    SendCommand, SendOther, ScheduleGi
<1> QED BY <1>4, <1>5

LEMMA AnswerStepInv ==
    ASSUME LifeInv, HandlerInv, ThreadInv, AnswerInv, [Next]_vars
    PROVE  AnswerInv'
<1>1. CASE UNCHANGED vars
  BY <1>1 DEF vars, clientVars, answerVars, threadVars, AnswerInv
<1> QED
  BY <1>1, HostKeepsAnswers, MonitorKeepsAnswers, HandlerKeepsAnswers,
     OperatorKeepsAnswers DEF Next

-----------------------------------------------------------------------------
(* The whole invariant.                                                    *)

PluginInv ==
    /\ LifeInv
    /\ ConfigInv
    /\ HandlerInv
    /\ ThreadInv
    /\ MissesOnlyOverlapped
    /\ RunsInv
    /\ LabelsInv
    /\ AnswerInv
    /\ active \in BOOLEAN

LEMMA PluginInitInv == Init => PluginInv
<1> SUFFICES ASSUME Init PROVE PluginInv
  OBVIOUS
<1>1. LifeInv /\ ConfigInv
  BY LifeInitInv, ConfigInitInv DEF Init
<1>2. HandlerInv
  <2>1. handler \in HandlerStates({<<>>}, {<<>>}) /\ handler.pc = "idle"
    BY DEF Init, HandlerIdle, HandlerStates
  <2> QED BY <2>1 DEF HandlerInv
<1>3. ThreadInv
  <2>1. OperatorIdle \in ThreadStates /\ OperatorIdle.pc = "idle"
    BY DEF OperatorIdle, ThreadStates
  <2> QED BY <2>1 DEF Init, ThreadInv, OperatorOK
<1>4. MissesOnlyOverlapped
  BY DEF Init, MissesOnlyOverlapped
<1>5. RunsInv /\ LabelsInv /\ active \in BOOLEAN
  BY DEF Init, RunsInv, LabelsInv, ReadingsStayLabelled, HandlerIdle
<1>6. AnswerInv
  BY DEF Init, AnswerInv, HandlerIdle
<1> QED BY <1>1, <1>2, <1>3, <1>4, <1>5, <1>6 DEF PluginInv

LEMMA PluginStepInv ==
    ASSUME PluginInv, [Next]_vars
    PROVE  PluginInv'
<1> USE DEF PluginInv
<1>1. /\ ConfigInv' /\ MissesOnlyOverlapped' /\ RunsInv' /\ LabelsInv'
      /\ AnswerInv'
  BY StepsConfigure, ConfigStepInv, MissesOverlapped, RunsStepInv,
     LabelsStepInv, AnswerStepInv
<1>2. CASE Host
  <2>1. LifeInv'
    BY <1>2, HostCallsLife, HostPassesLife, HostLife DEF Host, HostReturns
  <2>2. HandlerInv' /\ ThreadInv'
    BY <1>2, HandlerKeptInv, HostKeepsThreads
  <2>3. UNCHANGED active
    BY <1>2
       DEF Host, HostReturns, PluginInit, PluginStart, PluginReconfigure,
           PluginShutdown, StopNoClient, StopClient, JoinMonitor,
           DeletePlugin, KeepConfig, BeginImport, ImportStep, EndImport,
           MakeClient, LaunchClient
  <2> QED BY <1>1, <2>1, <2>2, <2>3
<1>3. CASE \E c \in Clients : Monitor(c)
  <2>1. LifeInv' /\ HandlerInv' /\ ThreadInv'
    BY <1>3, MonitorLife, HandlerKeptInv, MonitorKeepsThreads
  <2>2. active' \in BOOLEAN
    BY <1>3 DEF Monitor, MonitorExit, MonitorActivates, MonitorLoses,
                MonitorLeaves, MonitorCloses, MonitorEnds
  <2> QED BY <1>1, <2>1, <2>2
<1>4. ASSUME UNCHANGED <<lifeVars, groups>> PROVE LifeInv'
  BY <1>4, Zenon
     DEF lifeVars, hostVars, clientVars, LifeInv, LifeTypes, CallsInv,
         ClientInv, MonitorsInv, MonitorOK, Live, Calls, Clients
<1>5. CASE Receive \/ HandleAsdu
  <2>1. HandlerInv' /\ ThreadInv'
    BY <1>5, HandlerStepInv, HandlerKeepsThreads
  <2>2. UNCHANGED active
    BY <1>5 DEF Receive, HandleAsdu, FindLabel, TakeElement, RequestGi,
                SendData
  <2> QED BY <1>1, <1>4, <1>5, <2>1, <2>2, OthersKeepLife
<1>6. CASE \E o \in Operators : Operator(o)
  <2>1. HandlerInv' /\ ThreadInv'
    BY <1>6, HandlerKeptInv, OperatorKeepsThreads
  <2>2. UNCHANGED active
    BY <1>6 DEF Operator, Operation, RejectCommand, OperationMisses,
                SendCommand, SendOther, EndSending, ScheduleGi
  <2> QED BY <1>1, <1>4, <1>6, <2>1, <2>2, OthersKeepLife
<1>7. CASE UNCHANGED vars
  <2>1. UNCHANGED <<lifeVars, groups, active, handler, thread, since,
                    configVars>>
    BY <1>7 DEF vars, lifeVars, clientVars, configVars, imported, threadVars
  <2>2. HandlerInv'
    BY <2>1, Zenon DEF HandlerInv, lifeVars, clientVars
  <2>3. Stable
    BY <2>1, DefinitionsStable
  <2>4. ThreadInv'
    <3>1. ASSUME NEW o \in Operators PROVE OperatorOK(o)'
      BY <2>1, <2>3, OperatorKept
         DEF ThreadInv, OperatorOK, Unstopped, lifeVars, clientVars, hostVars
    <3> QED BY <2>1, <3>1 DEF ThreadInv
  <2> QED BY <1>1, <1>4, <2>1, <2>2, <2>4
<1> QED BY <1>2, <1>3, <1>5, <1>6, <1>7 DEF Next

LEMMA PluginInvariant == Safety => []PluginInv
BY PluginInitInv, PluginStepInv, PTL DEF Safety

-----------------------------------------------------------------------------
(* Theorems.                                                               *)

(* The plugin uses its configuration as ClientConfig says: nothing is      *)
(* looked up while setJsonConfig() imports.                                *)
THEOREM PluginDrivesConfig == Safety => ImportsUndisturbed
<1>1. Init => ConfigInit
  BY DEF Init
<1>2. PluginInv /\ [Next]_vars => [ConfigNext]_configVars
  BY StepsConfigure DEF PluginInv
<1> QED BY <1>1, <1>2, PluginInvariant, PTL
     DEF Safety, ImportsUndisturbed, ConfigSpec

(* Every variable keeps its type.                                          *)
THEOREM PluginTypeCorrect == Safety => []TypeOK
<1>1. PluginInv => TypeOK
  <2> SUFFICES ASSUME PluginInv PROVE TypeOK
    OBVIOUS
  <2>1. ConfigTypeOK
    BY DEF PluginInv, ConfigInv
  <2>2. DOMAIN connections = Clients
    BY DEF PluginInv, LifeInv, LifeTypes
  <2>3. /\ handler.pc \in {"idle", "element", "found", "request"}
        /\ handler.holds \in BOOLEAN
        /\ handler.asdu \in Asdus \cup {NoAsdu}
    BY DEF PluginInv, HandlerInv, HandlerStates
  <2>5. /\ stuck \subseteq Clients
        /\ \A sent \in commanded : sent.addr \in Addresses
    BY PluginAssumption
       DEF PluginInv, AnswerInv, LifeInv, LifeTypes, Clients
  <2>4. /\ \A o \in Operators :
              thread[o].pc \in {"idle", "tested", "sending", "request"}
        /\ since \in [Threads -> SUBSET {"stop", "loss"}]
    BY DEF PluginInv, ThreadInv, ThreadStates
  <2> QED
    BY <2>1, <2>2, <2>3, <2>4, <2>5
       DEF PluginInv, LifeInv, LifeTypes, Live, TypeOK
<1> QED BY <1>1, PluginInvariant, PTL

(* What holds of a configuration by itself holds of that of the plugin.    *)
THEOREM PluginConfigCorrect ==
    Safety => /\ []LastDefinitionWins
              /\ []ListsMatchDefinitions
              /\ []AcceptedIsSameInformation
BY PluginDrivesConfig, ConfigLastDefinitionWins, ConfigListsMatch,
   ConfigAccepts, PTL DEF ImportsUndisturbed

(* A client that was replaced has ended its thread, and only a connection  *)
(* that a command being answered kept can keep the client; that happens to *)
(* no client but one that has sent a command.                              *)
THEOREM PluginReplacesClients == Safety => []OnlyCurrentClientLives
<1>1. PluginInv => OnlyCurrentClientLives
  <2> SUFFICES ASSUME PluginInv PROVE OnlyCurrentClientLives
    OBVIOUS
  <2>1. ASSUME NEW c \in 1..created, c # client
        PROVE  monitor[c] = "ended" /\ connections[c] = <<>>
    <3>1. /\ created \in 0..MaxReconfigurations + 1
          /\ monitor \in [Clients -> Live \cup {"none", "ended"}]
      BY DEF PluginInv, LifeInv, LifeTypes
    <3>2. c \in Clients /\ ~(c > created)
      BY <3>1, PluginAssumption DEF Clients
    <3>3. MonitorOK(c)
      BY <3>2 DEF PluginInv, LifeInv, MonitorsInv
    <3> QED BY <2>1, <3>1, <3>2, <3>3 DEF MonitorOK
  <2>2. created \in stuck => commanded # {}
    BY DEF PluginInv, AnswerInv
  <2> QED BY <2>1, <2>2 DEF OnlyCurrentClientLives, Exists
<1> QED BY <1>1, PluginInvariant, PTL

(* Between two calls the client is the one the last call asked for, on the *)
(* configuration imported last.                                            *)
THEOREM PluginRunsCurrentConfig == Safety => []RunsOnCurrentConfig
<1>1. PluginInv => RunsOnCurrentConfig
  <2> SUFFICES ASSUME PluginInv, control = "idle"
               PROVE  /\ step = "ready"
                      /\ client # NoClient
                             <=> call.entry = "start" \/ call.asset
                      /\ client # NoClient =>
                             /\ monitor[client] = "running"
                             /\ client \in onConfig
                             /\ connections[client] = PreparedConnections
    BY DEF RunsOnCurrentConfig
  <2>1. /\ step = "ready"
        /\ client # NoClient <=> call.entry = "start" \/ call.asset
        /\ client # NoClient => client \in Clients /\ client \in onConfig
    BY DEF PluginInv, LifeInv, LifeTypes, ClientInv
  <2>2. client # NoClient => monitor[client] = "running"
    BY <2>1 DEF PluginInv, LifeInv, MonitorsInv, MonitorOK
  <2> QED BY <2>1, <2>2 DEF PluginInv, RunsInv
<1> QED BY <1>1, PluginInvariant, PTL

(* An object is missed only by a thread whose test a stop, or the loss of  *)
(* the active connection, has overtaken.                                   *)
THEOREM PluginMissesOverlapped == Safety => []MissesOnlyOverlapped
<1>1. PluginInv => MissesOnlyOverlapped
  BY DEF PluginInv
<1> QED BY <1>1, PluginInvariant, PTL

(* What an ASDU is turned into has the data object and the label of each   *)
(* element the exchange definitions accept, in the order they came in,     *)
(* whatever is looked up meanwhile.                                        *)
THEOREM PluginLabelsReadings == Safety => []ReadingsStayLabelled
<1>1. PluginInv => ReadingsStayLabelled
  BY DEF PluginInv, LabelsInv
<1> QED BY <1>1, PluginInvariant, PTL

(* The answer to a command that was let through is not dropped.            *)
THEOREM PluginRecognisesAnswers == Safety => []AnswersAreRecognised
<1>1. PluginInv => AnswersAreRecognised
  BY DEF PluginInv, ThreadInv, OperatorOK, Recognisable,
         AnswersAreRecognised
<1> QED BY <1>1, PluginInvariant, PTL
=============================================================================
