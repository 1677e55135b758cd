------------------------- MODULE ClientConnections -------------------------
(***************************************************************************)
(* The connection management of the IEC 104 client: the monitoring thread  *)
(* of IEC104Client, the connection thread of every IEC104ClientConnection  *)
(* and the thread lib60870 runs for every CS104_Connection handle.         *)
(*                                                                         *)
(* One action is one stretch of code that no other thread can observe      *)
(* half-done: a critical section of m_conLock, or an unlocked read or      *)
(* write of a shared flag when its place in the interleaving matters.      *)
(*                                                                         *)
(* Time is counted in polls of the monitoring thread (100 ms each): the    *)
(* timers of the code (500 ms, 5 s, 10 s) are small numbers of polls, so   *)
(* that a 10 s delay can never expire between two consecutive polls.       *)
(***************************************************************************)
EXTENDS Integers

CONSTANTS
    N,               \* number of configured connections, in list order
    AutoConnect,     \* those with "conn" set: Start() asks to connect them
    AutoStart,       \* those with "start" set: kept open when not needed
    MayFail,         \* those whose TLS material may be unusable
    GiTimeout,       \* TRUE when gi_time # 0: periodic tasks may close
    QualityPolls,    \* polls of qualityUpdateTimeout      (500 ms)
    BackupPolls,     \* polls of BACKUP_CONNECTION_TIMEOUT (5 s)
    DelayPolls       \* polls of the connect timeout and reconnect delay (10 s)

Connections == 1..N

ASSUME ConnectionsAssumption ==
    /\ N \in Nat \ {0}
    /\ AutoConnect \subseteq Connections
    /\ AutoStart \subseteq Connections
    /\ MayFail \subseteq Connections
    /\ GiTimeout \in BOOLEAN
    /\ QualityPolls \in Nat \ {0}
    /\ BackupPolls \in Nat \ {0}
    /\ DelayPolls \in Nat \ {0}

VARIABLES
    running,         \* IEC104Client::m_started
    mon,             \* control point of _monitoringThread
    cursor,          \* its position in m_connections, in a loop over them
    active,          \* m_activeConnection, 0 for nullptr
    connStatus,      \* m_connStatus
    backupTimer,     \* polls left until backupConnectionStartTime
    qualityTimer,    \* qualityUpdateTimer: 0 not armed, 1 expired
    qualityUpdated,
    firstConnected,

    started,         \* m_started of each connection
    pc,              \* control point of each _conThread
    conState,        \* m_connectionState
    connected,       \* m_connected
    connecting,      \* m_connecting
    connect,         \* m_connect
    disconnect,      \* m_disconnect
    handle,          \* m_connection # nullptr
    delay,           \* polls left until m_delayExpirationTime

    session,         \* the lib60870 connection last created, see below
    closing,         \* its close flag
    startDt          \* STARTDT exchange of that session

monVars  == <<running, mon, cursor, active, connStatus, backupTimer,
              qualityTimer, qualityUpdated, firstConnected>>
conVars  == <<started, pc, conState, connected, connecting, connect,
              disconnect, handle, delay>>
libVars  == <<session, closing, startDt>>
vars     == <<monVars, conVars, libVars>>

ConStates == {"IDLE", "CONNECTING", "CONNECTED_INACTIVE", "CONNECTED_ACTIVE",
              "CLOSED", "WAIT_FOR_RECONNECT", "FATAL_ERROR"}

(* A handle is created, its socket connects ("connecting"), the session is *)
(* open, and its thread has ended.                                         *)
Sessions  == {"none", "connecting", "open", "ended"}
StartDts  == {"no", "sent", "confirmed"}

(* "top" is the head of the loop up to the switch, "tail" the test of      *)
(* m_disconnect after a switch that changed something.  The "destroy"      *)
(* points are the joins of CS104_Connection_destroy and _close.            *)
Destroying == {"destroyOld", "destroyDisconnected", "destroyFinal"}
ConPoints  == Destroying \cup
              {"dead", "top", "tail", "prepare", "timeout", "closeWait"}
MonPoints  == {"start", "poll", "scan", "activate", "connectAll", "trim",
               "sleep", "stop", "join", "done"}

TypeOK ==
    /\ running \in BOOLEAN
    /\ mon \in MonPoints
    /\ cursor \in 1..N+1
    /\ active \in 0..N
    /\ connStatus \in {"NOT_CONNECTED", "STARTED"}
    /\ backupTimer \in 0..BackupPolls
    /\ qualityTimer \in 0..QualityPolls+1
    /\ qualityUpdated \in BOOLEAN
    /\ firstConnected \in BOOLEAN
    /\ started \in [Connections -> BOOLEAN]
    /\ pc \in [Connections -> ConPoints]
    /\ conState \in [Connections -> ConStates]
    /\ connected \in [Connections -> BOOLEAN]
    /\ connecting \in [Connections -> BOOLEAN]
    /\ connect \in [Connections -> BOOLEAN]
    /\ disconnect \in [Connections -> BOOLEAN]
    /\ handle \in [Connections -> BOOLEAN]
    /\ delay \in [Connections -> 0..DelayPolls]
    /\ session \in [Connections -> Sessions]
    /\ closing \in [Connections -> BOOLEAN]
    /\ startDt \in [Connections -> StartDts]

Init ==
    /\ running = TRUE
    /\ mon = "start"
    /\ cursor = 1
    /\ active = 0
    /\ connStatus = "NOT_CONNECTED"
    /\ backupTimer = BackupPolls
    /\ qualityTimer = 0
    /\ qualityUpdated = FALSE
    /\ firstConnected = FALSE
    /\ started = [c \in Connections |-> FALSE]
    /\ pc = [c \in Connections |-> "dead"]
    /\ conState = [c \in Connections |-> "IDLE"]
    /\ connected = [c \in Connections |-> FALSE]
    /\ connecting = [c \in Connections |-> FALSE]
    /\ connect = [c \in Connections |-> FALSE]
    /\ disconnect = [c \in Connections |-> FALSE]
    /\ handle = [c \in Connections |-> FALSE]
    /\ delay = [c \in Connections |-> 0]
    /\ session = [c \in Connections |-> "none"]
    /\ closing = [c \in Connections |-> FALSE]
    /\ startDt = [c \in Connections |-> "no"]

-----------------------------------------------------------------------------
(* IEC104ClientConnection: the requests other threads make.                *)

Disconnected(c) == ~connecting[c] /\ ~connected[c]

ConnectKeepsFlag(c) ==   \* faulty variant: m_connect is not set
    /\ disconnect' = [disconnect EXCEPT ![c] = FALSE]
    /\ UNCHANGED connect

(* Connect() and Disonnect() only write the two request flags.             *)
Connect(c) ==
    /\ disconnect' = [disconnect EXCEPT ![c] = FALSE]
    /\ connect' = [connect EXCEPT ![c] = TRUE]

DisonnectKeepsFlag(c) ==   \* faulty variant: m_disconnect is not set
    /\ connect' = [connect EXCEPT ![c] = FALSE]
    /\ UNCHANGED disconnect

Disonnect(c) ==
    /\ disconnect' = [disconnect EXCEPT ![c] = TRUE]
    /\ connect' = [connect EXCEPT ![c] = FALSE]

(* Activate() puts the state to CONNECTED_ACTIVE at once, before STARTDT is *)
(* confirmed, and even when there is no handle to send STARTDT on.         *)
ActivateAnyState(c) ==   \* faulty variant: the state is not tested
    /\ conState' = [conState EXCEPT ![c] = "CONNECTED_ACTIVE"]
    /\ startDt' = [startDt EXCEPT ![c] = IF handle[c] THEN "sent" ELSE @]

Activate(c) ==
    IF conState[c] = "CONNECTED_INACTIVE"
    THEN /\ conState' = [conState EXCEPT ![c] = "CONNECTED_ACTIVE"]
         /\ startDt' = [startDt EXCEPT ![c] = IF handle[c] THEN "sent" ELSE @]
    ELSE UNCHANGED <<conState, startDt>>

-----------------------------------------------------------------------------
(* The connection thread.                                                  *)

AtTop(c) == pc[c] = "top" /\ started[c]

Goto(c, point) == pc' = [pc EXCEPT ![c] = point]

\* Faulty variants: the handle is kept; it is closed without a join; its
\* thread is joined without the close flag.
DetachKeepsHandle(c, joining, next) ==
    /\ closing' = [closing EXCEPT ![c] = @ \/ handle[c]]
    /\ Goto(c, IF handle[c] THEN joining ELSE next)
    /\ UNCHANGED handle

DetachWithoutJoin(c, joining, next) ==
    /\ handle' = [handle EXCEPT ![c] = FALSE]
    /\ closing' = [closing EXCEPT ![c] = @ \/ handle[c]]
    /\ Goto(c, next)

DetachWithoutClose(c, joining, next) ==
    /\ handle' = [handle EXCEPT ![c] = FALSE]
    /\ Goto(c, IF handle[c] THEN joining ELSE next)
    /\ UNCHANGED closing

(* Taking the handle under m_conLock, then CS104_Connection_destroy, which *)
(* sets the close flag and joins the handle's thread.                      *)
Detach(c, joining, next) ==
    /\ handle' = [handle EXCEPT ![c] = FALSE]
    /\ closing' = [closing EXCEPT ![c] = @ \/ handle[c]]
    /\ Goto(c, IF handle[c] THEN joining ELSE next)

Joined(c) == session[c] \in {"none", "ended"}

(* IDLE and asked to connect: give up the handle of the last attempt.      *)
DetachOld(c) ==
    /\ AtTop(c)
    /\ conState[c] = "IDLE"
    /\ connect[c]
    /\ Detach(c, "destroyOld", "prepare")
    /\ UNCHANGED <<monVars, started, conState, connected, connecting, connect,
                   disconnect, delay, session, startDt>>

(* A finished join in _conThread: of the old handle, of the handle of a    *)
(* requested disconnection, of the last handle, or of closeConnection().   *)
AfterJoin == [destroyOld |-> "prepare", destroyDisconnected |-> "top",
              destroyFinal |-> "dead", closeWait |-> "tail"]

JoinLib(c) ==
    /\ pc[c] \in Destroying \cup {"closeWait"}
    /\ Joined(c)
    /\ Goto(c, AfterJoin[pc[c]])
    /\ UNCHANGED <<monVars, started, conState, connected, connecting, connect,
                   disconnect, handle, delay, libVars>>

(* prepareConnection() and connectAsync under m_conLock.  A handle still   *)
(* in place makes prepareConnection() fail, like unusable TLS material.    *)
PrepareConnection(c) ==
    /\ pc[c] = "prepare"
    /\ ~handle[c]
    /\ handle' = [handle EXCEPT ![c] = TRUE]
    /\ session' = [session EXCEPT ![c] = "connecting"]
    /\ closing' = [closing EXCEPT ![c] = FALSE]
    /\ conState' = [conState EXCEPT ![c] = "CONNECTING"]
    /\ connecting' = [connecting EXCEPT ![c] = TRUE]
    /\ delay' = [delay EXCEPT ![c] = DelayPolls]
    /\ Goto(c, "tail")
    /\ UNCHANGED <<monVars, started, connected, connect, disconnect, startDt>>

PrepareFails(c) ==
    /\ pc[c] = "prepare"
    /\ c \in MayFail \/ handle[c]
    /\ conState' = [conState EXCEPT ![c] = "FATAL_ERROR"]
    /\ Goto(c, "tail")
    /\ UNCHANGED <<monVars, started, connected, connecting, connect,
                   disconnect, handle, delay, libVars>>

(* CONNECTING: the test of the timeout and the write of IDLE take no lock, *)
(* so an OPENED event may fall between them.                               *)
ConnectTimesOut(c) ==
    /\ AtTop(c)
    /\ conState[c] = "CONNECTING"
    /\ delay[c] = 0
    /\ Goto(c, "timeout")
    /\ UNCHANGED <<monVars, started, conState, connected, connecting, connect,
                   disconnect, handle, delay, libVars>>

WriteIdle(c) ==
    /\ pc[c] = "timeout"
    /\ conState' = [conState EXCEPT ![c] = "IDLE"]
    /\ Goto(c, "tail")
    /\ UNCHANGED <<monVars, started, connected, connecting, connect,
                   disconnect, handle, delay, libVars>>

(* CONNECTED_ACTIVE: executePeriodicTasks().  Here only its effect on the  *)
(* connection is kept: a timed out interrogation calls closeConnection().  *)
CloseOnGiTimeout(c) ==
    /\ AtTop(c)
    /\ conState[c] = "CONNECTED_ACTIVE"
    /\ GiTimeout
    /\ handle[c]
    /\ closing' = [closing EXCEPT ![c] = TRUE]
    /\ Goto(c, "closeWait")
    /\ UNCHANGED <<monVars, started, conState, connected, connecting, connect,
                   disconnect, handle, delay, session, startDt>>

ArmReconnect(c) ==
    /\ AtTop(c)
    /\ conState[c] = "CLOSED"
    /\ delay' = [delay EXCEPT ![c] = DelayPolls]
    /\ conState' = [conState EXCEPT ![c] = "WAIT_FOR_RECONNECT"]
    /\ Goto(c, "tail")
    /\ UNCHANGED <<monVars, started, connected, connecting, connect,
                   disconnect, handle, libVars>>

ReconnectDelayOver(c) ==
    /\ AtTop(c)
    /\ conState[c] = "WAIT_FOR_RECONNECT"
    /\ delay[c] = 0
    /\ conState' = [conState EXCEPT ![c] = "IDLE"]
    /\ Goto(c, "tail")
    /\ UNCHANGED <<monVars, started, connected, connecting, connect,
                   disconnect, handle, delay, libVars>>

(* The end of an iteration.  A switch that changed nothing has no step of  *)
(* its own, so that m_disconnect may also be found set at "top".           *)
ServeDisconnect(c) ==
    /\ AtTop(c) \/ pc[c] = "tail"
    /\ disconnect[c]
    /\ connected' = [connected EXCEPT ![c] = FALSE]
    /\ connecting' = [connecting EXCEPT ![c] = FALSE]
    /\ disconnect' = [disconnect EXCEPT ![c] = FALSE]
    /\ Detach(c, "destroyDisconnected", "top")
    /\ UNCHANGED <<monVars, started, conState, connect, delay, session,
                   startDt>>

EndIteration(c) ==
    /\ pc[c] = "tail"
    /\ ~disconnect[c]
    /\ Goto(c, "top")
    /\ UNCHANGED <<monVars, started, conState, connected, connecting, connect,
                   disconnect, handle, delay, libVars>>

LeaveLoop(c) ==
    /\ pc[c] = "top"
    /\ ~started[c]
    /\ Detach(c, "destroyFinal", "dead")
    /\ UNCHANGED <<monVars, started, conState, connected, connecting, connect,
                   disconnect, delay, session, startDt>>

ConThread(c) ==
    \/ DetachOld(c) \/ JoinLib(c) \/ PrepareConnection(c) \/ PrepareFails(c)
    \/ ConnectTimesOut(c) \/ WriteIdle(c) \/ ArmReconnect(c)
    \/ ReconnectDelayOver(c) \/ ServeDisconnect(c) \/ EndIteration(c)
    \/ LeaveLoop(c)

-----------------------------------------------------------------------------
(* The lib60870 thread of a handle, and the handlers it calls.             *)

(* OPENED.  The close flag is only looked at once the socket is connected, *)
(* so that a handle being destroyed may still report it.                   *)
Opened(c) ==
    /\ session[c] = "connecting"
    /\ session' = [session EXCEPT ![c] = "open"]
    /\ conState' = [conState EXCEPT ![c] = "CONNECTED_INACTIVE"]
    /\ connected' = [connected EXCEPT ![c] = TRUE]
    /\ connecting' = [connecting EXCEPT ![c] = FALSE]
    /\ UNCHANGED <<monVars, started, pc, connect, disconnect, handle, delay,
                   closing, startDt>>

(* The socket does not connect: the handler ignores that event.            *)
ConnectFails(c) ==
    /\ session[c] = "connecting"
    /\ session' = [session EXCEPT ![c] = "ended"]
    /\ UNCHANGED <<monVars, conVars, closing, startDt>>

\* Faulty variants: CLOSED leaves m_connectionState, or m_connected, alone.
ClosedKeepsState(c) ==
    /\ session[c] = "open"
    /\ session' = [session EXCEPT ![c] = "ended"]
    /\ startDt' = [startDt EXCEPT ![c] = "no"]
    /\ connected' = [connected EXCEPT ![c] = FALSE]
    /\ connecting' = [connecting EXCEPT ![c] = FALSE]
    /\ UNCHANGED <<monVars, started, pc, conState, connect, disconnect, handle,
                   delay, closing>>

ClosedStaysConnected(c) ==
    /\ session[c] = "open"
    /\ session' = [session EXCEPT ![c] = "ended"]
    /\ startDt' = [startDt EXCEPT ![c] = "no"]
    /\ conState' = [conState EXCEPT ![c] = "CLOSED"]
    /\ connecting' = [connecting EXCEPT ![c] = FALSE]
    /\ UNCHANGED <<monVars, started, pc, connected, connect, disconnect, handle,
                   delay, closing>>

(* CLOSED: by the peer, by a protocol timeout or by the close flag.        *)
Closed(c) ==
    /\ session[c] = "open"
    /\ session' = [session EXCEPT ![c] = "ended"]
    /\ startDt' = [startDt EXCEPT ![c] = "no"]
    /\ conState' = [conState EXCEPT ![c] = "CLOSED"]
    /\ connected' = [connected EXCEPT ![c] = FALSE]
    /\ connecting' = [connecting EXCEPT ![c] = FALSE]
    /\ UNCHANGED <<monVars, started, pc, connect, disconnect, handle, delay,
                   closing>>

StartDtConReceived(c) ==
    /\ session[c] = "open"
    /\ startDt[c] = "sent"
    /\ startDt' = [startDt EXCEPT ![c] = "confirmed"]
    /\ conState' = [conState EXCEPT ![c] = "CONNECTED_ACTIVE"]
    /\ UNCHANGED <<monVars, started, pc, connected, connecting, connect,
                   disconnect, handle, delay, session, closing>>

(* m_asduReceivedHandler gives up a general interrogation that was         *)
(* answered with an unexpected cause of transmission.                      *)
GiAborted(c) ==
    /\ startDt[c] = "confirmed"
    /\ Disonnect(c)
    /\ UNCHANGED <<monVars, started, pc, conState, connected, connecting,
                   handle, delay, libVars>>

(* There is no action for STOPDT_CON, which would make the connection      *)
(* CONNECTED_INACTIVE: the client never sends STOPDT, and an outstation    *)
(* does not confirm what it was not sent.                                  *)
LibThread(c) ==
    Opened(c) \/ ConnectFails(c) \/ Closed(c) \/ StartDtConReceived(c)

-----------------------------------------------------------------------------
(* The monitoring thread.                                                  *)

(* Leaves every connection alone.                                          *)
ConnectionsUnchanged == UNCHANGED <<conVars, libVars>>

QualityUnchanged == UNCHANGED <<qualityTimer, qualityUpdated, firstConnected>>

StartConnections ==
    /\ mon = "start"
    /\ mon' = "poll"
    /\ IF running
       THEN /\ started' = [c \in Connections |-> TRUE]
            /\ connect' = [c \in Connections |-> c \in AutoConnect]
            /\ pc' = [c \in Connections |-> "top"]
       ELSE UNCHANGED <<started, connect, pc>>
    /\ connStatus' = "NOT_CONNECTED"
    /\ backupTimer' = BackupPolls
    /\ UNCHANGED <<running, cursor, active, conState, connected, connecting,
                   disconnect, handle, delay, libVars>>
    /\ QualityUnchanged

(* One poll begins: look for a connection to activate, or look after the   *)
(* active one.                                                             *)
BeginScan ==
    /\ mon = "poll" /\ running
    /\ active = 0
    /\ mon' = "scan"
    /\ cursor' = 1
    /\ UNCHANGED <<running, active, connStatus, backupTimer>>
    /\ QualityUnchanged
    /\ ConnectionsUnchanged

ActiveUsableOnlyFirst ==   \* faulty variant: falls back to the first path
    connected[active] /\ (active = 1 \/ ~connected[1])

ActiveUsable == connected[active]

CheckActive ==
    /\ mon = "poll" /\ running
    /\ active # 0
    /\ backupTimer' = BackupPolls
    /\ cursor' = 1
    /\ IF ActiveUsable
       THEN mon' = "trim" /\ active' = active
       ELSE mon' = "sleep" /\ active' = 0
    /\ UNCHANGED <<running, connStatus>>
    /\ QualityUnchanged
    /\ ConnectionsUnchanged

EligibleAutoStart(c) == connected[c] /\ c \in AutoStart   \* faulty variant

Eligible(c) == connected[c]

ScanNext ==
    /\ mon = "scan"
    /\ cursor <= N
    /\ IF Eligible(cursor)
       THEN mon' = "activate" /\ cursor' = cursor
       ELSE mon' = "scan" /\ cursor' = cursor + 1
    /\ UNCHANGED <<running, active, connStatus, backupTimer>>
    /\ QualityUnchanged
    /\ ConnectionsUnchanged

(* The connection may be lost since it was seen open: it becomes the       *)
(* active one all the same.  Activate() and the write of the active        *)
(* connection are one step: only the monitor reads the latter here.        *)
ActivateFound ==
    /\ mon = "activate"
    /\ Activate(cursor)
    /\ active' = cursor
    /\ connStatus' = "STARTED"
    /\ backupTimer' = BackupPolls
    /\ firstConnected' = TRUE
    /\ qualityTimer' = 0
    /\ qualityUpdated' = FALSE
    /\ mon' = "sleep"
    /\ UNCHANGED <<running, cursor, started, pc, connected, connecting,
                   connect, disconnect, handle, delay, session, closing>>

ReportOutageRearmed ==   \* faulty variant: every poll arms the timer again
    IF firstConnected /\ ~qualityUpdated
    THEN /\ qualityTimer' = QualityPolls + 1
         /\ qualityUpdated' = (qualityTimer = 1)
    ELSE UNCHANGED <<qualityTimer, qualityUpdated>>

(* Half a second without any connection, and all data objects are reported *)
(* NON_TOPICAL, once.                                                      *)
ReportOutage ==
    IF firstConnected /\ ~qualityUpdated
    THEN /\ qualityTimer' = IF qualityTimer = 0 THEN QualityPolls + 1
                            ELSE qualityTimer
         /\ qualityUpdated' = (qualityTimer = 1)
    ELSE UNCHANGED <<qualityTimer, qualityUpdated>>

NothingOpen ==
    /\ mon = "scan"
    /\ cursor = N + 1
    /\ ReportOutage
    /\ connStatus' = "NOT_CONNECTED"
    /\ mon' = IF backupTimer = 0 THEN "connectAll" ELSE "sleep"
    /\ cursor' = 1
    /\ backupTimer' = IF backupTimer = 0 THEN BackupPolls ELSE backupTimer
    /\ UNCHANGED <<running, active, firstConnected>>
    /\ ConnectionsUnchanged

(* The two loops over m_connections that ask for connections and get rid   *)
(* of those nobody needs.                                                  *)
Advance ==
    IF cursor = N THEN mon' = "sleep" /\ cursor' = 1
                  ELSE mon' = mon /\ cursor' = cursor + 1

ConnectBackup ==
    /\ mon = "connectAll"
    /\ IF Disconnected(cursor) THEN Connect(cursor)
                               ELSE UNCHANGED <<connect, disconnect>>
    /\ Advance
    /\ UNCHANGED <<running, active, connStatus, backupTimer, started, pc,
                   conState, connected, connecting, handle, delay, libVars>>
    /\ QualityUnchanged

Unneeded(c) == c # active /\ connected[c] /\ c \notin AutoStart

TrimConnections ==
    /\ mon = "trim"
    /\ IF Unneeded(cursor) THEN Disonnect(cursor)
                           ELSE UNCHANGED <<connect, disconnect>>
    /\ Advance
    /\ UNCHANGED <<running, active, connStatus, backupTimer, started, pc,
                   conState, connected, connecting, handle, delay, libVars>>
    /\ QualityUnchanged

ElapseBelowZero(t) == t - 1   \* faulty variant: an expired timer goes on

Elapse(t) == IF t > 0 THEN t - 1 ELSE 0

(* Thread_sleep(100): the only step in which time passes.                  *)
Sleep ==
    /\ mon = "sleep"
    /\ mon' = "poll"
    /\ backupTimer' = Elapse(backupTimer)
    /\ qualityTimer' = IF qualityTimer > 1 THEN qualityTimer - 1
                       ELSE qualityTimer
    /\ delay' = [c \in Connections |-> Elapse(delay[c])]
    /\ UNCHANGED <<running, cursor, active, connStatus, qualityUpdated,
                   firstConnected, started, pc, conState, connected,
                   connecting, connect, disconnect, handle, libVars>>

(* The loop ends: forget the active connection and destroy the list, which *)
(* stops the connections in order and joins each thread.                   *)
LeaveMonitor ==
    /\ mon = "poll" /\ ~running
    /\ active' = 0
    /\ mon' = "stop"
    /\ cursor' = 1
    /\ UNCHANGED <<running, connStatus, backupTimer>>
    /\ QualityUnchanged
    /\ ConnectionsUnchanged

StopConnection ==
    /\ mon = "stop"
    /\ cursor <= N
    /\ started' = [started EXCEPT ![cursor] = FALSE]
    /\ mon' = "join"
    /\ UNCHANGED <<running, cursor, active, connStatus, backupTimer, pc,
                   conState, connected, connecting, connect, disconnect,
                   handle, delay, libVars>>
    /\ QualityUnchanged

JoinConnection ==
    /\ mon = "join"
    /\ pc[cursor] = "dead"
    /\ mon' = "stop"
    /\ cursor' = cursor + 1
    /\ UNCHANGED <<running, active, connStatus, backupTimer>>
    /\ QualityUnchanged
    /\ ConnectionsUnchanged

MonitorDone ==
    /\ mon = "stop"
    /\ cursor = N + 1
    /\ connStatus' = "NOT_CONNECTED"
    /\ mon' = "done"
    /\ UNCHANGED <<running, cursor, active, backupTimer>>
    /\ QualityUnchanged
    /\ ConnectionsUnchanged

Monitor ==
    \/ StartConnections \/ BeginScan \/ CheckActive \/ ScanNext
    \/ ActivateFound \/ NothingOpen \/ ConnectBackup \/ TrimConnections
    \/ Sleep \/ LeaveMonitor \/ StopConnection \/ JoinConnection
    \/ MonitorDone

(* IEC104Client::stop() clears m_started and then joins the monitor.       *)
RequestStop ==
    /\ running
    /\ running' = FALSE
    /\ UNCHANGED <<mon, cursor, active, connStatus, backupTimer>>
    /\ QualityUnchanged
    /\ ConnectionsUnchanged

(* stop() has returned.                                                    *)
Terminated == mon = "done" /\ UNCHANGED vars

Next ==
    \/ Monitor
    \/ RequestStop
    \/ \E c \in Connections :
          ConThread(c) \/ CloseOnGiTimeout(c) \/ LibThread(c) \/ GiAborted(c)
    \/ Terminated

Safety == Init /\ [][Next]_vars

(* Threads keep running.  A connecting socket ends its attempt (t0), a     *)
(* close flag is served, and STARTDT is confirmed or the session closed    *)
(* (t1).  Nothing is assumed about the peer closing a session, a GI timing *)
(* out or being aborted, or stop() being called.                           *)
Fairness ==
    /\ WF_vars(Monitor)
    /\ \A c \in Connections :
          /\ WF_vars(ConThread(c))
          /\ WF_vars(Opened(c) \/ ConnectFails(c))
          /\ WF_vars(closing[c] /\ Closed(c))
          /\ WF_vars(\/ StartDtConReceived(c)
                     \/ startDt[c] = "sent" /\ Closed(c))

Spec == Safety /\ Fairness

-----------------------------------------------------------------------------
(* Safety properties.                                                      *)

Stopping == mon \in {"stop", "join", "done"}

(* A connection carries data when STARTDT was sent in its session and the  *)
(* client has not given its handle up.                                     *)
Carrying(c) == handle[c] /\ session[c] = "open" /\ startDt[c] # "no"

(* At most one connection has a started data transfer, and until the       *)
(* monitor stops it is the one m_activeConnection points to: commands and  *)
(* interrogations go to the connection the outstation serves.              *)
OnlyActiveCarries ==
    \A c \in Connections : Carrying(c) =>
        /\ Stopping \/ active = c
        /\ \A d \in Connections : Carrying(d) => d = c

(* executePeriodicTasks() sends on m_connection without testing it: while  *)
(* the thread is at its switch in CONNECTED_ACTIVE the handle exists.      *)
NoUseOfNullHandle ==
    \A c \in Connections :
        AtTop(c) /\ conState[c] = "CONNECTED_ACTIVE" => handle[c]

(* m_connected, written by three threads, tells the truth about the handle *)
(* in use, and never claims a session that has ended.                      *)
ConnectedTellsSession ==
    \A c \in Connections :
        /\ connected[c] => session[c] = "open"
        /\ handle[c] /\ session[c] = "open" => connected[c]

(* A handle given up is joined before anything else is done: no thread of  *)
(* lib60870 outlives the handle, nor the connection object it calls back.  *)
NoOrphanSession ==
    \A c \in Connections :
        /\ ~handle[c] /\ ~Joined(c) => pc[c] \in Destroying
        /\ mon = "stop" /\ c < cursor => Joined(c) /\ pc[c] = "dead"
        /\ mon = "done" => Joined(c)

(* Activate() sends STARTDT on an open session and never again once that   *)
(* session has confirmed it, whatever events and timeouts of the           *)
(* connection thread fall between the scan and the activation.             *)
OneStartDtPerSession ==
    [][\A c \in Connections :
          startDt'[c] = "sent" => /\ session[c] = "open"
                                  /\ startDt[c] # "confirmed"]_vars

(* The client's view of the redundancy group refines RedundancyGroup.      *)
RG == INSTANCE RedundancyGroup
         WITH None <- 0, owner <- active, stopping <- Stopping,
              carrying <- {c \in Connections : Carrying(c)}

Refinement == RG!RGSpec

-----------------------------------------------------------------------------
(* Liveness properties.                                                    *)

Monitoring == running /\ ~Stopping

(* An open connection is not overlooked: the monitor chooses one unless    *)
(* the session ends first.                                                 *)
OpenIsActivated ==
    \A c \in Connections :
        connected[c] ~> (active # 0 \/ ~connected[c] \/ ~running)

(* A connection that has failed or was disconnected is asked to connect    *)
(* again when no connection is active.                                     *)
BackupIsConnected ==
    \A c \in Connections :
        (mon # "start" /\ ~connect[c]) ~> (connect[c] \/ active # 0 \/ ~running)

(* While a connection stays active, those kept neither active nor by       *)
(* configuration get closed, and a moment comes when none is left.         *)
UnneededIsTrimmed ==
    (active # 0 /\ \E c \in Connections : Unneeded(c)) ~>
        ((\A c \in Connections : ~Unneeded(c)) \/ active = 0 \/ ~running)

(* A lasting outage is reported: the data objects become NON_TOPICAL.      *)
OutageIsReported ==
    (firstConnected /\ active = 0) ~> (qualityUpdated \/ active # 0 \/ ~running)

(* stop() returns: no join waits for a thread that waits for the joiner.   *)
StopTerminates == ~running ~> mon = "done"

(* The comment "activate the first open connection": the active connection *)
(* is sent STARTDT or does not stay connected.                             *)
ActiveIsStarted ==
    \A c \in Connections :
        (Monitoring /\ active = c /\ connected[c]) ~>
            (startDt[c] # "no" \/ ~connected[c] \/ active # c \/ ~running)
=============================================================================
