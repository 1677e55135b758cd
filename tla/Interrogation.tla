--------------------------- MODULE Interrogation ---------------------------
(***************************************************************************)
(* Time synchronisation and general interrogation (GI) over the sessions   *)
(* of one IEC104ClientConnection: executePeriodicTasks() of the connection *)
(* thread, m_asduReceivedHandler() of the lib60870 thread, and the state   *)
(* of the interrogation that IEC104Client keeps.                           *)
(*                                                                         *)
(* The two threads share this state without a lock, except for the clock   *)
(* synchronisation, which is done under m_conLock.  Each access to the     *)
(* state of the request and to the GI status is therefore a step of its    *)
(* own where the other thread can come in between: a request is sent and   *)
(* then recorded, its state written and then the status reported, and the  *)
(* handler of an ASDU reads the one, writes it, and goes on to the other.  *)
(***************************************************************************)
EXTENDS Integers

CONSTANTS
    TimeSyncModes,   \* configurations: clock sync enabled or not
    GiAllCaModes,    \* configurations: one GI for each CA, or a broadcast
    Points,          \* data objects of the station group
    ListLengths,     \* configurations: length of ListOfCAs, 0 if the import
                     \* of the exchanged data ended early
    GiTime,          \* ticks of gi_time,  0: no time-out
    GiCycle,         \* ticks of gi_cycle, 0: no cycle
    SyncPeriod,      \* ticks of time_sync
    Window           \* APDUs in flight in one direction (parameter k)

ASSUME InterrogationAssumption ==
    /\ TimeSyncModes \subseteq BOOLEAN
    /\ GiAllCaModes \subseteq BOOLEAN
    /\ ListLengths \subseteq Nat
    /\ GiTime \in Nat
    /\ GiCycle \in Nat
    /\ SyncPeriod \in Nat \ {0}
    /\ Window \in Nat \ {0}

VARIABLES
    timeSync,            \* isTimeSyncEnabled(), as configured
    giAllCa,             \* GiForAllCa(), as configured
    numCa,               \* common addresses 1..numCa, in the order of
                         \* ListOfCAs(); of no concern to a broadcast

    conState,            \* m_connectionState, of which three are told apart
    startDt,             \* the STARTDT exchange of the session
    disconnect,          \* m_disconnect
    pc,                  \* control point of the connection thread
    after,               \* where startNewInterrogationCycle() returns to

    timeSynchronized, timeSyncCommandSent, firstTimeSyncOperationCompleted,
    nextTimeSync,        \* ticks left until m_nextTimeSync

    firstGISent, interrogationInProgress,
    requestState,        \* m_interrogationRequestState
    giTimer,             \* ticks left of m_interrogationRequestSent + gi_time
    nextGIStart,         \* ticks left until m_nextGIStartTime
    caIndex,             \* m_listOfCA_it
    endOfInitReceived, giRequested,

    giStatus,            \* IEC104Client::m_giStatus
    notReceived,         \* m_listOfStationGroupDatapoints

    unacknowledged,      \* APDUs sent that the outstation has not confirmed
    handler,             \* place in m_asduReceivedHandler()

    synced,              \* clock sync was sent in this session    (history)
    asked,               \* a GI was sent in this session          (history)
    notSent,             \* the last GI found the window full      (history)
    received             \* data objects answered in this GI cycle (history)

configVars  == <<timeSync, giAllCa, numCa>>
sessionVars == <<conState, startDt, disconnect>>
threadVars  == <<pc, after>>
syncVars    == <<timeSynchronized, timeSyncCommandSent,
                 firstTimeSyncOperationCompleted, nextTimeSync>>
giVars      == <<firstGISent, interrogationInProgress, requestState, giTimer,
                 nextGIStart, caIndex, endOfInitReceived, giRequested>>
clientVars  == <<giStatus, notReceived>>
history     == <<synced, asked, notSent, received>>
vars        == <<configVars, sessionVars, threadVars, syncVars, giVars,
                 clientVars, unacknowledged, handler, history>>

(* What the handler has read of the state and is about to write.           *)
AnswersExpected == {"actCon", "actConNegative", "actTerm"}
StatusToWrite   == {"confirmed", "refused", "finished", "failed", "progress"}
HandlerPlaces   == {"none", "data", "terminated"} \cup AnswersExpected
                       \cup StatusToWrite

Statuses == {"IDLE", "STARTED", "IN_PROGRESS", "FAILED", "FINISHED"}

TypeOK ==
    /\ timeSync \in BOOLEAN /\ giAllCa \in BOOLEAN /\ numCa \in Nat
    /\ conState \in {"CLOSED", "CONNECTED_INACTIVE", "CONNECTED_ACTIVE"}
    /\ startDt \in {"no", "sent", "confirmed"}
    /\ disconnect \in BOOLEAN
    /\ pc \in {"top", "gi", "send", "sent", "sentCa", "recordedCa", "requested",
              "timedOut", "closing", "joining"}
    /\ after \in {"top", "requested"}
    /\ timeSynchronized \in BOOLEAN
    /\ timeSyncCommandSent \in BOOLEAN
    /\ firstTimeSyncOperationCompleted \in BOOLEAN
    /\ nextTimeSync \in 0..SyncPeriod
    /\ firstGISent \in BOOLEAN
    /\ interrogationInProgress \in BOOLEAN
    /\ requestState \in 0..2
    /\ giTimer \in 0..GiTime
    /\ nextGIStart \in 0..GiCycle
    /\ caIndex \in 1..numCa+1
    /\ endOfInitReceived \in BOOLEAN
    /\ giRequested \in BOOLEAN
    /\ giStatus \in Statuses
    /\ notReceived \subseteq Points
    /\ unacknowledged \in 0..Window
    /\ handler \in HandlerPlaces
    /\ synced \in BOOLEAN /\ asked \in BOOLEAN /\ notSent \in BOOLEAN
    /\ received \subseteq Points

Init ==
    /\ timeSync \in TimeSyncModes
    /\ giAllCa \in GiAllCaModes
    /\ numCa \in IF giAllCa THEN ListLengths ELSE {0}
    /\ conState = "CLOSED"
    /\ startDt = "no"
    /\ disconnect = FALSE
    /\ pc = "top"
    /\ after = "top"
    /\ timeSynchronized = FALSE
    /\ timeSyncCommandSent = FALSE
    /\ firstTimeSyncOperationCompleted = FALSE
    /\ nextTimeSync = 0
    /\ firstGISent = FALSE
    /\ interrogationInProgress = FALSE
    /\ requestState = 0
    /\ giTimer = 0
    /\ nextGIStart = 0
    /\ caIndex = 1
    /\ endOfInitReceived = FALSE
    /\ giRequested = FALSE
    /\ giStatus = "IDLE"
    /\ notReceived = {}
    /\ unacknowledged = 0
    /\ handler = "none"
    /\ synced = FALSE
    /\ asked = FALSE
    /\ notSent = FALSE
    /\ received = {}

-----------------------------------------------------------------------------
(* The life of a session, as ClientConnections has it in detail.           *)

(* A new handle is made between two iterations.                            *)
Opened ==
    /\ conState = "CLOSED"
    /\ pc = "top"
    /\ conState' = "CONNECTED_INACTIVE"
    /\ UNCHANGED <<configVars, startDt, disconnect, threadVars, syncVars,
                   giVars, clientVars, unacknowledged, handler, history>>

Activated ==
    /\ conState = "CONNECTED_INACTIVE"
    /\ conState' = "CONNECTED_ACTIVE"
    /\ startDt' = "sent"
    /\ UNCHANGED <<configVars, disconnect, threadVars, syncVars, giVars,
                   clientVars, unacknowledged, handler, history>>

StartDtConKeepsGi ==   \* faulty variant: the first GI is not due again
    /\ startDt = "sent"
    /\ handler = "none"
    /\ startDt' = "confirmed"
    /\ nextTimeSync' = 0
    /\ timeSynchronized' = FALSE
    /\ firstTimeSyncOperationCompleted' = FALSE
    /\ UNCHANGED <<configVars, conState, disconnect, threadVars,
                   timeSyncCommandSent, giVars, clientVars, unacknowledged,
                   handler, history>>

(* STARTDT_CON_RECEIVED starts the startup procedure of the session again. *)
StartDtCon ==
    /\ startDt = "sent"
    /\ handler = "none"
    /\ startDt' = "confirmed"
    /\ nextTimeSync' = 0
    /\ timeSynchronized' = FALSE
    /\ firstTimeSyncOperationCompleted' = FALSE
    /\ firstGISent' = FALSE
    /\ UNCHANGED <<configVars, conState, disconnect, threadVars,
                   timeSyncCommandSent, interrogationInProgress, requestState,
                   giTimer, nextGIStart, caIndex, endOfInitReceived,
                   giRequested, clientVars, unacknowledged, handler, history>>

NoHandlerJoined == TRUE   \* faulty variant: closing does not wait for it

HandlerDone == handler = "none"

(* CLOSED, after the handler of the last ASDU, in its thread or joined.    *)
(* What was in flight is lost; nothing else is reset.                      *)
EndSession ==
    /\ HandlerDone
    /\ conState' = "CLOSED"
    /\ startDt' = "no"
    /\ unacknowledged' = 0
    /\ synced' = FALSE
    /\ asked' = FALSE

Closed ==
    /\ conState # "CLOSED"
    /\ EndSession
    /\ UNCHANGED <<configVars, disconnect, threadVars, syncVars, giVars,
                   clientVars, handler, notSent, received>>

(* Closing or destroying the handle: the handler is not called any more,   *)
(* and once it is done the session is CLOSED.  A request to disconnect is  *)
(* served at the end of an iteration.                                      *)
CloseConnection ==
    /\ \/ pc = "closing" /\ UNCHANGED disconnect
       \/ pc = "top" /\ disconnect /\ disconnect' = FALSE
    /\ pc' = "joining"
    /\ UNCHANGED <<configVars, conState, startDt, after, syncVars, giVars,
                   clientVars, unacknowledged, handler, history>>

JoinHandler ==
    /\ pc = "joining"
    /\ EndSession
    /\ pc' = "top"
    /\ UNCHANGED <<configVars, disconnect, after, syncVars, giVars, clientVars,
                   handler, notSent, received>>

-----------------------------------------------------------------------------
(* executePeriodicTasks(), with gi_enabled                                 *)

CanSend == conState = "CONNECTED_ACTIVE" /\ unacknowledged < Window

SyncDue ==
    /\ timeSync
    /\ ~timeSyncCommandSent
    /\ \/ ~timeSynchronized /\ ~firstTimeSyncOperationCompleted
       \/ timeSynchronized /\ nextTimeSync = 0

(* Under m_conLock.  The next periodic sync is scheduled, sent or not.     *)
ClockSync ==
    /\ pc = "top" /\ ~disconnect
    /\ conState = "CONNECTED_ACTIVE"
    /\ pc' = "gi"
    /\ nextTimeSync' = IF SyncDue /\ timeSynchronized THEN SyncPeriod
                       ELSE nextTimeSync
    /\ IF SyncDue /\ CanSend
       THEN /\ unacknowledged' = unacknowledged + 1
            /\ timeSyncCommandSent' = TRUE
            /\ synced' = TRUE
       ELSE UNCHANGED <<unacknowledged, timeSyncCommandSent, synced>>
    /\ UNCHANGED <<configVars, sessionVars, after, timeSynchronized,
                   firstTimeSyncOperationCompleted, giVars, clientVars,
                   handler, asked, notSent, received>>

GiAllowed == pc = "gi" /\ (timeSync => firstTimeSyncOperationCompleted)

SyncPending ==
    /\ pc = "gi"
    /\ timeSync /\ ~firstTimeSyncOperationCompleted
    /\ pc' = "top"
    /\ UNCHANGED <<configVars, sessionVars, after, syncVars, giVars,
                   clientVars, unacknowledged, handler, history>>

(* startNewInterrogationCycle() up to the sending of the request; with one *)
(* request per CA that is left to the next iterations, and with an empty   *)
(* list of CAs nothing is in progress and nothing reported.                *)
StartCycle(next) ==
    /\ endOfInitReceived' = FALSE
    /\ notReceived' = Points
    /\ received' = {}
    /\ notSent' = FALSE
    /\ giStatus' = IF giAllCa /\ numCa = 0 THEN giStatus ELSE "STARTED"
    /\ interrogationInProgress' =
          (interrogationInProgress \/ (giAllCa /\ numCa > 0))
    /\ IF giAllCa
       THEN /\ caIndex' = 1
            /\ firstGISent' = TRUE
            /\ pc' = next
            /\ UNCHANGED after
       ELSE /\ pc' = "send"
            /\ after' = next
            /\ UNCHANGED <<caIndex, firstGISent>>

FirstCycle ==
    /\ GiAllowed
    /\ ~firstGISent
    /\ StartCycle("top")
    /\ UNCHANGED <<configVars, sessionVars, syncVars, requestState, giTimer,
                   nextGIStart, giRequested, unacknowledged, handler, synced,
                   asked>>

\* Faulty variant: the end of the station's initialisation is forgotten.
CycleDueIgnoresInit == GiCycle > 0 /\ nextGIStart = 0

CycleDue == (GiCycle > 0 /\ nextGIStart = 0) \/ endOfInitReceived

NextCycle ==
    /\ GiAllowed
    /\ firstGISent /\ ~interrogationInProgress
    /\ IF CycleDue
       THEN StartCycle("requested")
       ELSE /\ pc' = "requested"
            /\ UNCHANGED <<after, endOfInitReceived, notReceived, received,
                           notSent, giStatus, caIndex, firstGISent,
                           interrogationInProgress>>
    /\ UNCHANGED <<configVars, sessionVars, syncVars, requestState, giTimer,
                   nextGIStart, giRequested, unacknowledged, handler, synced,
                   asked>>

RequestStays == UNCHANGED giRequested   \* faulty variant

RequestTaken == giRequested' = FALSE

(* A GI somebody asked for waits for the end of the last one.              *)
RequestedCycle ==
    /\ pc = "requested"
    /\ IF giRequested /\ giStatus \in {"FAILED", "FINISHED"}
       THEN StartCycle("top") /\ RequestTaken
       ELSE /\ pc' = "top"
            /\ UNCHANGED <<after, endOfInitReceived, notReceived, received,
                           notSent, giStatus, caIndex, firstGISent,
                           interrogationInProgress, giRequested>>
    /\ UNCHANGED <<configVars, sessionVars, syncVars, requestState, giTimer,
                   nextGIStart, unacknowledged, handler, synced, asked>>

(* sendInterrogationCommand(), to the broadcast address.                   *)
SendGi ==
    /\ pc = "send"
    /\ IF CanSend
       THEN /\ unacknowledged' = unacknowledged + 1
            /\ pc' = "sent"
            /\ asked' = TRUE
            /\ UNCHANGED <<firstGISent, notSent>>
       ELSE /\ firstGISent' = TRUE
            /\ pc' = after
            /\ notSent' = TRUE
            /\ UNCHANGED <<unacknowledged, asked>>
    /\ UNCHANGED <<configVars, sessionVars, after, syncVars,
                   interrogationInProgress, requestState, giTimer, nextGIStart,
                   caIndex, endOfInitReceived, giRequested, clientVars,
                   handler, synced, received>>

RecordGiAndList ==   \* faulty variant: the list is made after the request
    /\ pc = "sent"
    /\ firstGISent' = TRUE
    /\ interrogationInProgress' = TRUE
    /\ requestState' = 1
    /\ giTimer' = GiTime
    /\ nextGIStart' = GiCycle
    /\ notReceived' = Points
    /\ pc' = after
    /\ UNCHANGED <<configVars, sessionVars, after, syncVars, caIndex,
                   endOfInitReceived, giRequested, giStatus, unacknowledged,
                   handler, history>>

RecordGi ==
    /\ pc = "sent"
    /\ firstGISent' = TRUE
    /\ interrogationInProgress' = TRUE
    /\ requestState' = 1
    /\ giTimer' = GiTime
    /\ nextGIStart' = GiCycle
    /\ pc' = after
    /\ UNCHANGED <<configVars, sessionVars, after, syncVars, caIndex,
                   endOfInitReceived, giRequested, clientVars, unacknowledged,
                   handler, history>>

InProgress == GiAllowed /\ firstGISent /\ interrogationInProgress

(* One request per CA: the next address, or the end of the cycle.          *)
SendCa ==
    /\ InProgress
    /\ requestState = 0
    /\ giAllCa /\ caIndex <= numCa
    /\ IF CanSend
       THEN /\ unacknowledged' = unacknowledged + 1
            /\ pc' = "sentCa"
            /\ asked' = TRUE
            /\ UNCHANGED <<giStatus, caIndex>>
       ELSE /\ giStatus' = "FAILED"
            /\ pc' = "closing"
            /\ caIndex' = caIndex + 1
            /\ UNCHANGED <<unacknowledged, asked>>
    /\ UNCHANGED <<configVars, sessionVars, after, syncVars, firstGISent,
                   interrogationInProgress, requestState, giTimer, nextGIStart,
                   endOfInitReceived, giRequested, notReceived, handler,
                   synced, notSent, received>>

RecordCa ==
    /\ pc = "sentCa"
    /\ requestState' = 1
    /\ giTimer' = GiTime
    /\ pc' = "recordedCa"
    /\ UNCHANGED <<configVars, sessionVars, after, syncVars, firstGISent,
                   interrogationInProgress, nextGIStart, caIndex,
                   endOfInitReceived, giRequested, clientVars, unacknowledged,
                   handler, history>>

(* The answers may have been handled by now: the status is STARTED again.  *)
ReportCa ==
    /\ pc = "recordedCa"
    /\ giStatus' = "STARTED"
    /\ caIndex' = caIndex + 1
    /\ pc' = "top"
    /\ UNCHANGED <<configVars, sessionVars, after, syncVars, firstGISent,
                   interrogationInProgress, requestState, giTimer, nextGIStart,
                   endOfInitReceived, giRequested, notReceived, unacknowledged,
                   handler, history>>

EndCycle ==
    /\ InProgress
    /\ requestState = 0
    /\ giAllCa => caIndex > numCa
    /\ interrogationInProgress' = FALSE
    /\ nextGIStart' = IF giAllCa THEN GiCycle ELSE nextGIStart
    /\ pc' = "top"
    /\ UNCHANGED <<configVars, sessionVars, after, syncVars, firstGISent,
                   requestState, giTimer, caIndex, endOfInitReceived,
                   giRequested, clientVars, unacknowledged, handler, history>>

GiTimedOutUnconfirmed ==   \* faulty variant: only ACT_CON is waited for
    GiTime # 0 /\ giTimer = 0 /\ requestState = 1

GiTimedOut == GiTime # 0 /\ giTimer = 0 /\ requestState # 0

TimeOutGi ==
    /\ InProgress
    /\ GiTimedOut
    /\ requestState' = 0
    /\ nextGIStart' = GiCycle
    /\ pc' = "timedOut"
    /\ UNCHANGED <<configVars, sessionVars, after, syncVars, firstGISent,
                   interrogationInProgress, giTimer, caIndex,
                   endOfInitReceived, giRequested, clientVars, unacknowledged,
                   handler, history>>

ReportTimeOut ==
    /\ pc = "timedOut"
    /\ giStatus' = "FAILED"
    /\ pc' = "closing"
    /\ UNCHANGED <<configVars, sessionVars, after, syncVars, giVars,
                   notReceived, unacknowledged, handler, history>>

AwaitAnswer ==
    /\ InProgress
    /\ requestState # 0
    /\ ~GiTimedOut
    /\ pc' = "top"
    /\ UNCHANGED <<configVars, sessionVars, after, syncVars, giVars,
                   clientVars, unacknowledged, handler, history>>

BeforeBelowZero(t) == t - 1   \* faulty variant: an expired timer goes on

Before(t) == IF t > 0 THEN t - 1 ELSE 0

(* Thread_sleep(50): time passes between two iterations.                   *)
Tick ==
    /\ pc = "top"
    /\ nextTimeSync' = Before(nextTimeSync)
    /\ giTimer' = Before(giTimer)
    /\ nextGIStart' = Before(nextGIStart)
    /\ UNCHANGED <<configVars, sessionVars, threadVars, timeSynchronized,
                   timeSyncCommandSent, firstTimeSyncOperationCompleted,
                   firstGISent, interrogationInProgress, requestState, caIndex,
                   endOfInitReceived, giRequested, clientVars, unacknowledged,
                   handler, history>>

ConThread ==
    \/ CloseConnection \/ JoinHandler \/ ClockSync \/ SyncPending \/ FirstCycle
    \/ NextCycle \/ RequestedCycle \/ SendGi \/ RecordGi
    \/ SendCa \/ RecordCa \/ ReportCa
    \/ EndCycle \/ TimeOutGi \/ ReportTimeOut \/ AwaitAnswer

-----------------------------------------------------------------------------
(* m_asduReceivedHandler() and IEC104Client::handleASDU().  In a session   *)
(* that was started the outstation may send any ASDU at any time, asked    *)
(* for or not; one that the state does not expect changes nothing.         *)

Receive == startDt # "no" /\ handler = "none" /\ pc # "joining"

GiRunning == giStatus \in {"STARTED", "IN_PROGRESS"}

GiConfirmation ==
    /\ Receive
    /\ requestState = 1
    /\ handler' \in {"actCon", "actConNegative"}
    /\ UNCHANGED <<configVars, sessionVars, threadVars, syncVars, giVars,
                   clientVars, unacknowledged, history>>

GiTermination ==
    /\ Receive
    /\ requestState = 2
    /\ handler' = "actTerm"
    /\ UNCHANGED <<configVars, sessionVars, threadVars, syncVars, giVars,
                   clientVars, unacknowledged, history>>

(* Each answer to a confirmed GI gives the station gi_time again.          *)
GiData ==
    /\ Receive
    /\ giTimer' = IF requestState = 2 THEN GiTime ELSE giTimer
    /\ handler' = IF giStatus = "STARTED" THEN "progress" ELSE "data"
    /\ UNCHANGED <<configVars, sessionVars, threadVars, syncVars, firstGISent,
                   interrogationInProgress, requestState, nextGIStart, caIndex,
                   endOfInitReceived, giRequested, clientVars, unacknowledged,
                   history>>

(* Any other cause of transmission ends the GI and the session.            *)
GiRefused ==
    /\ Receive
    /\ GiRunning
    /\ handler' = "failed"
    /\ UNCHANGED <<configVars, sessionVars, threadVars, syncVars, giVars,
                   clientVars, unacknowledged, history>>

(* The state of the request that was read is overwritten.                  *)
RecordAnswer ==
    /\ handler \in AnswersExpected
    /\ requestState' = IF handler = "actTerm" THEN 0 ELSE 2
    /\ handler' = CASE handler = "actCon" -> "confirmed"
                    [] handler = "actConNegative" -> "refused"
                    [] handler = "actTerm" -> "terminated"
    /\ UNCHANGED <<configVars, sessionVars, threadVars, syncVars, firstGISent,
                   interrogationInProgress, giTimer, nextGIStart, caIndex,
                   endOfInitReceived, giRequested, clientVars, unacknowledged,
                   history>>

GiStarted == giStatus = "STARTED"   \* faulty variant: before ACT_CON only

(* ACT_TERM finishes what is reported as running.                          *)
EndsRunningGi == GiRunning

CheckRunning ==
    /\ handler = "terminated"
    /\ handler' = IF EndsRunningGi THEN "finished" ELSE "none"
    /\ UNCHANGED <<configVars, sessionVars, threadVars, syncVars, giVars,
                   clientVars, unacknowledged, history>>

(* updateGiStatus().  Data objects still in the list are reported INVALID, *)
(* unless the GI was confirmed or is in progress.                          *)
ReportAnswer ==
    /\ handler \in StatusToWrite
    /\ giStatus' = CASE handler \in {"confirmed", "progress"} -> "IN_PROGRESS"
                     [] handler \in {"refused", "failed"} -> "FAILED"
                     [] handler = "finished" -> "FINISHED"
    /\ disconnect' = (disconnect \/ handler = "failed")
    /\ handler' = IF handler = "progress" THEN "data" ELSE "none"
    /\ UNCHANGED <<configVars, conState, startDt, threadVars, syncVars, giVars,
                   notReceived, unacknowledged, history>>

(* removeFromListOfDatapoints(), of the objects of this ASDU.              *)
TakeData ==
    /\ handler = "data"
    /\ \E S \in SUBSET Points :
          /\ notReceived' = notReceived \ S
          /\ received' = received \cup S
    /\ handler' = "none"
    /\ UNCHANGED <<configVars, sessionVars, threadVars, syncVars, giVars,
                   giStatus, unacknowledged, synced, asked, notSent>>

(* A negative answer, or one that the type is unknown, leaves              *)
(* m_timeSyncCommandSent set: no clock sync is sent any more.  (Without    *)
(* time sync nothing looks at what this writes.)                           *)
ClockSyncAnswer ==
    /\ Receive
    /\ timeSync
    /\ \E answer \in {"syncCon", "syncNegative", "syncUnknownType"} :
          IF timeSyncCommandSent /\ answer = "syncCon"
          THEN /\ timeSynchronized' = TRUE
               /\ nextTimeSync' = SyncPeriod
               /\ timeSyncCommandSent' = FALSE
          ELSE /\ timeSynchronized' =
                     (timeSynchronized \/
                        (timeSyncCommandSent /\ answer = "syncUnknownType"))
               /\ UNCHANGED <<nextTimeSync, timeSyncCommandSent>>
    /\ firstTimeSyncOperationCompleted' = TRUE
    /\ UNCHANGED <<configVars, sessionVars, threadVars, giVars, clientVars,
                   unacknowledged, handler, history>>

EndOfInit ==
    /\ Receive
    /\ endOfInitReceived' = TRUE
    /\ UNCHANGED <<configVars, sessionVars, threadVars, syncVars, firstGISent,
                   interrogationInProgress, requestState, giTimer, nextGIStart,
                   caIndex, giRequested, clientVars, unacknowledged, handler,
                   history>>

(* A data object configured to trigger an interrogation.                   *)
TriggerGi ==
    /\ Receive
    /\ giRequested' = TRUE
    /\ UNCHANGED <<configVars, sessionVars, threadVars, syncVars, firstGISent,
                   interrogationInProgress, requestState, giTimer, nextGIStart,
                   caIndex, endOfInitReceived, clientVars, unacknowledged,
                   handler, history>>

Received ==
    \/ GiConfirmation \/ GiTermination \/ GiData \/ GiRefused
    \/ ClockSyncAnswer \/ EndOfInit \/ TriggerGi

Handling == RecordAnswer \/ CheckRunning \/ ReportAnswer \/ TakeData

(* lib60870 learns that the outstation has one APDU more.                  *)
Acknowledged ==
    /\ unacknowledged > 0
    /\ unacknowledged' = unacknowledged - 1
    /\ UNCHANGED <<configVars, sessionVars, threadVars, syncVars, giVars,
                   clientVars, handler, history>>

Next ==
    \/ Opened \/ Activated \/ StartDtCon \/ Closed
    \/ ConThread \/ Tick \/ Received \/ Handling \/ Acknowledged

Safety == Init /\ [][Next]_vars

(* The threads run and time passes; the outstation acknowledges what it    *)
(* was sent, or the session is lost.  Nothing else is assumed of it: it    *)
(* need not answer.                                                        *)
Fairness ==
    /\ WF_vars(ConThread)
    /\ WF_vars(Handling)
    /\ SF_vars(Tick)
    /\ WF_vars(Acknowledged)

Spec == Safety /\ Fairness

-----------------------------------------------------------------------------
(* Safety properties.                                                      *)

(* A request whose answer is awaited belongs to a cycle in progress:       *)
(* otherwise nobody would look at its time-out.                            *)
AwaitedIsWatched == requestState # 0 => interrogationInProgress

(* The list of data objects not received is made before the request is     *)
(* sent and is kept by the other thread: a data object answered in this    *)
(* cycle is never reported INVALID at its end.                             *)
AnsweredNotInvalid == received \cap notReceived = {}

-----------------------------------------------------------------------------
(* Liveness properties.                                                    *)

Started == conState = "CONNECTED_ACTIVE" /\ startDt = "confirmed"

(* A session in which interrogations are not held back by the clock sync.  *)
GiReady == Started /\ (timeSync => firstTimeSyncOperationCompleted)

(* The outstation sends data with the cause of transmission of a GI for    *)
(* ever, each of which starts gi_time again (CN 707).                      *)
DataGoesOn == []<><<GiData>>_vars

(* With gi_time configured no cycle stays in progress in a session that    *)
(* lasts, whatever the outstation answers or fails to, unless it sends     *)
(* data for ever.                                                          *)
CycleEnds ==
    \/ DataGoesOn
    \/ (GiReady /\ interrogationInProgress) ~>
          (~interrogationInProgress \/ ~GiReady)

(* Every session that lasts is interrogated, also after sessions lost in   *)
(* the middle of an interrogation, if there is anybody to ask: with one    *)
(* request per CA the list of CAs may be empty (CN 503).                   *)
SessionInterrogated ==
    \/ DataGoesOn
    \/ (GiReady /\ (giAllCa => numCa > 0)) ~> (asked \/ ~GiReady)

(* The end of the station's initialisation leads to a new cycle, also when *)
(* it is received while one is in progress.                                *)
EndOfInitServed ==
    \/ DataGoesOn
    \/ (GiReady /\ endOfInitReceived) ~> (~endOfInitReceived \/ ~GiReady)

ReportedRunning == giStatus \in {"STARTED", "IN_PROGRESS"}

(* With a GI to the broadcast address the status reported to Fledge does   *)
(* not stay "started" or "in progress" in a session that lasts, although   *)
(* both threads write it and may be late: unless the request found the     *)
(* window full.  With one GI per CA it may: CN 640 and 643 are two writes, *)
(* and the answers handled in between are reported first.                  *)
ReportSettles ==
    \/ DataGoesOn
    \/ (GiReady /\ ~giAllCa /\ ReportedRunning) ~>
          (~ReportedRunning \/ notSent \/ ~GiReady)

(* So a GI that a data object asks for, which waits for the end of the     *)
(* last one as reported (CN 680), is served, unless the station goes on    *)
(* initialising.                                                           *)
RequestServed ==
    \/ DataGoesOn
    \/ (GiReady /\ ~giAllCa /\ giRequested) ~>
          (~giRequested \/ endOfInitReceived \/ notSent \/ ~GiReady)

(* The comment "send first time sync after connection was activated".      *)
SyncAfterActivation == (Started /\ timeSync) ~> (synced \/ ~Started)
=============================================================================
