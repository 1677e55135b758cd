------------------------ MODULE InterrogationProofs ------------------------
(***************************************************************************)
(* Proofs about Interrogation, for every number of data objects and common *)
(* addresses, every length of the timers and every window: type            *)
(* correctness, no request is awaited that nobody watches, and no data     *)
(* object that was answered is reported INVALID.                           *)
(***************************************************************************)
EXTENDS Interrogation, TLAPS

(* The parts of the type invariant.                                        *)
SessionTypes ==
    /\ timeSync \in BOOLEAN /\ giAllCa \in BOOLEAN /\ numCa \in Nat
    /\ conState \in {"CLOSED", "CONNECTED_INACTIVE", "CONNECTED_ACTIVE"}
    /\ startDt \in {"no", "sent", "confirmed"}
    /\ disconnect \in BOOLEAN
    /\ pc \in {"top", "gi", "send", "sent", "sentCa", "recordedCa", "requested",
              "timedOut", "closing", "joining"}
    /\ after \in {"top", "requested"}
    /\ handler \in HandlerPlaces

SyncTypes ==
    /\ timeSynchronized \in BOOLEAN
    /\ timeSyncCommandSent \in BOOLEAN
    /\ firstTimeSyncOperationCompleted \in BOOLEAN
    /\ nextTimeSync \in 0..SyncPeriod

GiTypes ==
    /\ firstGISent \in BOOLEAN
    /\ interrogationInProgress \in BOOLEAN
    /\ requestState \in 0..2
    /\ giTimer \in 0..GiTime
    /\ nextGIStart \in 0..GiCycle
    /\ caIndex \in 1..numCa+1
    /\ endOfInitReceived \in BOOLEAN
    /\ giRequested \in BOOLEAN

ClientTypes ==
    /\ giStatus \in Statuses
    /\ notReceived \subseteq Points
    /\ received \subseteq Points

RequestTypes == unacknowledged \in 0..Window

HistoryTypes == synced \in BOOLEAN /\ asked \in BOOLEAN /\ notSent \in BOOLEAN

(* After a request to one common address was sent, and before the iterator *)
(* goes on, the cycle is in progress and its iterator at that address.     *)
SentInProgress ==
    pc \in {"sentCa", "recordedCa"} =>
        interrogationInProgress /\ caIndex \in 1..numCa

(* A handler that is about to overwrite the state of the request was       *)
(* entered for a request that is awaited, or that has timed out since:     *)
(* then the session is being closed, which waits for the handler.          *)
HandlerWatched ==
    handler \in AnswersExpected =>
        /\ interrogationInProgress
        /\ requestState # 0 \/ pc \in {"timedOut", "closing", "joining"}

WatchedInv == AwaitedIsWatched /\ SentInProgress /\ HandlerWatched

IInv == TypeOK /\ WatchedInv /\ AnsweredNotInvalid

-----------------------------------------------------------------------------
(* The parts make up the type invariant, in a state and after a step.      *)
LEMMA TypeParts ==
    /\ SessionTypes' /\ SyncTypes' /\ GiTypes' /\ ClientTypes'
    /\ RequestTypes' /\ HistoryTypes'
    => TypeOK'
BY DEF TypeOK, SessionTypes, SyncTypes, GiTypes, ClientTypes, RequestTypes,
       HistoryTypes

(* Every step keeps every variable in its type.                            *)
LEMMA TypeStep == TypeOK /\ SentInProgress /\ [Next]_vars => TypeOK'
<1> SUFFICES ASSUME TypeOK, SentInProgress, [Next]_vars PROVE TypeOK'
  OBVIOUS
<1> USE InterrogationAssumption
    DEF TypeOK, SessionTypes, SyncTypes, GiTypes, ClientTypes, RequestTypes,
        HistoryTypes, configVars, sessionVars, threadVars, syncVars, giVars,
        clientVars, history, AnswersExpected, StatusToWrite, HandlerPlaces,
        Statuses
<1>1. CASE Opened
  BY <1>1 DEF Opened
<1>2. CASE Activated
  BY <1>2 DEF Activated
<1>3. CASE StartDtCon
  <2>1. SessionTypes'
    BY <1>3 DEF StartDtCon
  <2>2. SyncTypes'
    <3>1. timeSynchronized' \in BOOLEAN
      BY <1>3 DEF StartDtCon
    <3>2. timeSyncCommandSent' \in BOOLEAN
      BY <1>3 DEF StartDtCon
    <3>3. firstTimeSyncOperationCompleted' \in BOOLEAN
      BY <1>3 DEF StartDtCon
    <3>4. nextTimeSync' \in 0..SyncPeriod
      BY <1>3 DEF StartDtCon
    <3> QED
      BY <3>1, <3>2, <3>3, <3>4
  <2>3. GiTypes'
    BY <1>3 DEF StartDtCon
  <2>4. ClientTypes'
    BY <1>3 DEF StartDtCon
  <2>5. RequestTypes'
    BY <1>3 DEF StartDtCon
  <2>6. HistoryTypes'
    BY <1>3 DEF StartDtCon
  <2> QED
    BY <2>1, <2>2, <2>3, <2>4, <2>5, <2>6, TypeParts
<1>4. CASE Closed
  <2>1. SessionTypes'
    BY <1>4 DEF Closed, EndSession, HandlerDone
  <2>2. SyncTypes'
    BY <1>4 DEF Closed, EndSession, HandlerDone
  <2>3. GiTypes'
    BY <1>4 DEF Closed, EndSession, HandlerDone
  <2>4. ClientTypes'
    BY <1>4 DEF Closed, EndSession, HandlerDone
  <2>5. RequestTypes'
    BY <1>4 DEF Closed, EndSession, HandlerDone
  <2>6. HistoryTypes'
    BY <1>4 DEF Closed, EndSession, HandlerDone
  <2> QED
    BY <2>1, <2>2, <2>3, <2>4, <2>5, <2>6, TypeParts
<1>5. CASE Tick
  BY <1>5 DEF Tick, Before
<1>6. CASE CloseConnection
  <2>1. SessionTypes'
    BY <1>6 DEF CloseConnection
  <2>2. SyncTypes'
    BY <1>6 DEF CloseConnection
  <2>3. GiTypes'
    BY <1>6 DEF CloseConnection
  <2>4. ClientTypes'
    BY <1>6 DEF CloseConnection
  <2>5. RequestTypes'
    BY <1>6 DEF CloseConnection
  <2>6. HistoryTypes'
    BY <1>6 DEF CloseConnection
  <2> QED
    BY <2>1, <2>2, <2>3, <2>4, <2>5, <2>6, TypeParts
<1>7. CASE JoinHandler
  <2>1. SessionTypes'
    BY <1>7 DEF JoinHandler, EndSession, HandlerDone
  <2>2. SyncTypes'
    BY <1>7 DEF JoinHandler, EndSession, HandlerDone
  <2>3. GiTypes'
    BY <1>7 DEF JoinHandler, EndSession, HandlerDone
  <2>4. ClientTypes'
    BY <1>7 DEF JoinHandler, EndSession, HandlerDone
  <2>5. RequestTypes'
    BY <1>7 DEF JoinHandler, EndSession, HandlerDone
  <2>6. HistoryTypes'
    BY <1>7 DEF JoinHandler, EndSession, HandlerDone
  <2> QED
    BY <2>1, <2>2, <2>3, <2>4, <2>5, <2>6, TypeParts
<1>8. CASE ClockSync
  <2>1. SessionTypes'
    BY <1>8 DEF ClockSync, CanSend
  <2>2. SyncTypes'
    <3>1. timeSynchronized' \in BOOLEAN
      BY <1>8 DEF ClockSync, CanSend
    <3>2. timeSyncCommandSent' \in BOOLEAN
      BY <1>8 DEF ClockSync, CanSend
    <3>3. firstTimeSyncOperationCompleted' \in BOOLEAN
      BY <1>8 DEF ClockSync, CanSend
    <3>4. nextTimeSync' \in 0..SyncPeriod
      BY <1>8 DEF ClockSync, CanSend
    <3> QED
      BY <3>1, <3>2, <3>3, <3>4
  <2>3. GiTypes'
    BY <1>8 DEF ClockSync, CanSend
  <2>4. ClientTypes'
    BY <1>8 DEF ClockSync, CanSend
  <2>5. RequestTypes'
    BY <1>8 DEF ClockSync, CanSend
  <2>6. HistoryTypes'
    BY <1>8 DEF ClockSync, CanSend
  <2> QED
    BY <2>1, <2>2, <2>3, <2>4, <2>5, <2>6, TypeParts
<1>9. CASE SyncPending
  BY <1>9 DEF SyncPending
<1>10. CASE FirstCycle
  <2>1. SessionTypes'
    BY <1>10 DEF FirstCycle, StartCycle
  <2>2. SyncTypes'
    BY <1>10 DEF FirstCycle, StartCycle
  <2>3. GiTypes'
    <3>1. firstGISent' \in BOOLEAN
      BY <1>10 DEF FirstCycle, StartCycle
    <3>2. interrogationInProgress' \in BOOLEAN
      BY <1>10 DEF FirstCycle, StartCycle
    <3>3. endOfInitReceived' \in BOOLEAN
      BY <1>10 DEF FirstCycle, StartCycle
    <3>4. giRequested' \in BOOLEAN
      BY <1>10 DEF FirstCycle, StartCycle
    <3>5. requestState' \in 0..2 /\ giTimer' \in 0..GiTime
      BY <1>10 DEF FirstCycle, StartCycle
    <3>6. nextGIStart' \in 0..GiCycle
      BY <1>10 DEF FirstCycle, StartCycle
    <3>7. caIndex' \in 1..numCa'+1
      BY <1>10 DEF FirstCycle, StartCycle
    <3> QED
      BY <3>1, <3>2, <3>3, <3>4, <3>5, <3>6, <3>7
  <2>4. ClientTypes'
    BY <1>10 DEF FirstCycle, StartCycle
  <2>5. RequestTypes'
    BY <1>10 DEF FirstCycle, StartCycle
  <2>6. HistoryTypes'
    BY <1>10 DEF FirstCycle, StartCycle
  <2> QED
    BY <2>1, <2>2, <2>3, <2>4, <2>5, <2>6, TypeParts
<1>11. CASE NextCycle
  <2>1. SessionTypes'
    BY <1>11 DEF NextCycle, StartCycle
  <2>2. SyncTypes'
    BY <1>11 DEF NextCycle, StartCycle
  <2>3. GiTypes'
    <3>1. firstGISent' \in BOOLEAN
      BY <1>11 DEF NextCycle, StartCycle
    <3>2. interrogationInProgress' \in BOOLEAN
      BY <1>11 DEF NextCycle, StartCycle
    <3>3. endOfInitReceived' \in BOOLEAN
      BY <1>11 DEF NextCycle, StartCycle
    <3>4. giRequested' \in BOOLEAN
      BY <1>11 DEF NextCycle, StartCycle
    <3>5. requestState' \in 0..2 /\ giTimer' \in 0..GiTime
      BY <1>11 DEF NextCycle, StartCycle
    <3>6. nextGIStart' \in 0..GiCycle
      BY <1>11 DEF NextCycle, StartCycle
    <3>7. caIndex' \in 1..numCa'+1
      <4>1. caIndex' \in {1, caIndex}
        <5>1. CASE CycleDue
          BY <1>11, <5>1 DEF NextCycle, StartCycle
        <5>2. CASE ~CycleDue
          BY <1>11, <5>2 DEF NextCycle
        <5> QED
          BY <5>1, <5>2
      <4>2. numCa' = numCa
        BY <1>11 DEF NextCycle
      <4> QED
        BY <4>1, <4>2
    <3> QED
      BY <3>1, <3>2, <3>3, <3>4, <3>5, <3>6, <3>7
  <2>4. ClientTypes'
    BY <1>11 DEF NextCycle, StartCycle
  <2>5. RequestTypes'
    BY <1>11 DEF NextCycle, StartCycle
  <2>6. HistoryTypes'
    BY <1>11 DEF NextCycle, StartCycle
  <2> QED
    BY <2>1, <2>2, <2>3, <2>4, <2>5, <2>6, TypeParts
<1>12. CASE RequestedCycle
  <2>1. SessionTypes'
    BY <1>12 DEF RequestedCycle, StartCycle, RequestTaken
  <2>2. SyncTypes'
    BY <1>12 DEF RequestedCycle, StartCycle, RequestTaken
  <2>3. GiTypes'
    <3>1. firstGISent' \in BOOLEAN
      BY <1>12 DEF RequestedCycle, StartCycle, RequestTaken
    <3>2. interrogationInProgress' \in BOOLEAN
      BY <1>12 DEF RequestedCycle, StartCycle, RequestTaken
    <3>3. endOfInitReceived' \in BOOLEAN
      BY <1>12 DEF RequestedCycle, StartCycle, RequestTaken
    <3>4. giRequested' \in BOOLEAN
      BY <1>12 DEF RequestedCycle, StartCycle, RequestTaken
    <3>5. requestState' \in 0..2 /\ giTimer' \in 0..GiTime
      BY <1>12 DEF RequestedCycle, StartCycle, RequestTaken
    <3>6. nextGIStart' \in 0..GiCycle
      BY <1>12 DEF RequestedCycle, StartCycle, RequestTaken
    <3>7. caIndex' \in 1..numCa'+1
      BY <1>12 DEF RequestedCycle, StartCycle, RequestTaken
    <3> QED
      BY <3>1, <3>2, <3>3, <3>4, <3>5, <3>6, <3>7
  <2>4. ClientTypes'
    BY <1>12 DEF RequestedCycle, StartCycle, RequestTaken
  <2>5. RequestTypes'
    BY <1>12 DEF RequestedCycle, StartCycle, RequestTaken
  <2>6. HistoryTypes'
    BY <1>12 DEF RequestedCycle, StartCycle, RequestTaken
  <2> QED
    BY <2>1, <2>2, <2>3, <2>4, <2>5, <2>6, TypeParts
<1>13. CASE SendGi
  <2>1. SessionTypes'
    BY <1>13 DEF SendGi, CanSend
  <2>2. SyncTypes'
    BY <1>13 DEF SendGi, CanSend
  <2>3. GiTypes'
    BY <1>13 DEF SendGi, CanSend
  <2>4. ClientTypes'
    BY <1>13 DEF SendGi, CanSend
  <2>5. RequestTypes'
    BY <1>13 DEF SendGi, CanSend
  <2>6. HistoryTypes'
    BY <1>13 DEF SendGi, CanSend
  <2> QED
    BY <2>1, <2>2, <2>3, <2>4, <2>5, <2>6, TypeParts
<1>14. CASE RecordGi
  BY <1>14 DEF RecordGi
<1>15. CASE SendCa
  <2>1. SessionTypes'
    BY <1>15 DEF SendCa, InProgress, CanSend
  <2>2. SyncTypes'
    BY <1>15 DEF SendCa, InProgress, CanSend
  <2>3. GiTypes'
    <3>1. firstGISent' \in BOOLEAN
      BY <1>15 DEF SendCa, InProgress, CanSend
    <3>2. interrogationInProgress' \in BOOLEAN
      BY <1>15 DEF SendCa, InProgress, CanSend
    <3>3. endOfInitReceived' \in BOOLEAN
      BY <1>15 DEF SendCa, InProgress, CanSend
    <3>4. giRequested' \in BOOLEAN
      BY <1>15 DEF SendCa, InProgress, CanSend
    <3>5. requestState' \in 0..2 /\ giTimer' \in 0..GiTime
      BY <1>15 DEF SendCa, InProgress, CanSend
    <3>6. nextGIStart' \in 0..GiCycle
      BY <1>15 DEF SendCa, InProgress, CanSend
    <3>7. caIndex' \in 1..numCa'+1
      BY <1>15 DEF SendCa, InProgress, CanSend
    <3> QED
      BY <3>1, <3>2, <3>3, <3>4, <3>5, <3>6, <3>7
  <2>4. ClientTypes'
    BY <1>15 DEF SendCa, InProgress, CanSend
  <2>5. RequestTypes'
    BY <1>15 DEF SendCa, InProgress, CanSend
  <2>6. HistoryTypes'
    BY <1>15 DEF SendCa, InProgress, CanSend
  <2> QED
    BY <2>1, <2>2, <2>3, <2>4, <2>5, <2>6, TypeParts
<1>16. CASE RecordCa
  BY <1>16 DEF RecordCa
<1>17. CASE ReportCa
  <2>1. SessionTypes'
    BY <1>17 DEF ReportCa
  <2>2. SyncTypes'
    BY <1>17 DEF ReportCa
  <2>3. GiTypes'
    <3>1. firstGISent' \in BOOLEAN
      BY <1>17 DEF ReportCa, SentInProgress
    <3>2. interrogationInProgress' \in BOOLEAN
      BY <1>17 DEF ReportCa, SentInProgress
    <3>3. endOfInitReceived' \in BOOLEAN
      BY <1>17 DEF ReportCa, SentInProgress
    <3>4. giRequested' \in BOOLEAN
      BY <1>17 DEF ReportCa, SentInProgress
    <3>5. requestState' \in 0..2 /\ giTimer' \in 0..GiTime
      BY <1>17 DEF ReportCa, SentInProgress
    <3>6. nextGIStart' \in 0..GiCycle
      BY <1>17 DEF ReportCa, SentInProgress
    <3>7. caIndex' \in 1..numCa'+1
      BY <1>17 DEF ReportCa, SentInProgress
    <3> QED
      BY <3>1, <3>2, <3>3, <3>4, <3>5, <3>6, <3>7
  <2>4. ClientTypes'
    BY <1>17 DEF ReportCa
  <2>5. RequestTypes'
    BY <1>17 DEF ReportCa
  <2>6. HistoryTypes'
    BY <1>17 DEF ReportCa
  <2> QED
    BY <2>1, <2>2, <2>3, <2>4, <2>5, <2>6, TypeParts
<1>18. CASE EndCycle
  <2>1. SessionTypes'
    BY <1>18 DEF EndCycle, InProgress
  <2>2. SyncTypes'
    BY <1>18 DEF EndCycle, InProgress
  <2>3. GiTypes'
    <3>1. firstGISent' \in BOOLEAN
      BY <1>18 DEF EndCycle, InProgress
    <3>2. interrogationInProgress' \in BOOLEAN
      BY <1>18 DEF EndCycle, InProgress
    <3>3. endOfInitReceived' \in BOOLEAN
      BY <1>18 DEF EndCycle, InProgress
    <3>4. giRequested' \in BOOLEAN
      BY <1>18 DEF EndCycle, InProgress
    <3>5. requestState' \in 0..2 /\ giTimer' \in 0..GiTime
      BY <1>18 DEF EndCycle, InProgress
    <3>6. nextGIStart' \in 0..GiCycle
      BY <1>18 DEF EndCycle, InProgress
    <3>7. caIndex' \in 1..numCa'+1
      BY <1>18 DEF EndCycle, InProgress
    <3> QED
      BY <3>1, <3>2, <3>3, <3>4, <3>5, <3>6, <3>7
  <2>4. ClientTypes'
    BY <1>18 DEF EndCycle, InProgress
  <2>5. RequestTypes'
    BY <1>18 DEF EndCycle, InProgress
  <2>6. HistoryTypes'
    BY <1>18 DEF EndCycle, InProgress
  <2> QED
    BY <2>1, <2>2, <2>3, <2>4, <2>5, <2>6, TypeParts
<1>19. CASE TimeOutGi
  BY <1>19 DEF TimeOutGi
<1>20. CASE ReportTimeOut
  BY <1>20 DEF ReportTimeOut
<1>21. CASE AwaitAnswer
  BY <1>21 DEF AwaitAnswer
<1>22. CASE GiConfirmation
  BY <1>22 DEF GiConfirmation
<1>23. CASE GiTermination
  BY <1>23 DEF GiTermination
<1>24. CASE GiData
  BY <1>24 DEF GiData
<1>25. CASE GiRefused
  BY <1>25 DEF GiRefused
<1>26. CASE ClockSyncAnswer
  <2>1. SessionTypes'
    BY <1>26 DEF ClockSyncAnswer
  <2>2. SyncTypes'
    <3>1. timeSynchronized' \in BOOLEAN
      BY <1>26 DEF ClockSyncAnswer
    <3>2. timeSyncCommandSent' \in BOOLEAN
      BY <1>26 DEF ClockSyncAnswer
    <3>3. firstTimeSyncOperationCompleted' \in BOOLEAN
      BY <1>26 DEF ClockSyncAnswer
    <3>4. nextTimeSync' \in 0..SyncPeriod
      BY <1>26 DEF ClockSyncAnswer
    <3> QED
      BY <3>1, <3>2, <3>3, <3>4
  <2>3. GiTypes'
    BY <1>26 DEF ClockSyncAnswer
  <2>4. ClientTypes'
    BY <1>26 DEF ClockSyncAnswer
  <2>5. RequestTypes'
    BY <1>26 DEF ClockSyncAnswer
  <2>6. HistoryTypes'
    BY <1>26 DEF ClockSyncAnswer
  <2> QED
    BY <2>1, <2>2, <2>3, <2>4, <2>5, <2>6, TypeParts
<1>27. CASE EndOfInit
  BY <1>27 DEF EndOfInit
<1>28. CASE TriggerGi
  BY <1>28 DEF TriggerGi
<1>29. CASE RecordAnswer
  BY <1>29 DEF RecordAnswer
<1>30. CASE CheckRunning
  BY <1>30 DEF CheckRunning
<1>31. CASE ReportAnswer
  <2>1. SessionTypes'
    BY <1>31 DEF ReportAnswer
  <2>2. SyncTypes'
    BY <1>31 DEF ReportAnswer
  <2>3. GiTypes'
    BY <1>31 DEF ReportAnswer
  <2>4. ClientTypes'
    BY <1>31 DEF ReportAnswer
  <2>5. RequestTypes'
    BY <1>31 DEF ReportAnswer
  <2>6. HistoryTypes'
    BY <1>31 DEF ReportAnswer
  <2> QED
    BY <2>1, <2>2, <2>3, <2>4, <2>5, <2>6, TypeParts
<1>32. CASE TakeData
  <2>1. SessionTypes'
    BY <1>32 DEF TakeData
  <2>2. SyncTypes'
    BY <1>32 DEF TakeData
  <2>3. GiTypes'
    BY <1>32 DEF TakeData
  <2>4. ClientTypes'
    BY <1>32 DEF TakeData
  <2>5. RequestTypes'
    BY <1>32 DEF TakeData
  <2>6. HistoryTypes'
    BY <1>32 DEF TakeData
  <2> QED
    BY <2>1, <2>2, <2>3, <2>4, <2>5, <2>6, TypeParts
<1>33. CASE Acknowledged
  BY <1>33 DEF Acknowledged
<1>34. CASE UNCHANGED vars
  BY <1>34 DEF vars
<1> QED
  BY <1>1, <1>2, <1>3, <1>4, <1>5, <1>6, <1>7, <1>8, <1>9, <1>10, <1>11,
     <1>12, <1>13, <1>14, <1>15, <1>16, <1>17, <1>18, <1>19, <1>20, <1>21,
     <1>22, <1>23, <1>24, <1>25, <1>26, <1>27, <1>28, <1>29, <1>30, <1>31,
     <1>32, <1>33, <1>34
     DEF Next, ConThread, Received, Handling

(* The connection thread records a request only in a cycle in progress,    *)
(* and ends a cycle only when no request is awaited and no handler is      *)
(* about to make it so.                                                    *)
LEMMA WatchedStep == TypeOK /\ WatchedInv /\ [Next]_vars => WatchedInv'
<1> SUFFICES ASSUME TypeOK, WatchedInv, [Next]_vars PROVE WatchedInv'
  OBVIOUS
<1> USE InterrogationAssumption
    DEF TypeOK, WatchedInv, AwaitedIsWatched, SentInProgress, HandlerWatched,
        AnswersExpected, StatusToWrite, configVars, threadVars, giVars
<1>1. CASE Opened
  BY <1>1 DEF Opened
<1>2. CASE Activated
  BY <1>2 DEF Activated
<1>3. CASE StartDtCon
  BY <1>3 DEF StartDtCon
<1>4. CASE Closed
  BY <1>4 DEF Closed, EndSession, HandlerDone
<1>5. CASE Tick
  BY <1>5 DEF Tick, Before
<1>6. CASE CloseConnection
  BY <1>6 DEF CloseConnection
<1>7. CASE JoinHandler
  BY <1>7 DEF JoinHandler, EndSession, HandlerDone
<1>8. CASE ClockSync
  BY <1>8 DEF ClockSync, CanSend
<1>9. CASE SyncPending
  BY <1>9 DEF SyncPending
<1>10. CASE FirstCycle
  <2>1. AwaitedIsWatched'
    BY <1>10 DEF FirstCycle, StartCycle, GiAllowed
  <2>2. SentInProgress'
    BY <1>10 DEF FirstCycle, StartCycle, GiAllowed
  <2>3. HandlerWatched'
    BY <1>10 DEF FirstCycle, StartCycle, GiAllowed
  <2> QED
    BY <2>1, <2>2, <2>3
<1>11. CASE NextCycle
  <2>1. AwaitedIsWatched'
    BY <1>11 DEF NextCycle, StartCycle, GiAllowed
  <2>2. SentInProgress'
    BY <1>11 DEF NextCycle, StartCycle, GiAllowed
  <2>3. HandlerWatched'
    BY <1>11 DEF NextCycle, StartCycle, GiAllowed
  <2> QED
    BY <2>1, <2>2, <2>3
<1>12. CASE RequestedCycle
  <2>1. AwaitedIsWatched'
    BY <1>12 DEF RequestedCycle, StartCycle, RequestTaken
  <2>2. SentInProgress'
    BY <1>12 DEF RequestedCycle, StartCycle, RequestTaken
  <2>3. HandlerWatched'
    BY <1>12 DEF RequestedCycle, StartCycle, RequestTaken
  <2> QED
    BY <2>1, <2>2, <2>3
<1>13. CASE SendGi
  BY <1>13 DEF SendGi, CanSend
<1>14. CASE RecordGi
  BY <1>14 DEF RecordGi
<1>15. CASE SendCa
  <2>1. AwaitedIsWatched'
    BY <1>15 DEF SendCa, InProgress, CanSend, GiAllowed
  <2>2. SentInProgress'
    BY <1>15 DEF SendCa, InProgress, CanSend, GiAllowed
  <2>3. HandlerWatched'
    BY <1>15 DEF SendCa, InProgress, CanSend, GiAllowed
  <2> QED
    BY <2>1, <2>2, <2>3
<1>16. CASE RecordCa
  BY <1>16 DEF RecordCa
<1>17. CASE ReportCa
  BY <1>17 DEF ReportCa
<1>18. CASE EndCycle
  <2>1. AwaitedIsWatched'
    BY <1>18 DEF EndCycle, InProgress, GiAllowed
  <2>2. SentInProgress'
    BY <1>18 DEF EndCycle, InProgress, GiAllowed
  <2>3. HandlerWatched'
    BY <1>18 DEF EndCycle, InProgress, GiAllowed
  <2> QED
    BY <2>1, <2>2, <2>3
<1>19. CASE TimeOutGi
  <2>1. AwaitedIsWatched'
    BY <1>19 DEF TimeOutGi, InProgress, GiAllowed
  <2>2. SentInProgress'
    BY <1>19 DEF TimeOutGi, InProgress, GiAllowed
  <2>3. HandlerWatched'
    BY <1>19 DEF TimeOutGi, InProgress, GiAllowed
  <2> QED
    BY <2>1, <2>2, <2>3
<1>20. CASE ReportTimeOut
  BY <1>20 DEF ReportTimeOut
<1>21. CASE AwaitAnswer
  BY <1>21 DEF AwaitAnswer, InProgress, GiAllowed
<1>22. CASE GiConfirmation
  BY <1>22 DEF GiConfirmation, Receive
<1>23. CASE GiTermination
  BY <1>23 DEF GiTermination, Receive
<1>24. CASE GiData
  BY <1>24 DEF GiData, Receive
<1>25. CASE GiRefused
  BY <1>25 DEF GiRefused, Receive
<1>26. CASE ClockSyncAnswer
  BY <1>26 DEF ClockSyncAnswer
<1>27. CASE EndOfInit
  BY <1>27 DEF EndOfInit
<1>28. CASE TriggerGi
  BY <1>28 DEF TriggerGi
<1>29. CASE RecordAnswer
  <2>1. AwaitedIsWatched'
    BY <1>29 DEF RecordAnswer
  <2>2. SentInProgress'
    BY <1>29 DEF RecordAnswer
  <2>3. HandlerWatched'
    BY <1>29 DEF RecordAnswer
  <2> QED
    BY <2>1, <2>2, <2>3
<1>30. CASE CheckRunning
  BY <1>30 DEF CheckRunning
<1>31. CASE ReportAnswer
  BY <1>31 DEF ReportAnswer
<1>32. CASE TakeData
  BY <1>32 DEF TakeData
<1>33. CASE Acknowledged
  BY <1>33 DEF Acknowledged
<1>34. CASE UNCHANGED vars
  BY <1>34 DEF vars
<1> QED
  BY <1>1, <1>2, <1>3, <1>4, <1>5, <1>6, <1>7, <1>8, <1>9, <1>10, <1>11,
     <1>12, <1>13, <1>14, <1>15, <1>16, <1>17, <1>18, <1>19, <1>20, <1>21,
     <1>22, <1>23, <1>24, <1>25, <1>26, <1>27, <1>28, <1>29, <1>30, <1>31,
     <1>32, <1>33, <1>34
     DEF Next, ConThread, Received, Handling

(* A cycle starts with nothing received, and what is received is taken     *)
(* off the list in the same step.                                          *)
LEMMA AnsweredStep == AnsweredNotInvalid /\ [Next]_vars => AnsweredNotInvalid'
<1> SUFFICES ASSUME AnsweredNotInvalid, [Next]_vars PROVE AnsweredNotInvalid'
  OBVIOUS
<1> USE DEF AnsweredNotInvalid, clientVars, history
<1>1. CASE Opened
  BY <1>1 DEF Opened
<1>2. CASE Activated
  BY <1>2 DEF Activated
<1>3. CASE StartDtCon
  BY <1>3 DEF StartDtCon
<1>4. CASE Closed
  BY <1>4 DEF Closed
<1>5. CASE Tick
  BY <1>5 DEF Tick
<1>6. CASE CloseConnection
  BY <1>6 DEF CloseConnection
<1>7. CASE JoinHandler
  BY <1>7 DEF JoinHandler
<1>8. CASE ClockSync
  BY <1>8 DEF ClockSync
<1>9. CASE SyncPending
  BY <1>9 DEF SyncPending
<1>10. CASE FirstCycle
  BY <1>10 DEF FirstCycle, StartCycle
<1>11. CASE NextCycle
  BY <1>11 DEF NextCycle, StartCycle
<1>12. CASE RequestedCycle
  BY <1>12 DEF RequestedCycle, StartCycle
<1>13. CASE SendGi
  BY <1>13 DEF SendGi
<1>14. CASE RecordGi
  BY <1>14 DEF RecordGi
<1>15. CASE SendCa
  BY <1>15 DEF SendCa
<1>16. CASE RecordCa
  BY <1>16 DEF RecordCa
<1>17. CASE ReportCa
  BY <1>17 DEF ReportCa
<1>18. CASE EndCycle
  BY <1>18 DEF EndCycle
<1>19. CASE TimeOutGi
  BY <1>19 DEF TimeOutGi
<1>20. CASE ReportTimeOut
  BY <1>20 DEF ReportTimeOut
<1>21. CASE AwaitAnswer
  BY <1>21 DEF AwaitAnswer
<1>22. CASE GiConfirmation
  BY <1>22 DEF GiConfirmation
<1>23. CASE GiTermination
  BY <1>23 DEF GiTermination
<1>24. CASE GiData
  BY <1>24 DEF GiData
<1>25. CASE GiRefused
  BY <1>25 DEF GiRefused
<1>26. CASE ClockSyncAnswer
  BY <1>26 DEF ClockSyncAnswer
<1>27. CASE EndOfInit
  BY <1>27 DEF EndOfInit
<1>28. CASE TriggerGi
  BY <1>28 DEF TriggerGi
<1>29. CASE RecordAnswer
  BY <1>29 DEF RecordAnswer
<1>30. CASE CheckRunning
  BY <1>30 DEF CheckRunning
<1>31. CASE ReportAnswer
  BY <1>31 DEF ReportAnswer
<1>32. CASE TakeData
  BY <1>32 DEF TakeData
<1>33. CASE Acknowledged
  BY <1>33 DEF Acknowledged
<1>34. CASE UNCHANGED vars
  BY <1>34 DEF vars
<1> QED
  BY <1>1, <1>2, <1>3, <1>4, <1>5, <1>6, <1>7, <1>8, <1>9, <1>10, <1>11,
     <1>12, <1>13, <1>14, <1>15, <1>16, <1>17, <1>18, <1>19, <1>20, <1>21,
     <1>22, <1>23, <1>24, <1>25, <1>26, <1>27, <1>28, <1>29, <1>30, <1>31,
     <1>32, <1>33, <1>34
     DEF Next, ConThread, Received, Handling

-----------------------------------------------------------------------------
(* The invariant holds initially.                                          *)
LEMMA InitIInv == Init => IInv
<1> SUFFICES ASSUME Init PROVE IInv
  OBVIOUS
<1>1. TypeOK
  <2> USE InterrogationAssumption DEF Init
  <2>1. SessionTypes
    <3>1. numCa \in Nat
      OBVIOUS
    <3>2. /\ timeSync \in BOOLEAN /\ giAllCa \in BOOLEAN
          /\ disconnect \in BOOLEAN
      OBVIOUS
    <3>3. handler \in HandlerPlaces
      BY DEF HandlerPlaces
    <3> QED
      BY <3>1, <3>2, <3>3 DEF SessionTypes
  <2>2. SyncTypes
    <3>1. nextTimeSync \in 0..SyncPeriod
      OBVIOUS
    <3> QED
      BY <3>1, Zenon DEF SyncTypes
  <2>3. GiTypes
    <3>1. /\ requestState \in 0..2 /\ giTimer \in 0..GiTime
          /\ nextGIStart \in 0..GiCycle /\ caIndex \in 1..numCa+1
      OBVIOUS
    <3> QED
      BY <3>1, Zenon DEF GiTypes
  <2>4. ClientTypes
    BY DEF ClientTypes, Statuses
  <2>5. RequestTypes
    BY DEF RequestTypes
  <2>6. HistoryTypes
    BY DEF HistoryTypes
  <2> QED
    BY <2>1, <2>2, <2>3, <2>4, <2>5, <2>6
       DEF TypeOK, SessionTypes, SyncTypes, GiTypes, ClientTypes,
           RequestTypes, HistoryTypes
<1>2. WatchedInv /\ AnsweredNotInvalid
  BY DEF Init, WatchedInv, AwaitedIsWatched, SentInProgress,
         HandlerWatched, AnswersExpected, AnsweredNotInvalid
<1> QED
  BY <1>1, <1>2 DEF IInv

(* It holds in every reachable state.                                      *)
THEOREM Invariance == Safety => []IInv
<1>1. IInv /\ [Next]_vars => IInv'
  BY TypeStep, WatchedStep, AnsweredStep DEF IInv, WatchedInv
<1> QED
  BY InitIInv, <1>1, PTL DEF Safety

(* Every variable keeps its type: the timers of gi_time, gi_cycle and      *)
(* time_sync stay in their ranges and m_listOfCA_it in its list.           *)
THEOREM TypeCorrect == Safety => []TypeOK
BY Invariance, PTL DEF IInv

(* A request whose answer is awaited belongs to a cycle in progress: the   *)
(* time-out of executePeriodicTasks() looks at it.                         *)
THEOREM Watched == Safety => []AwaitedIsWatched
<1>1. IInv => AwaitedIsWatched
  BY DEF IInv, WatchedInv
<1> QED
  BY <1>1, Invariance, PTL

(* A data object answered in this cycle is no longer in                    *)
(* m_listOfStationGroupDatapoints, and is not reported INVALID.            *)
THEOREM Answered == Safety => []AnsweredNotInvalid
<1>1. IInv => AnsweredNotInvalid
  BY DEF IInv
<1> QED
  BY <1>1, Invariance, PTL
=============================================================================
