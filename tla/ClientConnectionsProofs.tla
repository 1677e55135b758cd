---------------------- MODULE ClientConnectionsProofs ----------------------
(***************************************************************************)
(* Proofs about ClientConnections, for every number of connections, every  *)
(* configuration of them and every length of the timers: type correctness, *)
(* the safety invariants, and the refinement of RedundancyGroup.           *)
(***************************************************************************)
EXTENDS ClientConnections, TLAPS

-----------------------------------------------------------------------------
(* The inductive invariant.                                                *)

(* Where the monitor's cursor is; it looks for a connection to activate    *)
(* only while none is active.                                              *)
MonitorInv ==
    /\ mon \in {"activate", "connectAll", "trim", "join"} => cursor \in Connections
    /\ mon \in {"scan", "activate", "connectAll"} => active = 0

(* What the flags, states and events of a connection say of its session.   *)
SessionOK(c) ==
    /\ connected[c] => session[c] = "open"
    /\ handle[c] /\ session[c] = "open" => connected[c]
    /\ startDt[c] # "no" => session[c] = "open"
    /\ conState[c] \in {"CONNECTED_INACTIVE", "CONNECTED_ACTIVE"} =>
           session[c] = "open"
    /\ conState[c] = "CONNECTED_INACTIVE" => startDt[c] = "no"

(* The handle at each control point of the connection thread.              *)
HandleOK(c) ==
    /\ ~handle[c] /\ ~Joined(c) => pc[c] \in Destroying
    /\ pc[c] \in Destroying \cup {"prepare", "dead"} => ~handle[c]

(* A connection thread runs only between its start and its join.           *)
JoinedOK(c) ==
    /\ mon = "start" => pc[c] = "dead"
    /\ mon \in {"stop", "join"} /\ c < cursor => pc[c] = "dead"
    /\ mon = "done" => pc[c] = "dead"

SessionInv == \A c \in Connections : SessionOK(c)
HandleInv  == \A c \in Connections : HandleOK(c)
JoinedInv  == \A c \in Connections : JoinedOK(c)

IInv ==
    /\ TypeOK
    /\ MonitorInv
    /\ SessionInv
    /\ HandleInv
    /\ JoinedInv
    /\ OnlyActiveCarries

-----------------------------------------------------------------------------
(* Each part of the invariant is preserved by every step.                  *)

(* Every step keeps every variable in its type.                           *)
LEMMA TypeStep == TypeOK /\ MonitorInv /\ [Next]_vars => TypeOK'
<1> SUFFICES ASSUME TypeOK, MonitorInv, [Next]_vars PROVE TypeOK'
  OBVIOUS
<1> USE ConnectionsAssumption DEF TypeOK, MonitorInv, Connections, ConStates,
        Sessions, StartDts, Destroying, ConPoints, MonPoints,
        ConnectionsUnchanged, QualityUnchanged, conVars, libVars, monVars,
        Goto, Detach
<1>1. CASE StartConnections
  <2>1. /\ started' \in [Connections -> BOOLEAN]
        /\ connect' \in [Connections -> BOOLEAN]
    <3>1. CASE running
      <4>1. /\ started' = [c \in Connections |-> TRUE]
            /\ connect' = [c \in Connections |-> c \in AutoConnect]
        BY <1>1, <3>1 DEF StartConnections
      <4>2. started' \in [Connections -> BOOLEAN]
        BY <4>1
      <4>3. connect' \in [Connections -> BOOLEAN]
        BY <4>1
      <4>4. QED BY <4>2, <4>3
    <3>2. CASE ~running
      BY <1>1, <3>2, Zenon DEF StartConnections
    <3>3. QED BY <3>1, <3>2
  <2>2. pc' \in [Connections -> ConPoints]
    BY <1>1 DEF StartConnections
  <2>3. QED BY <1>1, <2>1, <2>2 DEF StartConnections
<1>2. CASE BeginScan
  BY <1>2 DEF BeginScan
<1>3. CASE CheckActive
  BY <1>3 DEF CheckActive, ActiveUsable
<1>4. CASE ScanNext
  BY <1>4 DEF ScanNext, Eligible
<1>5. CASE ActivateFound
  <2>1. /\ conState' \in [Connections -> ConStates]
        /\ startDt' \in [Connections -> StartDts]
    BY <1>5 DEF ActivateFound, Activate
  <2>2. active' \in 0..N /\ cursor' \in 1..N+1 /\ mon' \in MonPoints
    BY <1>5 DEF ActivateFound
  <2>3. /\ connStatus' \in {"NOT_CONNECTED", "STARTED"}
        /\ backupTimer' \in 0..BackupPolls
        /\ qualityTimer' \in 0..QualityPolls+1
    BY <1>5 DEF ActivateFound
  <2>5. /\ qualityUpdated' \in BOOLEAN
        /\ firstConnected' \in BOOLEAN
        /\ running' \in BOOLEAN
    BY <1>5 DEF ActivateFound
  <2>4. QED BY <1>5, <2>1, <2>2, <2>3, <2>5 DEF ActivateFound
<1>6. CASE NothingOpen
  BY <1>6 DEF NothingOpen, ReportOutage
<1>7. CASE ConnectBackup
  <2>1. /\ connect' \in [Connections -> BOOLEAN]
        /\ disconnect' \in [Connections -> BOOLEAN]
    <3>1. CASE Disconnected(cursor)
      BY <1>7, <3>1 DEF ConnectBackup, Connect
    <3>2. CASE ~Disconnected(cursor)
      BY <1>7, <3>2 DEF ConnectBackup
    <3>3. QED BY <3>1, <3>2
  <2>2. mon' \in MonPoints /\ cursor' \in 1..N+1
    BY <1>7 DEF ConnectBackup, Advance
  <2>3. QED BY <1>7, <2>1, <2>2 DEF ConnectBackup
<1>8. CASE TrimConnections
  <2>1. /\ connect' \in [Connections -> BOOLEAN]
        /\ disconnect' \in [Connections -> BOOLEAN]
    BY <1>8 DEF TrimConnections, Disonnect, Unneeded
  <2>2. mon' \in MonPoints /\ cursor' \in 1..N+1
    BY <1>8 DEF TrimConnections, Advance
  <2>3. QED BY <1>8, <2>1, <2>2 DEF TrimConnections
<1>9. CASE Sleep
  BY <1>9 DEF Sleep, Elapse
<1>10. CASE LeaveMonitor
  BY <1>10 DEF LeaveMonitor
<1>11. CASE StopConnection
  BY <1>11 DEF StopConnection
<1>12. CASE JoinConnection
  BY <1>12 DEF JoinConnection
<1>13. CASE MonitorDone
  BY <1>13 DEF MonitorDone
<1>14. CASE RequestStop
  BY <1>14 DEF RequestStop
<1>15. ASSUME NEW c \in Connections, DetachOld(c) PROVE TypeOK'
  BY <1>15 DEF DetachOld
<1>16. ASSUME NEW c \in Connections, JoinLib(c) PROVE TypeOK'
  BY <1>16 DEF JoinLib, AfterJoin
<1>17. ASSUME NEW c \in Connections, PrepareConnection(c) PROVE TypeOK'
  BY <1>17 DEF PrepareConnection
<1>18. ASSUME NEW c \in Connections, PrepareFails(c) PROVE TypeOK'
  BY <1>18 DEF PrepareFails
<1>19. ASSUME NEW c \in Connections, ConnectTimesOut(c) PROVE TypeOK'
  BY <1>19 DEF ConnectTimesOut
<1>20. ASSUME NEW c \in Connections, WriteIdle(c) PROVE TypeOK'
  BY <1>20 DEF WriteIdle
<1>21. ASSUME NEW c \in Connections, ArmReconnect(c) PROVE TypeOK'
  BY <1>21 DEF ArmReconnect
<1>22. ASSUME NEW c \in Connections, ReconnectDelayOver(c) PROVE TypeOK'
  BY <1>22 DEF ReconnectDelayOver
<1>23. ASSUME NEW c \in Connections, ServeDisconnect(c) PROVE TypeOK'
  BY <1>23 DEF ServeDisconnect
<1>24. ASSUME NEW c \in Connections, EndIteration(c) PROVE TypeOK'
  BY <1>24 DEF EndIteration
<1>25. ASSUME NEW c \in Connections, LeaveLoop(c) PROVE TypeOK'
  BY <1>25 DEF LeaveLoop
<1>26. ASSUME NEW c \in Connections, CloseOnGiTimeout(c) PROVE TypeOK'
  BY <1>26 DEF CloseOnGiTimeout
<1>27. ASSUME NEW c \in Connections, Opened(c) PROVE TypeOK'
  BY <1>27 DEF Opened
<1>28. ASSUME NEW c \in Connections, ConnectFails(c) PROVE TypeOK'
  BY <1>28 DEF ConnectFails
<1>29. ASSUME NEW c \in Connections, Closed(c) PROVE TypeOK'
  BY <1>29 DEF Closed
<1>30. ASSUME NEW c \in Connections, StartDtConReceived(c) PROVE TypeOK'
  BY <1>30 DEF StartDtConReceived
<1>31. ASSUME NEW c \in Connections, GiAborted(c) PROVE TypeOK'
  BY <1>31 DEF GiAborted, Disonnect
<1>32. CASE UNCHANGED vars
  BY <1>32 DEF vars
<1>33. QED
  BY <1>1, <1>2, <1>3, <1>4, <1>5, <1>6, <1>7, <1>8, <1>9, <1>10, <1>11, <1>12,
     <1>13, <1>14, <1>15, <1>16, <1>17, <1>18, <1>19, <1>20, <1>21, <1>22,
     <1>23, <1>24, <1>25, <1>26, <1>27, <1>28, <1>29, <1>30, <1>31, <1>32 DEF
     Next, Monitor, ConThread, LibThread, Terminated

(* Every step keeps the monitor's own invariant.                           *)
LEMMA MonitorStep ==
    TypeOK /\ MonitorInv /\ [Next]_vars => MonitorInv'
<1> SUFFICES ASSUME TypeOK, MonitorInv, [Next]_vars
             PROVE  MonitorInv'
  OBVIOUS
<1> USE ConnectionsAssumption DEF TypeOK, MonitorInv, Connections, AtTop, Goto,
        Detach, ConnectionsUnchanged, QualityUnchanged, conVars, libVars,
        monVars
<1>1. CASE StartConnections
  BY <1>1 DEF StartConnections
<1>2. CASE BeginScan
  BY <1>2 DEF BeginScan
<1>3. CASE CheckActive
  BY <1>3 DEF CheckActive, ActiveUsable
<1>4. CASE ScanNext
  BY <1>4 DEF ScanNext, Eligible
<1>5. CASE ActivateFound
  BY <1>5 DEF ActivateFound, Activate
<1>6. CASE NothingOpen
  BY <1>6 DEF NothingOpen, ReportOutage
<1>7. CASE ConnectBackup
  BY <1>7 DEF ConnectBackup, Connect, Disconnected, Advance
<1>8. CASE TrimConnections
  BY <1>8 DEF TrimConnections, Disonnect, Unneeded, Advance
<1>9. CASE Sleep
  BY <1>9 DEF Sleep, Elapse
<1>10. CASE LeaveMonitor
  BY <1>10 DEF LeaveMonitor
<1>11. CASE StopConnection
  BY <1>11 DEF StopConnection
<1>12. CASE JoinConnection
  BY <1>12 DEF JoinConnection
<1>13. CASE MonitorDone
  BY <1>13 DEF MonitorDone
<1>14. CASE RequestStop
  BY <1>14 DEF RequestStop
<1>15. ASSUME NEW c \in Connections, DetachOld(c) PROVE MonitorInv'
  BY <1>15 DEF DetachOld
<1>16. ASSUME NEW c \in Connections, JoinLib(c) PROVE MonitorInv'
  BY <1>16 DEF JoinLib, AfterJoin
<1>17. ASSUME NEW c \in Connections, PrepareConnection(c) PROVE MonitorInv'
  BY <1>17 DEF PrepareConnection
<1>18. ASSUME NEW c \in Connections, PrepareFails(c) PROVE MonitorInv'
  BY <1>18 DEF PrepareFails
<1>19. ASSUME NEW c \in Connections, ConnectTimesOut(c) PROVE MonitorInv'
  BY <1>19 DEF ConnectTimesOut
<1>20. ASSUME NEW c \in Connections, WriteIdle(c) PROVE MonitorInv'
  BY <1>20 DEF WriteIdle
<1>21. ASSUME NEW c \in Connections, ArmReconnect(c) PROVE MonitorInv'
  BY <1>21 DEF ArmReconnect
<1>22. ASSUME NEW c \in Connections, ReconnectDelayOver(c) PROVE MonitorInv'
  BY <1>22 DEF ReconnectDelayOver
<1>23. ASSUME NEW c \in Connections, ServeDisconnect(c) PROVE MonitorInv'
  BY <1>23 DEF ServeDisconnect
<1>24. ASSUME NEW c \in Connections, EndIteration(c) PROVE MonitorInv'
  BY <1>24 DEF EndIteration
<1>25. ASSUME NEW c \in Connections, LeaveLoop(c) PROVE MonitorInv'
  BY <1>25 DEF LeaveLoop
<1>26. ASSUME NEW c \in Connections, CloseOnGiTimeout(c) PROVE MonitorInv'
  BY <1>26 DEF CloseOnGiTimeout
<1>27. ASSUME NEW c \in Connections, Opened(c) PROVE MonitorInv'
  BY <1>27 DEF Opened
<1>28. ASSUME NEW c \in Connections, ConnectFails(c) PROVE MonitorInv'
  BY <1>28 DEF ConnectFails
<1>29. ASSUME NEW c \in Connections, Closed(c) PROVE MonitorInv'
  BY <1>29 DEF Closed
<1>30. ASSUME NEW c \in Connections, StartDtConReceived(c) PROVE MonitorInv'
  BY <1>30 DEF StartDtConReceived
<1>31. ASSUME NEW c \in Connections, GiAborted(c) PROVE MonitorInv'
  BY <1>31 DEF GiAborted, Disonnect
<1>32. CASE UNCHANGED vars
  BY <1>32 DEF vars
<1>33. QED
  BY <1>1, <1>2, <1>3, <1>4, <1>5, <1>6, <1>7, <1>8, <1>9, <1>10, <1>11, <1>12,
     <1>13, <1>14, <1>15, <1>16, <1>17, <1>18, <1>19, <1>20, <1>21, <1>22,
     <1>23, <1>24, <1>25, <1>26, <1>27, <1>28, <1>29, <1>30, <1>31, <1>32 DEF
     Next, Monitor, ConThread, LibThread, Terminated

(* Every step keeps flags, states and sessions consistent.                 *)
LEMMA SessionStep ==
    TypeOK /\ MonitorInv /\ SessionInv /\ HandleInv /\ [Next]_vars =>
       SessionInv'
<1> SUFFICES ASSUME TypeOK, MonitorInv, SessionInv, HandleInv, [Next]_vars,
                    NEW d \in Connections
             PROVE  SessionOK(d)'
  BY DEF SessionInv
<1> USE DEF TypeOK, MonitorInv, SessionInv, HandleInv, SessionOK, HandleOK,
        Joined, Destroying, Goto, Detach, ConnectionsUnchanged,
        QualityUnchanged, conVars, libVars, monVars
<1>1. CASE StartConnections
  BY <1>1 DEF StartConnections
<1>2. CASE BeginScan
  BY <1>2 DEF BeginScan
<1>3. CASE CheckActive
  BY <1>3 DEF CheckActive, ActiveUsable
<1>4. CASE ScanNext
  BY <1>4 DEF ScanNext, Eligible
<1>5. CASE ActivateFound
  BY <1>5 DEF ActivateFound, Activate
<1>6. CASE NothingOpen
  BY <1>6 DEF NothingOpen, ReportOutage
<1>7. CASE ConnectBackup
  BY <1>7 DEF ConnectBackup, Connect, Disconnected, Advance
<1>8. CASE TrimConnections
  BY <1>8 DEF TrimConnections, Disonnect, Unneeded, Advance
<1>9. CASE Sleep
  BY <1>9 DEF Sleep, Elapse
<1>10. CASE LeaveMonitor
  BY <1>10 DEF LeaveMonitor
<1>11. CASE StopConnection
  BY <1>11 DEF StopConnection
<1>12. CASE JoinConnection
  BY <1>12 DEF JoinConnection
<1>13. CASE MonitorDone
  BY <1>13 DEF MonitorDone
<1>14. CASE RequestStop
  BY <1>14 DEF RequestStop
<1>15. ASSUME NEW c \in Connections, DetachOld(c) PROVE SessionOK(d)'
  BY <1>15 DEF DetachOld
<1>16. ASSUME NEW c \in Connections, JoinLib(c) PROVE SessionOK(d)'
  BY <1>16 DEF JoinLib, AfterJoin
<1>17. ASSUME NEW c \in Connections, PrepareConnection(c) PROVE SessionOK(d)'
  BY <1>17 DEF PrepareConnection
<1>18. ASSUME NEW c \in Connections, PrepareFails(c) PROVE SessionOK(d)'
  BY <1>18 DEF PrepareFails
<1>19. ASSUME NEW c \in Connections, ConnectTimesOut(c) PROVE SessionOK(d)'
  BY <1>19 DEF ConnectTimesOut
<1>20. ASSUME NEW c \in Connections, WriteIdle(c) PROVE SessionOK(d)'
  BY <1>20 DEF WriteIdle
<1>21. ASSUME NEW c \in Connections, ArmReconnect(c) PROVE SessionOK(d)'
  BY <1>21 DEF ArmReconnect
<1>22. ASSUME NEW c \in Connections, ReconnectDelayOver(c) PROVE SessionOK(d)'
  BY <1>22 DEF ReconnectDelayOver
<1>23. ASSUME NEW c \in Connections, ServeDisconnect(c) PROVE SessionOK(d)'
  BY <1>23 DEF ServeDisconnect
<1>24. ASSUME NEW c \in Connections, EndIteration(c) PROVE SessionOK(d)'
  BY <1>24 DEF EndIteration
<1>25. ASSUME NEW c \in Connections, LeaveLoop(c) PROVE SessionOK(d)'
  BY <1>25 DEF LeaveLoop
<1>26. ASSUME NEW c \in Connections, CloseOnGiTimeout(c) PROVE SessionOK(d)'
  BY <1>26 DEF CloseOnGiTimeout
<1>27. ASSUME NEW c \in Connections, Opened(c) PROVE SessionOK(d)'
  BY <1>27 DEF Opened
<1>28. ASSUME NEW c \in Connections, ConnectFails(c) PROVE SessionOK(d)'
  BY <1>28 DEF ConnectFails
<1>29. ASSUME NEW c \in Connections, Closed(c) PROVE SessionOK(d)'
  BY <1>29 DEF Closed
<1>30. ASSUME NEW c \in Connections, StartDtConReceived(c) PROVE SessionOK(d)'
  BY <1>30 DEF StartDtConReceived
<1>31. ASSUME NEW c \in Connections, GiAborted(c) PROVE SessionOK(d)'
  BY <1>31 DEF GiAborted, Disonnect
<1>32. CASE UNCHANGED vars
  BY <1>32 DEF vars
<1>33. QED
  BY <1>1, <1>2, <1>3, <1>4, <1>5, <1>6, <1>7, <1>8, <1>9, <1>10, <1>11, <1>12,
     <1>13, <1>14, <1>15, <1>16, <1>17, <1>18, <1>19, <1>20, <1>21, <1>22,
     <1>23, <1>24, <1>25, <1>26, <1>27, <1>28, <1>29, <1>30, <1>31, <1>32 DEF
     Next, Monitor, ConThread, LibThread, Terminated

(* Every step keeps handles and control points consistent.                 *)
LEMMA HandleStep ==
    TypeOK /\ MonitorInv /\ SessionInv /\ HandleInv /\ JoinedInv /\ [Next]_vars
       => HandleInv'
<1> SUFFICES ASSUME TypeOK, MonitorInv, SessionInv, HandleInv, JoinedInv,
                    [Next]_vars,
                    NEW d \in Connections
             PROVE  HandleOK(d)'
  BY DEF HandleInv
<1> USE DEF TypeOK, JoinedInv, JoinedOK, MonitorInv, SessionInv, HandleInv,
        SessionOK, HandleOK, Joined, AtTop, Destroying, Goto, Detach,
        ConnectionsUnchanged, QualityUnchanged, conVars, libVars, monVars
<1>1. CASE StartConnections
  BY <1>1 DEF StartConnections
<1>2. CASE BeginScan
  BY <1>2 DEF BeginScan
<1>3. CASE CheckActive
  BY <1>3 DEF CheckActive, ActiveUsable
<1>4. CASE ScanNext
  BY <1>4 DEF ScanNext, Eligible
<1>5. CASE ActivateFound
  BY <1>5 DEF ActivateFound, Activate
<1>6. CASE NothingOpen
  BY <1>6 DEF NothingOpen, ReportOutage
<1>7. CASE ConnectBackup
  BY <1>7 DEF ConnectBackup, Connect, Disconnected, Advance
<1>8. CASE TrimConnections
  BY <1>8 DEF TrimConnections, Disonnect, Unneeded, Advance
<1>9. CASE Sleep
  BY <1>9 DEF Sleep, Elapse
<1>10. CASE LeaveMonitor
  BY <1>10 DEF LeaveMonitor
<1>11. CASE StopConnection
  BY <1>11 DEF StopConnection
<1>12. CASE JoinConnection
  BY <1>12 DEF JoinConnection
<1>13. CASE MonitorDone
  BY <1>13 DEF MonitorDone
<1>14. CASE RequestStop
  BY <1>14 DEF RequestStop
<1>15. ASSUME NEW c \in Connections, DetachOld(c) PROVE HandleOK(d)'
  BY <1>15 DEF DetachOld
<1>16. ASSUME NEW c \in Connections, JoinLib(c) PROVE HandleOK(d)'
  BY <1>16 DEF JoinLib, AfterJoin
<1>17. ASSUME NEW c \in Connections, PrepareConnection(c) PROVE HandleOK(d)'
  BY <1>17 DEF PrepareConnection
<1>18. ASSUME NEW c \in Connections, PrepareFails(c) PROVE HandleOK(d)'
  BY <1>18 DEF PrepareFails
<1>19. ASSUME NEW c \in Connections, ConnectTimesOut(c) PROVE HandleOK(d)'
  BY <1>19 DEF ConnectTimesOut
<1>20. ASSUME NEW c \in Connections, WriteIdle(c) PROVE HandleOK(d)'
  BY <1>20 DEF WriteIdle
<1>21. ASSUME NEW c \in Connections, ArmReconnect(c) PROVE HandleOK(d)'
  BY <1>21 DEF ArmReconnect
<1>22. ASSUME NEW c \in Connections, ReconnectDelayOver(c) PROVE HandleOK(d)'
  BY <1>22 DEF ReconnectDelayOver
<1>23. ASSUME NEW c \in Connections, ServeDisconnect(c) PROVE HandleOK(d)'
  BY <1>23 DEF ServeDisconnect
<1>24. ASSUME NEW c \in Connections, EndIteration(c) PROVE HandleOK(d)'
  BY <1>24 DEF EndIteration
<1>25. ASSUME NEW c \in Connections, LeaveLoop(c) PROVE HandleOK(d)'
  BY <1>25 DEF LeaveLoop
<1>26. ASSUME NEW c \in Connections, CloseOnGiTimeout(c) PROVE HandleOK(d)'
  BY <1>26 DEF CloseOnGiTimeout
<1>27. ASSUME NEW c \in Connections, Opened(c) PROVE HandleOK(d)'
  BY <1>27 DEF Opened
<1>28. ASSUME NEW c \in Connections, ConnectFails(c) PROVE HandleOK(d)'
  BY <1>28 DEF ConnectFails
<1>29. ASSUME NEW c \in Connections, Closed(c) PROVE HandleOK(d)'
  BY <1>29 DEF Closed
<1>30. ASSUME NEW c \in Connections, StartDtConReceived(c) PROVE HandleOK(d)'
  BY <1>30 DEF StartDtConReceived
<1>31. ASSUME NEW c \in Connections, GiAborted(c) PROVE HandleOK(d)'
  BY <1>31 DEF GiAborted, Disonnect
<1>32. CASE UNCHANGED vars
  BY <1>32 DEF vars
<1>33. QED
  BY <1>1, <1>2, <1>3, <1>4, <1>5, <1>6, <1>7, <1>8, <1>9, <1>10, <1>11, <1>12,
     <1>13, <1>14, <1>15, <1>16, <1>17, <1>18, <1>19, <1>20, <1>21, <1>22,
     <1>23, <1>24, <1>25, <1>26, <1>27, <1>28, <1>29, <1>30, <1>31, <1>32 DEF
     Next, Monitor, ConThread, LibThread, Terminated

(* Joined connection threads stay dead.                                    *)
LEMMA JoinedStep ==
    TypeOK /\ MonitorInv /\ JoinedInv /\ [Next]_vars => JoinedInv'
<1> SUFFICES ASSUME TypeOK, MonitorInv, JoinedInv, [Next]_vars,
                    NEW d \in Connections
             PROVE  JoinedOK(d)'
  BY DEF JoinedInv
<1> USE ConnectionsAssumption DEF TypeOK, MonitorInv, JoinedInv, JoinedOK,
        AtTop, Connections, Destroying, Goto, Detach, ConnectionsUnchanged,
        QualityUnchanged, conVars, libVars, monVars
<1>1. CASE StartConnections
  BY <1>1 DEF StartConnections
<1>2. CASE BeginScan
  BY <1>2 DEF BeginScan
<1>3. CASE CheckActive
  BY <1>3 DEF CheckActive, ActiveUsable
<1>4. CASE ScanNext
  BY <1>4 DEF ScanNext, Eligible
<1>5. CASE ActivateFound
  BY <1>5 DEF ActivateFound, Activate
<1>6. CASE NothingOpen
  BY <1>6 DEF NothingOpen, ReportOutage
<1>7. CASE ConnectBackup
  BY <1>7 DEF ConnectBackup, Connect, Disconnected, Advance
<1>8. CASE TrimConnections
  BY <1>8 DEF TrimConnections, Disonnect, Unneeded, Advance
<1>9. CASE Sleep
  BY <1>9 DEF Sleep, Elapse
<1>10. CASE LeaveMonitor
  BY <1>10 DEF LeaveMonitor
<1>11. CASE StopConnection
  BY <1>11 DEF StopConnection
<1>12. CASE JoinConnection
  BY <1>12 DEF JoinConnection
<1>13. CASE MonitorDone
  BY <1>13 DEF MonitorDone
<1>14. CASE RequestStop
  BY <1>14 DEF RequestStop
<1>15. ASSUME NEW c \in Connections, DetachOld(c) PROVE JoinedOK(d)'
  BY <1>15 DEF DetachOld
<1>16. ASSUME NEW c \in Connections, JoinLib(c) PROVE JoinedOK(d)'
  BY <1>16 DEF JoinLib, AfterJoin
<1>17. ASSUME NEW c \in Connections, PrepareConnection(c) PROVE JoinedOK(d)'
  BY <1>17 DEF PrepareConnection
<1>18. ASSUME NEW c \in Connections, PrepareFails(c) PROVE JoinedOK(d)'
  BY <1>18 DEF PrepareFails
<1>19. ASSUME NEW c \in Connections, ConnectTimesOut(c) PROVE JoinedOK(d)'
  BY <1>19 DEF ConnectTimesOut
<1>20. ASSUME NEW c \in Connections, WriteIdle(c) PROVE JoinedOK(d)'
  BY <1>20 DEF WriteIdle
<1>21. ASSUME NEW c \in Connections, ArmReconnect(c) PROVE JoinedOK(d)'
  BY <1>21 DEF ArmReconnect
<1>22. ASSUME NEW c \in Connections, ReconnectDelayOver(c) PROVE JoinedOK(d)'
  BY <1>22 DEF ReconnectDelayOver
<1>23. ASSUME NEW c \in Connections, ServeDisconnect(c) PROVE JoinedOK(d)'
  BY <1>23 DEF ServeDisconnect
<1>24. ASSUME NEW c \in Connections, EndIteration(c) PROVE JoinedOK(d)'
  BY <1>24 DEF EndIteration
<1>25. ASSUME NEW c \in Connections, LeaveLoop(c) PROVE JoinedOK(d)'
  BY <1>25 DEF LeaveLoop
<1>26. ASSUME NEW c \in Connections, CloseOnGiTimeout(c) PROVE JoinedOK(d)'
  BY <1>26 DEF CloseOnGiTimeout
<1>27. ASSUME NEW c \in Connections, Opened(c) PROVE JoinedOK(d)'
  BY <1>27 DEF Opened
<1>28. ASSUME NEW c \in Connections, ConnectFails(c) PROVE JoinedOK(d)'
  BY <1>28 DEF ConnectFails
<1>29. ASSUME NEW c \in Connections, Closed(c) PROVE JoinedOK(d)'
  BY <1>29 DEF Closed
<1>30. ASSUME NEW c \in Connections, StartDtConReceived(c) PROVE JoinedOK(d)'
  BY <1>30 DEF StartDtConReceived
<1>31. ASSUME NEW c \in Connections, GiAborted(c) PROVE JoinedOK(d)'
  BY <1>31 DEF GiAborted, Disonnect
<1>32. CASE UNCHANGED vars
  BY <1>32 DEF vars
<1>33. QED
  BY <1>1, <1>2, <1>3, <1>4, <1>5, <1>6, <1>7, <1>8, <1>9, <1>10, <1>11, <1>12,
     <1>13, <1>14, <1>15, <1>16, <1>17, <1>18, <1>19, <1>20, <1>21, <1>22,
     <1>23, <1>24, <1>25, <1>26, <1>27, <1>28, <1>29, <1>30, <1>31, <1>32 DEF
     Next, Monitor, ConThread, LibThread, Terminated

(* Every step keeps at most one connection carrying, the active one.       *)
LEMMA CarryingStep ==
    TypeOK /\ MonitorInv /\ SessionInv /\ HandleInv /\ OnlyActiveCarries /\
       [Next]_vars => OnlyActiveCarries'
<1> SUFFICES ASSUME TypeOK, MonitorInv, SessionInv, HandleInv,
                    OnlyActiveCarries, [Next]_vars
             PROVE  OnlyActiveCarries'
  OBVIOUS
<1> USE ConnectionsAssumption DEF TypeOK, MonitorInv, SessionInv, HandleInv,
        SessionOK, HandleOK, Joined, Destroying, OnlyActiveCarries, Carrying,
        Stopping, Goto, Detach, ConnectionsUnchanged, QualityUnchanged,
        conVars, libVars, monVars
<1>1. CASE StartConnections
  BY <1>1 DEF StartConnections
<1>2. CASE BeginScan
  BY <1>2 DEF BeginScan
<1>3. CASE CheckActive
  BY <1>3 DEF CheckActive, ActiveUsable
<1>4. CASE ScanNext
  BY <1>4 DEF ScanNext, Eligible
<1>5. CASE ActivateFound
  <2>1. cursor \in Connections /\ mon' = "sleep" /\ active' = cursor
    BY <1>5 DEF ActivateFound
  <2>2. ASSUME NEW e \in Connections PROVE ~Carrying(e)
    <3>1. active = 0 /\ ~Stopping
      BY <1>5 DEF ActivateFound
    <3>2. QED
      BY <3>1 DEF Connections
  <2>3. ASSUME NEW e \in Connections, Carrying(e)' PROVE e = cursor
    <3>1. handle' = handle /\ session' = session
      BY <1>5 DEF ActivateFound
    <3>2. e # cursor => startDt'[e] = startDt[e]
      BY <1>5 DEF ActivateFound, Activate
    <3>3. QED
      BY <2>2, <2>3, <3>1, <3>2
  <2>4. QED
    BY <2>1, <2>3
<1>6. CASE NothingOpen
  BY <1>6 DEF NothingOpen, ReportOutage
<1>7. CASE ConnectBackup
  BY <1>7 DEF ConnectBackup, Connect, Disconnected, Advance
<1>8. CASE TrimConnections
  BY <1>8 DEF TrimConnections, Disonnect, Unneeded, Advance
<1>9. CASE Sleep
  BY <1>9 DEF Sleep, Elapse
<1>10. CASE LeaveMonitor
  BY <1>10 DEF LeaveMonitor
<1>11. CASE StopConnection
  BY <1>11 DEF StopConnection
<1>12. CASE JoinConnection
  BY <1>12 DEF JoinConnection
<1>13. CASE MonitorDone
  BY <1>13 DEF MonitorDone
<1>14. CASE RequestStop
  BY <1>14 DEF RequestStop
<1>15. ASSUME NEW c \in Connections, DetachOld(c) PROVE OnlyActiveCarries'
  BY <1>15 DEF DetachOld
<1>16. ASSUME NEW c \in Connections, JoinLib(c) PROVE OnlyActiveCarries'
  BY <1>16 DEF JoinLib, AfterJoin
<1>17. ASSUME NEW c \in Connections, PrepareConnection(c)
       PROVE OnlyActiveCarries'
  BY <1>17 DEF PrepareConnection
<1>18. ASSUME NEW c \in Connections, PrepareFails(c) PROVE OnlyActiveCarries'
  BY <1>18 DEF PrepareFails
<1>19. ASSUME NEW c \in Connections, ConnectTimesOut(c)
       PROVE OnlyActiveCarries'
  BY <1>19 DEF ConnectTimesOut
<1>20. ASSUME NEW c \in Connections, WriteIdle(c) PROVE OnlyActiveCarries'
  BY <1>20 DEF WriteIdle
<1>21. ASSUME NEW c \in Connections, ArmReconnect(c) PROVE OnlyActiveCarries'
  BY <1>21 DEF ArmReconnect
<1>22. ASSUME NEW c \in Connections, ReconnectDelayOver(c)
       PROVE OnlyActiveCarries'
  BY <1>22 DEF ReconnectDelayOver
<1>23. ASSUME NEW c \in Connections, ServeDisconnect(c)
       PROVE OnlyActiveCarries'
  BY <1>23 DEF ServeDisconnect
<1>24. ASSUME NEW c \in Connections, EndIteration(c) PROVE OnlyActiveCarries'
  BY <1>24 DEF EndIteration
<1>25. ASSUME NEW c \in Connections, LeaveLoop(c) PROVE OnlyActiveCarries'
  BY <1>25 DEF LeaveLoop
<1>26. ASSUME NEW c \in Connections, CloseOnGiTimeout(c)
       PROVE OnlyActiveCarries'
  BY <1>26 DEF CloseOnGiTimeout
<1>27. ASSUME NEW c \in Connections, Opened(c) PROVE OnlyActiveCarries'
  BY <1>27 DEF Opened
<1>28. ASSUME NEW c \in Connections, ConnectFails(c) PROVE OnlyActiveCarries'
  BY <1>28 DEF ConnectFails
<1>29. ASSUME NEW c \in Connections, Closed(c) PROVE OnlyActiveCarries'
  BY <1>29 DEF Closed
<1>30. ASSUME NEW c \in Connections, StartDtConReceived(c)
       PROVE OnlyActiveCarries'
  BY <1>30 DEF StartDtConReceived
<1>31. ASSUME NEW c \in Connections, GiAborted(c) PROVE OnlyActiveCarries'
  BY <1>31 DEF GiAborted, Disonnect
<1>32. CASE UNCHANGED vars
  BY <1>32 DEF vars
<1>33. QED
  BY <1>1, <1>2, <1>3, <1>4, <1>5, <1>6, <1>7, <1>8, <1>9, <1>10, <1>11, <1>12,
     <1>13, <1>14, <1>15, <1>16, <1>17, <1>18, <1>19, <1>20, <1>21, <1>22,
     <1>23, <1>24, <1>25, <1>26, <1>27, <1>28, <1>29, <1>30, <1>31, <1>32 DEF
     Next, Monitor, ConThread, LibThread, Terminated

-----------------------------------------------------------------------------
(* The invariant holds in every reachable state.                           *)

(* The initial states satisfy the inductive invariant.                     *)
LEMMA InitIInv == Init => IInv
<1> SUFFICES ASSUME Init PROVE IInv
  OBVIOUS
<1> USE ConnectionsAssumption DEF Init
<1>1. TypeOK
  <2>1. cursor \in 1..N+1 /\ active \in 0..N /\ mon \in MonPoints
        /\ backupTimer \in 0..BackupPolls /\ qualityTimer \in 0..QualityPolls+1
    BY DEF MonPoints
  <2>2. delay \in [Connections -> 0..DelayPolls]
    OBVIOUS
  <2>3. QED
    BY <2>1, <2>2 DEF TypeOK, ConStates, Sessions, StartDts, ConPoints
<1>2. MonitorInv /\ SessionInv /\ HandleInv /\ JoinedInv /\ OnlyActiveCarries
  BY DEF MonitorInv, SessionInv, SessionOK, HandleInv, HandleOK, JoinedInv,
         JoinedOK, OnlyActiveCarries, Carrying, Joined, Destroying
<1>3. QED
  BY <1>1, <1>2 DEF IInv

(* The inductive invariant holds in every state of every behaviour.        *)
THEOREM Invariance == Safety => []IInv
<1>1. IInv /\ [Next]_vars => IInv'
  BY TypeStep, MonitorStep, SessionStep, HandleStep, JoinedStep, CarryingStep
     DEF IInv
<1>2. QED
  BY InitIInv, <1>1, PTL DEF Safety

(* Flags, timers, states and control points keep their types: no timer     *)
(* runs below zero, no cursor leaves the connection list.                  *)
THEOREM TypeCorrect == Safety => []TypeOK
<1>1. IInv => TypeOK
  BY DEF IInv
<1>2. QED
  BY Invariance, <1>1, PTL

(* At most one connection carries data, the active one: for any number of  *)
(* connections and any interleaving of the threads.                        *)
THEOREM OneCarrier == Safety => []OnlyActiveCarries
<1>1. IInv => OnlyActiveCarries
  BY DEF IInv
<1>2. QED
  BY Invariance, <1>1, PTL

(* executePeriodicTasks() never finds m_connection a null pointer.         *)
THEOREM HandleInUse == Safety => []NoUseOfNullHandle
<1>1. IInv => NoUseOfNullHandle
  BY DEF IInv, NoUseOfNullHandle, SessionInv, SessionOK, HandleInv, HandleOK,
         AtTop, Destroying, Joined
<1>2. QED
  BY Invariance, <1>1, PTL

(* m_connected agrees with the session of the handle in use.               *)
THEOREM ConnectedIsTrue == Safety => []ConnectedTellsSession
<1>1. IInv => ConnectedTellsSession
  BY DEF IInv, ConnectedTellsSession, SessionInv, SessionOK
<1>2. QED
  BY Invariance, <1>1, PTL

(* No lib60870 thread outlives its handle or its connection object.        *)
THEOREM NoOrphans == Safety => []NoOrphanSession
<1>1. ASSUME IInv PROVE NoOrphanSession
  <2> SUFFICES ASSUME NEW c \in Connections
               PROVE  /\ ~handle[c] /\ ~Joined(c) => pc[c] \in Destroying
                      /\ mon = "stop" /\ c < cursor => Joined(c) /\ pc[c] = "dead"
                      /\ mon = "done" => Joined(c)
    BY DEF NoOrphanSession
  <2>1. HandleOK(c) /\ JoinedOK(c)
    BY <1>1 DEF IInv, HandleInv, JoinedInv
  <2>2. pc[c] = "dead" => Joined(c)
    BY <2>1 DEF HandleOK, Destroying
  <2>3. QED
    BY <2>1, <2>2 DEF HandleOK, JoinedOK
<1>2. QED
  BY Invariance, <1>1, PTL

(* What a step may do to the STARTDT exchange of a connection.             *)
FirstStartDt(d) ==
    startDt'[d] = "sent" => session[d] = "open" /\ startDt[d] # "confirmed"

(* A step that sends STARTDT, or finds it sent, finds its session open and *)
(* STARTDT not yet confirmed.                                              *)
LEMMA StartDtStep ==
    TypeOK /\ MonitorInv /\ SessionInv /\ [Next]_vars =>
        \A d \in Connections : FirstStartDt(d)
<1> SUFFICES ASSUME TypeOK, MonitorInv, SessionInv, [Next]_vars,
                    NEW d \in Connections
             PROVE  FirstStartDt(d)
  OBVIOUS
<1> USE ConnectionsAssumption DEF FirstStartDt, TypeOK, MonitorInv, SessionInv,
        SessionOK, Goto, Detach, ConnectionsUnchanged, QualityUnchanged,
        conVars, libVars, monVars
<1>1. CASE StartConnections
  BY <1>1 DEF StartConnections
<1>2. CASE BeginScan
  BY <1>2 DEF BeginScan
<1>3. CASE CheckActive
  BY <1>3 DEF CheckActive, ActiveUsable
<1>4. CASE ScanNext
  BY <1>4 DEF ScanNext, Eligible
<1>5. CASE ActivateFound
  BY <1>5 DEF ActivateFound, Activate
<1>6. CASE NothingOpen
  BY <1>6 DEF NothingOpen, ReportOutage
<1>7. CASE ConnectBackup
  BY <1>7 DEF ConnectBackup, Connect, Disconnected, Advance
<1>8. CASE TrimConnections
  BY <1>8 DEF TrimConnections, Disonnect, Unneeded, Advance
<1>9. CASE Sleep
  BY <1>9 DEF Sleep, Elapse
<1>10. CASE LeaveMonitor
  BY <1>10 DEF LeaveMonitor
<1>11. CASE StopConnection
  BY <1>11 DEF StopConnection
<1>12. CASE JoinConnection
  BY <1>12 DEF JoinConnection
<1>13. CASE MonitorDone
  BY <1>13 DEF MonitorDone
<1>14. CASE RequestStop
  BY <1>14 DEF RequestStop
<1>15. ASSUME NEW c \in Connections, DetachOld(c) PROVE FirstStartDt(d)
  BY <1>15 DEF DetachOld
<1>16. ASSUME NEW c \in Connections, JoinLib(c) PROVE FirstStartDt(d)
  BY <1>16 DEF JoinLib, AfterJoin
<1>17. ASSUME NEW c \in Connections, PrepareConnection(c) PROVE FirstStartDt(d)
  BY <1>17 DEF PrepareConnection
<1>18. ASSUME NEW c \in Connections, PrepareFails(c) PROVE FirstStartDt(d)
  BY <1>18 DEF PrepareFails
<1>19. ASSUME NEW c \in Connections, ConnectTimesOut(c) PROVE FirstStartDt(d)
  BY <1>19 DEF ConnectTimesOut
<1>20. ASSUME NEW c \in Connections, WriteIdle(c) PROVE FirstStartDt(d)
  BY <1>20 DEF WriteIdle
<1>21. ASSUME NEW c \in Connections, ArmReconnect(c) PROVE FirstStartDt(d)
  BY <1>21 DEF ArmReconnect
<1>22. ASSUME NEW c \in Connections, ReconnectDelayOver(c)
       PROVE FirstStartDt(d)
  BY <1>22 DEF ReconnectDelayOver
<1>23. ASSUME NEW c \in Connections, ServeDisconnect(c) PROVE FirstStartDt(d)
  BY <1>23 DEF ServeDisconnect
<1>24. ASSUME NEW c \in Connections, EndIteration(c) PROVE FirstStartDt(d)
  BY <1>24 DEF EndIteration
<1>25. ASSUME NEW c \in Connections, LeaveLoop(c) PROVE FirstStartDt(d)
  BY <1>25 DEF LeaveLoop
<1>26. ASSUME NEW c \in Connections, CloseOnGiTimeout(c) PROVE FirstStartDt(d)
  BY <1>26 DEF CloseOnGiTimeout
<1>27. ASSUME NEW c \in Connections, Opened(c) PROVE FirstStartDt(d)
  BY <1>27 DEF Opened
<1>28. ASSUME NEW c \in Connections, ConnectFails(c) PROVE FirstStartDt(d)
  BY <1>28 DEF ConnectFails
<1>29. ASSUME NEW c \in Connections, Closed(c) PROVE FirstStartDt(d)
  BY <1>29 DEF Closed
<1>30. ASSUME NEW c \in Connections, StartDtConReceived(c)
       PROVE FirstStartDt(d)
  BY <1>30 DEF StartDtConReceived
<1>31. ASSUME NEW c \in Connections, GiAborted(c) PROVE FirstStartDt(d)
  BY <1>31 DEF GiAborted, Disonnect
<1>32. CASE UNCHANGED vars
  BY <1>32 DEF vars
<1>33. QED
  BY <1>1, <1>2, <1>3, <1>4, <1>5, <1>6, <1>7, <1>8, <1>9, <1>10, <1>11, <1>12,
     <1>13, <1>14, <1>15, <1>16, <1>17, <1>18, <1>19, <1>20, <1>21, <1>22,
     <1>23, <1>24, <1>25, <1>26, <1>27, <1>28, <1>29, <1>30, <1>31, <1>32 DEF
     Next, Monitor, ConThread, LibThread, Terminated

(* STARTDT is sent on open sessions only, and not after it was confirmed.  *)
THEOREM StartDtOnce == Safety => OneStartDtPerSession
<1>1. IInv /\ [Next]_vars =>
        [\A c \in Connections :
            startDt'[c] = "sent" => /\ session[c] = "open"
                                    /\ startDt[c] # "confirmed"]_vars
  BY StartDtStep DEF IInv, FirstStartDt
<1>2. QED
  BY Invariance, <1>1, PTL DEF Safety, OneStartDtPerSession

-----------------------------------------------------------------------------
(* The refinement of RedundancyGroup.                                      *)

(* The owner stays, stopping stays, and no connection begins to carry.     *)
NothingNew ==
    /\ active' = active
    /\ Stopping' = Stopping
    /\ \A d \in Connections : Carrying(d)' => Carrying(d)

(* Such a step loses the carrying connection or stutters.                  *)
LEMMA LoseOrStutter ==
    ASSUME OnlyActiveCarries, NothingNew
    PROVE  [RG!RGNext]_(RG!rgVars)
<1> DEFINE C == {c \in Connections : Carrying(c)}
<1>1. CASE C' = C
  BY <1>1 DEF NothingNew, RG!rgVars
<1>2. CASE C' # C
  <2>1. C # {} /\ C' = {}
    BY <1>2 DEF NothingNew, OnlyActiveCarries
  <2>2. RG!Lose
    BY <2>1 DEF NothingNew, RG!Lose
  <2>3. QED
    BY <2>2 DEF RG!RGNext
<1>3. QED
  BY <1>1, <1>2

(* Every step of the connection management is a step of the redundancy     *)
(* group or changes nothing there.                                         *)
LEMMA RefinementStep ==
    TypeOK /\ MonitorInv /\ SessionInv /\ HandleInv /\ OnlyActiveCarries /\
       [Next]_vars =>
        [RG!RGNext]_(RG!rgVars)
<1> SUFFICES ASSUME TypeOK, MonitorInv, SessionInv, HandleInv,
                    OnlyActiveCarries,
                    [Next]_vars
             PROVE  [RG!RGNext]_(RG!rgVars)
  OBVIOUS
<1> USE ConnectionsAssumption DEF NothingNew, TypeOK, MonitorInv, SessionInv,
        HandleInv, SessionOK, HandleOK, Joined, Destroying, Carrying, Stopping,
        Goto, Detach, ConnectionsUnchanged, QualityUnchanged, conVars, libVars,
        monVars
<1>1. CASE StartConnections
  <2>1. NothingNew
    BY <1>1 DEF StartConnections
  <2>2. QED
    BY <2>1, LoseOrStutter
<1>2. CASE BeginScan
  <2>1. NothingNew
    BY <1>2 DEF BeginScan
  <2>2. QED
    BY <2>1, LoseOrStutter
<1>3. CASE CheckActive
  <2> DEFINE C == {c \in Connections : Carrying(c)}
  <2>1. CASE ActiveUsable
    <3>1. NothingNew
      BY <1>3, <2>1 DEF CheckActive
    <3>2. QED
      BY <3>1, LoseOrStutter
  <2>2. CASE ~ActiveUsable
    <3>1. active # 0 /\ active' = 0 /\ ~Stopping /\ ~Stopping' /\ ~connected[active]
      BY <1>3, <2>2 DEF CheckActive, ActiveUsable
    <3>2. C = {}
      BY <3>1 DEF OnlyActiveCarries
    <3>3. C' = C
      BY <1>3 DEF CheckActive
    <3>4. RG!Release
      BY <3>1, <3>2, <3>3 DEF RG!Release
    <3>5. QED
      BY <3>4 DEF RG!RGNext
  <2>3. QED
    BY <2>1, <2>2
<1>4. CASE ScanNext
  <2>1. NothingNew
    BY <1>4 DEF ScanNext, Eligible
  <2>2. QED
    BY <2>1, LoseOrStutter
<1>5. CASE ActivateFound
  <2> DEFINE C == {c \in Connections : Carrying(c)}
  <2>1. cursor \in Connections /\ active = 0 /\ active' = cursor
        /\ ~Stopping /\ ~Stopping'
    BY <1>5 DEF ActivateFound
  <2>2. C = {}
    BY <2>1 DEF OnlyActiveCarries, Connections
  <2>3. ASSUME NEW e \in Connections, Carrying(e)' PROVE e = cursor
    <3>1. handle' = handle /\ session' = session
      BY <1>5 DEF ActivateFound
    <3>2. e # cursor => startDt'[e] = startDt[e]
      BY <1>5 DEF ActivateFound, Activate
    <3>3. QED
      BY <2>2, <2>3, <3>1, <3>2
  <2>4. C' \in {{}, {cursor}}
    BY <2>1, <2>3
  <2>5. PICK x \in Connections : x = cursor
    BY <2>1
  <2>6. RG!Choose(x)
    <3> HIDE DEF C
    <3>1. C = {} /\ C' \in {{}, {x}}
      BY <2>2, <2>4, <2>5
    <3>2. /\ ~Stopping /\ active = 0 /\ C = {}
          /\ active' = x /\ C' \in {{}, {x}} /\ Stopping' = Stopping
      BY <2>1, <2>5, <3>1 DEF Stopping
    <3>3. QED
      BY <3>2 DEF RG!Choose, C
  <2>7. QED
    BY <2>6 DEF RG!RGNext
<1>6. CASE NothingOpen
  <2>1. NothingNew
    BY <1>6 DEF NothingOpen, ReportOutage
  <2>2. QED
    BY <2>1, LoseOrStutter
<1>7. CASE ConnectBackup
  <2>1. NothingNew
    BY <1>7 DEF ConnectBackup, Connect, Disconnected, Advance
  <2>2. QED
    BY <2>1, LoseOrStutter
<1>8. CASE TrimConnections
  <2>1. NothingNew
    BY <1>8 DEF TrimConnections, Disonnect, Unneeded, Advance
  <2>2. QED
    BY <2>1, LoseOrStutter
<1>9. CASE Sleep
  <2>1. NothingNew
    BY <1>9 DEF Sleep, Elapse
  <2>2. QED
    BY <2>1, LoseOrStutter
<1>10. CASE LeaveMonitor
  <2> DEFINE C == {c \in Connections : Carrying(c)}
  <2>1. active' = 0 /\ ~Stopping /\ Stopping'
    BY <1>10 DEF LeaveMonitor
  <2>2. C' = C
    BY <1>10 DEF LeaveMonitor
  <2>3. RG!StopGroup
    BY <2>1, <2>2 DEF RG!StopGroup
  <2>4. QED
    BY <2>3 DEF RG!RGNext
<1>11. CASE StopConnection
  <2>1. NothingNew
    BY <1>11 DEF StopConnection
  <2>2. QED
    BY <2>1, LoseOrStutter
<1>12. CASE JoinConnection
  <2>1. NothingNew
    BY <1>12 DEF JoinConnection
  <2>2. QED
    BY <2>1, LoseOrStutter
<1>13. CASE MonitorDone
  <2>1. NothingNew
    BY <1>13 DEF MonitorDone
  <2>2. QED
    BY <2>1, LoseOrStutter
<1>14. CASE RequestStop
  <2>1. NothingNew
    BY <1>14 DEF RequestStop
  <2>2. QED
    BY <2>1, LoseOrStutter
<1>15. ASSUME NEW c \in Connections, DetachOld(c) PROVE [RG!RGNext]_(RG!rgVars)
  <2>1. NothingNew
    BY <1>15 DEF DetachOld
  <2>2. QED
    BY <2>1, LoseOrStutter
<1>16. ASSUME NEW c \in Connections, JoinLib(c) PROVE [RG!RGNext]_(RG!rgVars)
  <2>1. NothingNew
    BY <1>16 DEF JoinLib, AfterJoin
  <2>2. QED
    BY <2>1, LoseOrStutter
<1>17. ASSUME NEW c \in Connections, PrepareConnection(c)
       PROVE [RG!RGNext]_(RG!rgVars)
  <2>1. NothingNew
    BY <1>17 DEF PrepareConnection
  <2>2. QED
    BY <2>1, LoseOrStutter
<1>18. ASSUME NEW c \in Connections, PrepareFails(c)
       PROVE [RG!RGNext]_(RG!rgVars)
  <2>1. NothingNew
    BY <1>18 DEF PrepareFails
  <2>2. QED
    BY <2>1, LoseOrStutter
<1>19. ASSUME NEW c \in Connections, ConnectTimesOut(c)
       PROVE [RG!RGNext]_(RG!rgVars)
  <2>1. NothingNew
    BY <1>19 DEF ConnectTimesOut
  <2>2. QED
    BY <2>1, LoseOrStutter
<1>20. ASSUME NEW c \in Connections, WriteIdle(c) PROVE [RG!RGNext]_(RG!rgVars)
  <2>1. NothingNew
    BY <1>20 DEF WriteIdle
  <2>2. QED
    BY <2>1, LoseOrStutter
<1>21. ASSUME NEW c \in Connections, ArmReconnect(c)
       PROVE [RG!RGNext]_(RG!rgVars)
  <2>1. NothingNew
    BY <1>21 DEF ArmReconnect
  <2>2. QED
    BY <2>1, LoseOrStutter
<1>22. ASSUME NEW c \in Connections, ReconnectDelayOver(c)
       PROVE [RG!RGNext]_(RG!rgVars)
  <2>1. NothingNew
    BY <1>22 DEF ReconnectDelayOver
  <2>2. QED
    BY <2>1, LoseOrStutter
<1>23. ASSUME NEW c \in Connections, ServeDisconnect(c)
       PROVE [RG!RGNext]_(RG!rgVars)
  <2>1. NothingNew
    BY <1>23 DEF ServeDisconnect
  <2>2. QED
    BY <2>1, LoseOrStutter
<1>24. ASSUME NEW c \in Connections, EndIteration(c)
       PROVE [RG!RGNext]_(RG!rgVars)
  <2>1. NothingNew
    BY <1>24 DEF EndIteration
  <2>2. QED
    BY <2>1, LoseOrStutter
<1>25. ASSUME NEW c \in Connections, LeaveLoop(c) PROVE [RG!RGNext]_(RG!rgVars)
  <2>1. NothingNew
    BY <1>25 DEF LeaveLoop
  <2>2. QED
    BY <2>1, LoseOrStutter
<1>26. ASSUME NEW c \in Connections, CloseOnGiTimeout(c)
       PROVE [RG!RGNext]_(RG!rgVars)
  <2>1. NothingNew
    BY <1>26 DEF CloseOnGiTimeout
  <2>2. QED
    BY <2>1, LoseOrStutter
<1>27. ASSUME NEW c \in Connections, Opened(c) PROVE [RG!RGNext]_(RG!rgVars)
  <2>1. NothingNew
    BY <1>27 DEF Opened
  <2>2. QED
    BY <2>1, LoseOrStutter
<1>28. ASSUME NEW c \in Connections, ConnectFails(c)
       PROVE [RG!RGNext]_(RG!rgVars)
  <2>1. NothingNew
    BY <1>28 DEF ConnectFails
  <2>2. QED
    BY <2>1, LoseOrStutter
<1>29. ASSUME NEW c \in Connections, Closed(c) PROVE [RG!RGNext]_(RG!rgVars)
  <2>1. NothingNew
    BY <1>29 DEF Closed
  <2>2. QED
    BY <2>1, LoseOrStutter
<1>30. ASSUME NEW c \in Connections, StartDtConReceived(c)
       PROVE [RG!RGNext]_(RG!rgVars)
  <2>1. NothingNew
    BY <1>30 DEF StartDtConReceived
  <2>2. QED
    BY <2>1, LoseOrStutter
<1>31. ASSUME NEW c \in Connections, GiAborted(c) PROVE [RG!RGNext]_(RG!rgVars)
  <2>1. NothingNew
    BY <1>31 DEF GiAborted, Disonnect
  <2>2. QED
    BY <2>1, LoseOrStutter
<1>32. CASE UNCHANGED vars
  <2>1. NothingNew
    BY <1>32 DEF vars
  <2>2. QED
    BY <2>1, LoseOrStutter
<1>33. QED
  BY <1>1, <1>2, <1>3, <1>4, <1>5, <1>6, <1>7, <1>8, <1>9, <1>10, <1>11, <1>12,
     <1>13, <1>14, <1>15, <1>16, <1>17, <1>18, <1>19, <1>20, <1>21, <1>22,
     <1>23, <1>24, <1>25, <1>26, <1>27, <1>28, <1>29, <1>30, <1>31, <1>32 DEF
     Next, Monitor, ConThread, LibThread, Terminated

(* The connection management implements RedundancyGroup.                   *)
THEOREM Implements == Safety => Refinement
<1>1. Init => RG!RGInit
  BY DEF Init, RG!RGInit, Carrying, Stopping
<1>2. IInv /\ [Next]_vars => [RG!RGNext]_(RG!rgVars)
  BY RefinementStep DEF IInv
<1>3. QED
  BY Invariance, <1>1, <1>2, PTL DEF Safety, Refinement, RG!RGSpec
=============================================================================
