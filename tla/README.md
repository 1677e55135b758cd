# A verification of the IEC 104 south plugin

`fledge-south-iec104` is a Fledge plugin that acts as the controlling station
(client) of IEC 60870-5-104: it keeps a redundancy group of TCP connections to
an outstation, synchronises its clock, interrogates it, forwards what it
reports to Fledge and sends commands on Fledge's behalf. The protocol stack
itself is lib60870, a library outside the repository.

This directory holds TLA+ modules of the plugin, TLC configurations that check
them on small instances, and TLAPS proofs, for every instance, of all safety
properties that hold.

    ClientConnections.tla         connection management, all its threads
    RedundancyGroup.tla           what it promises to the outstation
    ClientConnectionsProofs.tla   theorems about it
    Interrogation.tla             clock sync and general interrogation
    InterrogationProofs.tla       theorems about it
    OutstandingCommands.tla       commands waiting for their answers
    CommandLeases.tla             what it promises of a command's life
    OutstandingCommandsProofs.tla, CommandLeasesProofs.tla
                                  theorems about both
    ClientConfig.tla              import and lookups of the configuration
    ClientConfigProofs.tla        theorems about it
    Plugin.tla                    entry points, operation(), handleASDU(),
                                  composed with ClientConfig
    PluginProofs.tla              theorems about it
    SequenceFilter.tla            a list without some of its elements, used
                                  by OutstandingCommands and Plugin
    SequenceFilterProofs.tla      what the proofs need of it
    MC*.tla, *.cfg                instances for TLC
    PROJECT.json                  components, runs, mutants, source map,
                                  findings, hazards, theorems

Line numbers of the source below are those of `src/src/iec104_client.cpp`
(CL), `src/src/iec104_client_connection.cpp` (CN),
`src/src/iec104_client_config.cpp` (CF), `src/src/iec104.cpp` (IE) and
`src/src/plugin.cpp` (PL).

## 1. Inventory

### Components, their state and their operations

**Plugin entry points and `IEC104`** (PL, IE). State: `m_client`, `m_config`,
the ingest callback. Operations: init, start, reconfigure (stop, new
configuration, start), shutdown, and `operation()`, which Fledge calls from its
own threads to send commands, an interrogation or a status request. Nothing
here takes a lock. Correct when calls return, a reconfigured plugin runs on
the new configuration only, clients that were replaced are gone, and `m_client`
is missed by no operation but one that a stop overlaps.

**Connection management**: `IEC104Client::_monitoringThread` (CL 1193-1330) and
`IEC104ClientConnection::_conThread` (CN 1095-1243). The monitoring thread
polls every 100 ms: it chooses the active connection, activates it, asks for
backup connections after 5 s without any, closes those not needed, and reports
all data objects NON_TOPICAL after half a second of outage. Every connection
has a thread of its own that walks through `m_connectionState`, creates and
destroys the lib60870 handle, and serves the flags `m_connect` and
`m_disconnect`. lib60870 runs a third thread for each handle, which calls
`m_connectionHandler` (CN 78-123) on OPENED, CLOSED and STARTDT_CON. Correct
when at most one connection of the group carries data and it is the active one,
handles are used only while they exist, threads are joined in an order that
ends, and a connection is found again after every failure.

**Clock sync and general interrogation (GI)**: `executePeriodicTasks`
(CN 526-689) in the connection thread, `m_asduReceivedHandler` (CN 692-849) and
`handleASDU` (CL 517-705) in the lib60870 thread. They share, mostly without
locks, about a dozen flags and timers of the connection, and the client's GI
status and list of data objects not yet received. Correct when every session
is synchronised and interrogated, cycles end, requests made meanwhile are
served, and only data objects that were not answered are reported INVALID.

**Outstanding commands**: `m_outstandingCommands` and its two mutexes. Senders
(CL 1348-1595) add an entry under the limit `cmd_parallel`, then send; lib60870
threads look entries up and complete them (CL 128-139, 898-1120); the
monitoring thread removes those that time out (CL 141-174) and clears the list
when it ends (CL 1319-1328). Entries hold a `shared_ptr` to the connection.
Correct when the limit holds, the list says what is really awaited, slots are
freed, nothing blocks, and no connection outlives the client.

**ASDU handling and data conversion** (`handleASDU`, CL 517-705; the
`handle_M_*` functions). State while an ASDU is handled: the element, a pointer
to its label in the configuration, the lists of datapoints and of labels that
`sendData` walks in parallel, and the unlocked use of `m_activeConnection` for
a GI that a datapoint triggers. Correct when each reading leaves with the label
of its own address. The datapoints themselves (values, quality, time) are a
stateless translation.

**Configuration** (CF): sequential JSON import. State: redundancy groups and
settings, definitions by CA and IOA, triggering addresses, list of CAs, three
"complete" flags that nobody reads. Running threads look definitions up with an
operator that inserts. Correct when what is imported is what the other parts
assume: lists that fit the definitions, values that fit lib60870, types that
match when they carry the same information.

**Redundancy group data** (`iec104_client_redgroup.*`): plain data, filled by
the import and read by `prepareConnections` and `prepareParameters`.
**Logging** (`iec104_utility.h`): formatting only.

### How they interact

    Fledge --init/start/reconfigure/shutdown--> IEC104 --import--> configuration
                                            --make/stop--> IEC104Client
    Fledge threads --operation()--> IEC104Client --send--> active connection
    IEC104Client, lib60870 threads --lookup--> configuration
    monitoring thread --Activate/Connect/Disonnect--> connections
    connection thread --create/destroy/send--> lib60870 handle
    lib60870 thread --OPENED/CLOSED/STARTDT_CON--> connection
                    --ASDU--> connection --> client --ingest--> Fledge

Locks: `m_activeConnectionMtx` (a whole poll of the monitor; each step of a
sender), `m_outstandingCommandsMtx` (lookup, removal, time-out), `m_conLock`
of each connection (handle, sending, parts of the handlers). Most flags are
read or written without a lock.

### What is hard

Interleavings of four kinds of threads on unlocked flags; joins in a chain
(stop() - monitor - connection thread - lib60870 thread); state that outlives
the session it was about; a time-out that races a late answer; tests that
would need a peer that misbehaves at one exact moment. `PROJECT.json` lists
the hazards line by line, each with the property that covers it or the reason
why none does.

## 2. Plan

In order of importance, with what exists so far:

1. `ClientConnections` and its abstract specification `RedundancyGroup`; runs
   with one and two connections; type correctness, the redundancy rule, handle
   safety, refinement. **Done, checked and proved.**
2. `Interrogation`: two runs for safety and liveness. **Done; its safety is
   proved.**
3. `OutstandingCommands` and its abstract specification `CommandLeases`.
   **Done, checked and proved.**
4. `ClientConfig`: the import of all three documents with its early returns,
   ranges and defaults, the lookups, and the matching of types against a
   reference definition. **Done, checked and proved.**
5. `Plugin`, which composes `ClientConfig` with the entry points, `operation()`,
   `handleASDU()` and the life of clients: `m_client` and `m_activeConnection`
   used without a lock, labels, replaced clients. **Done, checked and proved,
   with the refinement of `ClientConfig`.**
6. A finer grain in `ClientConnections`: the two flag writes of `Connect()` and
   `Disonnect()` as separate steps.
7. Proofs that remain: the safety half of the liveness properties, as
   invariants without ENABLED (a thread that waits in a join or for a mutex
   waits for one that can go on).

`CommandLeases` is about the time a command holds its slot and not about the
order of its phases, and an abstract specification of a GI cycle was considered
and left out: because of the matching by address (section 7) and of two threads
writing the GI status, what the code refines allows nearly any order of the
phases; `CommandEnds` and `ReportSettles` say more of it.

The number of runs is kept small on purpose: one per question.

## 3. Modules and code

### ClientConnections

One action is one stretch of code no other thread can see half-done: a
critical section of `m_conLock`, or one unlocked access when its place
matters. Lists are represented by connection numbers `1..N` in list order.

| Code | Model |
|---|---|
| `_monitoringThread` | `mon` with the loops' position `cursor`; `StartConnections`, then in each poll `BeginScan`/`ScanNext`/`ActivateFound`/`NothingOpen`/`ConnectBackup` or `CheckActive`/`TrimConnections`, then `Sleep`; at the end `LeaveMonitor`, `StopConnection`, `JoinConnection`, `MonitorDone` |
| `Activate`, `Connect`, `Disonnect` | the operators of these names |
| `_conThread` | `pc[c]`: `DetachOld`, `PrepareConnection`, `PrepareFails` (IDLE); `ConnectTimesOut`, `WriteIdle` (CONNECTING); `CloseOnGiTimeout` (CONNECTED_ACTIVE); `ArmReconnect` (CLOSED); `ReconnectDelayOver`; `ServeDisconnect`, `EndIteration`, `LeaveLoop`; `JoinLib` for every join of the lib60870 thread |
| `m_connectionHandler` | `Opened`, `Closed`, `StartDtConReceived` (STOPDT_CON: section 8) |
| lib60870 (external) | `session`, `closing`, `startDt`: socket, close flag, STARTDT |
| `stop()` | `RequestStop`, then `mon = "done"` |

The GI time-out that calls `closeConnection()` and the refused GI that calls
`Disonnect()` are steps that may happen at any time; `Interrogation` has when.
Time is counted in polls of the monitor; only `Sleep` advances it, and the
timers of the code (0.5 s, 5 s, 10 s) are constants `QualityPolls`,
`BackupPolls`, `DelayPolls`.

### RedundancyGroup

The promise to the outstation: an owner is chosen only while nothing carries
data, only the owner carries data, and the owner changes only after it stopped
carrying. `ClientConnections!Refinement` maps the owner to `active`, carrying
to "handle in use, session open, STARTDT sent", and stopping to the monitor
having left its loop.

### Interrogation

One connection over any number of sessions. `pc` is the connection thread's
place in `executePeriodicTasks()`, `handler` that of the lib60870 thread in
`m_asduReceivedHandler()`. Neither takes a lock for the GI, so every access to
the request state and to the GI status that the other thread can separate from
the next is a step:

| Code | Model |
|---|---|
| send a GI, then record that it was sent (CN 482-495) | `SendGi`, `RecordGi` |
| send one for a CA, record it (CN 640), report STARTED (CN 643) | `SendCa`, `RecordCa`, `ReportCa` |
| time-out: reset the state, report FAILED, close | `TimeOutGi`, `ReportTimeOut`, `CloseConnection`, then `JoinHandler`, which waits for the handler as lib60870 does |
| ACT_CON, ACT_TERM: test the state, write it, (test and) write the status | `GiConfirmation`/`GiTermination`, `RecordAnswer`, `CheckRunning`, `ReportAnswer` |
| data of a GI: renew the time-out, write the status, prune the list | `GiData`, `ReportAnswer`, `TakeData` |

Clock sync is one step, as it is done under `m_conLock`. In a started session
the outstation may send any ASDU at any time and as often as it likes, asked
for or not; one that the state does not expect changes nothing and has no
action. `numCa` is the length of `ListOfCAs`, which may be 0 (an import that
ended early): then a cycle asks nobody (CN 503). `notReceived` is
`m_listOfStationGroupDatapoints`. Four history variables (`synced`, `asked`,
`notSent`, `received`) exist for the properties only. `Tick` is the sleep
between two iterations.

### OutstandingCommands

The list as a sequence of command objects, which live as long as something
refers to them (`LiveCommands`); the last reference to a connection runs its
destructor in the thread that dropped it (`Release`), as `shared_ptr` does.
Adding is two steps, `BeginAdd` and `EndAdd`, both inside
`m_activeConnectionMtx`, because the sections of the other mutex may run in
between; an append that such a section overlapped may be lost, which is how the
model renders that data race (an outcome that ends the process is not
followed). `Lookup` and `FinishHandling` are the two ends of `handleASDU()`;
the outstation may send any ACT_CON and ACT_TERM, of any address and as often as
it likes. Three history variables say what became of a command: `awaited` (sent,
and not ended since), `lost` (to be sent, but its append was lost) and `over`
(to be sent, but already ended).
The erase-remove of the code is `Kept` of `SequenceFilter`, a recursive
function that the proofs can use.

### CommandLeases

A command holds a lease on one of `cmd_parallel` slots: it is admitted while
there is room, can then be found by an answer, may be sent, and ends by an
answer that found it, by failing, by its time-out or by the end of the client.
Only a confirmation that found it (`confirming`) renews it, and once: any other
restart of a timer is no step of `CommandLeases`. Every lease grows older by
one with each poll, all of them together, and those that are found and have run
out end in the poll after; none is kept, nor anything sent, once the client
stopped. `CommandsAreLeases` maps the leases to the commands being added and
those in the list, the time left to their timers, "sent" to those whose answer
is awaited (`awaited`), "confirming" and "completing" to the commands that
handlers have found with an ACT_CON or with the answer that ends them, and
"stopped" to the clearing of the list and of `m_connections`.

### ClientConfig

A document is what the JSON parser hands over, reduced to what the import
tells apart: an object is valid or not, an integer member has a value or is
absent (not an integer, or not there), a "protocols" element is an IEC 104
one, another one, or faulty. `setJsonConfig()` is cut into one step per
redundancy group and per element, so that it can be seen half-done.

| Code | Model |
|---|---|
| `IEC104::setJsonConfig` (IE 32-41) | `SetJsonConfig` makes the new object and begins; `Import` |
| `importProtocolConfig`, `importRedGroup`, `importRedGroupCon` (CF 403-927) | `ImportGroup`, `ImportApplication`, with `Setting` for every integer member |
| `importExchangeConfig` (CF 1060-1229) | `BeginExchange`, `ImportPoint` (three kinds of element), `EndExchange`, which makes the list of CAs |
| `importTlsConfig` (CF 934-1020) | `ImportTls` |
| `isMessageTypeMatching`, `checkExchangeDataLayer` (CF 138-392) | `IsMessageTypeMatching` with the missing `break` as it is; `Accepts`; `Lookup`, which leaves a null entry |

`ConfigSpec` is the component by itself: documents imported one after the
other, lookups in between.

### Plugin

EXTENDS `ClientConfig` and adds the threads around it.

| Code | Model |
|---|---|
| `plugin_init`, `plugin_start`, `plugin_reconfigure`, `plugin_shutdown` | `control`, the place of the host's thread: `PluginInit` ... `PluginShutdown` begin a call; `StopClient`, `JoinMonitor`, `KeepConfig` or `BeginImport`/`ImportStep`/`EndImport`, `MakeClient`, `LaunchClient`, `DeletePlugin` carry it out |
| `m_client`, a `shared_ptr`; `shared_from_this` in the connections | `client`; a client exists while `m_client` or its own connections refer to it (`Exists`) |
| the last reference to a connection, held by a command found in `handleASDU()` (CL 547) | `handler.holds`; `HandlerEnds`: the monitoring thread waits for an idle handler, or for none that holds a connection, which then waits for itself (`stuck`) and keeps its client. `commanded` says which commands there were to find |
| `_monitoringThread`, as far as others see it | `monitor[c]`: `MonitorActivates`, `MonitorLoses`, and the exit in three steps |
| `handleASDU`, `m_createDataObject`, `isAsduTriggerGi`, `sendData` | `handler`: `Receive`, then for each element `FindLabel`, `TakeElement` and perhaps `RequestGi`; `SendData` |
| `IEC104::operation` | `thread[o]`: `Operation` (the test of `m_client`), then `RejectCommand`, `SendCommand` or `SendOther`, which read `m_client` again; `EndSending`, `ScheduleGi` |

A use of an object that does not exist is undefined behaviour. The model stops
there: `fault` says which thread missed which object, and the property is about
what must have happened (`since`) between that thread's test and its use. The
host is assumed to call init, start once, then reconfigure any number of times
and shutdown, from one thread, as Fledge's south service does; operations come
from any number of other threads. The connections of a client are here a list
and one lib60870 thread; `ClientConnections` has them in full.

### Faulty variants

Operators marked "faulty variant" in the modules are plausible bugs (a missing
reset, a dropped guard, the wrong lock). No action uses them. Putting one in
place of the definition it precedes makes a property fail; `PROJECT.json` has
one such mutant for every property of every passing run.

## 4. Runs

| Run | Shows |
|---|---|
| `connections_safety` | every interleaving of two connections with TLS failure, GI time-out and stop(): the redundancy rule, the life of handles and flags, one STARTDT per session, refinement (1.0 M states) |
| `connections_liveness` | one connection with longer timers: outage report, and stop() from every state (12 k states) |
| `connections_backup` | a preferred and a backup connection, never stopped: an open connection in the list is not overlooked, the backup is asked for, and closed again (0.35 M states) |
| `interrogation_cycles` | broadcast, or one GI for each of two common addresses or of none, with and without clock sync, cyclic: watched answers, answered objects not INVALID (7.9 M states) |
| `interrogation_liveness` | broadcast or one address, on demand: cycles end, every lasting session is interrogated, end of init is served; with a broadcast GI, requests are served and the reported status settles (0.19 M states) |
| `commands_safety` | two connections, two senders, commands and setpoints, stop(): limit, agreement of the list with what was sent, and refinement of `CommandLeases` (1.0 M states) |
| `commands_liveness` | two addresses and a limit of two: slots are freed, no command is kept waiting by answers to others, senders and stop() return (21 k states) |
| `plugin` | the plugin with its configuration, from init to shutdown over a reconfiguration with complete, faulty and missing documents, while an operator sends commands and requests and ASDUs arrive: imports and lookups that stay apart (refinement of `ConfigSpec`), replaced clients, what unlocked uses may miss, labels, answers, and that calls return (0.28 M states) |
| four single-property runs: `connections_stuck_passive`, `interrogation_lost_sync`, `commands_list_race`, `commands_exit` | where the code departs from its own comments, section 7 |

### Bounds, and why they are enough

*Two connections* are the redundancy group of the documentation and the
smallest one with a choice, a backup and an unneeded connection; the proofs
cover any number. *Timers of one to three polls*: what matters is whether a
timer expires before, at or after an event, and between two polls any event
can happen; `connections_liveness` has three different values, and the proofs
cover all. *One data object* in `interrogation_cycles` is answered, or not, in
each cycle, and objects are independent of each other (the proof has any set);
in `interrogation_liveness` there is none, since no control depends on them.
*Two common addresses* are a first and a last one, *none* is the empty list; for
liveness one is enough, as the iterator only goes on. *Window 2* lets a request meet one that is
unanswered, and a refused send. *Three command objects for two senders and a
limit of two* let the limit be reached while a third command is attempted; two
connections let the active one change between adding and sending. *Sessions*
are unbounded everywhere: counters are reset with them. Senders and commands
are interchangeable in `commands_safety` (no liveness there), which makes
their symmetry sound.

*Plugin*: two clients (one reconfiguration) are one and the one that replaced
it, so that what is left behind of the first meets the second; the proofs cover
any number. One operator is enough for TLC because operators share nothing but
lookups, and the proofs cover any number of both. The three documents have
values at, below and above each kind of bound, two groups, valid and invalid
connections, an address defined twice, an element after a faulty one, and one
has no stack and no exchange at all; the ASDUs have two elements that are both
accepted, an unknown element before a known one, a type that matches but is not
handled, the type of the missing `break`, and the answer to the command that is
sent.

`CHECK_DEADLOCK` is off in `plugin` only, where the host may shut the plugin
down for good or a thread may miss an object; the finished monitor of `ClientConnections`
is an explicit stuttering action, `Terminated`.

## 5. Fairness

*ClientConnections*: weak fairness of the monitor and of each connection
thread, which sleep and loop but never wait on each other except in joins (these
are guards); a connecting socket ends its attempt (t0), a close flag is served,
a sent STARTDT is confirmed or the session closed (t1): timers of lib60870.
Nothing is assumed about the peer, nor that stop() is called. The properties
that speak of the running client use `SpecWhileRunning`, the same behaviours
without stop().

*Interrogation*: weak fairness of both threads; strong fairness of `Tick`,
since time passes although `pc = "top"` is left again and again; the outstation
acknowledges the APDUs it was sent (or the session ends: t1 of lib60870) but
need not answer them. Nor need it ever stop sending: data with the cause of a GI
starts the time-out again each time (CN 707), so that the properties except, by
`DataGoesOn`, an outstation that sends it for ever.

*OutstandingCommands*: strong fairness of the monitor and of `Send`, which wait
for a mutex that others take again and again, and of the end of a closed
connection, whose handler may be called until it stops reading; weak fairness of
the rest. A sender need not start, sessions need not open, end or last, and the
outstation may answer anything for ever: each ACT_CON that finds a command starts
its time-out again, so that `SlotFreed` and `CommandEnds` except, by
`ConfirmedForEver`, a command that is confirmed without end.

*Plugin*: weak fairness of the host's thread inside a call, of the monitoring
thread once it has to end, and of the handling of an ASDU, none of which waits
except for the joins that are guards. Nobody need call, send or poll.

## 6. Proofs

TLAPS checks the proof modules from the named assumptions on the constants
alone (`ConnectionsAssumption`, `InterrogationAssumption`,
`CommandsAssumption`, `ConfigAssumption`, `PluginAssumption`), which TLC
evaluates in every run. Every invariant and action property of a passing run
has a theorem.

*ClientConnections.* `OnlyActiveCarries` is not inductive: whether activating
a connection may start a second transfer depends on where the monitor is, on
what `m_connected` says of the session and on the handle. `IInv` adds to the
type invariant

- `MonitorInv`: the cursor is on a connection, and nothing is active, wherever
  the monitor relies on it;
- `SessionInv`: what `connected`, `conState` and `startDt` imply of the
  lib60870 session, whatever thread wrote them last;
- `HandleInv`: a state that sends has a handle, and a handle given up is at a
  join point until its session ended;
- `JoinedInv`: connections behind the cursor of stop() are dead and joined.

`Invariance` is Init, then one lemma per conjunct with a case per action. From
it follow `TypeCorrect`, `OneCarrier`, `HandleInUse`, `ConnectedIsTrue` and
`NoOrphans`; `StartDtOnce` proves the action property from the same invariant,
and `Implements` the refinement of `RedundancyGroup`: every step maps to a step
or a stutter.

*Interrogation.* `IInv` adds `SentInProgress` (between sending a request for
one address and reporting it a cycle is in progress and the iterator is on that
address) and `HandlerWatched` (a handler at work was entered for an awaited
request, or that request has timed out and the session is being closed, which
waits for the handler) to `TypeOK` and the two properties. `Watched` and `Answered` follow:
no interleaving of the two threads leaves an awaited answer unwatched, or an
answered data object in the list.

*SequenceFilter.* That a filtered list is no longer than the list and holds
exactly the elements that pass (`KeptOfAll`, `KeptElements`, `KeptOfNext`) is an
induction over the positions of the list. The induction theorems of the library
take an operator, which the provers cannot instantiate; `SetInduction` is the
same for a *set* of numbers, from the fact that a set of natural numbers has
a least element, and the two inductions define the set of positions for which
the claim holds. `KeptExists` shows, by the same induction, that the
recursive function exists.

*OutstandingCommands.* Neither property is inductive: adding a command is two
steps, the room found in the first must still be there in the second, and
answers, time-outs and `stop()` use the list in between under another mutex.
`IInv` adds to the type invariant

- `HeldInv`: a sender has a command exactly from `BeginAdd` to `Send`, and no
  other sender has it;
- `MutexInv`: who is adding holds `m_activeConnectionMtx`, so nobody else adds,
  and the monitoring thread is not clearing the list;
- `RoomInv`: `LimitRespected`, and there is room as long as somebody holds the
  mutex: the other sections only ever remove;
- `ListInv`: `EntriesAreAwaited`, with what it takes for each command to be on
  one side of it only: a command held by a sender is not awaited yet, `lost` and
  `over` are about such commands, and one that is being added is in no list and
  in no handler;
- `HandlerInv`: a handler has found a command of its own connection, so that no
  other one has found the same, and one ACT_CON renews one lease.

`Limited` and `ListIsAwaited` follow. `Implements` is the refinement of
`CommandLeases`: with `IInv` and `StopInv` (the list and `m_connections` are
cleared together, after which no connection is active) each step is one step of
a lease or a stutter; a lost append is the end of one. It says what the
invariants do not: a time-out is counted for every entry in every poll, only
an ACT_CON that found a command gives it more time, once, and no command is
sent after the list was cleared. `LeasesCorrect` is what follows in the abstract specification by
itself, by counting (`FiniteSetTheorems`), and `LeasesHeld` carries it down:
the commands being added count within the limit too.

*ClientConfig.* `LastDefinitionWins` needs to know that the elements taken so
far are those in front of `next`, that nothing but an import step adds one, and
that what a lookup leaves is no definition; `ListsMatchDefinitions` that the
list of CAs is empty until the end of the import and that lookups come only
after it. `ConfigInv` is `ConfigTypeOK`, `ImportInv` (what each value of `step`
says of the lists) and the two properties, with one lemma per group of steps.
`ConfigAccepts` follows from the table of types, by comparing it with the
classes of the reference definition.

*Plugin.* `PluginInv` joins

- `LifeInv`: where the host's thread is decides whether there is a client, which
  one, what its monitoring thread may be doing, and that a configuration is
  imported only while nobody has a client (`CallsInv`, `ClientInv`, `MonitorOK`);
- `ConfigInv` of `ClientConfig`;
- `HandlerInv` and `ThreadInv`: a thread inside `handleASDU()` belongs to a
  client that lives, and an operation that no stop has overlapped still has the
  client it tested, and, for a command on its way, a definition that accepts
  its answer;
- `AnswerInv`: a connection is left waiting for itself only of a client that
  was made and, if it is the last one, has sent a command; a handler refers to a
  connection only while it is at an element, and only if there was a command;
- `RunsInv`: a running client has the connections of the current groups;
- `LabelsInv`: `ReadingsStayLabelled`, and how far the handler is. That an
  element adds a datapoint and a label, or neither, is `KeptOfNext`; that the
  labels copied before stay right needs the rest of `PluginInv`: definitions do
  not change while a handler is at work, since its client lives and an import
  waits for that client's end;
- `MissesOnlyOverlapped`.

Each thread has a lemma that its steps keep its own part and one that they keep
what the others rely on (`OperatorKept` says what that is). `PluginDrivesConfig`
is the refinement: under `PluginInv` every step is a step of `ConfigSpec` or
leaves the configuration alone (`ImportsUndisturbed`), in particular no lookup falls into an import.
The theorems of `ClientConfig` then hold of the plugin
(`PluginConfigCorrect`), and the others follow from `PluginInv`. These
proofs say that the unlocked uses can go wrong in the windows named and nowhere
else; they do not say that they never go wrong.

### Only model-checked

Liveness under fairness, which is out of the prover's reach, as is ENABLED:
the properties of the four runs about it and `CallsReturn`. That the code
departs from four comments (section 7), which takes a counterexample and not a
proof.

## 7. Where the code departs from its comments

Each is a run with one property that TLC finds violated.

- **Stuck passive** (`connections_stuck_passive`, CN 1148). A connect time-out
  leads to IDLE and to the next attempt at once, not after the 10 s of a closed
  connection, and the handle given up may still report OPENED (or reported it
  between the test of the time-out and the write of IDLE, which take no lock).
  The monitor makes that connection the active one, but STARTDT is not sent:
  the handle is gone, or the state is not CONNECTED_INACTIVE. The connection
  is destroyed and open again within one poll, the monitor finds its active
  connection connected, and nobody activates the new session, nor any other
  connection of the group.
- **Lost clock sync** (`interrogation_lost_sync`, CN 569).
  `m_timeSyncCommandSent` is cleared by a positive confirmation only. After a
  session that ended before it, or a negative answer, no session is
  synchronised, nor interrogated, since GI waits for the sync.
- **List race** (`commands_list_race`, CL 1375). Appending to the list of
  commands holds one mutex, everything else the other.
- **Exit** (`commands_exit`, CL 547). The monitoring thread drops its
  references to make sure that connections are destroyed before it ends; an
  answer being handled at that moment keeps one, and the destructor then runs
  in the thread it joins. `Plugin` has this too: `OnlyCurrentClientLives` excepts
  a replaced client that such a connection keeps (`stuck`).

Other behaviour met while modelling that no comment contradicts, or that no
property is about:

- a GI request is sent before the state says that ACT_CON is awaited; a
  confirmation handled in between is ignored, and the cycle ends by its
  time-out (CN 488);
- a first GI refused because the window is full counts as sent, and with
  `gi_cycle` 0 is not tried again (CN 494);
- with `gi_time` 0 and one GI per CA the request state of a lost session is
  never cleared (CN 592);
- with one GI per CA, the request state is written (CN 640), and then STARTED
  (CN 643): an ACT_CON and an ACT_TERM handled in between are reported first, and
  the status stays STARTED after the end of the cycle, for ever if `gi_cycle` is
  0. A requested GI waits for FINISHED or FAILED (CN 680) and is not sent then.
  TLC finds both if `ReportSettles` and `RequestServed` do without `~giAllCa`;
- a request that found the window full leaves the status at STARTED as well, also
  with a broadcast GI (CN 494; the exception `notSent`);
- data with the cause of a GI that never ceases keeps a cycle in progress (CN 707;
  the exception `DataGoesOn`), and ACT_CONs that never cease keep a command
  (CL 917; the exception `ConfirmedForEver`);
- with one GI per CA the first ACT_TERM already sets FINISHED and reports the
  data objects of the other addresses INVALID (CN 804);
- ACT_CON starts the time-out of the command it is matched with again, and a
  command is matched by type, addresses and connection: one whose ACT_TERM was
  lost waits for as long as others are sent to its address and confirmed, where
  the later ones expire instead (CL 133; the same exception);
- the case `C_SE_TB_1` has no `break`: a scaled setpoint with time accepts a
  short one with time (CF 346), which no command sent by the plugin can turn
  into a wrong answer (`AnswersAreRecognised`);
- `asdu_size` is accepted up to 253 (CF 539), while the comment at CN 451 calls
  249 the maximum (whether 250 to 253 harm is up to lib60870, and no property is
  about it); ports are accepted up to 65635 (CF 890);
- an exchange import that ends early leaves definitions but no list of CAs, so
  that with one GI per CA nobody is asked (CN 503), and a client is started on it
  all the same: `isConfigComplete()` is called by tests only. `ListsMatchDefinitions`,
  `SessionInterrogated` and `RunsOnCurrentConfig` allow it;
- the names of types are looked up in a map that the first thread to need it
  fills without a lock (CF 128);
- periods in seconds are multiplied by 1000 in `int` (CN 490, 550, 598).

## 8. Not modelled, and why

- Values, quality bits and time stamps of datapoints: no property of the control
  depends on them. Logging and audit. The names of TLS files and networks, except
  that the material for a connection may be missing.
- lib60870's own protocol timers, of which only the outcome is kept; the values
  that `prepareParameters` hands to it (CN 431-467).
- STOPDT_CON (CN 115-118), which puts the connection to CONNECTED_INACTIVE: an
  outstation sends it in reply to a STOPDT, and the client sends none.
- Clocks that jump (the backup timer of the monitor, CL 1215, uses the wall
  clock); periods so long that `int` overflows; torn reads and writes of unlocked
  data, `std::map` included.
- A host that calls its entry points from several threads or in another order.

Some accesses of one thread are one step although another thread could come in
between:

- `Activate()` and the write of `m_activeConnection` (CL 1235 and 1237): under
  `m_activeConnectionMtx`, and read without it by `handleASDU()` and `scheduleGI()`
  only, which `Plugin` has;
- the two reads of `m_activeConnection` in `isAsduTriggerGi()` (CL 717 and 721):
  `Plugin` has one, and the use after it (CL 676);
- the test of `m_client` and the report of `request_connection_status` (IE 480),
  and, in `Plugin`, the entry of a command in the list and its sending, which
  `OutstandingCommands` takes apart;
- the writes of `Connect()` and `Disonnect()` (section 2, point 6).
