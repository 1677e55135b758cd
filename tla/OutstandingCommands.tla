------------------------- MODULE OutstandingCommands ------------------------
(***************************************************************************)
(* The commands of IEC104Client that wait for an answer: the threads of    *)
(* IEC104::operation() that send them, the lib60870 threads that handle    *)
(* the answers, the monitoring thread that times them out, and the end of  *)
(* the connection objects they hold a shared_ptr to.                       *)
(*                                                                         *)
(* m_activeConnectionMtx and m_outstandingCommandsMtx are two locks: a     *)
(* command is added to the list under the first one, and looked up and     *)
(* removed under the second.  Adding is therefore two steps, with sections *)
(* of the other lock between them.  An append that such a section overlaps *)
(* may be lost; an outcome that ends the process is not followed.          *)
(*                                                                         *)
(* The outstation may send any ACT_CON and ACT_TERM, of any address and as *)
(* often as it likes, whatever was commanded.                              *)
(*                                                                         *)
(* Time is counted in polls of the monitoring thread, as in                *)
(* ClientConnections, whose sessions are only "open" or not here.          *)
(***************************************************************************)
EXTENDS Integers, Sequences, SequencesExt, SequenceFilter

CONSTANTS
    Conns,           \* the connections
    Senders,         \* the threads that call operation()
    Addresses,       \* type, CA and IOA of the commands that are sent
    Setpoints,       \* those answered by ACT_CON alone
    Commands,        \* OutstandingCommand objects alive at a time (a bound)
    CmdParallel,     \* the limit cmd_parallel, 0: no limit
    CmdExecTimeout,  \* polls of cmd_exec_timeout
    None             \* nullptr, or nobody

ASSUME CommandsAssumption ==
    /\ Setpoints \subseteq Addresses
    /\ CmdParallel \in Nat
    /\ CmdExecTimeout \in Nat \ {0}
    /\ None \notin Conns \cup Senders \cup Commands

VARIABLES
    running,         \* IEC104Client::m_started
    mon,             \* control point of the monitoring thread
    listed,          \* m_connections still holds the connections
    active,          \* m_activeConnection
    holder,          \* the sender in m_activeConnectionMtx

    list,            \* m_outstandingCommands
    command,         \* the OutstandingCommand objects that are alive
    overlapped,      \* the list was used during the append in progress

    pc,              \* control point of each sender
    held,            \* its OutstandingCommand

    open,            \* connections whose session can send (CONNECTED_ACTIVE)
    handling,        \* the answer in handleASDU() and the command it found
    object,          \* each IEC104ClientConnection: alive, destroyed, or the
                     \* thread that runs its destructor

    awaited,         \* sent, and not answered or expired since     (history)
    lost,            \* to be sent, and lost by the append         (history)
    over             \* to be sent, and answered or expired before (history)

monVars  == <<running, mon, listed, active>>
listVars == <<list, command, overlapped>>
sendVars == <<pc, held, holder>>
conVars  == <<open, handling, object>>
history  == <<awaited, lost, over>>
vars     == <<monVars, listVars, sendVars, conVars, history>>

(* No ASDU in handleASDU(), and one for which no command waits.            *)
NoAsdu    == [addr |-> None, cot |-> "none", found |-> None]
Unrelated == [addr |-> None, cot |-> "other", found |-> None]

Answers == [addr : Addresses, cot : {"actCon", "actTerm"}, found : Commands]

Entries       == ToSet(list)
HeldBySenders == {held[s] : s \in Senders} \ {None}
HeldByLib     == {handling[c].found : c \in Conns} \ {None}
LiveCommands  == Entries \cup HeldBySenders \cup HeldByLib

TypeOK ==
    /\ running \in BOOLEAN /\ listed \in BOOLEAN
    /\ mon \in {"active", "timeouts", "stopping", "done"}
    /\ active \in Conns \cup {None}
    /\ holder \in Senders \cup {None}
    /\ list \in Seq(Commands)
    /\ command \in [LiveCommands -> [addr : Addresses, con : Conns \cup {None},
                                     timer : 0..CmdExecTimeout]]
    /\ overlapped \in BOOLEAN
    /\ pc \in [Senders -> {"idle", "adding", "added", "returning"}]
    /\ held \in [Senders -> Commands \cup {None}]
    /\ open \in [Conns -> BOOLEAN]
    /\ handling \in [Conns -> Answers \cup {NoAsdu, Unrelated}]
    /\ object \in [Conns -> {"alive", "monitor", "lib", "destroyed"}
                               \cup Senders]
    /\ awaited \subseteq Commands
    /\ lost \subseteq Commands /\ over \subseteq Commands

Init ==
    /\ running = TRUE
    /\ mon = "active"
    /\ listed = TRUE
    /\ active = None
    /\ holder = None
    /\ list = <<>>
    /\ command = [k \in {} |-> None]
    /\ overlapped = FALSE
    /\ pc = [s \in Senders |-> "idle"]
    /\ held = [s \in Senders |-> None]
    /\ open = [c \in Conns |-> FALSE]
    /\ handling = [c \in Conns |-> NoAsdu]
    /\ object = [c \in Conns |-> "alive"]
    /\ awaited = {} /\ lost = {} /\ over = {}

-----------------------------------------------------------------------------
(* Objects live as long as there is a shared_ptr to them.                  *)

Referenced(c) ==
    listed \/ active = c \/ \E k \in LiveCommands : command[k].con = c

(* The thread that drops the last shared_ptr to a connection runs its      *)
(* destructor, which waits in Stop() for the threads of the connection.    *)
Release(thread, commands) ==
    /\ command' = [k \in LiveCommands' |-> commands[k]]
    /\ object' = [c \in Conns |-> IF object[c] = "alive" /\ ~Referenced(c)'
                                  THEN thread ELSE object[c]]

(* _conThread destroys the handle, which joins the lib60870 thread once it *)
(* has left its handler: never, when that is where the destructor runs.    *)
StopCompletes(c) ==
    /\ object[c] \in Senders \cup {"monitor"}
    /\ handling[c] = NoAsdu
    /\ object' = [object EXCEPT ![c] = "destroyed"]
    /\ open' = [open EXCEPT ![c] = FALSE]
    /\ UNCHANGED <<monVars, listVars, sendVars, handling, history>>

-----------------------------------------------------------------------------
(* The two locks.  m_activeConnectionMtx is kept by a sender that adds a   *)
(* command, and by the monitoring thread while it destroys connections.    *)

ActiveMtxFree == holder = None /\ mon # "stopping"

UseList == overlapped' = (overlapped \/ \E s \in Senders : pc[s] = "adding")

Without(gone) == Kept(list, Commands \ gone)

(* Commands that have ended, some of them before they were sent.           *)
Close(gone) ==
    /\ awaited' = awaited \ gone
    /\ over' = over \cup (gone \cap HeldBySenders)
    /\ UNCHANGED lost

-----------------------------------------------------------------------------
(* A sender: addOutstandingCommandAndCheckLimit(), then the send.  A       *)
(* command that is refused because of the limit changes nothing.           *)

HasRoom == CmdParallel > 0 => Len(list) < CmdParallel

NoLock(s) == UNCHANGED holder   \* faulty variant: the size is read unlocked

Lock(s) == holder' = s

BeginAdd(s, k, a) ==
    /\ pc[s] = "idle"
    /\ ActiveMtxFree
    /\ HasRoom
    /\ k \notin LiveCommands
    /\ command' = [j \in LiveCommands \cup {k} |->
                      IF j = k THEN [addr |-> a, con |-> active,
                                     timer |-> CmdExecTimeout]
                      ELSE command[j]]
    /\ Lock(s)
    /\ pc' = [pc EXCEPT ![s] = "adding"]
    /\ held' = [held EXCEPT ![s] = k]
    /\ UNCHANGED <<monVars, list, overlapped, conVars, history>>

KeepLocked == UNCHANGED holder   \* faulty variant: locked until the send

Unlock == holder' = None

EndAdd(s) ==
    /\ pc[s] = "adding"
    /\ \/ list' = Append(list, held[s]) /\ UNCHANGED lost
       \/ overlapped /\ UNCHANGED list /\ lost' = lost \cup {held[s]}
    /\ overlapped' = FALSE
    /\ Unlock
    /\ pc' = [pc EXCEPT ![s] = "added"]
    /\ UNCHANGED <<monVars, command, held, conVars, awaited, over>>

KeepFailed(k) == UNCHANGED list   \* faulty variant: not removed

RemoveFailed(k) == list' = Without({k})

CanSend == active # None /\ open[active]

(* Over the connection that is active now, under m_activeConnectionMtx.    *)
(* lib60870 may refuse the command, its window being full.                 *)
Send(s) ==
    /\ pc[s] = "added"
    /\ ActiveMtxFree
    /\ \/ CanSend /\ awaited' = awaited \cup ({held[s]} \ (lost \cup over))
          /\ UNCHANGED list
       \/ RemoveFailed(held[s]) /\ UNCHANGED awaited
    /\ lost' = lost \ {held[s]}
    /\ over' = over \ {held[s]}
    /\ held' = [held EXCEPT ![s] = None]
    /\ pc' = [pc EXCEPT ![s] = "returning"]
    /\ UNCHANGED <<monVars, overlapped, holder, open, handling>>
    /\ Release(s, command)

Return(s) ==
    /\ pc[s] = "returning"
    /\ \A c \in Conns : object[c] # s
    /\ pc' = [pc EXCEPT ![s] = "idle"]
    /\ UNCHANGED <<monVars, listVars, held, holder, conVars, history>>

Sender(s) ==
    \/ \E k \in Commands, a \in Addresses : BeginAdd(s, k, a)
    \/ EndAdd(s) \/ Send(s) \/ Return(s)

-----------------------------------------------------------------------------
(* The lib60870 thread of a connection: handleASDU() for a command.        *)

MatchingConnection(c, a) ==   \* faulty variant: whatever was commanded
    {i \in DOMAIN list : command[list[i]].con = c}

Matching(c, a) ==
    {i \in DOMAIN list : /\ command[list[i]].addr = a
                         /\ command[list[i]].con = c}

(* checkForOutstandingCommand(): the first one of that address.            *)
Found(c, a) ==
    IF Matching(c, a) = {} THEN None
    ELSE list[CHOOSE i \in Matching(c, a) : \A j \in Matching(c, a) : i <= j]

Answer(c, a, cot) ==
    IF Found(c, a) = None THEN Unrelated
    ELSE [addr |-> a, cot |-> cot, found |-> Found(c, a)]

Lookup(c, a, cot) ==
    /\ open[c] /\ handling[c] = NoAsdu
    /\ object[c] # "lib"
    /\ handling' = [handling EXCEPT ![c] = Answer(c, a, cot)]
    /\ UseList
    /\ UNCHANGED <<monVars, list, command, sendVars, open, object, history>>

IsSetpoint(k) == command[k].addr \in Setpoints

(* The handler of a setpoint ends the command at ACT_CON and ignores       *)
(* ACT_TERM; the others go on waiting for ACT_TERM after ACT_CON.          *)
Completes(k, cot) == cot = IF IsSetpoint(k) THEN "actCon" ELSE "actTerm"

RenewsOnAny(k, cot) ==   \* faulty variant: whatever is not the end
    ~Completes(k, cot)

Renews(k, cot) == ~IsSetpoint(k) /\ cot = "actCon"

(* The time-out starts again; actConReceived only words a message.         *)
Acknowledge(k) == [command EXCEPT ![k].timer = CmdExecTimeout]

HandleLocked(c) ==   \* faulty variant: under m_activeConnectionMtx
    handling[c] # NoAsdu /\ ActiveMtxFree

Handle(c) == handling[c] # NoAsdu

(* The handler of the command type, and the end of its shared_ptr to the   *)
(* command.                                                                *)
FinishHandling(c) ==
    /\ Handle(c)
    /\ LET k == handling[c].found
           cot == handling[c].cot
       IN  /\ IF k # None /\ Completes(k, cot)
              THEN list' = Without({k}) /\ Close({k}) /\ UseList
              ELSE UNCHANGED <<list, history, overlapped>>
           /\ handling' = [handling EXCEPT ![c] = NoAsdu]
           /\ UNCHANGED <<monVars, sendVars, open>>
           /\ Release("lib", IF k # None /\ Renews(k, cot)
                             THEN Acknowledge(k) ELSE command)

LibThread(c) ==
    \/ \E a \in Addresses, cot \in {"actCon", "actTerm"} : Lookup(c, a, cot)
    \/ FinishHandling(c)

-----------------------------------------------------------------------------
(* The sessions, as ClientConnections has them in detail.                  *)

Open(c) ==
    /\ object[c] = "alive" /\ running
    /\ ~open[c]
    /\ open' = [open EXCEPT ![c] = TRUE]
    /\ UNCHANGED <<monVars, listVars, sendVars, handling, object, history>>

Closed(c) ==
    /\ open[c]
    /\ handling[c] = NoAsdu
    /\ open' = [open EXCEPT ![c] = FALSE]
    /\ UNCHANGED <<monVars, listVars, sendVars, handling, object, history>>

-----------------------------------------------------------------------------
(* The monitoring thread.                                                  *)

(* Under m_activeConnectionMtx.                                            *)
CheckActive ==
    /\ mon = "active" /\ running
    /\ ActiveMtxFree
    /\ active' \in IF active # None
                   THEN {IF open[active] THEN active ELSE None}
                   ELSE IF \E c \in Conns : open[c]
                        THEN {c \in Conns : open[c]} ELSE {None}
    /\ mon' = "timeouts"
    /\ UNCHANGED <<running, listed, listVars, sendVars, conVars, history>>

ExpiredOfActive ==   \* faulty variant: those of the active connection only
    {k \in Entries : command[k].timer = 0 /\ command[k].con = active}

Expired == {k \in Entries : command[k].timer = 0}

TimerRunsOn(t) == t - 1   \* faulty variant: below zero

Before(t) == IF t > 0 THEN t - 1 ELSE 0

(* checkOutstandingCommandTimeouts(), then 100 ms.                         *)
CheckTimeouts ==
    /\ mon = "timeouts"
    /\ list' = Without(Expired)
    /\ Close(Expired)
    /\ UseList
    /\ mon' = "active"
    /\ UNCHANGED <<running, listed, active, sendVars, open, handling>>
    /\ Release("monitor", [k \in LiveCommands |->
                              [command[k] EXCEPT !.timer = Before(@)]])

RequestStop ==
    /\ running
    /\ running' = FALSE
    /\ UNCHANGED <<mon, listed, active, listVars, sendVars, conVars, history>>

(* The end of the thread, under m_activeConnectionMtx: the list and        *)
(* m_connections are cleared, and the connections nobody else refers to    *)
(* are destroyed by this thread.                                           *)
ClearAll ==
    /\ mon = "active" /\ ~running
    /\ ActiveMtxFree
    /\ active' = None
    /\ list' = <<>>
    /\ Close(Entries)
    /\ listed' = FALSE
    /\ mon' = "stopping"
    /\ UNCHANGED <<running, overlapped, sendVars, open, handling>>
    /\ Release("monitor", command)

ConnectionsDestroyed ==
    /\ mon = "stopping"
    /\ \A c \in Conns : object[c] # "monitor"
    /\ mon' = "done"
    /\ UNCHANGED <<running, listed, active, listVars, sendVars, conVars,
                   history>>

Monitor == CheckActive \/ CheckTimeouts \/ ClearAll \/ ConnectionsDestroyed

Next ==
    \/ Monitor \/ RequestStop
    \/ \E s \in Senders : Sender(s)
    \/ \E c \in Conns : LibThread(c) \/ Open(c) \/ Closed(c) \/ StopCompletes(c)

Safety == Init /\ [][Next]_vars

(* Threads run; a thread that waits for a mutex others use again and again *)
(* gets it in the end; a connection that is closed stops reading.  Nothing *)
(* is assumed of the outstation and of the network.                        *)
Fairness ==
    /\ SF_vars(Monitor)
    /\ \A s \in Senders : WF_vars(EndAdd(s)) /\ SF_vars(Send(s))
                          /\ WF_vars(Return(s))
    /\ \A c \in Conns :
          WF_vars(FinishHandling(c)) /\ SF_vars(StopCompletes(c))

Spec == Safety /\ Fairness

-----------------------------------------------------------------------------
(* Safety properties.                                                      *)

(* Whatever the number of threads in operation(), cmd_parallel commands    *)
(* are outstanding at most.                                                *)
LimitRespected == CmdParallel > 0 => Len(list) <= CmdParallel

(* The commands that were added and are to be sent.                        *)
AboutToSend == {held[s] : s \in {t \in Senders : pc[t] = "added"}}

(* The list holds the commands that were sent and that no answer, time-out *)
(* or end of the client has ended since, and those about to be sent: one   *)
(* that could not be sent leaves no entry, and none is taken out for       *)
(* another.  Two kinds of commands are excepted, because the code does     *)
(* lose them: one whose append is lost (see ListProtected), which is sent  *)
(* and never found, and one that is over before it is sent, by an answer   *)
(* to another command of its address, by the time-out or by stop().        *)
EntriesAreAwaited ==
    Entries = awaited \cup (AboutToSend \ (lost \cup over))

(* The commands that are being added.                                      *)
BeingAdded == {held[s] : s \in {t \in Senders : pc[t] = "adding"}}
TimeLeft   == [k \in BeingAdded \cup Entries |-> command[k].timer]

(* The commands that a handler has found with this answer.                 *)
Handled(cot, addresses) ==
    {handling[c].found : c \in {d \in Conns :
         /\ handling[d].cot = cot /\ handling[d].found # None
         /\ command[handling[d].found].addr \in addresses}}
Confirming == Handled("actCon", Addresses \ Setpoints)
Completing == Handled("actCon", Setpoints)
                  \cup Handled("actTerm", Addresses \ Setpoints)

(* Commands are leases: a time-out that is missed, counted for a part of   *)
(* the list, or restarted for a command that no ACT_CON has found since it *)
(* was last restarted (an ACT_TERM, or the answer to a setpoint), an entry *)
(* taken out for another one, an entry over the limit, and a command sent  *)
(* after the end of the monitoring thread all break this.  Which command   *)
(* an answer finds is left open here: see CommandEnds.                     *)
Leases == INSTANCE CommandLeases
             WITH Limit <- CmdParallel, Duration <- CmdExecTimeout,
                  entering <- BeingAdded, entered <- Entries,
                  sent <- awaited, left <- TimeLeft, stopped <- ~listed,
                  confirming <- Confirming, completing <- Completing

CommandsAreLeases == Leases!LeasesSpec

(* The comment "protect access to list of outstanding commands" at         *)
(* m_outstandingCommandsMtx: nobody uses the list during an append.        *)
ListProtected == ~overlapped

(* The comment at the end of the monitoring thread: "This ensures that all *)
(* shared_ptr to IEC104ClientConnection present in outstanding commands    *)
(* are cleared before we exit".  Nobody is in operation() any more.        *)
ExitReleases ==
    (mon = "done" /\ \A s \in Senders : pc[s] = "idle") =>
        \A c \in Conns : object[c] = "destroyed"

-----------------------------------------------------------------------------
(* Liveness properties.                                                    *)

(* ACT_CONs that find this command arrive without end: each one starts    *)
(* its time-out again, so that it may wait for ever.                       *)
ConfirmedForEver(k, a) ==
    []<><<\E c \in Conns : Lookup(c, a, "actCon") /\ Found(c, a) = k>>_vars

(* Whatever the outstation answers or does not, and whatever sessions are  *)
(* lost, the list of outstanding commands is not full for ever, except by  *)
(* commands that are confirmed for ever.                                   *)
SlotFreed ==
    \/ \E k \in Commands, a \in Addresses : ConfirmedForEver(k, a)
    \/ (running /\ CmdParallel > 0 /\ Len(list) = CmdParallel) ~>
           (~running \/ Len(list) < CmdParallel)

(* A command ends, by its answers or by the time-out.  Only ACT_CONs of    *)
(* its own address can keep it waiting: those to commands of other         *)
(* addresses never do.                                                     *)
CommandEnds ==
    \A k \in Commands, a \in Addresses :
        \/ ConfirmedForEver(k, a)
        \/ (running /\ k \in awaited /\ command[k].addr = a) ~>
               (~running \/ k \notin awaited)

(* operation() returns.                                                    *)
SenderReturns == \A s \in Senders : pc[s] # "idle" ~> pc[s] = "idle"

(* stop() returns, whatever the answers being handled.                     *)
StopReturns == ~running ~> mon = "done"
=============================================================================
