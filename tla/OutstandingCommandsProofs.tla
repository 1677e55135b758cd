----------------------- MODULE OutstandingCommandsProofs ----------------------
(***************************************************************************)
(* Proofs about OutstandingCommands, for any number of connections, of     *)
(* threads in operation() and of commands, and any limit and time-out: the *)
(* limit holds, the list has the commands that are awaited, and a command  *)
(* is a lease that only a confirmation of that command starts again.       *)
(***************************************************************************)
EXTENDS OutstandingCommands, SequenceFilterProofs

-----------------------------------------------------------------------------
(* The inductive invariant.                                                *)

(* A sender has a command from BeginAdd to Send, and no other has it.      *)
HeldInv ==
    /\ \A s \in Senders : held[s] = None <=> pc[s] \in {"idle", "returning"}
    /\ \A s, t \in Senders : held[s] # None /\ s # t => held[s] # held[t]

(* m_activeConnectionMtx is held by one thread at most.                    *)
MutexInv ==
    /\ \A s \in Senders : pc[s] = "adding" <=> holder = s
    /\ holder = None \/ mon # "stopping"

(* Whoever adds a command found room for it, and still has it.             *)
RoomInv ==
    /\ LimitRespected
    /\ holder # None => HasRoom

(* Commands to be sent that are not in the list any more.                  *)
Excused == lost \cup over

(* A command that is being added is known to its sender only, and the      *)
(* others are in the list exactly as long as they are awaited.             *)
ListInv ==
    /\ EntriesAreAwaited
    /\ HeldBySenders \cap awaited = {}
    /\ Excused \subseteq HeldBySenders
    /\ \A s \in Senders :
          pc[s] = "adding" => held[s] \notin Entries \cup HeldByLib \cup Excused

(* A handler finds commands of its own connection, so that no other one    *)
(* has found the same.                                                     *)
HandlerInv ==
    \A c \in Conns :
        handling[c].found # None => command[handling[c].found].con = c

IInv == TypeOK /\ HeldInv /\ MutexInv /\ RoomInv /\ ListInv /\ HandlerInv

CommandType == [addr : Addresses, con : Conns \cup {None},
                timer : 0..CmdExecTimeout]

ObjectStates == {"alive", "monitor", "lib", "destroyed"} \cup Senders

-----------------------------------------------------------------------------
(* The operators of the list.                                              *)

(* Removing commands leaves the others, in a list that is no longer.       *)
LEMMA WithoutRemoves ==
    ASSUME TypeOK, NEW gone
    PROVE  /\ Without(gone) \in Seq(Commands)
           /\ Len(Without(gone)) <= Len(list)
           /\ ToSet(Without(gone)) = Entries \ gone
<1>1. list \in Seq(Commands)
  BY DEF TypeOK
<1>2. Entries \subseteq Commands
  BY <1>1 DEF Entries, ToSet
<1>3. /\ Kept(list, Commands \ gone) \in Seq(Commands)
      /\ Len(Kept(list, Commands \ gone)) <= Len(list)
      /\ ToSet(Kept(list, Commands \ gone)) = ToSet(list) \cap (Commands \ gone)
  BY <1>1, KeptOfAll, Zenon
<1>4. ToSet(list) \cap (Commands \ gone) = Entries \ gone
  BY <1>2 DEF Entries
<1> QED
  BY <1>3, <1>4, Zenon DEF Without

(* An answer finds a command of the list and of its connection, or none.   *)
LEMMA FoundInList ==
    ASSUME TypeOK, NEW c, NEW a
    PROVE  \/ Found(c, a) = None
           \/ Found(c, a) \in Entries /\ command[Found(c, a)].con = c
<1>1. CASE Matching(c, a) = {}
  BY <1>1 DEF Found
<1>2. CASE Matching(c, a) # {}
  <2>1. Matching(c, a) \subseteq DOMAIN list /\ DOMAIN list \subseteq Nat
    BY DEF Matching, TypeOK
  <2>2. \E i \in Matching(c, a) : \A j \in Matching(c, a) : i <= j
    <3>1. Matching(c, a) \in SUBSET Nat
      BY <2>1
    <3> QED
      BY <1>2, <3>1, LeastElement
  <2>3. PICK i \in Matching(c, a) : Found(c, a) = list[i]
    BY <1>2, <2>2 DEF Found
  <2>4. command[list[i]].con = c
    BY <2>3 DEF Matching
  <2> QED
    BY <2>1, <2>3, <2>4 DEF Entries, ToSet
<1> QED
  BY <1>1, <1>2

LEMMA HandlingType ==
    ASSUME TypeOK, NEW c \in Conns
    PROVE  /\ handling[c].found \in Commands \cup {None}
           /\ handling[c].found # None => handling[c].cot \in {"actCon", "actTerm"}
<1>1. handling[c] \in Answers \cup {NoAsdu, Unrelated}
  BY DEF TypeOK
<1> QED
  BY <1>1 DEF Answers, NoAsdu, Unrelated

LEMMA SetTypes ==
    ASSUME TypeOK
    PROVE  /\ Entries \subseteq Commands
           /\ HeldBySenders \subseteq Commands
           /\ HeldByLib \subseteq Commands
           /\ LiveCommands \subseteq Commands
           /\ None \notin LiveCommands
<1>1. None \notin Commands
  BY CommandsAssumption
<1>2. Entries \subseteq Commands
  BY DEF TypeOK, Entries, ToSet
<1>3. HeldBySenders \subseteq Commands
  BY DEF TypeOK, HeldBySenders
<1>4. HeldByLib \subseteq Commands
  BY HandlingType DEF HeldByLib
<1> QED
  BY <1>1, <1>2, <1>3, <1>4 DEF LiveCommands

-----------------------------------------------------------------------------
(* What each step does to the three sets of commands that are referred to. *)

LEMMA BeginAddSets ==
    ASSUME IInv, NEW s \in Senders, NEW k \in Commands, NEW a \in Addresses,
           BeginAdd(s, k, a)
    PROVE  /\ Entries' = Entries
           /\ HeldBySenders' = HeldBySenders \cup {k}
           /\ HeldByLib' = HeldByLib
<1>1. Entries' = Entries /\ HeldByLib' = HeldByLib
  BY DEF BeginAdd, conVars, Entries, HeldByLib
<1>2. held \in [Senders -> Commands \cup {None}] /\ held[s] = None /\ k # None
  BY CommandsAssumption DEF IInv, TypeOK, HeldInv, BeginAdd
<1>3. held' = [held EXCEPT ![s] = k]
  BY DEF BeginAdd
<1>4. held'[s] = k /\ \A t \in Senders \ {s} : held'[t] = held[t]
  BY <1>2, <1>3
<1>5. HeldBySenders' = HeldBySenders \cup {k}
  BY <1>2, <1>4 DEF HeldBySenders
<1> QED
  BY <1>1, <1>5

LEMMA EndAddSets ==
    ASSUME IInv, NEW s \in Senders, EndAdd(s)
    PROVE  /\ held[s] \in HeldBySenders
           /\ \/ Entries' = Entries \cup {held[s]} /\ Excused' = Excused
              \/ Entries' = Entries /\ Excused' = Excused \cup {held[s]}
           /\ HeldBySenders' = HeldBySenders
           /\ HeldByLib' = HeldByLib
<1>1. HeldBySenders' = HeldBySenders /\ HeldByLib' = HeldByLib
  BY DEF EndAdd, conVars, HeldBySenders, HeldByLib
<1>2. held[s] \in Commands /\ held[s] # None
  BY DEF EndAdd, IInv, HeldInv, TypeOK
<1>3. list \in Seq(Commands)
  BY DEF IInv, TypeOK
<1>4. ToSet(Append(list, held[s])) = Entries \cup {held[s]}
  BY <1>2, <1>3, AppendElements DEF Entries
<1>5. \/ Entries' = Entries \cup {held[s]} /\ Excused' = Excused
      \/ Entries' = Entries /\ Excused' = Excused \cup {held[s]}
  BY <1>4 DEF EndAdd, Entries, Excused
<1>6. held[s] \in HeldBySenders
  BY <1>2 DEF HeldBySenders
<1> QED
  BY <1>1, <1>5, <1>6

LEMMA SendSets ==
    ASSUME IInv, NEW s \in Senders, Send(s)
    PROVE  /\ held[s] \in HeldBySenders
           /\ \/ /\ CanSend /\ Entries' = Entries
                 /\ awaited' = awaited \cup ({held[s]} \ Excused)
              \/ Entries' = Entries \ {held[s]} /\ awaited' = awaited
           /\ HeldBySenders' = HeldBySenders \ {held[s]}
           /\ HeldByLib' = HeldByLib
<1>1. HeldByLib' = HeldByLib
  BY DEF Send, HeldByLib
<1>2. \/ /\ CanSend /\ Entries' = Entries
         /\ awaited' = awaited \cup ({held[s]} \ Excused)
      \/ Entries' = Entries \ {held[s]} /\ awaited' = awaited
  <2>1. ToSet(Without({held[s]})) = Entries \ {held[s]}
    BY WithoutRemoves DEF IInv
  <2> QED
    BY <2>1 DEF Send, RemoveFailed, Entries, Excused
<1>3. held \in [Senders -> Commands \cup {None}] /\ held[s] # None
  BY DEF IInv, TypeOK, HeldInv, Send
<1>4. held' = [held EXCEPT ![s] = None]
  BY DEF Send
<1>5. held'[s] = None /\ \A t \in Senders \ {s} : held'[t] = held[t]
  BY <1>3, <1>4
<1>6. \A t \in Senders \ {s} : held[t] # held[s]
  BY <1>3 DEF IInv, HeldInv
<1>7. HeldBySenders' = HeldBySenders \ {held[s]}
  BY <1>3, <1>5, <1>6 DEF HeldBySenders
<1>8. held[s] \in HeldBySenders
  BY <1>3 DEF HeldBySenders
<1> QED
  BY <1>1, <1>2, <1>7, <1>8

LEMMA LookupSets ==
    ASSUME IInv, NEW c \in Conns, NEW a, NEW cot, Lookup(c, a, cot)
    PROVE  /\ Entries' = Entries
           /\ HeldBySenders' = HeldBySenders
           /\ HeldByLib \subseteq HeldByLib'
           /\ HeldByLib' \subseteq HeldByLib \cup Entries
           /\ handling[c].found = None
           /\ handling'[c] = Answer(c, a, cot)
           /\ handling'[c].found = Found(c, a)
           /\ \A d \in Conns \ {c} : handling'[d] = handling[d]
<1>1. Entries' = Entries /\ HeldBySenders' = HeldBySenders
  BY DEF Lookup, sendVars, Entries, HeldBySenders
<1> DEFINE f == Found(c, a)
<1>2. f \in Entries \cup {None}
  BY FoundInList DEF IInv
<1>3. handling \in [Conns -> Answers \cup {NoAsdu, Unrelated}]
  BY DEF IInv, TypeOK
<1>4. /\ handling'[c] = Answer(c, a, cot)
      /\ \A d \in Conns \ {c} : handling'[d] = handling[d]
  BY <1>3 DEF Lookup
<1>5. Answer(c, a, cot).found = f
  BY DEF Answer, Unrelated
<1>6. handling[c].found = None
  BY DEF Lookup, NoAsdu
<1> HIDE DEF f
<1>7. /\ HeldByLib \subseteq HeldByLib'
      /\ HeldByLib' \subseteq HeldByLib \cup Entries
  BY <1>2, <1>4, <1>5, <1>6 DEF HeldByLib
<1> QED
  BY <1>1, <1>4, <1>5, <1>6, <1>7 DEF f

LEMMA FinishHandlingSets ==
    ASSUME IInv, NEW c \in Conns, FinishHandling(c)
    PROVE  LET k == handling[c].found
           IN  /\ \/ k \in HeldByLib /\ list' = Without({k})
                     /\ Entries' = Entries \ {k} /\ Close({k})
                  \/ UNCHANGED <<list, history>> /\ Entries' = Entries
               /\ HeldBySenders' = HeldBySenders
               /\ HeldByLib' \subseteq HeldByLib
               /\ handling'[c].found = None
               /\ \A d \in Conns \ {c} : handling'[d] = handling[d]
<1> DEFINE k == handling[c].found
<1>1. HeldBySenders' = HeldBySenders
  BY DEF FinishHandling, sendVars, HeldBySenders
<1>2. \/ k # None /\ list' = Without({k}) /\ Close({k})
      \/ UNCHANGED <<list, history>>
  BY DEF FinishHandling
<1>3. k # None => k \in HeldByLib
  BY DEF HeldByLib
<1>4. ToSet(Without({k})) = Entries \ {k}
  BY WithoutRemoves DEF IInv
<1>5. handling' = [handling EXCEPT ![c] = NoAsdu]
  BY DEF FinishHandling
<1>6. handling \in [Conns -> Answers \cup {NoAsdu, Unrelated}]
  BY DEF IInv, TypeOK
<1>7. /\ handling'[c].found = None
      /\ \A d \in Conns \ {c} : handling'[d] = handling[d]
  BY <1>5, <1>6 DEF NoAsdu
<1>8. HeldByLib' \subseteq HeldByLib
  BY <1>7 DEF HeldByLib
<1>9. \/ k \in HeldByLib /\ list' = Without({k})
         /\ Entries' = Entries \ {k} /\ Close({k})
      \/ UNCHANGED <<list, history>> /\ Entries' = Entries
  <2>1. list' = Without({k}) => Entries' = Entries \ {k}
    BY <1>4 DEF Entries
  <2>2. list' = list => Entries' = Entries
    BY DEF Entries
  <2> HIDE DEF k
  <2> QED
    BY <1>2, <1>3, <2>1, <2>2
<1> QED
  BY <1>1, <1>7, <1>8, <1>9

LEMMA CheckTimeoutsSets ==
    ASSUME IInv, CheckTimeouts
    PROVE  /\ Entries' = Entries \ Expired
           /\ HeldBySenders' = HeldBySenders
           /\ HeldByLib' = HeldByLib
<1>1. ToSet(Without(Expired)) = Entries \ Expired
  BY WithoutRemoves DEF IInv
<1> QED
  BY <1>1 DEF CheckTimeouts, sendVars, Entries, HeldBySenders, HeldByLib

LEMMA ClearAllSets ==
    ASSUME IInv, ClearAll
    PROVE  /\ Entries' = {}
           /\ HeldBySenders' = HeldBySenders
           /\ HeldByLib' = HeldByLib
BY DEF ClearAll, sendVars, Entries, ToSet, HeldBySenders, HeldByLib

(* All other steps.                                                        *)
Elsewhere ==
    UNCHANGED <<list, command, held, holder, pc, handling, history>>

LEMMA ElsewhereSets ==
    ASSUME Elsewhere
    PROVE  /\ Entries' = Entries
           /\ HeldBySenders' = HeldBySenders
           /\ HeldByLib' = HeldByLib
           /\ LiveCommands' = LiveCommands
BY DEF Elsewhere, Entries, HeldBySenders, HeldByLib, LiveCommands

-----------------------------------------------------------------------------
(* Types.                                                                  *)

(* Letting go of references keeps the commands that are still referred to. *)
LEMMA ReleaseTypes ==
    ASSUME TypeOK, NEW thread \in Senders \cup {"monitor", "lib"},
           NEW commands, \A k \in LiveCommands : commands[k] \in CommandType,
           LiveCommands' \subseteq LiveCommands, Release(thread, commands)
    PROVE  /\ command' \in [LiveCommands' -> CommandType]
           /\ object' \in [Conns -> ObjectStates]
<1>1. command' \in [LiveCommands' -> CommandType]
  BY DEF Release
<1>2. object \in [Conns -> ObjectStates]
  BY DEF TypeOK, ObjectStates
<1>3. thread \in ObjectStates
  BY DEF ObjectStates
<1>4. object' \in [Conns -> ObjectStates]
  BY <1>2, <1>3 DEF Release
<1> QED
  BY <1>1, <1>4

LEMMA BeginAddType ==
    ASSUME IInv, NEW s \in Senders, NEW k \in Commands, NEW a \in Addresses,
           BeginAdd(s, k, a)
    PROVE  TypeOK'
<1>1. LiveCommands' = LiveCommands \cup {k}
  BY BeginAddSets DEF LiveCommands
<1>2. command' \in [LiveCommands' -> CommandType]
  <2>1. command \in [LiveCommands -> CommandType]
    BY DEF IInv, TypeOK, CommandType
  <2>2. [addr |-> a, con |-> active, timer |-> CmdExecTimeout] \in CommandType
    BY CommandsAssumption DEF IInv, TypeOK, CommandType
  <2>3. command' = [j \in LiveCommands \cup {k} |->
                       IF j = k THEN [addr |-> a, con |-> active,
                                      timer |-> CmdExecTimeout]
                       ELSE command[j]]
    BY DEF BeginAdd
  <2> QED
    BY <1>1, <2>1, <2>2, <2>3
<1>3. /\ holder' \in Senders \cup {None}
      /\ pc' \in [Senders -> {"idle", "adding", "added", "returning"}]
      /\ held' \in [Senders -> Commands \cup {None}]
  BY DEF IInv, TypeOK, BeginAdd, Lock
<1>4. UNCHANGED <<monVars, list, overlapped, conVars, history>>
  BY DEF BeginAdd
<1> QED
  BY <1>2, <1>3, <1>4 DEF IInv, TypeOK, monVars, conVars, history, CommandType

LEMMA EndAddType ==
    ASSUME IInv, NEW s \in Senders, EndAdd(s)
    PROVE  TypeOK'
<1>1. held[s] \in HeldBySenders /\ held[s] \in Commands
  BY EndAddSets, SetTypes DEF IInv
<1>2. list' \in Seq(Commands) /\ lost' \subseteq Commands
  <2>1. list \in Seq(Commands) /\ lost \subseteq Commands
    BY DEF IInv, TypeOK
  <2>2. Append(list, held[s]) \in Seq(Commands)
    BY <1>1, <2>1
  <2>3. \/ list' = Append(list, held[s]) /\ lost' = lost
        \/ list' = list /\ lost' = lost \cup {held[s]}
    BY DEF EndAdd
  <2> QED
    BY <1>1, <2>1, <2>2, <2>3
<1>3. LiveCommands' = LiveCommands
  BY <1>1, EndAddSets DEF LiveCommands
<1>4. command' \in [LiveCommands' -> CommandType]
  BY <1>3 DEF EndAdd, IInv, TypeOK, CommandType
<1>5. /\ holder' \in Senders \cup {None} /\ overlapped' \in BOOLEAN
      /\ pc' \in [Senders -> {"idle", "adding", "added", "returning"}]
  BY DEF IInv, TypeOK, EndAdd, Unlock
<1>6. UNCHANGED <<monVars, held, conVars, awaited, over>>
  BY DEF EndAdd
<1> QED
  BY <1>2, <1>4, <1>5, <1>6 DEF IInv, TypeOK, monVars, conVars, CommandType

LEMMA SendType ==
    ASSUME IInv, NEW s \in Senders, Send(s)
    PROVE  TypeOK'
<1>1. held[s] \in HeldBySenders /\ held[s] \in Commands
  BY SendSets, SetTypes DEF IInv
<1>2. LiveCommands' \subseteq LiveCommands
  BY SendSets DEF LiveCommands
<1>3. command \in [LiveCommands -> CommandType]
  BY DEF IInv, TypeOK, CommandType
<1>4. /\ command' \in [LiveCommands' -> CommandType]
      /\ object' \in [Conns -> ObjectStates]
  BY <1>2, <1>3, ReleaseTypes DEF IInv, Send
<1>5. list' \in Seq(Commands)
  <2>1. Without({held[s]}) \in Seq(Commands)
    BY WithoutRemoves DEF IInv
  <2> QED
    BY <2>1 DEF Send, RemoveFailed, IInv, TypeOK
<1>6. /\ awaited' \subseteq Commands
      /\ lost' \subseteq Commands /\ over' \subseteq Commands
      /\ held' \in [Senders -> Commands \cup {None}]
      /\ pc' \in [Senders -> {"idle", "adding", "added", "returning"}]
  BY <1>1 DEF Send, IInv, TypeOK
<1>7. UNCHANGED <<monVars, overlapped, holder, open, handling>>
  BY DEF Send
<1> QED
  BY <1>4, <1>5, <1>6, <1>7
     DEF IInv, TypeOK, monVars, CommandType, ObjectStates

LEMMA LookupType ==
    ASSUME IInv, NEW c \in Conns, NEW a \in Addresses,
           NEW cot \in {"actCon", "actTerm"}, Lookup(c, a, cot)
    PROVE  TypeOK'
<1>1. LiveCommands' = LiveCommands
  BY LookupSets DEF LiveCommands
<1>2. command' \in [LiveCommands' -> CommandType]
  BY <1>1 DEF Lookup, IInv, TypeOK, CommandType
<1>3. Answer(c, a, cot) \in Answers \cup {NoAsdu, Unrelated}
  <2>1. Found(c, a) # None => Found(c, a) \in Commands
    BY FoundInList, SetTypes DEF IInv
  <2> QED
    BY <2>1 DEF Answer, Answers
<1>4. handling' \in [Conns -> Answers \cup {NoAsdu, Unrelated}]
  BY <1>3 DEF Lookup, IInv, TypeOK
<1>5. overlapped' \in BOOLEAN
  BY DEF Lookup, UseList, IInv, TypeOK
<1>6. UNCHANGED <<monVars, list, sendVars, open, object, history>>
  BY DEF Lookup
<1> QED
  BY <1>2, <1>4, <1>5, <1>6
     DEF IInv, TypeOK, monVars, sendVars, history, CommandType

LEMMA FinishHandlingType ==
    ASSUME IInv, NEW c \in Conns, FinishHandling(c)
    PROVE  TypeOK'
<1> DEFINE k == handling[c].found
           commands == IF k # None /\ Renews(k, handling[c].cot)
                       THEN Acknowledge(k) ELSE command
<1>1. LiveCommands' \subseteq LiveCommands
  BY FinishHandlingSets DEF LiveCommands
<1>2. command \in [LiveCommands -> CommandType]
  BY DEF IInv, TypeOK, CommandType
<1>3. \A j \in LiveCommands : commands[j] \in CommandType
  <2>1. ASSUME NEW j \in LiveCommands
        PROVE  Acknowledge(k)[j] \in CommandType
    <3>1. command[j] \in CommandType /\ CmdExecTimeout \in 0..CmdExecTimeout
      BY <1>2, CommandsAssumption
    <3>2. CASE j = k
      <4>1. Acknowledge(k)[j] = [command[j] EXCEPT !.timer = CmdExecTimeout]
        BY <1>2, <3>2 DEF Acknowledge
      <4> QED
        BY <3>1, <4>1 DEF CommandType
    <3>3. CASE j # k
      <4>1. Acknowledge(k)[j] = command[j]
        BY <1>2, <3>3 DEF Acknowledge
      <4> QED
        BY <3>1, <4>1
    <3> QED
      BY <3>2, <3>3
  <2> QED
    BY <1>2, <2>1
<1>4. Release("lib", commands)
  BY DEF FinishHandling
<1>5. /\ command' \in [LiveCommands' -> CommandType]
      /\ object' \in [Conns -> ObjectStates]
  <2> HIDE DEF commands
  <2> QED
    BY <1>1, <1>3, <1>4, ReleaseTypes DEF IInv
<1>6. list' \in Seq(Commands)
  <2>1. Without({k}) \in Seq(Commands)
    BY WithoutRemoves DEF IInv
  <2> QED
    BY <2>1, FinishHandlingSets DEF IInv, TypeOK
<1>7. /\ awaited' \subseteq Commands
      /\ lost' \subseteq Commands /\ over' \subseteq Commands
  BY FinishHandlingSets, SetTypes DEF IInv, TypeOK, Close, history
<1>8. overlapped' \in BOOLEAN
  BY DEF FinishHandling, UseList, IInv, TypeOK
<1>9. handling' \in [Conns -> Answers \cup {NoAsdu, Unrelated}]
  BY DEF FinishHandling, IInv, TypeOK
<1>10. UNCHANGED <<monVars, sendVars, open>>
  BY DEF FinishHandling
<1> QED
  BY <1>5, <1>6, <1>7, <1>8, <1>9, <1>10
     DEF IInv, TypeOK, monVars, sendVars, CommandType, ObjectStates

LEMMA CheckTimeoutsType ==
    ASSUME IInv, CheckTimeouts
    PROVE  TypeOK'
<1> DEFINE commands == [k \in LiveCommands |->
                           [command[k] EXCEPT !.timer = Before(@)]]
<1>1. LiveCommands' \subseteq LiveCommands
  BY CheckTimeoutsSets DEF LiveCommands
<1>2. command \in [LiveCommands -> CommandType]
  BY DEF IInv, TypeOK, CommandType
<1>3. \A k \in LiveCommands : commands[k] \in CommandType
  <2> SUFFICES ASSUME NEW k \in LiveCommands
               PROVE  [command[k] EXCEPT !.timer = Before(@)] \in CommandType
    OBVIOUS
  <2>1. command[k] \in CommandType
    BY <1>2
  <2>2. \A t \in 0..CmdExecTimeout : Before(t) \in 0..CmdExecTimeout
    BY CommandsAssumption DEF Before
  <2> QED
    BY <2>1, <2>2 DEF CommandType
<1>4. Release("monitor", commands)
  BY DEF CheckTimeouts
<1>5. /\ command' \in [LiveCommands' -> CommandType]
      /\ object' \in [Conns -> ObjectStates]
  <2> HIDE DEF commands
  <2> QED
    BY <1>1, <1>3, <1>4, ReleaseTypes DEF IInv
<1>6. list' \in Seq(Commands)
  BY WithoutRemoves DEF CheckTimeouts, IInv
<1>7. /\ awaited' \subseteq Commands
      /\ lost' \subseteq Commands /\ over' \subseteq Commands
  BY SetTypes DEF CheckTimeouts, Close, IInv, TypeOK
<1>8. overlapped' \in BOOLEAN
  BY DEF CheckTimeouts, UseList, IInv, TypeOK
<1>9. /\ mon' = "active"
      /\ UNCHANGED <<running, listed, active, sendVars, open, handling>>
  BY DEF CheckTimeouts
<1> QED
  BY <1>5, <1>6, <1>7, <1>8, <1>9
     DEF IInv, TypeOK, sendVars, CommandType, ObjectStates

LEMMA ClearAllType ==
    ASSUME IInv, ClearAll
    PROVE  TypeOK'
<1>1. LiveCommands' \subseteq LiveCommands
  BY ClearAllSets DEF LiveCommands
<1>2. command \in [LiveCommands -> CommandType]
  BY DEF IInv, TypeOK, CommandType
<1>3. /\ command' \in [LiveCommands' -> CommandType]
      /\ object' \in [Conns -> ObjectStates]
  BY <1>1, <1>2, ReleaseTypes DEF IInv, ClearAll
<1>4. /\ awaited' \subseteq Commands
      /\ lost' \subseteq Commands /\ over' \subseteq Commands
  BY SetTypes DEF ClearAll, Close, IInv, TypeOK
<1>5. /\ mon' = "stopping" /\ active' = None /\ list' = <<>>
      /\ listed' = FALSE
      /\ UNCHANGED <<running, overlapped, sendVars, open, handling>>
  BY DEF ClearAll
<1>6. list' \in Seq(Commands)
  BY <1>5
<1> QED
  BY <1>3, <1>4, <1>5, <1>6
     DEF IInv, TypeOK, sendVars, CommandType, ObjectStates

(* The remaining steps leave the list, the commands and the mutex alone.   *)
LEMMA ElsewhereType ==
    ASSUME IInv, Elsewhere,
           /\ running' \in BOOLEAN
           /\ mon' \in {"active", "timeouts", "stopping", "done"}
           /\ active' \in Conns \cup {None}
           /\ open' \in [Conns -> BOOLEAN]
           /\ object' \in [Conns -> ObjectStates]
           /\ UNCHANGED <<listed, overlapped>>
    PROVE  TypeOK'
<1>1. LiveCommands' = LiveCommands
  BY ElsewhereSets
<1>2. command' \in [LiveCommands' -> CommandType]
  BY <1>1 DEF Elsewhere, IInv, TypeOK, CommandType
<1> QED
  BY <1>2 DEF Elsewhere, history, IInv, TypeOK, CommandType, ObjectStates

(* What any step does.                                                     *)
LEMMA StepCases ==
    ASSUME IInv, [Next]_vars
    PROVE  \/ \E s \in Senders, k \in Commands, a \in Addresses :
                 BeginAdd(s, k, a)
           \/ \E s \in Senders : EndAdd(s) \/ Send(s) \/ Return(s)
           \/ \E c \in Conns, a \in Addresses, cot \in {"actCon", "actTerm"} :
                 Lookup(c, a, cot)
           \/ \E c \in Conns : FinishHandling(c)
           \/ CheckTimeouts
           \/ ClearAll
           \/ /\ Elsewhere /\ TypeOK'
              /\ mon' = mon \/ mon' # "stopping"
<1>1. CASE CheckActive
  <2>1. active' \in Conns \cup {None}
    BY <1>1 DEF CheckActive, IInv, TypeOK
  <2>2. Elsewhere /\ mon' = "timeouts"
    BY <1>1 DEF CheckActive, Elsewhere, listVars, sendVars, conVars, history
  <2>3. UNCHANGED <<running, listed, overlapped, open, object>>
    BY <1>1 DEF CheckActive, listVars, conVars
  <2>4. TypeOK'
    BY <2>1, <2>2, <2>3, ElsewhereType DEF IInv, TypeOK, ObjectStates
  <2> QED
    BY <2>2, <2>4
<1>2. CASE ConnectionsDestroyed
  <2>1. Elsewhere /\ mon' = "done"
    BY <1>2 DEF ConnectionsDestroyed, Elsewhere, listVars, sendVars, conVars,
                history
  <2>2. UNCHANGED <<running, listed, active, overlapped, open, object>>
    BY <1>2 DEF ConnectionsDestroyed, listVars, conVars
  <2>3. TypeOK'
    BY <2>1, <2>2, ElsewhereType DEF IInv, TypeOK, ObjectStates
  <2> QED
    BY <2>1, <2>3
<1>3. CASE RequestStop
  <2>1. Elsewhere /\ running' = FALSE
    BY <1>3 DEF RequestStop, Elsewhere, listVars, sendVars, conVars, history
  <2>2. UNCHANGED <<mon, listed, active, overlapped, open, object>>
    BY <1>3 DEF RequestStop, listVars, conVars
  <2>3. TypeOK'
    BY <2>1, <2>2, ElsewhereType DEF IInv, TypeOK, ObjectStates
  <2> QED
    BY <2>1, <2>2, <2>3
<1>4. ASSUME NEW c \in Conns, Open(c) \/ Closed(c) \/ StopCompletes(c)
      PROVE  Elsewhere /\ TypeOK' /\ mon' = mon
  <2>1. Elsewhere /\ UNCHANGED <<monVars, overlapped>>
    BY <1>4 DEF Open, Closed, StopCompletes, Elsewhere, listVars, sendVars,
                history
  <2>2. /\ open \in [Conns -> BOOLEAN]
        /\ object \in [Conns -> ObjectStates]
    BY DEF IInv, TypeOK, ObjectStates
  <2>3. /\ open' \in [Conns -> BOOLEAN]
        /\ object' \in [Conns -> ObjectStates]
    BY <1>4, <2>2 DEF Open, Closed, StopCompletes, ObjectStates
  <2>4. TypeOK'
    BY <2>1, <2>3, ElsewhereType DEF monVars, IInv, TypeOK
  <2> QED
    BY <2>1, <2>4 DEF monVars
<1>5. CASE UNCHANGED vars
  <2>1. Elsewhere /\ UNCHANGED <<monVars, overlapped, conVars>>
    BY <1>5 DEF vars, listVars, sendVars, conVars, Elsewhere
  <2>2. TypeOK'
    BY <2>1, ElsewhereType DEF monVars, conVars, IInv, TypeOK, ObjectStates
  <2> QED
    BY <2>1, <2>2 DEF monVars
<1> QED
  BY <1>1, <1>2, <1>3, <1>4, <1>5 DEF Next, Monitor, Sender, LibThread

LEMMA ReturnType ==
    ASSUME IInv, NEW s \in Senders, Return(s)
    PROVE  TypeOK'
<1>1. LiveCommands' = LiveCommands
  BY DEF Return, listVars, conVars, LiveCommands, Entries, HeldBySenders,
         HeldByLib
<1>2. command' \in [LiveCommands' -> CommandType]
  BY <1>1 DEF Return, listVars, IInv, TypeOK, CommandType
<1>3. pc' \in [Senders -> {"idle", "adding", "added", "returning"}]
  BY DEF Return, IInv, TypeOK
<1>4. UNCHANGED <<monVars, list, overlapped, held, holder, conVars, history>>
  BY DEF Return, listVars
<1> QED
  BY <1>2, <1>3, <1>4 DEF IInv, TypeOK, monVars, conVars, history, CommandType

LEMMA TypeStep ==
    ASSUME IInv, [Next]_vars
    PROVE  TypeOK'
BY StepCases, BeginAddType, EndAddType, SendType, ReturnType, LookupType,
   FinishHandlingType, CheckTimeoutsType, ClearAllType

-----------------------------------------------------------------------------
(* The mutex and the commands that senders hold.                           *)

LEMMA HeldStep ==
    ASSUME IInv, [Next]_vars
    PROVE  HeldInv'
<1>1. /\ held \in [Senders -> Commands \cup {None}]
      /\ pc \in [Senders -> {"idle", "adding", "added", "returning"}]
      /\ None \notin Commands
  BY CommandsAssumption DEF IInv, TypeOK
<1>2. ASSUME NEW s \in Senders, NEW k \in Commands, NEW a \in Addresses,
             BeginAdd(s, k, a)
      PROVE  HeldInv'
  <2>1. \A t \in Senders : held[t] # k
    BY <1>1, <1>2 DEF BeginAdd, LiveCommands, HeldBySenders
  <2>2. /\ held' = [held EXCEPT ![s] = k]
        /\ pc' = [pc EXCEPT ![s] = "adding"]
    BY <1>2 DEF BeginAdd
  <2> QED
    BY <1>1, <2>1, <2>2 DEF IInv, HeldInv
<1>3. ASSUME NEW s \in Senders, EndAdd(s)
      PROVE  HeldInv'
  BY <1>1, <1>3 DEF EndAdd, IInv, HeldInv
<1>4. ASSUME NEW s \in Senders, Send(s)
      PROVE  HeldInv'
  <2>1. /\ held' = [held EXCEPT ![s] = None]
        /\ pc' = [pc EXCEPT ![s] = "returning"]
    BY <1>4 DEF Send
  <2> QED
    BY <1>1, <2>1 DEF IInv, HeldInv
<1>5. ASSUME NEW s \in Senders, Return(s)
      PROVE  HeldInv'
  BY <1>1, <1>5 DEF Return, IInv, HeldInv
<1>6. ASSUME UNCHANGED <<held, pc>>
      PROVE  HeldInv'
  BY <1>6 DEF IInv, HeldInv
<1>7. ASSUME NEW c \in Conns, NEW a, NEW cot,
             Lookup(c, a, cot) \/ FinishHandling(c)
      PROVE  UNCHANGED <<held, pc>>
  BY <1>7 DEF Lookup, FinishHandling, sendVars
<1>8. CheckTimeouts \/ ClearAll \/ Elsewhere => UNCHANGED <<held, pc>>
  BY DEF CheckTimeouts, ClearAll, Elsewhere, sendVars
<1> QED
  BY <1>2, <1>3, <1>4, <1>5, <1>6, <1>7, <1>8, StepCases

LEMMA MutexStep ==
    ASSUME IInv, [Next]_vars
    PROVE  MutexInv'
<1>1. /\ pc \in [Senders -> {"idle", "adding", "added", "returning"}]
      /\ holder \in Senders \cup {None}
      /\ None \notin Senders
  BY CommandsAssumption DEF IInv, TypeOK
<1>2. ASSUME NEW s \in Senders, NEW k \in Commands, NEW a \in Addresses,
             BeginAdd(s, k, a)
      PROVE  MutexInv'
  BY <1>1, <1>2 DEF BeginAdd, ActiveMtxFree, Lock, monVars, IInv, MutexInv
<1>3. ASSUME NEW s \in Senders, EndAdd(s)
      PROVE  MutexInv'
  BY <1>1, <1>3 DEF EndAdd, Unlock, IInv, MutexInv
<1>4. ASSUME NEW s \in Senders, Send(s)
      PROVE  MutexInv'
  <2>1. /\ pc' = [pc EXCEPT ![s] = "returning"]
        /\ pc[s] = "added" /\ UNCHANGED <<mon, holder>>
    BY <1>4 DEF Send, monVars
  <2> QED
    BY <1>1, <2>1 DEF IInv, MutexInv
<1>5. ASSUME NEW s \in Senders, Return(s)
      PROVE  MutexInv'
  <2>1. /\ pc' = [pc EXCEPT ![s] = "idle"]
        /\ pc[s] = "returning" /\ UNCHANGED <<mon, holder>>
    BY <1>5 DEF Return, monVars
  <2> QED
    BY <1>1, <2>1 DEF IInv, MutexInv
<1>6. ASSUME NEW c \in Conns, NEW a, NEW cot,
             Lookup(c, a, cot) \/ FinishHandling(c)
      PROVE  MutexInv'
  BY <1>6 DEF Lookup, FinishHandling, sendVars, monVars, IInv, MutexInv
<1>7. CASE CheckTimeouts
  BY <1>7 DEF CheckTimeouts, sendVars, IInv, MutexInv
<1>8. CASE ClearAll
  BY <1>8 DEF ClearAll, ActiveMtxFree, sendVars, IInv, MutexInv
<1>9. ASSUME Elsewhere, mon' = mon \/ mon' # "stopping"
      PROVE  MutexInv'
  BY <1>9 DEF Elsewhere, IInv, MutexInv
<1> QED
  BY <1>2, <1>3, <1>4, <1>5, <1>6, <1>7, <1>8, <1>9, StepCases

-----------------------------------------------------------------------------
(* The limit.                                                              *)

LEMMA RoomStep ==
    ASSUME IInv, [Next]_vars
    PROVE  RoomInv'
<1>1. Len(list) \in Nat /\ CmdParallel \in Nat /\ None \notin Senders
  BY CommandsAssumption DEF IInv, TypeOK
<1>2. ASSUME Len(list') \in Nat, Len(list') <= Len(list),
             holder' = holder \/ holder' = None
      PROVE  RoomInv'
  BY <1>1, <1>2 DEF IInv, RoomInv, LimitRespected, HasRoom
<1>3. ASSUME UNCHANGED <<list, holder>>
      PROVE  RoomInv'
  BY <1>1, <1>2, <1>3
<1>4. ASSUME NEW gone, list' = Without(gone), UNCHANGED holder
      PROVE  RoomInv'
  <2>1. Len(list') \in Nat /\ Len(list') <= Len(list)
    BY <1>4, WithoutRemoves DEF IInv
  <2> QED
    BY <1>2, <1>4, <2>1
<1>5. ASSUME NEW s \in Senders, NEW k \in Commands, NEW a \in Addresses,
             BeginAdd(s, k, a)
      PROVE  RoomInv'
  BY <1>5 DEF BeginAdd, IInv, RoomInv, LimitRespected, HasRoom
<1>6. ASSUME NEW s \in Senders, EndAdd(s)
      PROVE  RoomInv'
  <2>1. HasRoom /\ holder' = None
    BY <1>1, <1>6 DEF EndAdd, Unlock, IInv, MutexInv, RoomInv
  <2>2. CASE list' = Append(list, held[s])
    <3>1. Len(list') = Len(list) + 1
      BY <2>2 DEF IInv, TypeOK
    <3> QED
      BY <1>1, <2>1, <3>1 DEF HasRoom, RoomInv, LimitRespected
  <2>3. CASE list' = list
    BY <1>1, <1>2, <2>1, <2>3
  <2> QED
    BY <1>6, <2>2, <2>3 DEF EndAdd
<1>7. ASSUME NEW s \in Senders, Send(s)
      PROVE  RoomInv'
  BY <1>3, <1>4, <1>7 DEF Send, RemoveFailed
<1>8. ASSUME NEW s \in Senders, Return(s)
      PROVE  RoomInv'
  BY <1>3, <1>8 DEF Return, listVars
<1>9. ASSUME NEW c \in Conns, NEW a, NEW cot,
             Lookup(c, a, cot) \/ FinishHandling(c)
      PROVE  RoomInv'
  <2>1. UNCHANGED holder
    BY <1>9 DEF Lookup, FinishHandling, sendVars
  <2>2. \/ UNCHANGED list
        \/ list' = Without({handling[c].found})
    BY <1>9 DEF Lookup, FinishHandling
  <2> QED
    BY <1>3, <1>4, <2>1, <2>2
<1>10. CASE CheckTimeouts
  BY <1>4, <1>10 DEF CheckTimeouts, sendVars
<1>11. CASE ClearAll
  <2>1. list' = <<>> /\ UNCHANGED holder
    BY <1>11 DEF ClearAll, sendVars
  <2> QED
    BY <1>1, <1>2, <2>1
<1>12. CASE Elsewhere
  BY <1>3, <1>12 DEF Elsewhere
<1> QED
  BY <1>5, <1>6, <1>7, <1>8, <1>9, <1>10, <1>11, <1>12, StepCases

-----------------------------------------------------------------------------
(* The list and what is awaited.                                           *)

(* The commands in the list that are not awaited yet.                      *)
About == AboutToSend \ Excused

(* A removal takes the same commands from what is awaited.                 *)
LEMMA CloseKeepsList ==
    ASSUME IInv, NEW gone, gone \subseteq Entries \cup HeldByLib,
           Close(gone), Entries' = Entries \ gone,
           UNCHANGED <<held, pc>>, HeldByLib' \subseteq HeldByLib
    PROVE  ListInv'
<1>1. /\ Entries = awaited \cup About
      /\ HeldBySenders \cap awaited = {}
      /\ Excused \subseteq HeldBySenders
      /\ \A s \in Senders : pc[s] = "adding" =>
            held[s] \notin Entries \cup HeldByLib \cup Excused
  BY DEF IInv, ListInv, EntriesAreAwaited, About, Excused
<1>2. HeldBySenders' = HeldBySenders /\ AboutToSend' = AboutToSend
  BY DEF HeldBySenders, AboutToSend
<1>3. /\ awaited' = awaited \ gone
      /\ Excused' = Excused \cup (gone \cap HeldBySenders)
  BY DEF Close, Excused
<1>4. AboutToSend \subseteq HeldBySenders
  BY DEF AboutToSend, HeldBySenders, IInv, HeldInv
<1>5. About' = About \ gone
  BY <1>2, <1>3, <1>4 DEF About
<1>6. EntriesAreAwaited'
  BY <1>1, <1>3, <1>5 DEF EntriesAreAwaited, About, Excused
<1>7. \A s \in Senders : pc'[s] = "adding" =>
         held'[s] \notin Entries' \cup HeldByLib' \cup Excused'
  BY <1>1, <1>3
<1> QED
  BY <1>1, <1>2, <1>3, <1>6, <1>7 DEF ListInv

(* Nothing changes but that a handler finds a command of the list.         *)
LEMMA LookingKeepsList ==
    ASSUME IInv, Entries' = Entries, HeldBySenders' = HeldBySenders,
           HeldByLib' \subseteq HeldByLib \cup Entries,
           UNCHANGED <<held, pc, history>>
    PROVE  ListInv'
<1>1. AboutToSend' = AboutToSend /\ Excused' = Excused
  BY DEF AboutToSend, Excused, history
<1> QED
  BY <1>1 DEF history, IInv, ListInv, EntriesAreAwaited, Excused

LEMMA BeginAddKeepsList ==
    ASSUME IInv, NEW s \in Senders, NEW k \in Commands, NEW a \in Addresses,
           BeginAdd(s, k, a)
    PROVE  ListInv'
<1>1. /\ Entries = awaited \cup About
      /\ HeldBySenders \cap awaited = {}
      /\ Excused \subseteq HeldBySenders
      /\ \A t \in Senders : pc[t] = "adding" =>
            held[t] \notin Entries \cup HeldByLib \cup Excused
  BY DEF IInv, ListInv, EntriesAreAwaited, About, Excused
<1>2. /\ Entries' = Entries
      /\ HeldBySenders' = HeldBySenders \cup {k}
      /\ HeldByLib' = HeldByLib
  BY BeginAddSets
<1>3. k \notin Entries \cup HeldBySenders \cup HeldByLib
  BY DEF BeginAdd, LiveCommands
<1>4. /\ held \in [Senders -> Commands \cup {None}]
      /\ pc \in [Senders -> {"idle", "adding", "added", "returning"}]
      /\ held[s] = None /\ pc[s] = "idle"
  BY DEF IInv, TypeOK, HeldInv, BeginAdd
<1>5. /\ held'[s] = k /\ pc'[s] = "adding"
      /\ \A t \in Senders \ {s} : held'[t] = held[t] /\ pc'[t] = pc[t]
      /\ awaited' = awaited /\ Excused' = Excused
  BY <1>4 DEF BeginAdd, history, Excused
<1>6. AboutToSend' = AboutToSend
  BY <1>4, <1>5 DEF AboutToSend
<1>7. EntriesAreAwaited'
  BY <1>1, <1>2, <1>5, <1>6 DEF EntriesAreAwaited, About, Excused
<1>8. \A t \in Senders : pc'[t] = "adding" =>
         held'[t] \notin Entries' \cup HeldByLib' \cup Excused'
  BY <1>1, <1>2, <1>3, <1>5
<1> QED
  BY <1>1, <1>2, <1>3, <1>5, <1>7, <1>8 DEF ListInv

LEMMA EndAddKeepsList ==
    ASSUME IInv, NEW s \in Senders, EndAdd(s)
    PROVE  ListInv'
<1>1. /\ Entries = awaited \cup About
      /\ HeldBySenders \cap awaited = {}
      /\ Excused \subseteq HeldBySenders
      /\ \A t \in Senders : pc[t] = "adding" =>
            held[t] \notin Entries \cup HeldByLib \cup Excused
  BY DEF IInv, ListInv, EntriesAreAwaited, About, Excused
<1> DEFINE k == held[s]
<1>2. /\ k \in HeldBySenders
      /\ \/ Entries' = Entries \cup {k} /\ Excused' = Excused
         \/ Entries' = Entries /\ Excused' = Excused \cup {k}
      /\ HeldBySenders' = HeldBySenders
      /\ HeldByLib' = HeldByLib
  BY EndAddSets
<1>3. k # None /\ \A t \in Senders \ {s} : held[t] # k
  BY <1>2, SetTypes DEF IInv, HeldInv, LiveCommands
<1>4. /\ pc[s] = "adding" /\ pc'[s] = "added"
      /\ \A t \in Senders \ {s} : pc'[t] = pc[t]
      /\ UNCHANGED <<held, awaited>>
  BY DEF EndAdd, IInv, TypeOK
<1>5. AboutToSend' = AboutToSend \cup {k} /\ k \notin AboutToSend
  BY <1>3, <1>4 DEF AboutToSend
<1>6. k \notin Excused /\ k \notin Entries
  BY <1>1, <1>4
<1>7. EntriesAreAwaited'
  <2>1. Entries' = awaited' \cup About'
    <3> HIDE DEF k
    <3> QED
      BY <1>1, <1>2, <1>4, <1>5, <1>6 DEF About
  <2> QED
    BY <2>1 DEF EntriesAreAwaited, About, Excused
<1>8. \A t \in Senders : pc'[t] = "adding" =>
         held'[t] \notin Entries' \cup HeldByLib' \cup Excused'
  <2>1. \A t \in Senders : pc'[t] = "adding" => t # s /\ pc[t] = "adding"
    BY <1>4
  <2> QED
    BY <1>1, <1>2, <1>3, <1>4, <2>1
<1> QED
  BY <1>1, <1>2, <1>4, <1>7, <1>8 DEF ListInv

LEMMA SendKeepsList ==
    ASSUME IInv, NEW s \in Senders, Send(s)
    PROVE  ListInv'
<1>1. /\ Entries = awaited \cup About
      /\ HeldBySenders \cap awaited = {}
      /\ Excused \subseteq HeldBySenders
      /\ \A t \in Senders : pc[t] = "adding" =>
            held[t] \notin Entries \cup HeldByLib \cup Excused
  BY DEF IInv, ListInv, EntriesAreAwaited, About, Excused
<1> DEFINE k == held[s]
<1>2. /\ k \in HeldBySenders
      /\ \/ Entries' = Entries /\ awaited' = awaited \cup ({k} \ Excused)
         \/ Entries' = Entries \ {k} /\ awaited' = awaited
      /\ HeldBySenders' = HeldBySenders \ {k}
      /\ HeldByLib' = HeldByLib
  BY SendSets
<1>3. k # None /\ \A t \in Senders \ {s} : held[t] # k
  BY <1>2, SetTypes DEF IInv, HeldInv, LiveCommands
<1>4. /\ pc[s] = "added" /\ pc'[s] = "returning"
      /\ \A t \in Senders \ {s} : pc'[t] = pc[t] /\ held'[t] = held[t]
      /\ held'[s] = None
      /\ Excused' = Excused \ {k}
  BY DEF Send, IInv, TypeOK, Excused
<1>5. AboutToSend' = AboutToSend \ {k} /\ k \in AboutToSend
  BY <1>3, <1>4 DEF AboutToSend
<1>6. k \notin awaited
  BY <1>1, <1>2
<1>7. EntriesAreAwaited'
  <2>1. Entries' = awaited' \cup About'
    <3> HIDE DEF k
    <3> QED
      BY <1>1, <1>2, <1>4, <1>5, <1>6 DEF About
  <2> QED
    BY <2>1 DEF EntriesAreAwaited, About, Excused
<1>8. HeldBySenders' \cap awaited' = {} /\ Excused' \subseteq HeldBySenders'
  BY <1>1, <1>2, <1>4
<1>9. \A t \in Senders : pc'[t] = "adding" =>
         held'[t] \notin Entries' \cup HeldByLib' \cup Excused'
  <2>1. \A t \in Senders : pc'[t] = "adding" =>
           t # s /\ pc[t] = "adding" /\ held'[t] = held[t]
    BY <1>4
  <2> QED
    BY <1>1, <1>2, <1>4, <2>1
<1> QED
  BY <1>7, <1>8, <1>9 DEF ListInv

LEMMA ListStep ==
    ASSUME IInv, [Next]_vars
    PROVE  ListInv'
<1>1. ASSUME NEW s \in Senders, Return(s)
      PROVE  ListInv'
  <2>1. /\ Entries' = Entries /\ HeldBySenders' = HeldBySenders
        /\ HeldByLib' = HeldByLib /\ Excused' = Excused
        /\ UNCHANGED <<held, awaited>>
    BY <1>1 DEF Return, listVars, conVars, history, Entries, HeldBySenders,
                HeldByLib, Excused
  <2>2. \A t \in Senders : /\ pc'[t] = "adding" <=> pc[t] = "adding"
                           /\ pc'[t] = "added" <=> pc[t] = "added"
    BY <1>1 DEF Return, IInv, TypeOK
  <2>3. AboutToSend' = AboutToSend
    BY <2>1, <2>2 DEF AboutToSend
  <2> QED
    BY <2>1, <2>2, <2>3 DEF IInv, ListInv, EntriesAreAwaited, Excused
<1>2. ASSUME NEW c \in Conns, NEW a, NEW cot, Lookup(c, a, cot)
      PROVE  ListInv'
  BY <1>2, LookupSets, LookingKeepsList DEF Lookup, sendVars
<1>3. ASSUME NEW c \in Conns, FinishHandling(c)
      PROVE  ListInv'
  <2> DEFINE k == handling[c].found
  <2>1. UNCHANGED <<held, pc>>
    BY <1>3 DEF FinishHandling, sendVars
  <2>2. CASE k \in HeldByLib /\ Entries' = Entries \ {k} /\ Close({k})
    BY <1>3, <2>1, <2>2, FinishHandlingSets, CloseKeepsList
  <2>3. CASE Entries' = Entries /\ UNCHANGED history
    BY <1>3, <2>1, <2>3, FinishHandlingSets, LookingKeepsList
  <2> QED
    BY <1>3, <2>2, <2>3, FinishHandlingSets
<1>4. CASE CheckTimeouts
  <2>1. Expired \subseteq Entries
    BY DEF Expired
  <2>2. Close(Expired) /\ UNCHANGED <<held, pc>>
    BY <1>4 DEF CheckTimeouts, sendVars
  <2> QED
    BY <1>4, <2>1, <2>2, CheckTimeoutsSets, CloseKeepsList
<1>5. CASE ClearAll
  <2>1. Close(Entries) /\ UNCHANGED <<held, pc>>
    BY <1>5 DEF ClearAll, sendVars
  <2>2. Entries' = Entries \ Entries
    BY <1>5, ClearAllSets
  <2> QED
    BY <1>5, <2>1, <2>2, ClearAllSets, CloseKeepsList
<1>6. CASE Elsewhere
  BY <1>6, ElsewhereSets, LookingKeepsList DEF Elsewhere
<1> QED
  BY <1>1, <1>2, <1>3, <1>4, <1>5, <1>6, StepCases, BeginAddKeepsList,
     EndAddKeepsList, SendKeepsList

-----------------------------------------------------------------------------
(* What handlers have found.                                               *)

(* A command keeps its address and its connection as long as it lives.     *)
LEMMA CommandsKeep ==
    ASSUME IInv, [Next]_vars, NEW k \in LiveCommands \cap LiveCommands'
    PROVE  command'[k].con = command[k].con /\ command'[k].addr = command[k].addr
<1>1. command \in [LiveCommands -> CommandType] /\ command[k] \in CommandType
  BY DEF IInv, TypeOK, CommandType
<1>2. ASSUME NEW s \in Senders, NEW j \in Commands, NEW a \in Addresses,
             BeginAdd(s, j, a)
      PROVE  command'[k] = command[k]
  BY <1>2 DEF BeginAdd
<1>3. ASSUME NEW s \in Senders, EndAdd(s) \/ Send(s) \/ Return(s)
      PROVE  command'[k] = command[k]
  BY <1>3 DEF EndAdd, Send, Return, Release, listVars
<1>4. ASSUME NEW c \in Conns, NEW a, NEW cot, Lookup(c, a, cot)
      PROVE  command'[k] = command[k]
  BY <1>4 DEF Lookup
<1>5. ASSUME NEW c \in Conns, FinishHandling(c)
      PROVE  \/ command'[k] = command[k]
             \/ command'[k] = [command[k] EXCEPT !.timer = CmdExecTimeout]
  <2> DEFINE f == handling[c].found
  <2>1. command'[k] = command[k] \/ command'[k] = Acknowledge(f)[k]
    BY <1>5 DEF FinishHandling, Release
  <2>2. \/ Acknowledge(f)[k] = command[k]
        \/ Acknowledge(f)[k] = [command[k] EXCEPT !.timer = CmdExecTimeout]
    <3> HIDE DEF f
    <3>1. CASE k = f
      BY <1>1, <3>1 DEF Acknowledge
    <3>2. CASE k # f
      BY <1>1, <3>2 DEF Acknowledge
    <3> QED
      BY <3>1, <3>2
  <2> QED
    BY <2>1, <2>2
<1>6. CASE CheckTimeouts
  <2>1. command'[k] = [command[k] EXCEPT !.timer = Before(@)]
    BY <1>6 DEF CheckTimeouts, Release
  <2> QED
    BY <1>1, <2>1 DEF CommandType
<1>7. CASE ClearAll \/ Elsewhere
  BY <1>7 DEF ClearAll, Release, Elsewhere
<1>8. ASSUME \/ command'[k] = command[k]
             \/ command'[k] = [command[k] EXCEPT !.timer = CmdExecTimeout]
      PROVE  /\ command'[k].con = command[k].con
             /\ command'[k].addr = command[k].addr
  BY <1>1, <1>8 DEF CommandType
<1> QED
  BY <1>2, <1>3, <1>4, <1>5, <1>6, <1>7, <1>8, StepCases

(* Handlers that go on with what they have found.                          *)
LEMMA HandlingKept ==
    ASSUME IInv, [Next]_vars, NEW c \in Conns, handling'[c] = handling[c],
           handling[c].found # None
    PROVE  LET k == handling[c].found
           IN  /\ k \in LiveCommands
               /\ command'[k].con = command[k].con
               /\ command'[k].addr = command[k].addr
<1> DEFINE k == handling[c].found
<1>1. k \in HeldByLib /\ k \in HeldByLib'
  BY DEF HeldByLib
<1>2. k \in LiveCommands \cap LiveCommands'
  BY <1>1 DEF LiveCommands
<1> HIDE DEF k
<1>3. command'[k].con = command[k].con /\ command'[k].addr = command[k].addr
  BY <1>2, CommandsKeep
<1> QED
  BY <1>2, <1>3 DEF k

LEMMA HandlerStep ==
    ASSUME IInv, [Next]_vars
    PROVE  HandlerInv'
<1>1. ASSUME NEW c \in Conns, handling'[c] = handling[c]
      PROVE  handling'[c].found # None
                => command'[handling'[c].found].con = c
  BY <1>1, HandlingKept DEF IInv, HandlerInv
<1>2. ASSUME NEW c \in Conns, NEW a, NEW cot, Lookup(c, a, cot)
      PROVE  HandlerInv'
  <2>1. /\ handling'[c].found = Found(c, a)
        /\ \A d \in Conns \ {c} : handling'[d] = handling[d]
    BY <1>2, LookupSets
  <2>2. Found(c, a) # None => command'[Found(c, a)].con = c
    BY <1>2, FoundInList DEF Lookup, IInv
  <2> QED
    BY <1>1, <2>1, <2>2 DEF HandlerInv
<1>3. ASSUME NEW c \in Conns, FinishHandling(c)
      PROVE  HandlerInv'
  BY <1>1, <1>3, FinishHandlingSets DEF HandlerInv
<1>4. CASE UNCHANGED handling
  BY <1>1, <1>4 DEF HandlerInv
<1>5. \A s \in Senders, k \in Commands, a \in Addresses :
         BeginAdd(s, k, a) => UNCHANGED handling
  BY DEF BeginAdd, conVars
<1>6. \A s \in Senders : EndAdd(s) \/ Send(s) \/ Return(s)
                            => UNCHANGED handling
  BY DEF EndAdd, Send, Return, conVars
<1>7. CheckTimeouts \/ ClearAll \/ Elsewhere => UNCHANGED handling
  BY DEF CheckTimeouts, ClearAll, Elsewhere
<1> QED
  BY <1>2, <1>3, <1>4, <1>5, <1>6, <1>7, StepCases

(* The commands found change with their handler only.                      *)
LEMMA HandledKept ==
    ASSUME IInv, [Next]_vars, UNCHANGED handling, NEW cot, NEW addresses
    PROVE  Handled(cot, addresses)' = Handled(cot, addresses)
<1>1. \A d \in Conns : handling[d].found # None =>
         command'[handling[d].found].addr = command[handling[d].found].addr
  BY HandlingKept
<1> QED
  BY <1>1 DEF Handled

LEMMA HandledFound ==
    ASSUME IInv, [Next]_vars, NEW c \in Conns, NEW a, NEW cot,
           Lookup(c, a, cot), NEW answer, NEW addresses
    PROVE  /\ Found(c, a) # None /\ cot = answer
                   /\ command[Found(c, a)].addr \in addresses
              => Handled(answer, addresses)'
                    = Handled(answer, addresses) \cup {Found(c, a)}
           /\ ~(Found(c, a) # None /\ cot = answer
                   /\ command[Found(c, a)].addr \in addresses)
              => Handled(answer, addresses)' = Handled(answer, addresses)
<1> DEFINE f == Found(c, a)
<1>1. /\ handling[c].found = None
      /\ handling'[c].found = f
      /\ f # None => handling'[c].cot = cot
      /\ \A d \in Conns \ {c} : handling'[d] = handling[d]
      /\ command' = command
  <2>1. /\ handling[c].found = None
        /\ handling'[c] = Answer(c, a, cot) /\ handling'[c].found = f
        /\ \A d \in Conns \ {c} : handling'[d] = handling[d]
    BY LookupSets
  <2>2. f # None => Answer(c, a, cot).cot = cot
    BY DEF Answer
  <2>3. command' = command
    BY DEF Lookup
  <2> HIDE DEF f
  <2> QED
    BY <2>1, <2>2, <2>3
<1> HIDE DEF f
<1>2. \A d \in Conns \ {c} : handling'[d] = handling[d]
  BY <1>1
<1>3. ASSUME f # None, cot = answer, command[f].addr \in addresses
      PROVE  Handled(answer, addresses)'
                = Handled(answer, addresses) \cup {f}
  BY <1>1, <1>3 DEF Handled
<1>4. ASSUME ~(f # None /\ cot = answer /\ command[f].addr \in addresses)
      PROVE  Handled(answer, addresses)' = Handled(answer, addresses)
  BY <1>1, <1>4 DEF Handled
<1> QED
  BY <1>3, <1>4 DEF f

LEMMA HandledEnds ==
    ASSUME IInv, [Next]_vars, NEW c \in Conns, FinishHandling(c),
           NEW answer, NEW addresses
    PROVE  Handled(answer, addresses)'
              = Handled(answer, addresses) \ {handling[c].found}
<1> DEFINE f == handling[c].found
<1>1. /\ handling'[c].found = None
      /\ \A d \in Conns \ {c} : handling'[d] = handling[d]
  BY FinishHandlingSets
<1>2. \A d \in Conns \ {c} : handling[d].found # None =>
         /\ handling[d].found # f
         /\ command'[handling[d].found].addr = command[handling[d].found].addr
  <2> SUFFICES ASSUME NEW d \in Conns \ {c}, handling[d].found # None
               PROVE  /\ handling[d].found # f
                      /\ command'[handling[d].found].addr
                            = command[handling[d].found].addr
    OBVIOUS
  <2>1. handling[d].found # f
    BY DEF IInv, HandlerInv
  <2> QED
    BY <1>1, <2>1, HandlingKept
<1> HIDE DEF f
<1>3. Handled(answer, addresses)' \subseteq Handled(answer, addresses) \ {f}
  BY <1>1, <1>2 DEF Handled
<1>4. Handled(answer, addresses) \ {f} \subseteq Handled(answer, addresses)'
  <2> SUFFICES ASSUME NEW d \in Conns, handling[d].cot = answer,
                      handling[d].found # None, handling[d].found # f,
                      command[handling[d].found].addr \in addresses
               PROVE  handling[d].found \in Handled(answer, addresses)'
    BY DEF Handled
  <2>1. d # c
    BY DEF f
  <2>2. /\ handling'[d] = handling[d]
        /\ command'[handling[d].found].addr = command[handling[d].found].addr
    BY <1>1, <1>2, <2>1
  <2> QED
    BY <2>2 DEF Handled
<1> QED
  BY <1>3, <1>4 DEF f

-----------------------------------------------------------------------------
(* Commands are leases.                                                    *)

(* The monitoring thread lets go of m_connections when it leaves its loop. *)
StopInv ==
    /\ listed <=> mon \in {"active", "timeouts"}
    /\ ~listed => active = None

LEMMA StopStep ==
    ASSUME TypeOK, StopInv, [Next]_vars
    PROVE  /\ StopInv'
           /\ ~ClearAll => UNCHANGED listed
<1> USE DEF StopInv
<1>1. CASE CheckActive
  BY <1>1 DEF CheckActive
<1>2. CASE CheckTimeouts
  BY <1>2 DEF CheckTimeouts
<1>3. CASE ClearAll
  BY <1>3 DEF ClearAll
<1>4. CASE ConnectionsDestroyed
  BY <1>4 DEF ConnectionsDestroyed
<1>5. CASE RequestStop
  BY <1>5 DEF RequestStop
<1>6. ASSUME UNCHANGED monVars
      PROVE  StopInv' /\ UNCHANGED listed
  BY <1>6 DEF monVars
<1>7. ASSUME NEW s \in Senders, Sender(s)
      PROVE  UNCHANGED monVars
  BY <1>7 DEF Sender, BeginAdd, EndAdd, Send, Return
<1>8. ASSUME NEW c \in Conns,
             LibThread(c) \/ Open(c) \/ Closed(c) \/ StopCompletes(c)
      PROVE  UNCHANGED monVars
  BY <1>8 DEF LibThread, Lookup, FinishHandling, Open, Closed, StopCompletes
<1>9. CASE UNCHANGED vars
  BY <1>6, <1>9 DEF vars
<1> QED
  BY <1>1, <1>2, <1>3, <1>4, <1>5, <1>6, <1>7, <1>8, <1>9 DEF Next, Monitor

(* What is being added is held, by one sender, and in no list.             *)
LEMMA AddingSets ==
    ASSUME IInv
    PROVE  /\ holder = None => BeingAdded = {}
           /\ \A s \in Senders : pc[s] = "adding" => BeingAdded = {held[s]}
           /\ BeingAdded \subseteq HeldBySenders
           /\ BeingAdded \cap (Entries \cup HeldByLib) = {}
           /\ awaited \subseteq Entries
<1>1. \A s \in Senders : pc[s] = "adding" =>
         /\ holder = s /\ held[s] \in HeldBySenders
         /\ held[s] \notin Entries \cup HeldByLib
  BY DEF IInv, HeldInv, MutexInv, ListInv, HeldBySenders
<1>2. holder = None => BeingAdded = {}
  BY <1>1, CommandsAssumption DEF BeingAdded
<1>3. \A s \in Senders : pc[s] = "adding" => BeingAdded = {held[s]}
  BY <1>1 DEF BeingAdded
<1>4. /\ BeingAdded \subseteq HeldBySenders
      /\ BeingAdded \cap (Entries \cup HeldByLib) = {}
  BY <1>1 DEF BeingAdded
<1>5. awaited \subseteq Entries
  BY DEF IInv, ListInv, EntriesAreAwaited
<1> QED
  BY <1>2, <1>3, <1>4, <1>5

LEMMA AddingKept ==
    ASSUME \A s \in Senders :
              /\ pc[s] = "adding" <=> pc'[s] = "adding"
              /\ pc[s] = "adding" => held'[s] = held[s]
    PROVE  BeingAdded' = BeingAdded
BY DEF BeingAdded

(* The list is as long as it has commands, or longer.                      *)
LEMMA EntriesCardinality ==
    ASSUME list \in Seq(Commands)
    PROVE  IsFiniteSet(Entries) /\ Cardinality(Entries) <= Len(list)
<1> DEFINE I == 1..Len(list)
           f == [i \in I |-> list[i]]
<1>1. Len(list) \in Nat /\ DOMAIN list = I
  OBVIOUS
<1>2. IsFiniteSet(I) /\ Cardinality(I) = Len(list)
  BY <1>1, FS_Interval
<1>3. f \in Surjection(I, Entries)
  BY <1>1 DEF Surjection, Entries, ToSet
<1>4. IsFiniteSet(Entries) /\ Cardinality(Entries) <= Cardinality(I)
  BY <1>2, <1>3, FS_Surjection
<1> QED
  BY <1>2, <1>4

LEMMA LeasesCardinality ==
    ASSUME NEW S
    PROVE  Leases!Cardinality(S) = Cardinality(S)
BY DEF Leases!Cardinality, Cardinality

(* What the handlers have found is alive, and stays found as long as they  *)
(* go on.                                                                  *)
LEMMA AnsweredLive == Confirming \cup Completing \subseteq HeldByLib
BY DEF Confirming, Completing, Handled, HeldByLib

LEMMA AnswersKept ==
    ASSUME IInv, [Next]_vars, UNCHANGED handling
    PROVE  UNCHANGED <<Confirming, Completing>>
BY HandledKept DEF Confirming, Completing

LEMMA BeginAddLease ==
    ASSUME IInv, [Next]_vars, NEW s \in Senders, NEW k \in Commands, NEW a \in Addresses,
           BeginAdd(s, k, a)
    PROVE  Leases!Admit(k)
<1>1. /\ BeingAdded = {} /\ holder = None
      /\ Entries' = Entries /\ k \notin Entries
      /\ awaited' = awaited /\ listed' = listed
  BY AddingSets, BeginAddSets
     DEF BeginAdd, ActiveMtxFree, monVars, history, LiveCommands
<1>2. BeingAdded' = {k}
  <2>1. \A t \in Senders : pc[t] # "adding"
    BY <1>1, CommandsAssumption DEF IInv, MutexInv
  <2>2. /\ pc' = [pc EXCEPT ![s] = "adding"]
        /\ held' = [held EXCEPT ![s] = k]
    BY DEF BeginAdd
  <2>3. /\ pc'[s] = "adding" /\ held'[s] = k
        /\ \A t \in Senders \ {s} : pc'[t] # "adding"
    BY <2>1, <2>2 DEF IInv, TypeOK
  <2> QED
    BY <2>3 DEF BeingAdded
<1>3. CmdParallel > 0 => Cardinality(BeingAdded \cup Entries) < CmdParallel
  <2>1. IsFiniteSet(Entries) /\ Cardinality(Entries) <= Len(list)
    BY EntriesCardinality DEF IInv, TypeOK
  <2>2. Cardinality(Entries) \in Nat /\ Len(list) \in Nat /\ CmdParallel \in Nat
    BY <2>1, FS_CardinalityType, CommandsAssumption DEF IInv, TypeOK
  <2>3. CmdParallel > 0 => Len(list) < CmdParallel
    BY DEF BeginAdd, HasRoom
  <2>4. Cardinality(BeingAdded \cup Entries) = Cardinality(Entries)
    <3>1. BeingAdded \cup Entries = Entries
      BY <1>1
    <3> QED
      BY <3>1
  <2> QED
    BY <2>1, <2>2, <2>3, <2>4
<1>4. TimeLeft' = [j \in BeingAdded \cup Entries \cup {k} |->
                      IF j = k THEN CmdExecTimeout ELSE TimeLeft[j]]
  <2>1. \A j \in Entries \cup {k} :
           command'[j].timer = IF j = k THEN CmdExecTimeout
                               ELSE command[j].timer
    BY DEF BeginAdd, LiveCommands
  <2> QED
    BY <1>1, <1>2, <2>1 DEF TimeLeft
<1>5. k \notin Confirming \cup Completing
  BY AnsweredLive DEF BeginAdd, LiveCommands
<1>6. UNCHANGED <<Confirming, Completing>>
  BY AnswersKept DEF BeginAdd, conVars
<1> QED
  BY <1>1, <1>2, <1>3, <1>4, <1>5, <1>6, LeasesCardinality
     DEF Leases!Admit, Leases!Leased, Leases!Answered, Leases!answers

LEMMA EndAddLease ==
    ASSUME IInv, [Next]_vars, NEW s \in Senders, EndAdd(s)
    PROVE  Leases!Enter(held[s]) \/ Leases!Fail(held[s])
<1> DEFINE k == held[s]
<1>1. /\ BeingAdded = {k} /\ k \notin Entries /\ k \notin awaited
      /\ pc[s] = "adding"
  BY AddingSets DEF EndAdd
<1>2. BeingAdded' = {}
  <2>1. \A t \in Senders \ {s} : pc[t] # "adding"
    BY <1>1 DEF IInv, MutexInv
  <2>2. pc' = [pc EXCEPT ![s] = "added"]
    BY DEF EndAdd
  <2>3. \A t \in Senders : pc'[t] # "adding"
    BY <2>1, <2>2 DEF IInv, TypeOK
  <2> QED
    BY <2>3 DEF BeingAdded
<1>3. UNCHANGED <<command, awaited, listed, Confirming, Completing>>
  BY AnswersKept DEF EndAdd, monVars, conVars
<1>4. CASE Entries' = Entries \cup {k}
  <2>1. TimeLeft' = TimeLeft
    BY <1>1, <1>2, <1>3, <1>4 DEF TimeLeft
  <2> QED
    BY <1>1, <1>2, <1>3, <1>4, <2>1 DEF Leases!Enter, Leases!answers
<1>5. CASE Entries' = Entries
  <2>1. TimeLeft' = [j \in (BeingAdded \cup Entries) \ {k} |-> TimeLeft[j]]
    BY <1>1, <1>2, <1>3, <1>5 DEF TimeLeft
  <2> QED
    BY <1>1, <1>2, <1>3, <1>5, <2>1
       DEF Leases!Fail, Leases!End, Leases!Withdraw, Leases!Leased,
           Leases!answers
<1> QED
  BY <1>4, <1>5, EndAddSets

(* Steps that add nothing leave what is being added.                       *)
LEMMA AddingElsewhere ==
    ASSUME IInv,
           \/ \E s \in Senders : Send(s) \/ Return(s)
           \/ \E c \in Conns, a \in Addresses, cot \in {"actCon", "actTerm"} :
                 Lookup(c, a, cot)
           \/ \E c \in Conns : FinishHandling(c)
           \/ CheckTimeouts \/ ClearAll \/ Elsewhere
    PROVE  BeingAdded' = BeingAdded
<1>1. /\ pc \in [Senders -> {"idle", "adding", "added", "returning"}]
      /\ held \in [Senders -> Commands \cup {None}]
  BY DEF IInv, TypeOK
<1>2. ASSUME NEW s \in Senders, Send(s)
      PROVE  BeingAdded' = BeingAdded
  <2>1. /\ pc[s] = "added" /\ pc' = [pc EXCEPT ![s] = "returning"]
        /\ held' = [held EXCEPT ![s] = None]
    BY <1>2 DEF Send
  <2> QED
    BY <1>1, <2>1, AddingKept
<1>3. ASSUME NEW s \in Senders, Return(s)
      PROVE  BeingAdded' = BeingAdded
  <2>1. /\ pc[s] = "returning" /\ pc' = [pc EXCEPT ![s] = "idle"]
        /\ held' = held
    BY <1>3 DEF Return
  <2> QED
    BY <1>1, <2>1, AddingKept
<1>4. CASE UNCHANGED <<pc, held>>
  BY <1>4, AddingKept
<1> QED
  BY <1>2, <1>3, <1>4
     DEF Lookup, FinishHandling, CheckTimeouts, ClearAll, Elsewhere, sendVars

LEMMA SendLease ==
    ASSUME IInv, StopInv, [Next]_vars, NEW s \in Senders, Send(s)
    PROVE  \/ Leases!Transmit(held[s])
           \/ Leases!Fail(held[s])
           \/ UNCHANGED Leases!leaseVars
<1> DEFINE k == held[s]
<1>1. BeingAdded' = BeingAdded /\ BeingAdded \subseteq HeldBySenders
  BY AddingElsewhere, AddingSets
<1>2. /\ \/ /\ CanSend /\ Entries' = Entries
            /\ awaited' = awaited \cup ({k} \ Excused)
         \/ Entries' = Entries \ {k} /\ awaited' = awaited
      /\ HeldBySenders' = HeldBySenders \ {k}
      /\ k \in HeldBySenders /\ k \notin awaited
  BY SendSets DEF IInv, ListInv
<1>3. k \notin BeingAdded
  <2>1. \A t \in Senders : pc[t] = "adding" => held[t] # k
    BY DEF IInv, HeldInv, Send
  <2> QED
    BY <2>1 DEF BeingAdded
<1>4. k \in Entries <=> k \notin Excused
  <2>1. k \in AboutToSend
    BY DEF AboutToSend, Send
  <2> QED
    BY <1>2, <2>1 DEF IInv, ListInv, EntriesAreAwaited, Excused
<1>5. UNCHANGED <<listed, Confirming, Completing>>
  BY AnswersKept DEF Send, monVars
<1>6. \A j \in BeingAdded' \cup Entries' : command'[j] = command[j]
  <2>1. BeingAdded' \cup Entries' \subseteq LiveCommands'
    BY <1>1, <1>2, <1>3 DEF LiveCommands
  <2> QED
    BY <2>1 DEF Send, Release
<1>7. ASSUME CanSend, Entries' = Entries,
             awaited' = awaited \cup ({k} \ Excused)
      PROVE  Leases!Transmit(k) \/ UNCHANGED Leases!leaseVars
  <2>1. TimeLeft' = TimeLeft
    BY <1>1, <1>6, <1>7 DEF TimeLeft
  <2>2. listed
    BY <1>7 DEF StopInv, CanSend
  <2>3. CASE k \in Entries
    <3>1. Leases!Transmit(k)
      BY <1>1, <1>2, <1>4, <1>5, <1>7, <2>1, <2>2, <2>3
         DEF Leases!Transmit, Leases!answers
    <3> QED
      BY <3>1
  <2>4. CASE k \notin Entries
    <3>1. awaited' = awaited
      BY <1>4, <1>7, <2>4
    <3> QED
      BY <1>1, <1>5, <1>7, <2>1, <3>1
         DEF Leases!leaseVars, Leases!leases, Leases!answers
  <2> QED
    BY <2>3, <2>4
<1>8. ASSUME Entries' = Entries \ {k}, awaited' = awaited
      PROVE  Leases!Fail(k) \/ UNCHANGED Leases!leaseVars
  <2>1. TimeLeft' = [j \in (BeingAdded \cup Entries) \ {k} |-> TimeLeft[j]]
    BY <1>1, <1>3, <1>6, <1>8 DEF TimeLeft
  <2>2. CASE k \in Entries
    BY <1>1, <1>2, <1>3, <1>5, <1>8, <2>1, <2>2
       DEF Leases!Fail, Leases!End, Leases!Withdraw, Leases!Leased,
           Leases!answers
  <2>3. CASE k \notin Entries
    <3>1. TimeLeft' = TimeLeft
      BY <1>3, <2>1, <2>3 DEF TimeLeft
    <3> QED
      BY <1>1, <1>5, <1>8, <2>3, <3>1
         DEF Leases!leaseVars, Leases!leases, Leases!answers
  <2> QED
    BY <2>2, <2>3
<1> QED
  BY <1>2, <1>7, <1>8

(* An answer that finds a command is a confirmation, a completion, or the  *)
(* ACT_TERM to a setpoint.                                                 *)
LEMMA LookupLease ==
    ASSUME IInv, StopInv, [Next]_vars, NEW c \in Conns, NEW a \in Addresses,
           NEW cot \in {"actCon", "actTerm"}, Lookup(c, a, cot)
    PROVE  \/ \E k \in Commands : \/ Leases!FindConfirmation(k)
                                  \/ Leases!FindCompletion(k)
           \/ UNCHANGED Leases!leaseVars
<1> DEFINE k == Found(c, a)
           addr == command[k].addr
<1>1. BeingAdded' = BeingAdded /\ Entries' = Entries
  BY AddingElsewhere, LookupSets
<1>2. UNCHANGED Leases!leases
  BY <1>1 DEF Leases!leases, TimeLeft, Lookup, monVars, history
<1>3. k = None \/ (k \in Entries /\ command[k].con = c)
  BY FoundInList DEF IInv
<1>4. k # None => addr \in Addresses /\ k \in Commands
  <2>1. command \in [LiveCommands -> CommandType]
    BY DEF IInv, TypeOK, CommandType
  <2>2. k # None => k \in LiveCommands
    BY <1>3 DEF LiveCommands
  <2> QED
    BY <2>1, <2>2, SetTypes DEF CommandType, IInv
<1>5. k # None => k \notin Confirming \cup Completing
  <2> SUFFICES ASSUME k # None, NEW d \in Conns, handling[d].found = k
               PROVE  FALSE
    BY DEF Confirming, Completing, Handled
  <2>1. d = c
    BY <1>3 DEF IInv, HandlerInv
  <2> QED
    BY <2>1, LookupSets
<1> HIDE DEF k, addr
<1>6. ASSUME NEW answer, NEW addresses
      PROVE  /\ k # None /\ cot = answer /\ addr \in addresses
                => Handled(answer, addresses)'
                      = Handled(answer, addresses) \cup {k}
             /\ ~(k # None /\ cot = answer /\ addr \in addresses)
                => Handled(answer, addresses)' = Handled(answer, addresses)
  BY HandledFound DEF k, addr
<1> DEFINE P == Handled("actCon", Addresses \ Setpoints)
           Q == Handled("actCon", Setpoints)
           R == Handled("actTerm", Addresses \ Setpoints)
<1>7. Confirming = P /\ Completing = Q \cup R
  BY DEF Confirming, Completing
<1>8. Confirming' = P' /\ Completing' = Q' \cup R'
  BY DEF Confirming, Completing
<1>9. CASE k # None /\ cot = "actCon" /\ addr \notin Setpoints
  <2>1. P' = P \cup {k} /\ Q' = Q /\ R' = R
    BY <1>4, <1>6, <1>9
  <2> HIDE DEF P, Q, R
  <2>2. Leases!FindConfirmation(k)
    BY <1>2, <1>3, <1>5, <1>7, <1>8, <1>9, <2>1
       DEF Leases!FindConfirmation, Leases!Answered
  <2> QED
    BY <1>4, <1>9, <2>2
<1>10. CASE k # None /\ cot = "actCon" /\ addr \in Setpoints
  <2>1. P' = P /\ Q' = Q \cup {k} /\ R' = R
    BY <1>4, <1>6, <1>10
  <2> HIDE DEF P, Q, R
  <2>2. Leases!FindCompletion(k)
    BY <1>2, <1>3, <1>5, <1>7, <1>8, <1>10, <2>1
       DEF Leases!FindCompletion, Leases!Answered
  <2> QED
    BY <1>4, <1>10, <2>2
<1>11. CASE k # None /\ cot = "actTerm" /\ addr \notin Setpoints
  <2>1. P' = P /\ Q' = Q /\ R' = R \cup {k}
    BY <1>4, <1>6, <1>11
  <2> HIDE DEF P, Q, R
  <2>2. Leases!FindCompletion(k)
    BY <1>2, <1>3, <1>5, <1>7, <1>8, <1>11, <2>1
       DEF Leases!FindCompletion, Leases!Answered
  <2> QED
    BY <1>4, <1>11, <2>2
<1>12. CASE k = None \/ (cot = "actTerm" /\ addr \in Setpoints)
  <2>1. P' = P /\ Q' = Q /\ R' = R
    BY <1>6, <1>12
  <2> HIDE DEF P, Q, R
  <2> QED
    BY <1>2, <1>7, <1>8, <2>1 DEF Leases!leaseVars, Leases!answers
<1> QED
  BY <1>9, <1>10, <1>11, <1>12

LEMMA FinishHandlingLease ==
    ASSUME IInv, StopInv, [Next]_vars, NEW c \in Conns, FinishHandling(c)
    PROVE  \/ \E k \in Commands : Leases!Renew(k) \/ Leases!Complete(k)
           \/ UNCHANGED Leases!leaseVars
<1> DEFINE k == handling[c].found
           cot == handling[c].cot
           ends == k # None /\ Completes(k, cot)
           renews == k # None /\ Renews(k, cot)
<1>1. /\ BeingAdded' = BeingAdded
      /\ BeingAdded \subseteq HeldBySenders
      /\ BeingAdded \cap (Entries \cup HeldByLib) = {}
      /\ awaited \subseteq Entries
  BY AddingElsewhere, AddingSets
<1>2. HeldBySenders' = HeldBySenders
  BY FinishHandlingSets
<1>3. k # None => k \in HeldByLib /\ k \notin BeingAdded /\ k \in Commands
  <2>1. k # None => k \in HeldByLib
    BY DEF HeldByLib
  <2> HIDE DEF k
  <2> QED
    BY <1>1, <2>1, SetTypes DEF IInv
<1>4. listed' = listed
  BY DEF FinishHandling, monVars
<1>5. /\ ends => /\ Entries' = Entries \ {k}
                 /\ awaited' = awaited \ {k}
      /\ ~ends => Entries' = Entries /\ awaited' = awaited
  <2>1. /\ ends => list' = Without({k}) /\ Close({k})
        /\ ~ends => UNCHANGED <<list, awaited>>
    BY DEF FinishHandling, history
  <2>2. ToSet(Without({k})) = Entries \ {k}
    BY WithoutRemoves DEF IInv
  <2> HIDE DEF ends, k
  <2> QED
    BY <2>1, <2>2 DEF Entries, Close
<1>6. /\ ~renews => \A j \in BeingAdded' \cup Entries' : command'[j] = command[j]
      /\ renews => \A j \in BeingAdded' \cup Entries' :
                      command'[j] = Acknowledge(k)[j]
  <2>1. BeingAdded' \cup Entries' \subseteq LiveCommands'
    BY <1>1, <1>2 DEF LiveCommands
  <2>2. command' = [j \in LiveCommands' |->
                       (IF renews THEN Acknowledge(k) ELSE command)[j]]
    BY DEF FinishHandling, Release
  <2> HIDE DEF renews, k
  <2> QED
    BY <2>1, <2>2
<1>7. Confirming' = Confirming \ {k} /\ Completing' = Completing \ {k}
  <2>1. ASSUME NEW answer, NEW addresses
        PROVE  Handled(answer, addresses)' = Handled(answer, addresses) \ {k}
    BY HandledEnds
  <2> HIDE DEF k
  <2> QED
    BY <2>1 DEF Confirming, Completing
<1>8. k # None => command[k].addr \in Addresses
  <2>1. command \in [LiveCommands -> CommandType]
    BY DEF IInv, TypeOK, CommandType
  <2>2. k # None => k \in LiveCommands
    BY <1>3 DEF LiveCommands
  <2> HIDE DEF k
  <2> QED
    BY <2>1, <2>2 DEF CommandType
<1>9. k # None => cot \in {"actCon", "actTerm"}
  BY HandlingType DEF IInv
<1>10. \A d \in Conns : d # c /\ k # None => handling[d].found # k
  BY DEF IInv, HandlerInv
<1>11. /\ renews => k \in Confirming /\ k \notin Completing
       /\ ends => k \in Completing /\ k \notin Confirming
       /\ ~renews /\ ~ends => k \notin Confirming \cup Completing
  <2>1. ASSUME NEW answer, NEW addresses
        PROVE  k \in Handled(answer, addresses) <=>
                  /\ k # None /\ cot = answer /\ command[k].addr \in addresses
    BY <1>10 DEF Handled
  <2> HIDE DEF k, cot
  <2> QED
    BY <1>8, <1>9, <2>1
       DEF Confirming, Completing, ends, renews, Completes, Renews, IsSetpoint
<1>12. CASE ends
  <2>1. ~renews
    BY <1>11, <1>12
  <2> HIDE DEF ends, renews, k
  <2>2. k # None
    BY <1>12 DEF ends
  <2>3. TimeLeft' = [j \in (BeingAdded \cup Entries) \ {k} |-> TimeLeft[j]]
    BY <1>1, <1>3, <1>5, <1>6, <1>12, <2>1, <2>2 DEF TimeLeft
  <2>4. Leases!Complete(k)
    BY <1>1, <1>3, <1>4, <1>5, <1>7, <1>11, <1>12, <2>2, <2>3
       DEF Leases!Complete, Leases!End, Leases!Withdraw, Leases!Leased
  <2> QED
    BY <1>3, <2>2, <2>4
<1>13. CASE renews
  <2>1. ~ends /\ k # None
    BY <1>11, <1>13
  <2>2. /\ command \in [LiveCommands -> CommandType] /\ k \in LiveCommands
        /\ BeingAdded \cup Entries \subseteq LiveCommands
    BY <1>1, <1>3, <2>1 DEF IInv, TypeOK, CommandType, LiveCommands
  <2>3. \A j \in LiveCommands :
           Acknowledge(k)[j].timer = IF j = k THEN CmdExecTimeout
                                     ELSE command[j].timer
    <3> HIDE DEF k
    <3> QED
      BY <2>2 DEF Acknowledge, CommandType
  <2> HIDE DEF ends, renews, k
  <2>4. TimeLeft' = [j \in BeingAdded \cup Entries |->
                        IF j = k THEN CmdExecTimeout ELSE TimeLeft[j]]
    BY <1>1, <1>5, <1>6, <1>13, <2>1, <2>2, <2>3 DEF TimeLeft
  <2>5. Leases!Renew(k)
    BY <1>1, <1>4, <1>5, <1>7, <1>11, <1>13, <2>1, <2>4
       DEF Leases!Renew, Leases!Leased
  <2> QED
    BY <1>3, <2>1, <2>5
<1>14. CASE ~ends /\ ~renews
  <2> HIDE DEF ends, renews, k
  <2>1. TimeLeft' = TimeLeft
    BY <1>1, <1>5, <1>6, <1>14 DEF TimeLeft
  <2> QED
    BY <1>1, <1>4, <1>5, <1>7, <1>11, <1>14, <2>1
       DEF Leases!leaseVars, Leases!leases, Leases!answers
<1> QED
  BY <1>12, <1>13, <1>14

LEMMA CheckTimeoutsLease ==
    ASSUME IInv, StopInv, [Next]_vars, CheckTimeouts
    PROVE  Leases!Poll
<1>1. /\ BeingAdded' = BeingAdded /\ BeingAdded \subseteq HeldBySenders
      /\ BeingAdded \cap Entries = {}
  BY AddingElsewhere, AddingSets
<1>2. /\ Entries' = Entries \ Expired
      /\ HeldBySenders' = HeldBySenders
  BY CheckTimeoutsSets
<1>3. /\ awaited' = awaited \ Expired
      /\ listed /\ listed' = listed
  BY DEF CheckTimeouts, Close, StopInv
<1>4. Leases!Expired = Expired
  BY DEF Leases!Expired, Expired, TimeLeft
<1>5. BeingAdded \cap Expired = {}
  BY <1>1 DEF Expired
<1>6. \A j \in BeingAdded' \cup Entries' :
         command'[j].timer = IF command[j].timer > 0 THEN command[j].timer - 1
                             ELSE 0
  <2>1. BeingAdded' \cup Entries' \subseteq LiveCommands'
    BY <1>1, <1>2 DEF LiveCommands
  <2>2. BeingAdded' \cup Entries' \subseteq LiveCommands
    BY <1>1, <1>2 DEF LiveCommands
  <2>3. \A j \in LiveCommands' :
           command'[j] = [k \in LiveCommands |->
                             [command[k] EXCEPT !.timer = Before(@)]][j]
    BY DEF CheckTimeouts, Release
  <2>4. \A j \in LiveCommands : command[j] \in CommandType
    BY DEF IInv, TypeOK, CommandType
  <2>5. ASSUME NEW j \in BeingAdded' \cup Entries'
        PROVE  command'[j].timer = Before(command[j].timer)
    <3>1. command'[j] = [command[j] EXCEPT !.timer = Before(@)]
      BY <2>1, <2>2, <2>3
    <3>2. command[j] \in CommandType
      BY <2>2, <2>4
    <3> QED
      BY <3>1, <3>2 DEF CommandType
  <2> QED
    BY <2>5 DEF Before
<1>7. TimeLeft' = [j \in (BeingAdded \cup Entries) \ Expired |->
                      IF TimeLeft[j] > 0 THEN TimeLeft[j] - 1 ELSE 0]
  <2>1. BeingAdded' \cup Entries' = (BeingAdded \cup Entries) \ Expired
    BY <1>1, <1>2, <1>5
  <2>2. \A j \in BeingAdded' \cup Entries' : TimeLeft[j] = command[j].timer
    BY <2>1 DEF TimeLeft
  <2> QED
    BY <1>6, <2>1, <2>2 DEF TimeLeft
<1>8. UNCHANGED <<Confirming, Completing>>
  BY AnswersKept DEF CheckTimeouts
<1> QED
  BY <1>1, <1>2, <1>3, <1>4, <1>5, <1>7, <1>8
     DEF Leases!Poll, Leases!Withdraw, Leases!Leased, Leases!answers

LEMMA ClearAllLease ==
    ASSUME IInv, StopInv, [Next]_vars, ClearAll
    PROVE  Leases!Stop
<1>1. BeingAdded = {} /\ BeingAdded' = {} /\ awaited \subseteq Entries
  BY AddingElsewhere, AddingSets DEF ClearAll, ActiveMtxFree
<1>2. Entries' = {}
  BY ClearAllSets
<1>3. awaited' = awaited \ Entries /\ listed /\ ~listed'
  BY DEF ClearAll, Close, StopInv
<1>4. TimeLeft' = [k \in {} |-> 0]
  BY <1>1, <1>2 DEF TimeLeft
<1>5. UNCHANGED <<Confirming, Completing>>
  BY AnswersKept DEF ClearAll
<1> QED
  BY <1>1, <1>2, <1>3, <1>4, <1>5
     DEF Leases!Stop, Leases!Withdraw, Leases!answers

LEMMA LeaseStep ==
    ASSUME IInv, StopInv, [Next]_vars
    PROVE  [Leases!LeasesNext]_(Leases!leaseVars)
<1>1. ASSUME NEW s \in Senders, NEW k \in Commands, NEW a \in Addresses,
             BeginAdd(s, k, a)
      PROVE  Leases!LeasesNext
  BY <1>1, BeginAddLease DEF Leases!LeasesNext
<1>2. ASSUME NEW s \in Senders, EndAdd(s)
      PROVE  Leases!LeasesNext
  <2>1. held[s] \in Commands
    BY <1>2, EndAddSets, SetTypes DEF IInv
  <2> QED
    BY <1>2, <2>1, EndAddLease DEF Leases!LeasesNext
<1>3. ASSUME NEW s \in Senders, Send(s)
      PROVE  [Leases!LeasesNext]_(Leases!leaseVars)
  <2>1. held[s] \in Commands
    BY <1>3, SendSets, SetTypes DEF IInv
  <2> QED
    BY <1>3, <2>1, SendLease DEF Leases!LeasesNext
<1>4. ASSUME NEW c \in Conns, FinishHandling(c)
      PROVE  [Leases!LeasesNext]_(Leases!leaseVars)
  BY <1>4, FinishHandlingLease DEF Leases!LeasesNext
<1>5. ASSUME UNCHANGED <<BeingAdded, Entries, command, awaited, listed,
                         handling>>
      PROVE  UNCHANGED Leases!leaseVars
  <2>1. UNCHANGED <<Confirming, Completing>>
    BY <1>5, AnswersKept
  <2> QED
    BY <1>5, <2>1
       DEF Leases!leaseVars, Leases!leases, Leases!answers, TimeLeft
<1>6. ASSUME NEW c \in Conns, NEW a \in Addresses,
             NEW cot \in {"actCon", "actTerm"}, Lookup(c, a, cot)
      PROVE  [Leases!LeasesNext]_(Leases!leaseVars)
  BY <1>6, LookupLease DEF Leases!LeasesNext
<1>7. ASSUME NEW s \in Senders, Return(s)
      PROVE  UNCHANGED Leases!leaseVars
  <2>1. BeingAdded' = BeingAdded
    BY <1>7, AddingElsewhere
  <2> QED
    BY <1>5, <1>7, <2>1
       DEF Return, monVars, listVars, conVars, history, Entries
<1>8. CASE CheckTimeouts
  BY <1>8, CheckTimeoutsLease DEF Leases!LeasesNext
<1>9. CASE ClearAll
  BY <1>9, ClearAllLease DEF Leases!LeasesNext
<1>10. ASSUME Elsewhere, ~ClearAll
       PROVE  UNCHANGED Leases!leaseVars
  <2>1. BeingAdded' = BeingAdded /\ Entries' = Entries
    BY <1>10, AddingElsewhere, ElsewhereSets
  <2>2. listed' = listed
    BY <1>10, StopStep DEF IInv
  <2> QED
    BY <1>5, <1>10, <2>1, <2>2 DEF Elsewhere, history
<1> QED
  BY <1>1, <1>2, <1>3, <1>4, <1>6, <1>7, <1>8, <1>9, <1>10, StepCases

-----------------------------------------------------------------------------
(* The theorems.                                                           *)

LEMMA InitIInv ==
    ASSUME Init
    PROVE  IInv
<1>1. Entries = {} /\ HeldBySenders = {} /\ HeldByLib = {}
  BY DEF Init, Entries, HeldBySenders, HeldByLib, ToSet, NoAsdu
<1>2. TypeOK
  <2>1. command \in [LiveCommands -> CommandType]
    BY <1>1 DEF Init, LiveCommands
  <2>2. list \in Seq(Commands)
    BY DEF Init
  <2>3. handling \in [Conns -> Answers \cup {NoAsdu, Unrelated}]
    BY DEF Init
  <2> QED
    BY <2>1, <2>2, <2>3 DEF Init, TypeOK, CommandType
<1>3. HeldInv /\ MutexInv
  BY CommandsAssumption DEF Init, HeldInv, MutexInv
<1>4. RoomInv
  BY CommandsAssumption DEF Init, RoomInv, LimitRespected
<1>5. ListInv
  BY <1>1 DEF Init, ListInv, EntriesAreAwaited, AboutToSend, Excused
<1>6. HandlerInv
  BY DEF Init, HandlerInv, NoAsdu
<1> QED
  BY <1>2, <1>3, <1>4, <1>5, <1>6 DEF IInv

(* The inductive invariant: types, who holds the mutex and which command,  *)
(* room for the command being added, the list as what is awaited, and the  *)
(* handlers each with commands of their own connection.                    *)
THEOREM Invariance == Safety => []IInv
<1>1. Init => IInv
  BY InitIInv
<1>2. IInv /\ [Next]_vars => IInv'
  BY TypeStep, HeldStep, MutexStep, RoomStep, ListStep, HandlerStep DEF IInv
<1> QED
  BY <1>1, <1>2, PTL DEF Safety

(* Every variable keeps its type.                                          *)
THEOREM TypeCorrect == Safety => []TypeOK
<1>1. IInv => TypeOK
  BY DEF IInv
<1> QED
  BY <1>1, Invariance, PTL

(* cmd_parallel commands are outstanding at most, whatever the number of   *)
(* threads in operation(), though adding is two steps.                     *)
THEOREM Limited == Safety => []LimitRespected
<1>1. IInv => LimitRespected
  BY DEF IInv, RoomInv
<1> QED
  BY <1>1, Invariance, PTL

(* The list holds what is awaited and what is about to be sent, whatever   *)
(* answers, time-outs and the end of the client do meanwhile, but for the  *)
(* commands to be sent that the unprotected append has lost and those that *)
(* are over before they are sent.                                          *)
THEOREM ListIsAwaited == Safety => []EntriesAreAwaited
<1>1. IInv => EntriesAreAwaited
  BY DEF IInv, ListInv
<1> QED
  BY <1>1, Invariance, PTL

(* The commands are leases as CommandLeases has them: the time-outs, the   *)
(* answers that complete them and the end of the client take each one      *)
(* back, and nothing starts the time-out of a command again but an ACT_CON *)
(* that has found this command, once for each.                             *)
THEOREM Implements == Safety => CommandsAreLeases
<1>1. Init => StopInv /\ Leases!LeasesInit
  <2> SUFFICES ASSUME Init
               PROVE  StopInv /\ Leases!LeasesInit
    OBVIOUS
  <2>1. BeingAdded = {} /\ Entries = {}
    BY DEF Init, BeingAdded, Entries, ToSet
  <2>2. TimeLeft = [k \in {} |-> 0]
    BY <2>1 DEF TimeLeft
  <2>3. Confirming = {} /\ Completing = {}
    BY DEF Init, Confirming, Completing, Handled, NoAsdu
  <2> QED
    BY <2>1, <2>2, <2>3 DEF Init, StopInv, Leases!LeasesInit
<1>2. IInv /\ StopInv /\ [Next]_vars => StopInv'
  BY StopStep DEF IInv
<1>3. IInv /\ StopInv /\ [Next]_vars
          => [Leases!LeasesNext]_(Leases!leaseVars)
  BY LeaseStep
<1> QED
  BY <1>1, <1>2, <1>3, Invariance, PTL
     DEF Safety, CommandsAreLeases, Leases!LeasesSpec

-----------------------------------------------------------------------------
(* What is proved of CommandLeases, said of the commands.                  *)
LeaseFacts == INSTANCE CommandLeasesProofs
                 WITH Limit <- CmdParallel, Duration <- CmdExecTimeout,
                      entering <- BeingAdded, entered <- Entries,
                      sent <- awaited, left <- TimeLeft, stopped <- ~listed,
                      confirming <- Confirming, completing <- Completing

(* The commands being added count within cmd_parallel with those in the    *)
(* list, none is both, no timer is above cmd_exec_timeout, no handler has  *)
(* found one that is being added, and once the monitoring thread has       *)
(* cleared the list no answer is awaited any more.                         *)
THEOREM LeasesHeld == Safety => []LeaseFacts!LeasesInv
<1>1. CmdParallel \in Nat /\ CmdExecTimeout \in Nat
  BY CommandsAssumption
<1>2. LeaseFacts!LeasesSpec => []LeaseFacts!LeasesInv
  BY <1>1, LeaseFacts!LeasesCorrect
<1>3. Leases!LeasesInit => LeaseFacts!LeasesInit
  BY DEF Leases!LeasesInit, LeaseFacts!LeasesInit
<1>4. [Leases!LeasesNext]_(Leases!leaseVars)
          => [LeaseFacts!LeasesNext]_(LeaseFacts!leaseVars)
  BY DEF Leases!LeasesNext, LeaseFacts!LeasesNext,
         Leases!leaseVars, LeaseFacts!leaseVars,
         Leases!leases, LeaseFacts!leases, Leases!answers, LeaseFacts!answers,
         Leases!Answered, LeaseFacts!Answered,
         Leases!FindConfirmation, LeaseFacts!FindConfirmation,
         Leases!FindCompletion, LeaseFacts!FindCompletion,
         Leases!Complete, LeaseFacts!Complete, Leases!Fail, LeaseFacts!Fail,
         Leases!Admit, LeaseFacts!Admit, Leases!Enter, LeaseFacts!Enter,
         Leases!Transmit, LeaseFacts!Transmit,
         Leases!Renew, LeaseFacts!Renew, Leases!End, LeaseFacts!End,
         Leases!Poll, LeaseFacts!Poll, Leases!Stop, LeaseFacts!Stop,
         Leases!Withdraw, LeaseFacts!Withdraw,
         Leases!Leased, LeaseFacts!Leased,
         Leases!Expired, LeaseFacts!Expired,
         Leases!Cardinality, LeaseFacts!Cardinality
<1> QED
  BY <1>2, <1>3, <1>4, Implements, PTL
     DEF CommandsAreLeases, Leases!LeasesSpec, LeaseFacts!LeasesSpec
=============================================================================
