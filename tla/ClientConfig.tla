---------------------------- MODULE ClientConfig ----------------------------
(***************************************************************************)
(* IEC104ClientConfig: the import of the configuration documents that      *)
(* IEC104::setJsonConfig() is given, and the lookups of a running client.  *)
(*                                                                         *)
(* A document is what the JSON parser hands over.  An exchanged_data       *)
(* document is the sequence of its "protocols" elements in the order in    *)
(* which importExchangeConfig() meets them: an "iec104" element defines a  *)
(* data object, an "other" one is skipped, and a "faulty" one (whatever    *)
(* the fault, its own or that of its data point) ends the import.  The     *)
(* import of one redundancy group, and that of one element, is one step.   *)
(***************************************************************************)
EXTENDS Integers, Sequences, SequencesExt

CONSTANTS
    Addresses,       \* the pairs of CA and IOA that occur
    CaOf,            \* the CA of each
    Definitions,     \* the other fields of a DataExchangeDefinition
    Documents,       \* protocol_stack, exchanged_data and tls together
    NoEntry,         \* m_exchangeDefinitions has no entry for an address
    NullEntry        \* it has one that holds nullptr

(* The members an object of a document has, as far as they are integers.   *)
GroupMembers ==
    {"k_value", "w_value", "t0_timeout", "t1_timeout", "t2_timeout",
     "t3_timeout"}
ApplicationMembers ==
    {"orig_addr", "ca_asdu_size", "ioaddr_size", "asdu_size", "time_sync",
     "gi_time", "gi_cycle", "gi_repeat_count", "cmd_parallel",
     "cmd_exec_timeout"}
Given(names, values) == UNION {[given -> values] : given \in SUBSET names}

(* "valid" is what the code tests before it takes anything from an object. *)
Points ==
    [kind : {"iec104", "other", "faulty"}, addr : Addresses,
     def : Definitions, trigger : BOOLEAN]
IsConnection(c) ==
    /\ c.valid \in BOOLEAN /\ c.port \in Int
    /\ c.flags \in Given({"conn", "start"}, BOOLEAN)
IsGroup(g) ==
    /\ g.valid \in BOOLEAN
    /\ \A i \in DOMAIN g.connections : IsConnection(g.connections[i])

ASSUME ConfigAssumption ==
    /\ CaOf \in [Addresses -> Int]
    /\ {NoEntry, NullEntry} \cap Definitions = {}
    /\ NoEntry # NullEntry
    /\ \A d \in Documents :
          /\ d.stack.valid \in BOOLEAN
          /\ \A i \in DOMAIN d.stack.groups : IsGroup(d.stack.groups[i])
          /\ d.exchange.valid \in BOOLEAN
          /\ d.exchange.points \in Seq(Points)
          /\ d.tls \in BOOLEAN

VARIABLES
    step,            \* where setJsonConfig() is, "ready" when it is not
    stack, exchange, \* the documents it was called with; of the TLS one
    tls,             \* whether the material can be taken from it
    next,            \* the group or element it imports next

    groups,          \* m_redundancyGroups
    settings,        \* m_origAddr ... m_cmdExecTimeout
    definition,      \* m_exchangeDefinitions
    triggers,        \* m_cgTriggeringTsAdresses
    listOfCAs,       \* m_listOfCAs; the order of the list means nothing
    complete         \* those of the three m_...ConfigComplete that are set

documents  == <<stack, exchange, tls, next>>
imported   == <<groups, settings>>
exchanged  == <<definition, triggers, listOfCAs>>
configVars == <<step, documents, imported, exchanged, complete>>

-----------------------------------------------------------------------------
(* Integer members: a value out of range leaves the default.               *)

Windows == 1..32767
Timers  == 1..255

GroupAllowed ==
    [k_value |-> Windows, w_value |-> Windows, t0_timeout |-> Timers,
     t1_timeout |-> Timers, t2_timeout |-> Timers, t3_timeout |-> Nat]

ApplicationAllowed ==
    [orig_addr |-> 0..255, ca_asdu_size |-> 1..2, ioaddr_size |-> 1..3,
     asdu_size |-> {0} \cup 11..253, time_sync |-> Nat, gi_time |-> Nat,
     gi_cycle |-> Nat, gi_repeat_count |-> Nat, cmd_parallel |-> Nat,
     cmd_exec_timeout |-> Nat]

GroupDefault ==
    [k_value |-> 12, w_value |-> 8, t0_timeout |-> 30, t1_timeout |-> 15,
     t2_timeout |-> 10, t3_timeout |-> 20]

ApplicationDefault ==
    [orig_addr |-> 0, ca_asdu_size |-> 2, ioaddr_size |-> 3, asdu_size |-> 0,
     time_sync |-> 0, gi_time |-> 0, gi_cycle |-> 0, gi_repeat_count |-> 2,
     cmd_parallel |-> 0, cmd_exec_timeout |-> 1000]

SettingUnchecked(given, m, allowed, default) ==
    \* faulty variant: any integer is taken
    IF m \in DOMAIN given THEN given[m] ELSE default

Setting(given, m, allowed, default) ==
    IF m \in DOMAIN given /\ given[m] \in allowed[m]
    THEN given[m] ELSE default

-----------------------------------------------------------------------------
(* The import of protocol_stack.                                           *)

Flag(c, name) == IF name \in DOMAIN c.flags THEN c.flags[name] ELSE TRUE

(* importRedGroupCon() ignores a connection without a valid srv_ip.        *)
AddConnection(list, c) ==
    IF c.valid
    THEN Append(list,
                [connId |-> Len(list), conn |-> Flag(c, "conn"),
                 start |-> Flag(c, "start"),
                 port |-> IF c.port \in 1..65635 THEN c.port ELSE 2404])
    ELSE list

RedGroup(g, index) ==
    [index |-> index,
     connections |-> FoldLeft(AddConnection, <<>>, g.connections),
     values |-> [m \in GroupMembers |->
                    Setting(g.given, m, GroupAllowed, GroupDefault[m])]]

(* importRedGroup() ignores a group without a name.                        *)
ImportGroup ==
    /\ step = "groups" /\ next <= Len(stack.groups)
    /\ groups' = LET g == stack.groups[next] IN
                 IF g.valid THEN Append(groups, RedGroup(g, Len(groups)))
                 ELSE groups
    /\ next' = next + 1
    /\ UNCHANGED <<step, stack, exchange, tls, settings, exchanged, complete>>

ImportApplication ==
    /\ step = "groups" /\ next > Len(stack.groups)
    /\ settings' = [m \in ApplicationMembers |->
                       Setting(stack.given, m, ApplicationAllowed,
                               settings[m])]
    /\ complete' = complete \cup {"protocol"}
    /\ step' = "exchange"
    /\ UNCHANGED <<documents, groups, exchanged>>

-----------------------------------------------------------------------------
(* The import of exchanged_data.                                           *)

NoDefinitions == [a \in Addresses |-> NoEntry]

Defined(a) == definition[a] \in Definitions

BeginExchange ==
    /\ step = "exchange"
    /\ definition' = NoDefinitions      \* deleteExchangeDefinitions()
    /\ complete' = complete \ {"exchange"}
    /\ next' = 1
    /\ step' = IF exchange.valid THEN "points" ELSE "tls"
    /\ UNCHANGED <<stack, exchange, tls, imported, triggers, listOfCAs>>

DefineFirst(p) ==   \* faulty variant: std::map::insert
    definition' = [definition EXCEPT ![p.addr] =
                      IF @ \in Definitions THEN @ ELSE p.def]

Define(p) == definition' = [definition EXCEPT ![p.addr] = p.def]

ImportPoint ==
    /\ step = "points" /\ next <= Len(exchange.points)
    /\ LET p == exchange.points[next] IN
       \/ /\ p.kind = "iec104"
          /\ Define(p)
          /\ triggers' = IF p.trigger THEN triggers \cup {p.addr}
                         ELSE triggers
          /\ next' = next + 1
          /\ UNCHANGED step
       \/ /\ p.kind = "other"
          /\ next' = next + 1
          /\ UNCHANGED <<step, definition, triggers>>
       \/ /\ p.kind = "faulty"
          /\ step' = "tls"
          /\ UNCHANGED <<next, definition, triggers>>
    /\ UNCHANGED <<stack, exchange, tls, imported, listOfCAs, complete>>

EndExchange ==
    /\ step = "points" /\ next > Len(exchange.points)
    /\ listOfCAs' = listOfCAs \cup
                       {CaOf[a] : a \in {b \in Addresses :
                                            definition[b] # NoEntry}}
    /\ complete' = complete \cup {"exchange"}
    /\ step' = "tls"
    /\ UNCHANGED <<documents, imported, definition, triggers>>

ImportTls ==
    /\ step = "tls"
    /\ complete' = IF tls THEN complete \cup {"tls"} ELSE complete \ {"tls"}
    /\ step' = "ready"
    /\ UNCHANGED <<documents, imported, exchanged>>

Import ==
    \/ ImportGroup \/ ImportApplication
    \/ BeginExchange \/ ImportPoint \/ EndExchange
    \/ ImportTls

-----------------------------------------------------------------------------
(* setJsonConfig() fills an IEC104ClientConfig of its own.                 *)

NewObjectKeepsLists ==   \* faulty variant: m_config is imported into again
    /\ groups' = <<>>
    /\ settings' = ApplicationDefault
    /\ complete' = {}
    /\ UNCHANGED exchanged

NewObject ==
    /\ groups' = <<>>
    /\ settings' = ApplicationDefault
    /\ definition' = NoDefinitions
    /\ triggers' = {}
    /\ listOfCAs' = {}
    /\ complete' = {}

SetJsonConfig(d) ==
    /\ step = "ready"
    /\ NewObject
    /\ stack' = d.stack
    /\ exchange' = d.exchange
    /\ tls' = d.tls
    /\ next' = 1
    /\ step' = IF d.stack.valid THEN "groups" ELSE "exchange"

-----------------------------------------------------------------------------
(* checkExchangeDataLayer(): the lookup by operator[] leaves an entry.     *)

ReportsMatching ==
    [M_SP_NA_1 |-> {"M_SP_TA_1", "M_SP_TB_1"},
     M_SP_TA_1 |-> {"M_SP_NA_1", "M_SP_TB_1"},
     M_SP_TB_1 |-> {"M_SP_NA_1", "M_SP_TA_1"},
     M_DP_NA_1 |-> {"M_DP_TA_1", "M_DP_TB_1"},
     M_DP_TA_1 |-> {"M_DP_NA_1", "M_DP_TB_1"},
     M_DP_TB_1 |-> {"M_DP_NA_1", "M_DP_TA_1"},
     M_ME_NA_1 |-> {"M_ME_TA_1", "M_ME_TD_1", "M_ME_ND_1"},
     M_ME_TA_1 |-> {"M_ME_NA_1", "M_ME_TD_1", "M_ME_ND_1"},
     M_ME_TD_1 |-> {"M_ME_TA_1", "M_ME_NA_1", "M_ME_ND_1"},
     M_ME_ND_1 |-> {"M_ME_TA_1", "M_ME_TD_1", "M_ME_NA_1"},
     M_ME_NB_1 |-> {"M_ME_TB_1", "M_ME_TE_1"},
     M_ME_TB_1 |-> {"M_ME_NB_1", "M_ME_TE_1"},
     M_ME_TE_1 |-> {"M_ME_TB_1", "M_ME_NB_1"},
     M_ME_NC_1 |-> {"M_ME_TC_1", "M_ME_TF_1"},
     M_ME_TC_1 |-> {"M_ME_NC_1", "M_ME_TF_1"},
     M_ME_TF_1 |-> {"M_ME_TC_1", "M_ME_NC_1"},
     M_ST_NA_1 |-> {"M_ST_TA_1", "M_ST_TB_1"},
     M_ST_TA_1 |-> {"M_ST_NA_1", "M_ST_TB_1"},
     M_ST_TB_1 |-> {"M_ST_TA_1", "M_ST_NA_1"}]

CommandsMatching ==
    [C_SC_NA_1 |-> {"C_SC_TA_1"}, C_SC_TA_1 |-> {"C_SC_NA_1"},
     C_DC_NA_1 |-> {"C_DC_TA_1"}, C_DC_TA_1 |-> {"C_DC_NA_1"},
     C_RC_NA_1 |-> {"C_RC_TA_1"}, C_RC_TA_1 |-> {"C_RC_NA_1"},
     C_SE_NA_1 |-> {"C_SE_TA_1"}, C_SE_TA_1 |-> {"C_SE_NA_1"},
     C_SE_NB_1 |-> {"C_SE_TB_1"},
     C_SE_TB_1 |-> {"C_SE_NB_1", "C_SE_TC_1"},   \* no break after this case
     C_SE_NC_1 |-> {"C_SE_TC_1"}, C_SE_TC_1 |-> {"C_SE_NC_1"}]

IsMessageTypeMatchingNoCommands(expected, received) ==
    \* faulty variant: no cases for the commands
    \/ expected = received
    \/ /\ expected \in DOMAIN ReportsMatching
       /\ received \in ReportsMatching[expected]

IsMessageTypeMatchingNoReports(expected, received) ==
    \* faulty variant: no cases for what is monitored
    \/ expected = received
    \/ /\ expected \in DOMAIN CommandsMatching
       /\ received \in CommandsMatching[expected]

IsMessageTypeMatching(expected, received) ==
    \/ expected = received
    \/ /\ expected \in DOMAIN ReportsMatching
       /\ received \in ReportsMatching[expected]
    \/ /\ expected \in DOMAIN CommandsMatching
       /\ received \in CommandsMatching[expected]

Accepts(a, type) ==
    Defined(a) /\ IsMessageTypeMatching(definition[a].type, type)

Lookup(a) ==
    /\ definition' = [definition EXCEPT ![a] =
                         IF @ = NoEntry THEN NullEntry ELSE @]
    /\ UNCHANGED <<step, documents, imported, triggers, listOfCAs, complete>>

-----------------------------------------------------------------------------
(* The component by itself: documents are imported one after the other,    *)
(* and looked up in between.                                               *)

ConfigInit ==
    /\ step = "ready"
    /\ stack = [valid |-> FALSE]
    /\ exchange = [valid |-> FALSE, points |-> <<>>]
    /\ tls = FALSE
    /\ next = 1
    /\ groups = <<>>
    /\ settings = ApplicationDefault
    /\ definition = NoDefinitions
    /\ triggers = {}
    /\ listOfCAs = {}
    /\ complete = {}

ConfigNext ==
    \/ \E d \in Documents : SetJsonConfig(d)
    \/ Import
    \/ step = "ready" /\ \E a \in Addresses : Lookup(a)

ConfigSpec == ConfigInit /\ [][ConfigNext]_configVars

ConfigTypeOK ==
    /\ step \in {"groups", "exchange", "points", "tls", "ready"}
    /\ exchange.points \in Seq(Points)
    /\ next \in Nat \ {0}
    /\ \A i \in DOMAIN groups :
          \A m \in GroupMembers : groups[i].values[m] \in GroupAllowed[m]
    /\ \A m \in ApplicationMembers : settings[m] \in ApplicationAllowed[m]
    /\ definition \in [Addresses -> Definitions \cup {NoEntry, NullEntry}]
    /\ triggers \subseteq Addresses
    /\ listOfCAs \subseteq {CaOf[a] : a \in Addresses}
    /\ complete \subseteq {"protocol", "exchange", "tls"}

-----------------------------------------------------------------------------
(* Properties.                                                             *)

(* The elements imported of the present document: all of them, or those in *)
(* front of the first faulty one.                                          *)
Taken ==
    IF step \in {"groups", "exchange"} \/ ~exchange.valid THEN {}
    ELSE {i \in 1..next-1 : exchange.points[i].kind = "iec104"}

(* The definition of an address is that of the last element taken for it,  *)
(* whatever was looked up since: importExchangeConfig() overrides, and the *)
(* entries checkExchangeDataLayer() leaves are no definitions.             *)
LastDefinitionWins ==
    \A a \in Addresses :
        LET at == {i \in Taken : exchange.points[i].addr = a} IN
        IF at = {} THEN ~Defined(a)
        ELSE \E i \in at : /\ \A j \in at : j <= i
                           /\ definition[a] = exchange.points[i].def

(* The two lists made beside the definitions fit them: an address that     *)
(* triggers a GI is defined, and m_listOfCAs, which decides what one GI    *)
(* per CA interrogates, has the CAs of all definitions, or nothing at all  *)
(* when the import ended early.                                            *)
ListsMatchDefinitions ==
    /\ \A a \in triggers : Defined(a)
    /\ listOfCAs = IF "exchange" \in complete
                   THEN {CaOf[a] : a \in {b \in Addresses : Defined(b)}}
                   ELSE {}

(* The types that carry the same information, with or without a time tag.  *)
Informations ==
    {{"M_SP_NA_1", "M_SP_TA_1", "M_SP_TB_1"},
     {"M_DP_NA_1", "M_DP_TA_1", "M_DP_TB_1"},
     {"M_ME_NA_1", "M_ME_TA_1", "M_ME_TD_1", "M_ME_ND_1"},
     {"M_ME_NB_1", "M_ME_TB_1", "M_ME_TE_1"},
     {"M_ME_NC_1", "M_ME_TC_1", "M_ME_TF_1"},
     {"M_ST_NA_1", "M_ST_TA_1", "M_ST_TB_1"},
     {"C_SC_NA_1", "C_SC_TA_1"}, {"C_DC_NA_1", "C_DC_TA_1"},
     {"C_RC_NA_1", "C_RC_TA_1"}, {"C_SE_NA_1", "C_SE_TA_1"},
     {"C_SE_NB_1", "C_SE_TB_1"}, {"C_SE_NC_1", "C_SE_TC_1"}}

(* A defined address accepts exactly the types of its information, but for *)
(* one pair: the missing break lets the definition of a scaled setpoint    *)
(* with time accept a short one with time.                                 *)
AcceptedIsSameInformation ==
    \A a \in Addresses : Defined(a) =>
        LET type == definition[a].type IN
        \A info \in Informations : \A t \in info :
            Accepts(a, t) <=> \/ type \in info
                              \/ type = "C_SE_TB_1" /\ t = "C_SE_TC_1"
=============================================================================
