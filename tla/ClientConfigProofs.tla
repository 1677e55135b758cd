------------------------- MODULE ClientConfigProofs -------------------------
(***************************************************************************)
(* Proofs about ClientConfig, for all documents, addresses and             *)
(* definitions: type correctness, and what the imported configuration      *)
(* promises at every step of the import and after any number of lookups.   *)
(***************************************************************************)
EXTENDS ClientConfig, SequenceTheorems, TLAPS

(* The import in progress: an exchanged_data document is walked through    *)
(* only if it parses, the lists of a new object are empty until then, and  *)
(* nobody looks anything up in an object that is being filled.             *)
ImportInv ==
    /\ \E T : groups \in Seq(T)
    /\ step = "points" => exchange.valid
    /\ step \notin {"groups", "exchange"} /\ exchange.valid =>
           next <= Len(exchange.points) + 1
    /\ step \in {"groups", "exchange"} => triggers = {}
    /\ step \in {"groups", "exchange", "points"} => "exchange" \notin complete
    /\ step # "ready" => \A a \in Addresses : definition[a] # NullEntry

ConfigInv ==
    /\ ConfigTypeOK
    /\ ImportInv
    /\ LastDefinitionWins
    /\ ListsMatchDefinitions

-----------------------------------------------------------------------------
(* What the settings of an object of a document may become.                *)

(* A setting that was in its range stays in it, whatever a document gives. *)
LEMMA SettingInRange ==
    ASSUME NEW given, NEW m, NEW allowed, NEW default,
           default \in allowed[m]
    PROVE  Setting(given, m, allowed, default) \in allowed[m]
BY DEF Setting

LEMMA GroupDefaults ==
    \A m \in GroupMembers : GroupDefault[m] \in GroupAllowed[m]
<1>1. /\ GroupDefault["k_value"] \in GroupAllowed["k_value"]
      /\ GroupDefault["w_value"] \in GroupAllowed["w_value"]
      /\ GroupDefault["t0_timeout"] \in GroupAllowed["t0_timeout"]
      /\ GroupDefault["t1_timeout"] \in GroupAllowed["t1_timeout"]
      /\ GroupDefault["t2_timeout"] \in GroupAllowed["t2_timeout"]
      /\ GroupDefault["t3_timeout"] \in GroupAllowed["t3_timeout"]
  BY DEF GroupDefault, GroupAllowed, Windows, Timers
<1> QED BY <1>1, Zenon DEF GroupMembers

LEMMA ApplicationDefaults ==
    \A m \in ApplicationMembers :
        ApplicationDefault[m] \in ApplicationAllowed[m]
BY DEF ApplicationMembers, ApplicationDefault, ApplicationAllowed

(* A list of groups grows by one whose values are in their ranges.         *)
LEMMA GroupAppended ==
    ASSUME NEW T, groups \in Seq(T), NEW g
    PROVE  LET r == RedGroup(g, Len(groups)) IN
           /\ Append(groups, r) \in Seq(T \cup {r})
           /\ DOMAIN Append(groups, r) = 1..Len(groups) + 1
           /\ DOMAIN groups = 1..Len(groups)
           /\ Append(groups, r)[Len(groups) + 1] = r
           /\ \A i \in 1..Len(groups) : Append(groups, r)[i] = groups[i]
           /\ \A m \in GroupMembers : r.values[m] \in GroupAllowed[m]
<1> DEFINE r == RedGroup(g, Len(groups))
<1> HIDE DEF r
<1>1. groups \in Seq(T \cup {r})
  BY SeqMonotonic
<1>2. /\ Append(groups, r) \in Seq(T \cup {r})
      /\ Len(Append(groups, r)) = Len(groups) + 1
      /\ Append(groups, r)[Len(groups) + 1] = r
      /\ \A i \in 1..Len(groups) : Append(groups, r)[i] = groups[i]
  BY <1>1, AppendProperties
<1>3. /\ DOMAIN Append(groups, r) = 1..Len(groups) + 1
      /\ DOMAIN groups = 1..Len(groups)
  BY <1>1, <1>2, LenProperties
<1>4. ASSUME NEW m \in GroupMembers PROVE r.values[m] \in GroupAllowed[m]
  <2>1. r.values[m] = Setting(g.given, m, GroupAllowed, GroupDefault[m])
    BY DEF r, RedGroup
  <2> QED BY <2>1, GroupDefaults, SettingInRange
<1> QED BY <1>2, <1>3, <1>4 DEF r

-----------------------------------------------------------------------------
(* Every step keeps the invariant.                                         *)

LEMMA ConfigInitInv == ConfigInit => ConfigInv
<1> SUFFICES ASSUME ConfigInit PROVE ConfigInv
  OBVIOUS
<1>1. ConfigTypeOK
  BY ApplicationDefaults
     DEF ConfigInit, ConfigTypeOK, NoDefinitions
<1>2. ImportInv
  BY EmptySeq DEF ConfigInit, ImportInv
<1>3. \A a \in Addresses : ~Defined(a)
  BY ConfigAssumption DEF ConfigInit, NoDefinitions, Defined
<1>4. LastDefinitionWins
  BY <1>3 DEF ConfigInit, LastDefinitionWins, Taken
<1>5. ListsMatchDefinitions
  BY <1>3 DEF ConfigInit, ListsMatchDefinitions
<1> QED BY <1>1, <1>2, <1>4, <1>5 DEF ConfigInv

(* No definition, no trigger and no CA: true of an object just made.       *)
LEMMA SetJsonConfigInv ==
    ASSUME ConfigInv, NEW d \in Documents, SetJsonConfig(d)
    PROVE  ConfigInv'
<1> USE DEF SetJsonConfig, NewObject
<1>1. /\ d.exchange.points \in Seq(Points)
      /\ step' \in {"groups", "exchange"}
  BY ConfigAssumption
<1>2. ConfigTypeOK'
  BY <1>1, ApplicationDefaults DEF ConfigTypeOK, NoDefinitions
<1>3. \A a \in Addresses : /\ ~Defined(a)'
                           /\ definition'[a] # NullEntry
  BY ConfigAssumption DEF NoDefinitions, Defined
<1>4. ImportInv'
  BY <1>1, <1>3, EmptySeq DEF ImportInv
<1>5. LastDefinitionWins'
  BY <1>3 DEF LastDefinitionWins, Taken
<1>6. ListsMatchDefinitions'
  BY <1>3 DEF ListsMatchDefinitions
<1> QED BY <1>2, <1>4, <1>5, <1>6 DEF ConfigInv

(* protocol_stack: nothing but the groups and the settings changes.        *)
LEMMA ImportStackInv ==
    ASSUME ConfigInv, ImportGroup \/ ImportApplication
    PROVE  ConfigInv'
<1>1. UNCHANGED <<definition, triggers, listOfCAs, exchange>>
  BY DEF ImportGroup, ImportApplication, documents, exchanged
<1>2. /\ step = "groups" /\ step' \in {"groups", "exchange"}
      /\ "exchange" \notin complete /\ "exchange" \notin complete'
      /\ next' \in Nat \ {0}
      /\ complete' \subseteq {"protocol", "exchange", "tls"}
  BY DEF ConfigInv, ImportInv, ConfigTypeOK, ImportGroup,
         ImportApplication, documents
<1>3. /\ \E T : groups' \in Seq(T)
      /\ \A i \in DOMAIN groups' :
            \A m \in GroupMembers : groups'[i].values[m] \in GroupAllowed[m]
  <2>1. PICK T : groups \in Seq(T)
    BY DEF ConfigInv, ImportInv
  <2>2. CASE UNCHANGED groups
    BY <2>1, <2>2 DEF ConfigInv, ConfigTypeOK
  <2>3. CASE groups' = Append(groups,
                              RedGroup(stack.groups[next], Len(groups)))
    <3> DEFINE r == RedGroup(stack.groups[next], Len(groups))
    <3>1. /\ groups' \in Seq(T \cup {r})
          /\ DOMAIN groups' = 1..Len(groups) + 1
          /\ DOMAIN groups = 1..Len(groups)
          /\ groups'[Len(groups) + 1] = r
          /\ \A i \in 1..Len(groups) : groups'[i] = groups[i]
          /\ \A m \in GroupMembers : r.values[m] \in GroupAllowed[m]
      BY <2>1, <2>3, GroupAppended
    <3>2. Len(groups) \in Nat
      BY <2>1, LenProperties
    <3> HIDE DEF r
    <3> QED BY <3>1, <3>2 DEF ConfigInv, ConfigTypeOK
  <2> QED BY <2>2, <2>3 DEF ImportGroup, ImportApplication
<1>4. \A m \in ApplicationMembers : settings'[m] \in ApplicationAllowed[m]
  <2>1. CASE UNCHANGED settings
    BY <2>1 DEF ConfigInv, ConfigTypeOK
  <2>2. CASE ImportApplication
    <3> SUFFICES ASSUME NEW m \in ApplicationMembers
                 PROVE  settings'[m] \in ApplicationAllowed[m]
      OBVIOUS
    <3>1. settings'[m] = Setting(stack.given, m, ApplicationAllowed,
                                 settings[m])
      BY <2>2 DEF ImportApplication
    <3> QED BY <3>1, SettingInRange DEF ConfigInv, ConfigTypeOK
  <2> QED BY <2>1, <2>2 DEF ImportGroup
<1>5. ConfigTypeOK'
  BY <1>1, <1>2, <1>3, <1>4 DEF ConfigInv, ConfigTypeOK
<1>6. ImportInv'
  BY <1>1, <1>2, <1>3 DEF ConfigInv, ImportInv
<1>7. LastDefinitionWins'
  BY <1>1, <1>2 DEF ConfigInv, LastDefinitionWins, Taken, Defined
<1>8. ListsMatchDefinitions'
  BY <1>1, <1>2 DEF ConfigInv, ListsMatchDefinitions, Defined
<1> QED BY <1>5, <1>6, <1>7, <1>8 DEF ConfigInv

LEMMA BeginExchangeInv ==
    ASSUME ConfigInv, BeginExchange
    PROVE  ConfigInv'
<1> USE DEF BeginExchange, imported
<1>1. \A a \in Addresses : /\ ~Defined(a)'
                           /\ definition'[a] # NullEntry
  BY ConfigAssumption DEF NoDefinitions, Defined
<1>2. ConfigTypeOK'
  BY DEF ConfigInv, ConfigTypeOK, NoDefinitions
<1>3. ImportInv'
  <2>1. exchange.points \in Seq(Points) /\ Len(exchange.points) \in Nat
    BY LenProperties DEF ConfigInv, ConfigTypeOK
  <2> QED BY <1>1, <2>1 DEF ConfigInv, ImportInv
<1>4. LastDefinitionWins'
  BY <1>1 DEF LastDefinitionWins, Taken
<1>5. ListsMatchDefinitions'
  BY <1>1 DEF ConfigInv, ImportInv, ListsMatchDefinitions
<1> QED BY <1>2, <1>3, <1>4, <1>5 DEF ConfigInv

(* An element that defines a data object is the last one taken for its     *)
(* address, and for no other.                                              *)
LEMMA DefiningPointInv ==
    ASSUME ConfigInv, ImportPoint, exchange.points[next].kind = "iec104"
    PROVE  ConfigInv'
<1> DEFINE p == exchange.points[next]
<1>1. /\ next \in Nat \ {0} /\ next \in 1..Len(exchange.points)
      /\ Len(exchange.points) \in Nat
  BY LenProperties DEF ConfigInv, ConfigTypeOK, ImportPoint
<1>2. p \in Points
  BY <1>1, ElementOfSeq DEF ConfigInv, ConfigTypeOK
<1>3. /\ p.addr \in Addresses /\ p.def \in Definitions
      /\ p.kind = "iec104"
  BY <1>2 DEF Points
<1>4. /\ definition' = [definition EXCEPT ![p.addr] = p.def]
      /\ triggers' = IF p.trigger THEN triggers \cup {p.addr} ELSE triggers
      /\ next' = next + 1
      /\ step = "points" /\ step' = "points"
      /\ UNCHANGED <<exchange, groups, settings, listOfCAs, complete>>
  BY <1>3 DEF ImportPoint, Define, imported
<1>5. definition \in [Addresses -> Definitions \cup {NoEntry, NullEntry}]
  BY DEF ConfigInv, ConfigTypeOK
<1> HIDE DEF p
<1>6. \A a \in Addresses :
         definition'[a] = IF a = p.addr THEN p.def ELSE definition[a]
  BY <1>3, <1>4, <1>5
<1>7. \A a \in Addresses : Defined(a)' <=> a = p.addr \/ Defined(a)
  BY <1>3, <1>6 DEF Defined
<1>8. ConfigTypeOK'
  BY <1>1, <1>3, <1>4, <1>5 DEF ConfigInv, ConfigTypeOK
<1>9. ImportInv'
  BY <1>1, <1>3, <1>4, <1>6, ConfigAssumption DEF ConfigInv, ImportInv
<1>10. LastDefinitionWins'
  <2>1. /\ Taken = {i \in 1..next-1 : exchange.points[i].kind = "iec104"}
        /\ Taken' = {i \in 1..next : exchange.points[i].kind = "iec104"}
    BY <1>1, <1>4 DEF ConfigInv, ImportInv, Taken
  <2>2. Taken' = Taken \cup {next}
    BY <1>1, <1>3, <2>1 DEF p
  <2> SUFFICES ASSUME NEW a \in Addresses
               PROVE  LET at == {i \in Taken' :
                                    exchange.points[i].addr = a} IN
                      IF at = {} THEN ~Defined(a)'
                      ELSE \E i \in at :
                              /\ \A j \in at : j <= i
                              /\ definition'[a] = exchange.points[i].def
    BY <1>4 DEF LastDefinitionWins
  <2>3. CASE a = p.addr
    <3>1. next \in {i \in Taken' : exchange.points[i].addr = a}
      BY <2>2, <2>3 DEF p
    <3>2. \A j \in Taken' : j <= next
      BY <1>1, <2>1
    <3>3. definition'[a] = exchange.points[next].def
      BY <1>6, <2>3 DEF p
    <3> QED BY <3>1, <3>2, <3>3
  <2>4. CASE a # p.addr
    <3>1. {i \in Taken' : exchange.points[i].addr = a}
              = {i \in Taken : exchange.points[i].addr = a}
      BY <2>2, <2>4 DEF p
    <3>2. definition'[a] = definition[a] /\ Defined(a)' = Defined(a)
      BY <1>6, <2>4 DEF Defined
    <3> QED BY <3>1, <3>2 DEF ConfigInv, LastDefinitionWins
  <2> QED BY <2>3, <2>4
<1>11. ListsMatchDefinitions'
  <2>1. /\ "exchange" \notin complete /\ listOfCAs = {}
    BY <1>4 DEF ConfigInv, ImportInv, ListsMatchDefinitions
  <2>2. \A a \in triggers' : Defined(a)'
    BY <1>3, <1>4, <1>7 DEF ConfigInv, ConfigTypeOK, ListsMatchDefinitions
  <2> QED BY <1>4, <2>1, <2>2 DEF ListsMatchDefinitions
<1> QED BY <1>8, <1>9, <1>10, <1>11 DEF ConfigInv

(* Any other element defines nothing.                                      *)
LEMMA OtherPointInv ==
    ASSUME ConfigInv, ImportPoint, exchange.points[next].kind # "iec104"
    PROVE  ConfigInv'
<1>1. /\ step = "points" /\ step' \in {"points", "tls"}
      /\ next' \in {next, next + 1}
      /\ UNCHANGED <<exchange, groups, settings, definition, triggers,
                     listOfCAs, complete>>
  BY DEF ImportPoint, imported
<1>2. next \in Nat \ {0} /\ next' \in Nat \ {0}
  BY <1>1 DEF ConfigInv, ConfigTypeOK
<1>3. ConfigTypeOK'
  BY <1>1, <1>2 DEF ConfigInv, ConfigTypeOK
<1>4. ImportInv'
  <2>1. next' <= Len(exchange.points) + 1
    BY <1>1, <1>2, LenProperties
       DEF ConfigInv, ConfigTypeOK, ImportInv, ImportPoint
  <2> QED BY <1>1, <2>1 DEF ConfigInv, ImportInv
<1>5. Taken' = Taken
  <2>1. /\ Taken = {i \in 1..next-1 : exchange.points[i].kind = "iec104"}
        /\ Taken' = {i \in 1..next'-1 : exchange.points[i].kind = "iec104"}
    BY <1>1 DEF ConfigInv, ImportInv, Taken
  <2> QED BY <1>1, <1>2, <2>1
<1>6. LastDefinitionWins'
  BY <1>1, <1>5 DEF ConfigInv, LastDefinitionWins, Defined
<1>7. ListsMatchDefinitions'
  BY <1>1 DEF ConfigInv, ListsMatchDefinitions, Defined
<1> QED BY <1>3, <1>4, <1>6, <1>7 DEF ConfigInv

(* All CAs are collected when nothing was looked up yet.                   *)
LEMMA EndExchangeInv ==
    ASSUME ConfigInv, EndExchange
    PROVE  ConfigInv'
<1>1. /\ step = "points" /\ step' = "tls"
      /\ complete' = complete \cup {"exchange"}
      /\ UNCHANGED <<exchange, next, groups, settings, definition, triggers>>
  BY DEF EndExchange, documents, imported
<1>2. \A a \in Addresses : definition[a] # NoEntry <=> Defined(a)
  BY <1>1, ConfigAssumption
     DEF ConfigInv, ConfigTypeOK, ImportInv, Defined
<1>3. listOfCAs = {}
  BY <1>1 DEF ConfigInv, ImportInv, ListsMatchDefinitions
<1>4. listOfCAs' = {CaOf[a] : a \in {b \in Addresses : Defined(b)}}
  BY <1>2, <1>3 DEF EndExchange
<1>5. \A a \in Addresses : Defined(a)' <=> Defined(a)
  BY <1>1 DEF Defined
<1>6. ConfigTypeOK'
  BY <1>1, <1>4 DEF ConfigInv, ConfigTypeOK
<1>7. ImportInv'
  BY <1>1 DEF ConfigInv, ImportInv
<1>8. LastDefinitionWins'
  BY <1>1, <1>5 DEF ConfigInv, ImportInv, LastDefinitionWins, Taken
<1>9. ListsMatchDefinitions'
  BY <1>1, <1>4, <1>5 DEF ConfigInv, ConfigTypeOK, ListsMatchDefinitions
<1> QED BY <1>6, <1>7, <1>8, <1>9 DEF ConfigInv

LEMMA ImportTlsInv ==
    ASSUME ConfigInv, ImportTls
    PROVE  ConfigInv'
<1>1. /\ step = "tls" /\ step' = "ready"
      /\ complete' = IF tls THEN complete \cup {"tls"}
                     ELSE complete \ {"tls"}
      /\ UNCHANGED <<exchange, next, groups, settings, definition, triggers,
                     listOfCAs>>
  BY DEF ImportTls, documents, imported, exchanged
<1>2. ConfigTypeOK'
  BY <1>1 DEF ConfigInv, ConfigTypeOK
<1>3. ImportInv'
  BY <1>1 DEF ConfigInv, ImportInv
<1>4. LastDefinitionWins'
  BY <1>1 DEF ConfigInv, LastDefinitionWins, Taken, Defined
<1>5. ListsMatchDefinitions'
  <2>1. "exchange" \in complete' <=> "exchange" \in complete
    BY <1>1
  <2> QED BY <1>1, <2>1 DEF ConfigInv, ListsMatchDefinitions, Defined
<1> QED BY <1>2, <1>3, <1>4, <1>5 DEF ConfigInv

LEMMA TakenArePoints ==
    ASSUME ConfigInv, NEW i \in Taken
    PROVE  exchange.points[i].def \in Definitions
<1>1. /\ step \notin {"groups", "exchange"} /\ exchange.valid
      /\ i \in 1..next-1 /\ exchange.points[i].kind = "iec104"
      /\ next \in Nat /\ next <= Len(exchange.points) + 1
      /\ Len(exchange.points) \in Nat
  BY LenProperties DEF ConfigInv, ConfigTypeOK, ImportInv, Taken
<1>2. exchange.points[i] \in Points
  BY <1>1, ElementOfSeq DEF ConfigInv, ConfigTypeOK
<1> QED BY <1>2 DEF Points

(* A lookup leaves an entry, but no definition.                            *)
LEMMA LookupInv ==
    ASSUME ConfigInv, step = "ready", NEW a \in Addresses, Lookup(a)
    PROVE  /\ ConfigInv'
           /\ \A b \in Addresses : /\ Defined(b)' <=> Defined(b)
                                   /\ Defined(b) => UNCHANGED definition[b]
<1>1. /\ definition' = [definition EXCEPT ![a] =
                           IF @ = NoEntry THEN NullEntry ELSE @]
      /\ UNCHANGED <<step, exchange, next, groups, settings, triggers,
                     listOfCAs, complete>>
  BY DEF Lookup, documents, imported
<1>2. definition \in [Addresses -> Definitions \cup {NoEntry, NullEntry}]
  BY DEF ConfigInv, ConfigTypeOK
<1>3. \A b \in Addresses : /\ Defined(b)' <=> Defined(b)
                           /\ Defined(b) => UNCHANGED definition[b]
  BY <1>1, <1>2, ConfigAssumption DEF Defined
<1>4. ConfigTypeOK'
  BY <1>1, <1>2 DEF ConfigInv, ConfigTypeOK
<1>5. ImportInv'
  BY <1>1 DEF ConfigInv, ImportInv
<1>6. LastDefinitionWins'
  <2>1. Taken' = Taken
    BY <1>1 DEF Taken
  <2> SUFFICES ASSUME NEW b \in Addresses
               PROVE  LET at == {i \in Taken :
                                    exchange.points[i].addr = b} IN
                      IF at = {} THEN ~Defined(b)'
                      ELSE \E i \in at :
                              /\ \A j \in at : j <= i
                              /\ definition'[b] = exchange.points[i].def
    BY <1>1, <2>1 DEF LastDefinitionWins
  <2>2. CASE Defined(b)
    BY <1>3, <2>2 DEF ConfigInv, LastDefinitionWins
  <2>3. CASE ~Defined(b)
    <3>1. \A i \in Taken : exchange.points[i].def \in Definitions
      BY TakenArePoints
    <3>2. {i \in Taken : exchange.points[i].addr = b} = {}
      BY <2>3, <3>1 DEF ConfigInv, LastDefinitionWins, Defined
    <3> QED BY <1>3, <2>3, <3>2
  <2> QED BY <2>2, <2>3
<1>7. ListsMatchDefinitions'
  BY <1>1, <1>3 DEF ConfigInv, ConfigTypeOK, ListsMatchDefinitions
<1> QED BY <1>3, <1>4, <1>5, <1>6, <1>7 DEF ConfigInv

-----------------------------------------------------------------------------
(* The table of isMessageTypeMatching().                                   *)

ReportsOf(type, t) ==
    /\ type \in DOMAIN ReportsMatching
    /\ t \in ReportsMatching[type]

CommandsOf(type, t) ==
    /\ type \in DOMAIN CommandsMatching
    /\ t \in CommandsMatching[type]

SameOf(info, type, t) == type \in info /\ t \in info /\ type # t

LEMMA MatchingReports ==
    ASSUME NEW type, NEW t
    PROVE  ReportsOf(type, t) <=>
             \/ SameOf({"M_SP_NA_1", "M_SP_TA_1", "M_SP_TB_1"}, type, t)
             \/ SameOf({"M_DP_NA_1", "M_DP_TA_1", "M_DP_TB_1"}, type, t)
             \/ SameOf({"M_ME_NA_1", "M_ME_TA_1", "M_ME_TD_1",
                        "M_ME_ND_1"}, type, t)
             \/ SameOf({"M_ME_NB_1", "M_ME_TB_1", "M_ME_TE_1"}, type, t)
             \/ SameOf({"M_ME_NC_1", "M_ME_TC_1", "M_ME_TF_1"}, type, t)
             \/ SameOf({"M_ST_NA_1", "M_ST_TA_1", "M_ST_TB_1"}, type, t)
BY SMTT(60) DEF ReportsOf, ReportsMatching, SameOf

LEMMA MatchingCommands ==
    ASSUME NEW type, NEW t
    PROVE  CommandsOf(type, t) <=>
             \/ SameOf({"C_SC_NA_1", "C_SC_TA_1"}, type, t)
             \/ SameOf({"C_DC_NA_1", "C_DC_TA_1"}, type, t)
             \/ SameOf({"C_RC_NA_1", "C_RC_TA_1"}, type, t)
             \/ SameOf({"C_SE_NA_1", "C_SE_TA_1"}, type, t)
             \/ SameOf({"C_SE_NB_1", "C_SE_TB_1"}, type, t)
             \/ SameOf({"C_SE_NC_1", "C_SE_TC_1"}, type, t)
             \/ type = "C_SE_TB_1" /\ t = "C_SE_TC_1"
BY SMTT(60) DEF CommandsOf, CommandsMatching, SameOf

(* A type received matches the definition's exactly if it carries the same *)
(* information, but for the pair that the missing break adds.              *)
LEMMA MatchingIsSameInformation ==
    ASSUME NEW type, NEW info \in Informations, NEW t \in info
    PROVE  IsMessageTypeMatching(type, t)
               <=> \/ type \in info
                   \/ type = "C_SE_TB_1" /\ t = "C_SE_TC_1"
<1>1. IsMessageTypeMatching(type, t)
          <=> type = t \/ ReportsOf(type, t) \/ CommandsOf(type, t)
  BY DEF IsMessageTypeMatching, ReportsOf, CommandsOf
<1>2. \A other \in Informations :
         SameOf(other, type, t) => type \in info
  BY SMTT(60) DEF SameOf, Informations
<1>3. type \in info => type = t \/ SameOf(info, type, t)
  BY DEF SameOf
<1> QED
  BY <1>1, <1>2, <1>3, MatchingReports, MatchingCommands, SMTT(60) DEF Informations

(* The invariant implies the two properties that are not parts of it.      *)
LEMMA AcceptedFollows == AcceptedIsSameInformation
<1> SUFFICES ASSUME NEW a \in Addresses, Defined(a),
                    NEW info \in Informations, NEW t \in info
             PROVE  Accepts(a, t)
                        <=> \/ definition[a].type \in info
                            \/ /\ definition[a].type = "C_SE_TB_1"
                               /\ t = "C_SE_TC_1"
  BY DEF AcceptedIsSameInformation
<1> QED BY MatchingIsSameInformation DEF Accepts

-----------------------------------------------------------------------------
(* The theorems.                                                           *)

LEMMA ConfigStepInv ==
    ASSUME ConfigInv, [ConfigNext]_configVars
    PROVE  ConfigInv'
<1>1. CASE \E d \in Documents : SetJsonConfig(d)
  BY <1>1, SetJsonConfigInv
<1>2. CASE ImportGroup \/ ImportApplication
  BY <1>2, ImportStackInv
<1>3. CASE BeginExchange
  BY <1>3, BeginExchangeInv
<1>4. CASE ImportPoint
  BY <1>4, DefiningPointInv, OtherPointInv
<1>5. CASE EndExchange
  BY <1>5, EndExchangeInv
<1>6. CASE ImportTls
  BY <1>6, ImportTlsInv
<1>7. CASE step = "ready" /\ \E a \in Addresses : Lookup(a)
  BY <1>7, LookupInv
<1>8. CASE UNCHANGED configVars
  BY <1>8 DEF configVars, documents, imported, exchanged, ConfigInv,
              ConfigTypeOK, ImportInv, LastDefinitionWins, Taken, Defined,
              ListsMatchDefinitions
<1> QED
  BY <1>1, <1>2, <1>3, <1>4, <1>5, <1>6, <1>7, <1>8 DEF ConfigNext, Import

(* The configuration keeps its types: every setting stays in its range,    *)
(* whatever integers the documents give for it.                            *)
THEOREM ConfigTypeCorrect == ConfigSpec => []ConfigTypeOK
<1>1. ConfigInv => ConfigTypeOK
  BY DEF ConfigInv
<1> QED
  BY <1>1, ConfigInitInv, ConfigStepInv, PTL DEF ConfigSpec

(* The last element of exchanged_data that defines an address decides.     *)
THEOREM ConfigLastDefinitionWins == ConfigSpec => []LastDefinitionWins
<1>1. ConfigInv => LastDefinitionWins
  BY DEF ConfigInv
<1> QED
  BY <1>1, ConfigInitInv, ConfigStepInv, PTL DEF ConfigSpec

(* The triggers and the list of CAs fit the definitions.                   *)
THEOREM ConfigListsMatch == ConfigSpec => []ListsMatchDefinitions
<1>1. ConfigInv => ListsMatchDefinitions
  BY DEF ConfigInv
<1> QED
  BY <1>1, ConfigInitInv, ConfigStepInv, PTL DEF ConfigSpec

(* Which types an address accepts.                                         *)
THEOREM ConfigAccepts == ConfigSpec => []AcceptedIsSameInformation
BY AcceptedFollows, PTL
=============================================================================
