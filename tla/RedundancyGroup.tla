-------------------------- MODULE RedundancyGroup --------------------------
(***************************************************************************)
(* What the connection management promises to the outstation: of the       *)
(* connections of a client at most one carries data (has been sent         *)
(* STARTDT), it is the one the client considers active, and the client     *)
(* changes its mind only after that connection has stopped carrying.  Once *)
(* the client is stopping nothing new is started.                          *)
(***************************************************************************)
CONSTANTS
    Connections,
    None         \* no connection: not an element of Connections

VARIABLES owner,      \* the active connection, or None
          carrying,   \* the connections with a started data transfer
          stopping    \* the client has left its monitoring loop

rgVars == <<owner, carrying, stopping>>

RGInit == owner = None /\ carrying = {} /\ stopping = FALSE

(* Choosing a connection; STARTDT may fail to be sent on it.               *)
Choose(c) ==
    /\ ~stopping
    /\ owner = None /\ carrying = {}
    /\ owner' = c
    /\ carrying' \in {{}, {c}}
    /\ UNCHANGED stopping

(* A session ends, or the client gives its handle up.                      *)
Lose ==
    /\ carrying # {}
    /\ carrying' = {}
    /\ UNCHANGED <<owner, stopping>>

Release ==
    /\ ~stopping
    /\ owner # None /\ carrying = {}
    /\ owner' = None
    /\ UNCHANGED <<carrying, stopping>>

StopGroup ==
    /\ ~stopping
    /\ stopping' = TRUE
    /\ owner' = None
    /\ UNCHANGED carrying

RGNext == (\E c \in Connections : Choose(c)) \/ Lose \/ Release \/ StopGroup

RGSpec == RGInit /\ [][RGNext]_rgVars
=============================================================================
