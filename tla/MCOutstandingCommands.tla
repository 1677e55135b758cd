----------------------- MODULE MCOutstandingCommands -----------------------
EXTENDS OutstandingCommands, TLC

(* Commands, senders and connections are interchangeable; used where only  *)
(* safety is checked.                                                      *)
Interchangeable ==
    Permutations(Commands) \cup Permutations(Senders) \cup Permutations(Conns)
=============================================================================
