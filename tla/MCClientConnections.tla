----------------------- MODULE MCClientConnections -----------------------
(* The behaviours in which IEC104Client::stop() is never called: without   *)
(* fairness on it, they are behaviours of Spec.                            *)
EXTENDS ClientConnections

SpecWhileRunning == Init /\ [][Next /\ running']_vars /\ Fairness
=============================================================================
