---------------------------- MODULE CommandLeases ---------------------------
(***************************************************************************)
(* What the client promises of the commands it sends: each holds one of    *)
(* Limit leases, from before it is sent until it is answered, fails or     *)
(* expires.  A lease lasts Duration polls and is taken back by the next    *)
(* one; a confirmation of the command, and nothing else, starts it again,  *)
(* once.  None is kept, nor anything sent, once the client has stopped.    *)
(***************************************************************************)
EXTENDS Integers, FiniteSets

CONSTANTS
    Commands,
    Limit,       \* 0: no limit
    Duration

VARIABLES entering,   \* commands admitted, which no answer finds yet
          entered,    \* those that an answer finds, and that may expire
          sent,       \* those of them that were sent
          left,       \* polls left of each lease
          stopped,
          confirming, \* found by a confirmation that is being handled
          completing  \* found by the answer that ends them

leases    == <<entering, entered, sent, left, stopped>>
answers   == <<confirming, completing>>
leaseVars == <<leases, answers>>

Leased   == entering \cup entered
Answered == confirming \cup completing

LeasesInit ==
    /\ entering = {} /\ entered = {} /\ sent = {}
    /\ left = [k \in {} |-> 0]
    /\ stopped = FALSE
    /\ confirming = {} /\ completing = {}

Admit(k) ==
    /\ k \notin Leased \cup Answered
    /\ Limit > 0 => Cardinality(Leased) < Limit
    /\ entering' = entering \cup {k}
    /\ left' = [j \in Leased \cup {k} |-> IF j = k THEN Duration ELSE left[j]]
    /\ UNCHANGED <<entered, sent, stopped, answers>>

Enter(k) ==
    /\ k \in entering
    /\ entering' = entering \ {k}
    /\ entered' = entered \cup {k}
    /\ UNCHANGED <<sent, left, stopped, answers>>

Transmit(k) ==
    /\ k \in entered \ sent /\ ~stopped
    /\ sent' = sent \cup {k}
    /\ UNCHANGED <<entering, entered, left, stopped, answers>>

(* An answer finds the command, and is handled later: the lease may have   *)
(* ended by then.                                                          *)
FindConfirmation(k) ==
    /\ k \in entered \ Answered
    /\ confirming' = confirming \cup {k}
    /\ UNCHANGED <<leases, completing>>

FindCompletion(k) ==
    /\ k \in entered \ Answered
    /\ completing' = completing \cup {k}
    /\ UNCHANGED <<leases, confirming>>

Renew(k) ==
    /\ k \in confirming
    /\ confirming' = confirming \ {k}
    /\ left' = [j \in Leased |-> IF j = k THEN Duration ELSE left[j]]
    /\ UNCHANGED <<entering, entered, sent, stopped, completing>>

Withdraw(gone) ==
    /\ entering' = entering \ gone
    /\ entered' = entered \ gone
    /\ sent' = sent \ gone

End(k) ==
    /\ Withdraw({k})
    /\ left' = [j \in Leased \ {k} |-> left[j]]
    /\ UNCHANGED stopped

Complete(k) ==
    /\ k \in completing
    /\ completing' = completing \ {k}
    /\ End(k)
    /\ UNCHANGED confirming

(* It could not be sent, or no answer will find it.                        *)
Fail(k) ==
    /\ k \in Leased \ sent
    /\ End(k)
    /\ UNCHANGED answers

(* Every lease grows older, and all that have run out end.                 *)
Expired == {k \in entered : left[k] = 0}

Poll ==
    /\ ~stopped
    /\ Withdraw(Expired)
    /\ left' = [k \in Leased \ Expired |->
                   IF left[k] > 0 THEN left[k] - 1 ELSE 0]
    /\ UNCHANGED <<stopped, answers>>

Stop ==
    /\ ~stopped /\ entering = {}
    /\ Withdraw(entered)
    /\ left' = [k \in {} |-> 0]
    /\ stopped' = TRUE
    /\ UNCHANGED answers

LeasesNext ==
    \/ \E k \in Commands :
          \/ Admit(k) \/ Enter(k) \/ Transmit(k) \/ Fail(k)
          \/ FindConfirmation(k) \/ FindCompletion(k)
          \/ Renew(k) \/ Complete(k)
    \/ Poll \/ Stop

LeasesSpec == LeasesInit /\ [][LeasesNext]_leaseVars
=============================================================================
