------------------------- MODULE CommandLeasesProofs ------------------------
(***************************************************************************)
(* What follows from CommandLeases, for any set of commands, any limit and *)
(* any duration: the leases are within the limit, no two stages share a    *)
(* command, no answer that is being handled is for one that is only being  *)
(* admitted, and a client that has stopped waits for no answer.            *)
(***************************************************************************)
EXTENDS CommandLeases, FiniteSetTheorems, TLAPS

WithinLimit == Limit > 0 => Cardinality(Leased) <= Limit

Stages ==
    /\ sent \subseteq entered
    /\ entering \cap (entered \cup Answered) = {}
    /\ confirming \cap completing = {}

Stopped == stopped => sent = {}

LeasesInv ==
    /\ Leased \subseteq Commands /\ IsFiniteSet(Leased)
    /\ left \in [Leased -> 0..Duration]
    /\ Stages /\ Stopped /\ WithinLimit

LEMMA LeasesStep ==
    ASSUME Limit \in Nat, Duration \in Nat, LeasesInv, [LeasesNext]_leaseVars
    PROVE  LeasesInv'
<1> USE DEF LeasesInv
<1>1. Cardinality(Leased) \in Nat
  BY FS_CardinalityType
<1>2. ASSUME Leased' \subseteq Leased
      PROVE  IsFiniteSet(Leased') /\ WithinLimit'
  <2>1. IsFiniteSet(Leased') /\ Cardinality(Leased') <= Cardinality(Leased)
    BY <1>2, FS_Subset
  <2>2. Cardinality(Leased') \in Nat
    BY <2>1, FS_CardinalityType
  <2> QED
    BY <1>1, <2>1, <2>2 DEF WithinLimit
<1>3. ASSUME NEW k \in Commands, Admit(k)
      PROVE  LeasesInv'
  <2>1. Leased' = Leased \cup {k} /\ k \notin Leased
    BY <1>3 DEF Admit, Leased
  <2>2. /\ IsFiniteSet(Leased')
        /\ Cardinality(Leased') = Cardinality(Leased) + 1
    BY <2>1, FS_AddElement
  <2>3. WithinLimit'
    BY <1>1, <1>3, <2>2 DEF Admit, WithinLimit
  <2>4. left' \in [Leased' -> 0..Duration]
    BY <1>3, <2>1 DEF Admit
  <2> QED
    BY <1>3, <2>1, <2>2, <2>3, <2>4
       DEF Admit, Stages, Stopped, Leased, Answered, answers
<1>4. ASSUME NEW k \in Commands, Enter(k)
      PROVE  LeasesInv'
  <2>1. Leased' = Leased
    BY <1>4 DEF Enter, Leased
  <2> QED
    BY <1>2, <1>4, <2>1 DEF Enter, Stages, Stopped, Leased, Answered, answers
<1>5. ASSUME NEW k \in Commands, Transmit(k)
      PROVE  LeasesInv'
  <2>1. Leased' = Leased
    BY <1>5 DEF Transmit, Leased
  <2> QED
    BY <1>2, <1>5, <2>1 DEF Transmit, Stages, Stopped, Answered, answers
<1>6. ASSUME NEW k \in Commands, Renew(k)
      PROVE  LeasesInv'
  <2>1. Leased' = Leased
    BY <1>6 DEF Renew, Leased
  <2>2. left' \in [Leased' -> 0..Duration]
    BY <1>6, <2>1 DEF Renew, Leased
  <2> QED
    BY <1>2, <1>6, <2>1, <2>2 DEF Renew, Stages, Stopped, Answered
<1>7. ASSUME NEW gone, Withdraw(gone),
             confirming' \subseteq confirming, completing' \subseteq completing
      PROVE  /\ Leased' = Leased \ gone
             /\ Stages' /\ (sent = {} => sent' = {})
             /\ IsFiniteSet(Leased') /\ WithinLimit'
  <2>1. Leased' = Leased \ gone
    BY <1>7 DEF Withdraw, Leased
  <2> QED
    BY <1>2, <1>7, <2>1 DEF Withdraw, Stages, Answered
<1>8. ASSUME NEW k \in Commands, End(k),
             confirming' \subseteq confirming, completing' \subseteq completing
      PROVE  LeasesInv'
  <2>1. Withdraw({k}) /\ left' = [j \in Leased \ {k} |-> left[j]]
        /\ stopped' = stopped
    BY <1>8 DEF End
  <2>2. left' \in [Leased' -> 0..Duration]
    BY <1>7, <1>8, <2>1
  <2> QED
    BY <1>7, <1>8, <2>1, <2>2 DEF Stopped
<1>9. ASSUME NEW k \in Commands, FindConfirmation(k) \/ FindCompletion(k)
       PROVE  LeasesInv'
  <2>1. UNCHANGED leases /\ k \in entered \ Answered
    BY <1>9 DEF FindConfirmation, FindCompletion
  <2>2. Leased' = Leased
    BY <2>1 DEF leases, Leased
  <2>3. Stages'
    BY <1>9, <2>1
       DEF leases, FindConfirmation, FindCompletion, Stages, Answered
  <2> QED
    BY <1>2, <2>1, <2>2, <2>3 DEF leases, Stopped
<1>10. ASSUME NEW k \in Commands, Complete(k) \/ Fail(k)
       PROVE  LeasesInv'
  BY <1>8, <1>10 DEF Complete, Fail, answers
<1>11. CASE Poll
  <2>1. Withdraw(Expired) /\ stopped' = stopped
        /\ left' = [k \in Leased \ Expired |->
                       IF left[k] > 0 THEN left[k] - 1 ELSE 0]
    BY <1>11 DEF Poll
  <2>2. UNCHANGED <<confirming, completing>>
    BY <1>11 DEF Poll, answers
  <2>3. left' \in [Leased' -> 0..Duration]
    BY <1>7, <2>1, <2>2
  <2> QED
    BY <1>7, <2>1, <2>2, <2>3 DEF Stopped
<1>12. CASE Stop
  <2>1. /\ Withdraw(entered) /\ left' = [k \in {} |-> 0] /\ entering = {}
        /\ UNCHANGED <<confirming, completing>>
    BY <1>12 DEF Stop, answers
  <2>2. Leased' = {} /\ sent' = {}
    BY <2>1 DEF Withdraw, Leased, Stages
  <2>3. left' \in [Leased' -> 0..Duration]
    BY <2>1, <2>2
  <2> QED
    BY <1>7, <2>1, <2>2, <2>3 DEF Stopped
<1>13. CASE UNCHANGED leaseVars
  <2>1. Leased' = Leased
    BY <1>13 DEF leaseVars, leases, Leased
  <2> QED
    BY <1>13, <2>1
       DEF leaseVars, leases, answers, Stages, Stopped, WithinLimit, Answered
<1> QED
  BY <1>3, <1>4, <1>5, <1>6, <1>11, <1>12, <1>13, <1>9, <1>10 DEF LeasesNext

(* The leases are within the limit, and a client that has stopped waits    *)
(* for no answer.                                                          *)
THEOREM LeasesCorrect ==
    ASSUME Limit \in Nat, Duration \in Nat
    PROVE  LeasesSpec => []LeasesInv
<1>1. LeasesInit => LeasesInv
  <2> SUFFICES ASSUME LeasesInit
               PROVE  LeasesInv
    OBVIOUS
  <2>1. Leased = {}
    BY DEF LeasesInit, Leased
  <2>2. IsFiniteSet(Leased) /\ Cardinality(Leased) = 0
    BY <2>1, FS_EmptySet
  <2> QED
    BY <2>1, <2>2
       DEF LeasesInit, LeasesInv, Stages, Stopped, WithinLimit, Answered
<1>2. LeasesInv /\ [LeasesNext]_leaseVars => LeasesInv'
  BY LeasesStep
<1> QED
  BY <1>1, <1>2, PTL DEF LeasesSpec
=============================================================================
