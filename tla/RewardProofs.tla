---------------------------- MODULE RewardProofs ----------------------------
(***************************************************************************)
(* Theorems about what eras pay and what they are credited with: Payout,   *)
(* for every set of stashes and every depth of the history, and            *)
(* EnergyWindows, for every length of eras and of the window of burns.     *)
(***************************************************************************)
EXTENDS Payout, EnergyWindows, ErasProofs, RecursionTheorems

(* Every step of payouts is a step of the era life cycle or leaves it      *)
(* alone, so what is proved of Eras holds here.                            *)
LEMMA NextIsEraNext == [Next]_vars => [EraNext]_eraVars
BY DEF Next, vars, payoutVars, EraNext, EndSessionP, StartSessionP, PlanEraP, PlanSessionP,
       ForceErasP, Bond, Kill, PayoutStakers

(* The era invariant holds in every state of Payout.                       *)
THEOREM ErasInvariantP == Spec => []ErasInv
<1>1. PayoutInit => ErasInv
  BY InitInv DEF PayoutInit
<1>2. ErasInv /\ [Next]_vars => ErasInv'
  BY NextInv, NextIsEraNext
<1> QED
  BY <1>1, <1>2, PTL DEF Spec

(* What the proofs below need of the era life cycle.                       *)
LEMMA EraFacts ==
  ASSUME ErasInv
  PROVE  /\ currentEra \in Nat
         /\ activeEra \in Int
         /\ activeEra <= currentEra
         /\ session >= 0 => activeEra >= 0
         /\ phase = "idle" => session >= 0
         /\ SatSub(currentEra, HistoryDepth) \in Nat
         /\ SatSub(currentEra, HistoryDepth) <= SatSub(currentEra + 1, HistoryDepth)
BY ErasAssumption DEF ErasInv, EraTypeOK, Counters, Planning, SatSub

(* Type correctness.                                                       *)
THEOREM TypeCorrect == Spec => []TypeOK
<1>1. PayoutInit => TypeOK
  BY DEF PayoutInit, TypeOK
<1>2. ErasInv /\ TypeOK /\ [Next]_vars => TypeOK'
  <2> SUFFICES ASSUME ErasInv, TypeOK, [Next]_vars PROVE TypeOK'
    OBVIOUS
  <2>0. /\ currentEra \in Nat /\ SatSub(currentEra, HistoryDepth) \in Nat
        /\ phase = "idle" => activeEra \in Nat
    BY EraFacts
  <2>1. CASE EndSessionP
    BY <2>0, <2>1 DEF EndSessionP, EndSession, TypeOK
  <2>2. CASE PlanEraP
    <3>1. PICK validators \in SUBSET bonded :
            /\ exposures' = [e \in (DOMAIN exposures \cup {currentEra + 1}) \ {Cleared(currentEra + 1)} |->
                               IF e = currentEra + 1 THEN validators ELSE exposures[e]]
            /\ rates' = rates \ {Cleared(currentEra + 1)}
            /\ elected' = [e \in DOMAIN elected \cup {currentEra + 1} |->
                             IF e = currentEra + 1 THEN validators ELSE elected[e]]
      BY <2>2 DEF PlanEraP
    <3>2. UNCHANGED <<bonded, claimed, since, times>>
      BY <2>2 DEF PlanEraP
    <3>3. currentEra + 1 \in Nat
      BY <2>0
    <3>4. DOMAIN exposures' \subseteq Nat
      BY <3>1, <3>3 DEF TypeOK
    <3>5. DOMAIN elected' \subseteq Nat
      BY <3>1, <3>3 DEF TypeOK
    <3>6. rates' \subseteq Nat
      BY <3>1 DEF TypeOK
    <3>7. \A e \in DOMAIN exposures' : exposures'[e] \subseteq Stashes
      BY <3>1 DEF TypeOK
    <3> QED
      BY <3>2, <3>4, <3>5, <3>6, <3>7 DEF TypeOK
  <2>3. ASSUME NEW stash \in Stashes, Bond(stash) PROVE TypeOK'
    <3>1. ClaimedAtBond \subseteq Nat
      BY <2>0 DEF ClaimedAtBond
    <3> QED
      BY <2>0, <2>3, <3>1 DEF Bond, TypeOK
  <2>4. ASSUME NEW stash \in Stashes, Kill(stash) PROVE TypeOK'
    BY <2>4 DEF Kill, TypeOK
  <2>5. ASSUME NEW stash \in Stashes, NEW era \in 0..currentEra, PayoutStakers(stash, era)
        PROVE  TypeOK'
    <3>1. era \in Nat /\ Retained(stash) \subseteq Nat
      BY <2>0 DEF Retained, TypeOK
    <3>2. DOMAIN Counted(stash, era) \subseteq Stashes \X Nat
      BY <3>1 DEF Counted, TypeOK
    <3> QED
      BY <2>5, <3>1, <3>2 DEF PayoutStakers, TypeOK
  <2>6. CASE StartSessionP \/ PlanSessionP \/ ForceErasP \/ UNCHANGED vars
    BY <2>6 DEF StartSessionP, PlanSessionP, ForceErasP, vars, payoutVars, TypeOK
  <2> QED
    BY <2>1, <2>2, <2>3, <2>4, <2>5, <2>6 DEF Next
<1> QED
  BY <1>1, <1>2, ErasInvariantP, PTL DEF Spec

-----------------------------------------------------------------------------
(* A rate appears when its era ends, between the end of its last session   *)
(* and the start of the next.                                              *)
LEMMA RatesStep ==
  ASSUME ErasInv, TypeOK, RatesOfEnded, [Next]_vars
  PROVE  RatesOfEnded'
<1>0. activeEra \in Int /\ rates \subseteq Nat
  BY EraFacts DEF TypeOK
<1>1. CASE EndSessionP
  BY <1>0, <1>1 DEF EndSessionP, EndSession, RatesOfEnded, StartsEra
<1>2. CASE StartSessionP
  <2>1. rates' = rates
    BY <1>2 DEF StartSessionP, payoutVars
  <2>2. activeEra' = IF StartsEra THEN activeEra + 1 ELSE activeEra
    BY <1>2 DEF StartSessionP, StartSession, StartEra
  <2> QED
    BY <1>0, <2>1, <2>2 DEF RatesOfEnded
<1>3. CASE PlanEraP \/ PlanSessionP
  <2>1. rates' \subseteq rates /\ activeEra' = activeEra /\ phase = "plan"
    BY <1>3 DEF PlanEraP, PlanSessionP, PlanEra, PlanSession, PlanNext, payoutVars
  <2> QED
    BY <1>0, <2>1 DEF RatesOfEnded
<1>4. CASE \/ ForceErasP \/ UNCHANGED vars
           \/ \E stash \in Stashes : Bond(stash) \/ Kill(stash)
           \/ \E stash \in Stashes, era \in 0..currentEra : PayoutStakers(stash, era)
  <2>1. UNCHANGED <<rates, activeEra, phase, eraStart, session>>
    BY <1>4 DEF ForceErasP, ForceEras, payoutVars, vars, eraVars, Bond, Kill, PayoutStakers
  <2> QED
    BY <2>1 DEF RatesOfEnded, StartsEra
<1> QED
  BY <1>1, <1>2, <1>3, <1>4 DEF Next

(* A claim is entered with the payment and kept while the era is history;  *)
(* a new ledger is born with the claims of every era that has ended.       *)
LEMMA ClaimsStep ==
  ASSUME ErasInv, TypeOK, PaidInv, [Next]_vars
  PROVE  PaidIsClaimed'
<1> USE DEF PaidInv
<1>0. /\ currentEra \in Nat /\ activeEra \in Int /\ activeEra <= currentEra
      /\ SatSub(currentEra, HistoryDepth) \in Nat
      /\ SatSub(currentEra, HistoryDepth) <= SatSub(currentEra + 1, HistoryDepth)
      /\ SatSub(currentEra + 1, HistoryDepth) \in Nat
  BY EraFacts, ErasAssumption DEF SatSub
<1>1. DOMAIN times \subseteq Stashes \X Nat
  BY DEF TypeOK
<1>2. CASE EndSessionP \/ StartSessionP \/ PlanSessionP \/ ForceErasP \/ UNCHANGED vars
  <2>1. /\ UNCHANGED <<times, bonded, claimed, currentEra>>
        /\ activeEra' \in {activeEra, activeEra + 1}
    BY <1>2 DEF EndSessionP, StartSessionP, PlanSessionP, ForceErasP, EndSession, StartSession,
                StartEra, PlanSession, PlanNext, ForceEras, payoutVars, vars, eraVars
  <2> QED
    BY <1>0, <1>1, <2>1 DEF PaidIsClaimed, SatSub
<1>3. CASE PlanEraP
  <2>1. UNCHANGED <<times, bonded, claimed, activeEra>> /\ currentEra' = currentEra + 1
    BY <1>3 DEF PlanEraP, PlanEra, PlanNext
  <2>2. SatSub(currentEra, HistoryDepth)' = SatSub(currentEra + 1, HistoryDepth)
    BY <2>1 DEF SatSub
  <2> QED
    BY <1>0, <1>1, <2>1, <2>2 DEF PaidIsClaimed
<1>4. ASSUME NEW stash \in Stashes, Bond(stash)
      PROVE  PaidIsClaimed'
  <2>1. /\ UNCHANGED <<times, activeEra, currentEra>>
        /\ bonded' = bonded \cup {stash}
        /\ claimed' = [claimed EXCEPT ![stash] = ClaimedAtBond]
        /\ claimed \in [Stashes -> SUBSET Nat]
    BY <1>4 DEF Bond, eraVars, TypeOK
  <2>2. SatSub(currentEra, HistoryDepth)' = SatSub(currentEra, HistoryDepth)
    BY <2>1 DEF SatSub
  <2>3. \A e \in Nat : e < activeEra =>
          e \in ClaimedAtBond \/ e < SatSub(currentEra, HistoryDepth)
    BY <1>0 DEF ClaimedAtBond
  <2> QED
    BY <1>1, <2>1, <2>2, <2>3 DEF PaidIsClaimed
<1>5. ASSUME NEW stash \in Stashes, Kill(stash)
      PROVE  PaidIsClaimed'
  <2>1. /\ UNCHANGED <<times, activeEra, currentEra>>
        /\ bonded' = bonded \ {stash}
        /\ \A s \in Stashes \ {stash} : claimed'[s] = claimed[s]
    BY <1>5 DEF Kill, eraVars, TypeOK
  <2>2. SatSub(currentEra, HistoryDepth)' = SatSub(currentEra, HistoryDepth)
    BY <2>1 DEF SatSub
  <2> QED
    BY <1>1, <2>1, <2>2 DEF PaidIsClaimed
<1>6. ASSUME NEW stash \in Stashes, NEW era \in 0..currentEra, PayoutStakers(stash, era)
      PROVE  PaidIsClaimed'
  <2>1. /\ UNCHANGED <<bonded, activeEra, currentEra, rates>>
        /\ claimed' = [claimed EXCEPT ![stash] = Retained(stash) \cup {era}]
        /\ times' = Counted(stash, era)
        /\ claimed \in [Stashes -> SUBSET Nat]
    BY <1>6 DEF PayoutStakers, eraVars, TypeOK
  <2>2. /\ era >= SatSub(currentEra, HistoryDepth)
        /\ era < activeEra
        /\ era \notin claimed[stash]
        /\ stash \in bonded
    BY <1>0, <1>6 DEF PayoutStakers, Payable, Retained, RatesOfEnded
  <2>3. <<stash, era>> \notin DOMAIN times
    BY <1>0, <2>2 DEF PaidIsClaimed
  <2>4. SatSub(currentEra, HistoryDepth)' = SatSub(currentEra, HistoryDepth)
    BY <2>1 DEF SatSub
  <2> SUFFICES ASSUME NEW p \in DOMAIN times'
               PROVE  /\ times'[p] = 1
                      /\ p[2] < activeEra
                      /\ p[1] \in bonded =>
                           p[2] \in claimed'[p[1]] \/ p[2] < SatSub(currentEra, HistoryDepth)
    BY <2>1, <2>4 DEF PaidIsClaimed
  <2>5. CASE p \in DOMAIN times
    <3>1. times'[p] = 1
      BY <2>1, <2>3, <2>5, SMTT(30) DEF Counted, PaidIsClaimed
    <3>2. p[1] \in Stashes /\ p[2] \in Nat
      BY <1>1, <2>5
    <3>3. p[2] \in claimed[p[1]] =>
            p[2] \in claimed'[p[1]] \/ p[2] < SatSub(currentEra, HistoryDepth)
      BY <1>0, <2>1, <3>2 DEF Retained
    <3> QED
      BY <2>5, <3>1, <3>3 DEF PaidIsClaimed
  <2>6. CASE p \notin DOMAIN times
    <3>1. p = <<stash, era>> /\ times'[p] = 1
      BY <2>1, <2>6 DEF Counted
    <3> QED
      BY <2>1, <2>2, <3>1
  <2> QED
    BY <2>5, <2>6
<1> QED
  BY <1>2, <1>3, <1>4, <1>5, <1>6 DEF Next

(* PaidInv: every payment made is an ended era that is claimed in the      *)
(* ledger or out of the history.                                           *)
THEOREM PaidInvariant == Spec => []PaidInv
<1>1. PayoutInit => PaidInv
  BY DEF PayoutInit, PaidInv, PaidIsClaimed, RatesOfEnded
<1>2. ErasInv /\ TypeOK /\ PaidInv /\ [Next]_vars => PaidInv'
  BY RatesStep, ClaimsStep DEF PaidInv
<1> QED
  BY <1>1, <1>2, ErasInvariantP, TypeCorrect, PTL DEF Spec

(* PaidOnce: do_payout_stakers pays no stash twice for an era.             *)
THEOREM NeverPaidTwice == Spec => []PaidOnce
<1>1. PaidInv => PaidOnce
  BY DEF PaidInv, PaidIsClaimed, PaidOnce
<1> QED
  BY <1>1, PaidInvariant, PTL

-----------------------------------------------------------------------------
(* Planning clears only the era that leaves the history, and the rate of   *)
(* an era is filed before the next one starts.                             *)
LEMMA HistoryStep ==
  ASSUME ErasInv, TypeOK, HistoryKept, [Next]_vars
  PROVE  HistoryKept'
<1>0. /\ currentEra \in Nat /\ activeEra \in Int /\ activeEra <= currentEra
      /\ session \in Int /\ HistoryDepth \in Nat
      /\ phase = "plan" /\ session = -1 => activeEra = -1
      /\ DOMAIN elected \subseteq Nat
  BY EraFacts, ErasAssumption DEF ErasInv, EraTypeOK, Counters, TypeOK
<1>1. CASE EndSessionP
  <2>1. /\ UNCHANGED <<currentEra, activeEra, eraStart, session, elected, exposures>>
        /\ rates' = IF StartsEra THEN rates \cup {activeEra} ELSE rates
    BY <1>1 DEF EndSessionP, EndSession
  <2>2. StartsEra' = StartsEra
    BY <2>1 DEF StartsEra
  <2> QED
    BY <1>0, <2>1, <2>2 DEF HistoryKept
<1>2. CASE StartSessionP
  <2>1. /\ UNCHANGED <<currentEra, elected, exposures, rates>>
        /\ activeEra' = IF StartsEra THEN activeEra + 1 ELSE activeEra
        /\ phase = "start" /\ phase' # "start"
    BY <1>2 DEF StartSessionP, StartSession, StartEra, payoutVars
  <2>2. \A e \in 0..(activeEra' - 1) : e >= currentEra - HistoryDepth => e \in rates
    BY <1>0, <2>1 DEF HistoryKept
  <2> QED
    BY <2>1, <2>2 DEF HistoryKept
<1>3. CASE PlanEraP
  <2> DEFINE era == currentEra + 1
  <2>1. PICK validators \in SUBSET bonded :
          /\ exposures' = [e \in (DOMAIN exposures \cup {era}) \ {Cleared(era)} |->
                             IF e = era THEN validators ELSE exposures[e]]
          /\ rates' = rates \ {Cleared(era)}
          /\ elected' = [e \in DOMAIN elected \cup {era} |->
                           IF e = era THEN validators ELSE elected[e]]
    BY <1>3 DEF PlanEraP
  <2>2. /\ currentEra' = era /\ activeEra' = activeEra
        /\ phase' = "start" => activeEra = -1
    BY <1>0, <1>3 DEF PlanEraP, PlanEra, PlanNext
  <2>3. Cleared(era) = era - HistoryDepth - 1
    BY <1>0 DEF Cleared
  <2>4. DOMAIN elected' = 0..currentEra'
    BY <1>0, <2>1, <2>2 DEF HistoryKept
  <2>5. \A e \in 0..currentEra' : e >= currentEra' - HistoryDepth =>
          e \in DOMAIN exposures' /\ exposures'[e] = elected'[e]
    BY <1>0, <2>1, <2>2, <2>3 DEF HistoryKept
  <2>6. \A e \in 0..(activeEra - 1) : e >= currentEra' - HistoryDepth => e \in rates'
    BY <1>0, <2>1, <2>2, <2>3 DEF HistoryKept
  <2> QED
    BY <1>0, <2>2, <2>4, <2>5, <2>6 DEF HistoryKept
<1>4. CASE PlanSessionP
  <2>1. /\ UNCHANGED <<currentEra, activeEra, elected, exposures, rates>>
        /\ phase' = "start" => activeEra = -1
    BY <1>0, <1>4 DEF PlanSessionP, PlanSession, PlanNext, payoutVars
  <2> QED
    BY <1>0, <2>1 DEF HistoryKept
<1>5. CASE \/ ForceErasP \/ UNCHANGED vars
           \/ \E stash \in Stashes : Bond(stash) \/ Kill(stash)
           \/ \E stash \in Stashes, era \in 0..currentEra : PayoutStakers(stash, era)
  <2>1. UNCHANGED <<currentEra, activeEra, phase, eraStart, session, elected, exposures, rates>>
    BY <1>5 DEF ForceErasP, ForceEras, payoutVars, vars, eraVars, Bond, Kill, PayoutStakers
  <2> QED
    BY <2>1 DEF HistoryKept, StartsEra
<1> QED
  BY <1>1, <1>2, <1>3, <1>4, <1>5 DEF Next

(* HistoryKept holds in every state.                                       *)
THEOREM HistoryInvariant == Spec => []HistoryKept
<1>1. PayoutInit => HistoryKept
  BY ErasAssumption DEF PayoutInit, EraInit, HistoryKept
<1>2. ErasInv /\ TypeOK /\ HistoryKept /\ [Next]_vars => HistoryKept'
  BY HistoryStep
<1> QED
  BY <1>1, <1>2, ErasInvariantP, TypeCorrect, PTL DEF Spec

-----------------------------------------------------------------------------
(* What a payout finds: an ended era within the history, not yet claimed.  *)
LEMMA PayableEnded ==
  ASSUME ErasInv, TypeOK, RatesOfEnded, NEW stash \in Stashes, NEW era \in 0..currentEra,
         Payable(stash, era)
  PROVE  /\ era < activeEra
         /\ era \in SatSub(currentEra, HistoryDepth)..(currentEra - 1)
  <1>1. currentEra \in Nat /\ activeEra \in Int /\ activeEra <= currentEra
    BY EraFacts
  <1> QED
    BY <1>1 DEF Payable, RatesOfEnded, TypeOK

(* The eras a ledger is born with as claimed are the history's, and no     *)
(* more than its depth.                                                    *)
LEMMA WindowSize ==
  ASSUME ErasInv
  PROVE  /\ IsFiniteSet(ClaimedAtBond)
         /\ Cardinality(ClaimedAtBond) <= HistoryDepth
         /\ ClaimedAtBond \subseteq 0..(currentEra - 1)
<1> DEFINE a == SatSub(currentEra, HistoryDepth)
           b == currentEra - 1
<1>1. a \in Nat /\ b \in Int /\ HistoryDepth \in Nat /\ b - a + 1 <= HistoryDepth
  BY EraFacts, ErasAssumption DEF SatSub
<1> HIDE DEF a, b
<1>2. IsFiniteSet(a..b) /\ Cardinality(a..b) = IF a > b THEN 0 ELSE b - a + 1
  BY <1>1, FS_Interval
<1>3. ClaimedAtBond = a..b
  BY DEF ClaimedAtBond, a, b
<1>4. a..b \subseteq 0..b
  BY <1>1
<1> QED
  BY <1>1, <1>2, <1>3, <1>4 DEF b

(* The claims a payout retains lie in the same window.                     *)
LEMMA RetainedInWindow ==
  ASSUME ErasInv, ClaimsPaid, NEW stash \in Stashes
  PROVE  Retained(stash) \subseteq ClaimedAtBond
BY EraFacts DEF ClaimsPaid, Retained, ClaimedAtBond

(* A claim is entered with its payment, or for an era that did not expose  *)
(* the stash, or with the ledger for the eras before it.                   *)
LEMMA ClaimsPaidStep ==
  ASSUME ErasInv, TypeOK, RatesOfEnded, HistoryKept, ClaimsPaid, [Next]_vars
  PROVE  ClaimsPaid'
<1>0. /\ currentEra \in Nat /\ HistoryDepth \in Nat
      /\ claimed \in [Stashes -> SUBSET Nat] /\ since \in [Stashes -> Nat]
  BY EraFacts, ErasAssumption DEF TypeOK
<1>1. CASE EndSessionP \/ StartSessionP \/ PlanSessionP \/ ForceErasP \/ UNCHANGED vars
  <2>1. UNCHANGED <<currentEra, claimed, since, elected, times>>
    BY <1>1 DEF EndSessionP, StartSessionP, PlanSessionP, ForceErasP, EndSession, StartSession,
                PlanSession, PlanNext, ForceEras, payoutVars, vars, eraVars
  <2> QED
    BY <2>1 DEF ClaimsPaid
<1>2. CASE PlanEraP
  <2>1. /\ currentEra' = currentEra + 1
        /\ UNCHANGED <<claimed, since, times>>
        /\ \A e \in 0..(currentEra - 1) : elected'[e] = elected[e]
    BY <1>0, <1>2 DEF PlanEraP, PlanEra, PlanNext, HistoryKept
  <2>2. 0..(currentEra - 1) \subseteq 0..(currentEra' - 1)
    BY <1>0, <2>1
  <2> QED
    BY <2>1, <2>2 DEF ClaimsPaid
<1>3. ASSUME NEW stash \in Stashes, Bond(stash)
      PROVE  ClaimsPaid'
  <2>1. /\ UNCHANGED <<currentEra, elected, times>>
        /\ claimed' = [claimed EXCEPT ![stash] = ClaimedAtBond]
        /\ since' = [since EXCEPT ![stash] = currentEra]
    BY <1>3 DEF Bond, eraVars
  <2>2. \A e \in ClaimedAtBond : e \in 0..(currentEra - 1) /\ ~ (e >= currentEra)
    BY <1>0, EraFacts DEF ClaimedAtBond
  <2> QED
    BY <1>0, <2>1, <2>2 DEF ClaimsPaid
<1>4. ASSUME NEW stash \in Stashes, Kill(stash)
      PROVE  ClaimsPaid'
  <2>1. /\ UNCHANGED <<currentEra, elected, times, since>>
        /\ claimed' = [claimed EXCEPT ![stash] = {}]
    BY <1>4 DEF Kill, eraVars
  <2> QED
    BY <1>0, <2>1 DEF ClaimsPaid
<1>5. ASSUME NEW stash \in Stashes, NEW era \in 0..currentEra, PayoutStakers(stash, era)
      PROVE  ClaimsPaid'
  <2>1. /\ UNCHANGED <<currentEra, elected, since>>
        /\ claimed' = [claimed EXCEPT ![stash] = Retained(stash) \cup {era}]
        /\ times' = Counted(stash, era)
        /\ Payable(stash, era)
    BY <1>5 DEF PayoutStakers, eraVars
  <2>2. era \in 0..(currentEra - 1) /\ era >= currentEra - HistoryDepth
    BY <1>0, <2>1, EraFacts, PayableEnded DEF SatSub
  <2>3. DOMAIN times \subseteq DOMAIN times'
    BY <2>1 DEF Counted
  <2>4. stash \in elected[era] => <<stash, era>> \in DOMAIN times'
    BY <1>0, <2>1, <2>2 DEF Counted, HistoryKept
  <2>5. Retained(stash) \subseteq claimed[stash]
    BY DEF Retained
  <2> SUFFICES ASSUME NEW s \in Stashes
               PROVE  /\ claimed'[s] \subseteq 0..(currentEra - 1)
                      /\ \A e \in claimed'[s] :
                           e >= since[s] /\ s \in elected[e] => <<s, e>> \in DOMAIN times'
    BY <2>1 DEF ClaimsPaid
  <2>6. CASE s = stash
    <3>1. claimed'[s] = Retained(stash) \cup {era}
      BY <1>0, <2>1, <2>6
    <3> QED
      BY <2>2, <2>3, <2>4, <2>5, <2>6, <3>1 DEF ClaimsPaid
  <2>7. CASE s # stash
    <3>1. claimed'[s] = claimed[s]
      BY <1>0, <2>1, <2>7
    <3> QED
      BY <2>3, <3>1 DEF ClaimsPaid
  <2> QED
    BY <2>6, <2>7
<1> QED
  BY <1>1, <1>2, <1>3, <1>4, <1>5 DEF Next

(* The vector of claims is born within its bound and grows by one past the *)
(* guard that checks it.                                                   *)
LEMMA ClaimsBoundedStep ==
  ASSUME ErasInv, TypeOK, ClaimsPaid, ClaimsBounded, [Next]_vars
  PROVE  ClaimsBounded'
<1>0. HistoryDepth \in Nat /\ claimed \in [Stashes -> SUBSET Nat]
  BY ErasAssumption DEF TypeOK
<1>1. CASE \/ EndSessionP \/ StartSessionP \/ PlanSessionP \/ PlanEraP \/ ForceErasP
           \/ UNCHANGED vars
  <2>1. claimed' = claimed
    BY <1>1 DEF EndSessionP, StartSessionP, PlanSessionP, PlanEraP, ForceErasP, payoutVars, vars
  <2> QED
    BY <2>1 DEF ClaimsBounded
<1>2. ASSUME NEW stash \in Stashes, Bond(stash)
      PROVE  ClaimsBounded'
  <2>1. claimed' = [claimed EXCEPT ![stash] = ClaimedAtBond]
    BY <1>2 DEF Bond
  <2> QED
    BY <1>0, <2>1, WindowSize DEF ClaimsBounded
<1>3. ASSUME NEW stash \in Stashes, Kill(stash)
      PROVE  ClaimsBounded'
  <2>1. claimed' = [claimed EXCEPT ![stash] = {}]
    BY <1>3 DEF Kill
  <2> QED
    BY <1>0, <2>1, FS_EmptySet DEF ClaimsBounded
<1>4. ASSUME NEW stash \in Stashes, NEW era \in 0..currentEra, PayoutStakers(stash, era)
      PROVE  ClaimsBounded'
  <2>1. /\ claimed' = [claimed EXCEPT ![stash] = Retained(stash) \cup {era}]
        /\ Cardinality(Retained(stash)) < HistoryDepth
        /\ era \notin Retained(stash)
    BY <1>4 DEF PayoutStakers
  <2>2. IsFiniteSet(Retained(stash))
    BY RetainedInWindow, WindowSize, FS_Subset
  <2>3. Cardinality(Retained(stash)) \in Nat
    BY <2>2, FS_CardinalityType
  <2>4. Cardinality(Retained(stash) \cup {era}) = Cardinality(Retained(stash)) + 1
    BY <2>1, <2>2, FS_AddElement
  <2>5. Cardinality(Retained(stash) \cup {era}) <= HistoryDepth
    BY <1>0, <2>1, <2>3, <2>4
  <2> QED
    BY <1>0, <2>1, <2>5 DEF ClaimsBounded
<1> QED
  BY <1>1, <1>2, <1>3, <1>4 DEF Next

(* ClaimsPaid and ClaimsBounded hold in every state.                       *)
THEOREM ClaimsInvariant == Spec => [](ClaimsPaid /\ ClaimsBounded)
<1>1. PayoutInit => ClaimsPaid /\ ClaimsBounded
  BY ErasAssumption, FS_EmptySet DEF PayoutInit, ClaimsPaid, ClaimsBounded
<1>2. ErasInv /\ TypeOK /\ PaidInv /\ HistoryKept /\ ClaimsPaid /\ ClaimsBounded /\ [Next]_vars
        => (ClaimsPaid /\ ClaimsBounded)'
  BY ClaimsPaidStep, ClaimsBoundedStep DEF PaidInv
<1> QED
  BY <1>1, <1>2, ErasInvariantP, TypeCorrect, PaidInvariant, HistoryInvariant, PTL DEF Spec

(* BoundIsMet: the bound on claimed_rewards never stands in the way of a   *)
(* payout.                                                                 *)
THEOREM BoundNeverHit == Spec => []BoundIsMet
<1>1. ErasInv /\ TypeOK /\ PaidInv /\ ClaimsPaid /\ ClaimsBounded => BoundIsMet
  <2> SUFFICES ASSUME ErasInv, TypeOK, RatesOfEnded, ClaimsPaid, ClaimsBounded,
                      NEW s \in bonded, NEW e \in 0..currentEra,
                      Payable(s, e), e \notin Retained(s)
               PROVE  Cardinality(Retained(s)) < HistoryDepth
    BY DEF BoundIsMet, ClaimsBounded, PaidInv, TypeOK
  <2> DEFINE rest == ClaimedAtBond \ {e}
  <2>1. s \in Stashes
    BY DEF TypeOK
  <2>2. e \in ClaimedAtBond
    BY <2>1, PayableEnded DEF ClaimedAtBond
  <2>3. IsFiniteSet(rest) /\ Cardinality(rest) = Cardinality(ClaimedAtBond) - 1
    BY <2>2, WindowSize, FS_RemoveElement
  <2>4. Retained(s) \subseteq rest
    BY <2>1, RetainedInWindow
  <2>5. IsFiniteSet(Retained(s)) /\ Cardinality(Retained(s)) <= Cardinality(rest)
    BY <2>3, <2>4, FS_Subset
  <2>6. /\ Cardinality(Retained(s)) \in Nat /\ Cardinality(rest) \in Nat
        /\ Cardinality(ClaimedAtBond) \in Nat
    BY <2>3, <2>5, WindowSize, FS_CardinalityType
  <2> QED
    BY <2>3, <2>5, <2>6, WindowSize, ErasAssumption
<1> QED
  BY <1>1, ErasInvariantP, TypeCorrect, PaidInvariant, ClaimsInvariant, PTL

(* EarnedCanBeClaimed: an ended era of the history that exposed the stash  *)
(* can be paid out until it has been.                                      *)
THEOREM EarnedNeverLost == Spec => []EarnedCanBeClaimed
<1>1. ErasInv /\ TypeOK /\ HistoryKept /\ ClaimsPaid => EarnedCanBeClaimed
  <2> SUFFICES ASSUME ErasInv, TypeOK, HistoryKept, ClaimsPaid,
                      NEW s \in bonded, NEW e \in DOMAIN elected,
                      s \in elected[e], e >= since[s], e >= currentEra - HistoryDepth,
                      e < activeEra, <<s, e>> \notin DOMAIN times
               PROVE  /\ Payable(s, e)
                      /\ e \notin Retained(s)
                      /\ e \in DOMAIN exposures /\ s \in exposures[e]
    BY DEF EarnedCanBeClaimed
  <2>1. /\ currentEra \in Nat /\ activeEra \in Int /\ HistoryDepth \in Nat
        /\ e \in 0..currentEra /\ s \in Stashes
    BY EraFacts, ErasAssumption DEF HistoryKept, TypeOK
  <2>2. e \in rates /\ e \in 0..(activeEra - 1)
    BY <2>1 DEF HistoryKept
  <2>3. Payable(s, e)
    BY <2>1, <2>2 DEF Payable, SatSub
  <2>4. e \notin claimed[s]
    BY <2>1 DEF ClaimsPaid
  <2>5. e \in DOMAIN exposures /\ s \in exposures[e]
    BY <2>1 DEF HistoryKept
  <2> QED
    BY <2>3, <2>4, <2>5 DEF Retained
<1> QED
  BY <1>1, ErasInvariantP, TypeCorrect, HistoryInvariant, ClaimsInvariant, PTL

-----------------------------------------------------------------------------
(* Energy windows: counters per session                                    *)

(* Every step of the windows is a step of the era life cycle or leaves it  *)
(* alone.                                                                  *)
LEMMA WindowNextIsEraNext == [WindowNext]_energyVars => [EraNext]_eraVars
BY DEF WindowNext, energyVars, windowVars, EraNext, EndSessionW, StartSessionW, PlanEraW, PlanSessionW,
       ForceErasW, Burn, SetParameters

(* The era invariant holds with the windows.                               *)
LEMMA ErasInvariantW == WindowSpec => []ErasInv
<1>1. WindowInit => ErasInv
  BY InitInv DEF WindowInit
<1>2. ErasInv /\ [WindowNext]_energyVars => ErasInv'
  BY NextInv, WindowNextIsEraNext
<1> QED
  BY <1>1, <1>2, PTL DEF WindowSpec

(* A counter per session: numbers, of sessions up to a last one.           *)
Counter(f, last) == DOMAIN f \subseteq 0..last /\ \A s \in DOMAIN f : f[s] \in Nat

(* Integers, of sessions up to a last one.                                 *)
Record(f, last) == DOMAIN f \subseteq 0..last /\ \A s \in DOMAIN f : f[s] \in Int

(* What is not on file is zero.                                            *)
LEMMA AtIs ==
  ASSUME NEW f, NEW last, Record(f, last), NEW s
  PROVE  At(f, s) \in Int /\ (s \notin 0..last => At(f, s) = 0)
BY DEF At, Record

(* A number is an integer.                                                 *)
LEMMA CounterIsRecord ==
  ASSUME NEW f, NEW last, Counter(f, last)
  PROVE  Record(f, last)
<1>1. \A s \in DOMAIN f : f[s] \in Int
  <2> SUFFICES ASSUME NEW s \in DOMAIN f PROVE f[s] \in Int
    OBVIOUS
  <2>1. f[s] \in Nat
    BY DEF Counter
  <2> QED
    BY <2>1
<1> QED
  BY <1>1 DEF Counter, Record

(* One session written.                                                    *)
LEMMA PutAt ==
  ASSUME NEW f, NEW x, NEW value
  PROVE  /\ DOMAIN Put(f, x, value) = DOMAIN f \cup {x}
         /\ \A s : At(Put(f, x, value), s) = IF s = x THEN value ELSE At(f, s)
BY DEF Put, At

(* The sum of some sessions is an integer.                                 *)
LEMMA SumFromIs ==
  ASSUME NEW f, NEW first \in Int, NEW last \in Int, \A s \in first..last : At(f, s) \in Int
  PROVE  SumFrom(f, first, last) \in Int
<1>1. PICK g : g = [s \in first..last |-> At(f, s)]
  OBVIOUS
<1>2. IsFiniteSet(first..last)
  BY FS_Interval
<1>3. IntegersOn(g, first..last)
  BY <1>1 DEF IntegersOn
<1> QED
  BY <1>1, <1>2, <1>3, SumType DEF SumFrom

(* It depends on those sessions only.                                      *)
LEMMA SumFromSame ==
  ASSUME NEW f, NEW g, NEW first \in Int, NEW last \in Int,
         \A s \in first..last : At(f, s) = At(g, s)
  PROVE  SumFrom(f, first, last) = SumFrom(g, first, last)
<1>1. [s \in first..last |-> At(f, s)] = [s \in first..last |-> At(g, s)]
  OBVIOUS
<1> QED
  BY <1>1 DEF SumFrom

(* No sessions.                                                            *)
LEMMA SumFromEmpty ==
  ASSUME NEW f, NEW first \in Int, NEW last \in Int, last < first
  PROVE  SumFrom(f, first, last) = 0
<1>1. first..last = {}
  OBVIOUS
<1>2. PICK g : g = [s \in first..last |-> At(f, s)]
  OBVIOUS
<1>3. SumFunctionOnSet(g, {}) = 0
  BY SumEmpty
<1> QED
  BY <1>1, <1>2, <1>3 DEF SumFrom

(* One session more.                                                       *)
LEMMA SumFromNext ==
  ASSUME NEW f, NEW first \in Int, NEW last \in Int, first <= last + 1,
         \A s \in first..(last + 1) : At(f, s) \in Int
  PROVE  SumFrom(f, first, last + 1) = SumFrom(f, first, last) + At(f, last + 1)
<1>1. PICK g : g = [s \in first..(last + 1) |-> At(f, s)]
  OBVIOUS
<1>2. PICK h : h = [s \in first..last |-> At(f, s)]
  OBVIOUS
<1>3. /\ first..(last + 1) = (first..last) \cup {last + 1} /\ (last + 1) \notin first..last
      /\ \A s \in first..last : h[s] = g[s]
      /\ g[last + 1] = At(f, last + 1)
  BY <1>1, <1>2
<1>4. IsFiniteSet(first..last)
  BY FS_Interval
<1>5. IntegersOn(g, (first..last) \cup {last + 1}) /\ IntegersOn(g, first..last) /\ IntegersOn(h, first..last)
  BY <1>1, <1>2, <1>3 DEF IntegersOn
<1>6. SumFunctionOnSet(g, (first..last) \cup {last + 1}) = SumFunctionOnSet(g, first..last) + g[last + 1]
  <2>1. PICK S, z : S = first..last /\ z = last + 1
    OBVIOUS
  <2>2. IsFiniteSet(S) /\ z \notin S /\ IntegersOn(g, S \cup {z})
    BY <1>3, <1>4, <1>5, <2>1
  <2>3. SumFunctionOnSet(g, S \cup {z}) = SumFunctionOnSet(g, S) + g[z]
    BY <2>2, SumAdd
  <2> QED
    BY <2>1, <2>3
<1>7. SumFunctionOnSet(h, first..last) = SumFunctionOnSet(g, first..last)
  BY <1>3, <1>4, <1>5, SumCongruence
<1> QED
  BY <1>1, <1>2, <1>3, <1>6, <1>7 DEF SumFrom

(* The last session counts more.                                           *)
LEMMA SumFromMore ==
  ASSUME NEW f, NEW g, NEW first \in Int, NEW last \in Int, first <= last, NEW more \in Int,
         \A s \in first..last : At(f, s) \in Int,
         \A s \in first..last : At(g, s) = IF s = last THEN At(f, s) + more ELSE At(f, s)
  PROVE  SumFrom(g, first, last) = SumFrom(f, first, last) + more
<1>1. PICK before \in Int : before = last - 1 /\ last = before + 1
  OBVIOUS
<1>2. \A s \in first..last : At(g, s) \in Int
  OBVIOUS
<1>3. SumFrom(f, first, before + 1) = SumFrom(f, first, before) + At(f, before + 1)
  BY <1>1, SumFromNext
<1>4. SumFrom(g, first, before + 1) = SumFrom(g, first, before) + At(g, before + 1)
  BY <1>1, <1>2, SumFromNext
<1>5. SumFrom(f, first, before) = SumFrom(g, first, before)
  <2>1. \A s \in first..before : At(f, s) = At(g, s)
    BY <1>1
  <2> QED
    BY <2>1, SumFromSame
<1>6. SumFrom(f, first, before) \in Int
  <2>1. \A s \in first..before : At(f, s) \in Int
    BY <1>1
  <2> QED
    BY <2>1, SumFromIs
<1>7. At(g, last) = At(f, last) + more /\ At(f, last) \in Int
  OBVIOUS
<1> QED
  BY <1>1, <1>3, <1>4, <1>5, <1>6, <1>7

(* Some integers below a bound have a greatest.                            *)
LEMMA GreatestExists ==
  ASSUME NEW T, T \subseteq Int, T # {}, NEW b \in Int, \A x \in T : x <= b
  PROVE  Max(T) \in T /\ \A x \in T : x <= Max(T)
<1>1. PICK D : D = {b - x : x \in T}
  OBVIOUS
<1>2. D \subseteq Nat /\ D # {}
  <2>1. \A x \in T : b - x \in Nat
    OBVIOUS
  <2>2. PICK x \in T : TRUE
    OBVIOUS
  <2>3. b - x \in D
    BY <1>1
  <2> QED
    BY <1>1, <2>1, <2>3
<1>3. PICK d \in D : \A y \in D : d <= y
  BY <1>2, LeastNatural
<1>4. PICK m \in T : d = b - m
  BY <1>1
<1>5. \A x \in T : x <= m
  <2> SUFFICES ASSUME NEW x \in T PROVE x <= m
    OBVIOUS
  <2>1. b - x \in D /\ x \in Int /\ m \in Int
    BY <1>1
  <2>2. d <= b - x
    BY <1>3, <2>1
  <2> QED
    BY <1>4, <2>1, <2>2
<1>6. Max(T) = m
  BY <1>5, MaxIs
<1> QED
  BY <1>5, <1>6

-----------------------------------------------------------------------------
(* Burns                                                                   *)

(* The first session whose burns are not filed by session s, when `seen`   *)
(* were announced.                                                         *)
First(seen, s) == Max({Max({a \in seen : a <= s} \cup {-1}), 0})

(* What it is.                                                             *)
LEMMA FirstIs ==
  ASSUME NEW seen, seen \subseteq Nat, NEW s \in Int, s >= -1
  PROVE  /\ First(seen, s) \in Nat
         /\ s >= 0 => First(seen, s) <= s
         /\ s \in seen => First(seen, s) = s
<1> DEFINE T == {a \in seen : a <= s} \cup {-1}
<1>1. T \subseteq Int /\ T # {} /\ -1 \in T /\ \A x \in T : x <= s
  <2>1. \A a \in seen : a \in Int
    OBVIOUS
  <2>2. -1 \in T
    OBVIOUS
  <2>3. \A x \in T : x \in Int /\ x <= s
    BY <2>1
  <2> QED
    BY <2>2, <2>3
<1>2. s \in seen => s \in T
  OBVIOUS
<1> HIDE DEF T
<1>3. PICK m \in T : m = Max(T) /\ \A x \in T : x <= m
  BY <1>1, GreatestExists
<1>4. m \in Int /\ m >= -1 /\ m <= s
  BY <1>1, <1>3
<1>5. Max({m, 0}) = IF m >= 0 THEN m ELSE 0
  <2>1. CASE m >= 0
    <3>1. m \in {m, 0} /\ {m, 0} \subseteq Int /\ \A x \in {m, 0} : x <= m
      BY <1>4, <2>1
    <3> QED
      BY <2>1, <3>1, MaxIs
  <2>2. CASE ~(m >= 0)
    <3>1. 0 \in {m, 0} /\ {m, 0} \subseteq Int /\ \A x \in {m, 0} : x <= 0
      BY <1>4, <2>2
    <3>2. PICK z \in {m, 0} : z = 0
      BY <3>1
    <3> QED
      BY <2>2, <3>1, <3>2, MaxIs
  <2> QED
    BY <2>1, <2>2
<1>6. First(seen, s) = Max({m, 0})
  BY <1>3 DEF First, T
<1>7. s \in seen => m = s /\ s >= 0
  BY <1>2, <1>3, <1>4
<1> QED
  BY <1>4, <1>5, <1>6, <1>7

(* It depends on the sessions announced until then only.                   *)
LEMMA FirstSame ==
  ASSUME NEW seen, NEW more, NEW s, NEW t, {a \in seen : a <= s} = {a \in more : a <= t}
  PROVE  First(seen, s) = First(more, t)
BY DEF First

(* What burnt, by its first session.                                       *)
LEMMA BurntUpToIs ==
  ASSUME NEW s
  PROVE  BurntUpTo(s) = SumFrom(burnt, First(announced, s), s)
BY DEF BurntUpTo, First

(* What is filed, is what burnt since the announcement before.             *)
Filed == \A s \in DOMAIN burnOf : s + 1 \in announced /\ burnOf[s] = BurntUpTo(s)

(* Of the sessions of the window, all that ended with an announcement.     *)
RecentFiled ==
  \A s \in announced :
    s \in 1..session /\ s >= session - BurnedEnergySessionsCount + 1 => s - 1 \in DOMAIN burnOf

BurnsInv ==
  /\ WindowTypeOK
  /\ Counter(burnt, session) /\ Counter(burnOf, session)
  /\ totalBurn = Sum(burnOf)
  /\ Filed
  /\ RecentFiled
  /\ sessionBurn = BurntUpTo(session)

(* Nothing has burnt at the beginning.                                     *)
LEMMA BurnsInit == WindowInit => BurnsInv
<1> SUFFICES ASSUME WindowInit PROVE BurnsInv
  OBVIOUS
<1>1. ErasInv
  BY InitInv DEF WindowInit
<1>2. /\ session = -1 /\ activeEra = -1 /\ announced = {}
      /\ DOMAIN burnOf = {} /\ DOMAIN generation = {} /\ DOMAIN eraEnergy = {} /\ DOMAIN burnt = {}
      /\ sessionBurn = 0 /\ totalBurn = 0 /\ burns = 0
  BY DEF WindowInit, EraInit, Nothing
<1>3. WindowTypeOK
  BY <1>1, <1>2 DEF WindowTypeOK, WindowInit, ErasInv
<1>4. Counter(burnt, session) /\ Counter(burnOf, session) /\ Filed /\ RecentFiled
  BY <1>2 DEF Counter, Filed, RecentFiled
<1>5. Sum(burnOf) = 0
  BY <1>2, SumEmpty DEF Sum
<1>6. BurntUpTo(session) = 0
  <2>1. First(announced, session) \in Nat
    BY <1>2, FirstIs
  <2>2. SumFrom(burnt, First(announced, session), session) = 0
    BY <1>2, <2>1, SumFromEmpty
  <2> QED
    BY <2>2, BurntUpToIs
<1> QED
  BY <1>2, <1>3, <1>4, <1>5, <1>6 DEF BurnsInv

(* What the steps need to know of the sessions.                            *)
LEMMA SessionFacts ==
  ASSUME ErasInv
  PROVE  /\ session \in Int /\ session >= -1 /\ activeEra \in Int /\ activeEra >= -1
         /\ phase = "idle" => session >= 0
         /\ session >= 0 <=> activeEra >= 0
BY DEF ErasInv, EraTypeOK, Counters

(* Burnt now: counted where it will be filed.                              *)
LEMMA BurnStep ==
  ASSUME ErasInv, BurnsInv, NEW amount \in Amounts, Burn(amount)
  PROVE  BurnsInv'
<1>1. session \in Nat /\ amount \in Nat
  BY SessionFacts, WindowAssumption DEF Burn
<1>2. /\ session' = session /\ announced' = announced /\ burnOf' = burnOf /\ totalBurn' = totalBurn
      /\ sessionBurn' = sessionBurn + amount /\ burns' = burns + 1 /\ settings' = settings
      /\ generation' = generation /\ eraEnergy' = eraEnergy /\ activeEra' = activeEra
      /\ burnt' = Put(burnt, session, At(burnt, session) + amount) /\ UNCHANGED eraVars
  BY DEF Burn, eraVars
<1>3. DOMAIN burnt \subseteq 0..session /\ \A s \in DOMAIN burnt : burnt[s] \in Nat
  BY DEF BurnsInv, Counter
<1>4. /\ DOMAIN burnt' = DOMAIN burnt \cup {session}
      /\ \A s : At(burnt', s) = IF s = session THEN At(burnt, session) + amount ELSE At(burnt, s)
  <2>1. PICK f, x, value : f = burnt /\ x = session /\ value = At(f, session) + amount
    OBVIOUS
  <2>2. PICK g : g = Put(f, x, value)
    OBVIOUS
  <2>3. g = [y \in DOMAIN f \cup {x} |-> IF y = x THEN value ELSE f[y]]
    BY <2>2 DEF Put
  <2>4. DOMAIN g = DOMAIN f \cup {x} /\ \A s : At(g, s) = IF s = x THEN value ELSE At(f, s)
    BY <2>3 DEF At
  <2>5. burnt' = g
    BY <1>2, <2>1, <2>2
  <2> QED
    BY <2>1, <2>4, <2>5
<1>5. \A s : At(burnt, s) \in Nat
  BY <1>3 DEF At
<1>6. Counter(burnt', session)
  <2>1. \A s : At(burnt', s) \in Nat
    BY <1>1, <1>4, <1>5
  <2> QED
    BY <1>1, <1>3, <1>4, <2>1 DEF Counter, At
<1>7. announced \subseteq Nat
  BY DEF BurnsInv, WindowTypeOK
<1>8. BurntUpTo(session)' = BurntUpTo(session) + amount
  <2>1. PICK first \in Nat : first = First(announced, session) /\ first <= session
    <3>1. PICK seen : seen = announced
      OBVIOUS
    <3>2. seen \subseteq Nat /\ session \in Int /\ session >= -1 /\ session >= 0
      BY <1>1, <1>7, <3>1
    <3>3. First(seen, session) \in Nat /\ First(seen, session) <= session
      BY <3>2, FirstIs
    <3> QED
      BY <3>1, <3>3
  <2>2. \A s \in first..session : At(burnt, s) \in Int
    <3> SUFFICES ASSUME NEW s \in first..session PROVE At(burnt, s) \in Int
      OBVIOUS
    <3>1. At(burnt, s) \in Nat
      BY <1>5
    <3> QED
      BY <3>1
  <2>3. PICK f, g : f = burnt /\ g = burnt'
    OBVIOUS
  <2>4. \A s \in first..session : At(g, s) = IF s = session THEN At(f, s) + amount ELSE At(f, s)
    BY <1>4, <2>3
  <2>5. SumFrom(g, first, session) = SumFrom(f, first, session) + amount
    BY <1>1, <2>1, <2>2, <2>3, <2>4, SumFromMore
  <2> QED
    BY <1>2, <2>1, <2>3, <2>5, BurntUpToIs DEF BurntUpTo, First
<1>9. \A s \in DOMAIN burnOf : BurntUpTo(s)' = BurntUpTo(s)
  <2> SUFFICES ASSUME NEW s \in DOMAIN burnOf PROVE BurntUpTo(s)' = BurntUpTo(s)
    OBVIOUS
  <2>1. s \in Nat /\ s < session
    <3>1. s \in 0..session /\ s + 1 \in 0..session
      BY DEF BurnsInv, WindowTypeOK, Filed
    <3> QED
      BY <1>1, <3>1
  <2>2. PICK first \in Nat : first = First(announced, s)
    <3>1. PICK seen, x : seen = announced /\ x = s
      OBVIOUS
    <3>2. seen \subseteq Nat /\ x \in Int /\ x >= -1
      BY <1>7, <2>1, <3>1
    <3>3. First(seen, x) \in Nat
      BY <3>2, FirstIs
    <3> QED
      BY <3>1, <3>3
  <2>3. PICK f, g : f = burnt /\ g = burnt'
    OBVIOUS
  <2>4. \A t \in first..s : At(f, t) = At(g, t)
    BY <1>1, <1>4, <2>1, <2>3
  <2>5. SumFrom(f, first, s) = SumFrom(g, first, s)
    BY <2>1, <2>4, SumFromSame
  <2> QED
    BY <1>2, <2>2, <2>3, <2>5, BurntUpToIs DEF BurntUpTo, First
<1>10. Filed' /\ RecentFiled'
  BY <1>2, <1>9 DEF BurnsInv, Filed, RecentFiled
<1>11. WindowTypeOK'
  BY <1>1, <1>2 DEF BurnsInv, WindowTypeOK, EraTypeOK, eraVars
<1> QED
  BY <1>2, <1>6, <1>8, <1>10, <1>11 DEF BurnsInv, Sum

(* A session enters the window with its burns, another leaves it: the      *)
(* saturating subtraction takes no more than is there.                     *)
LEMMA WindowMoves ==
  ASSUME NEW f, IsFiniteSet(DOMAIN f), \A y \in DOMAIN f : f[y] \in Nat,
         NEW s, s \notin DOMAIN f, NEW x, x # s, NEW b \in Nat,
         NEW g, g = [y \in (DOMAIN f \cup {s}) \ {x} |-> IF y = s THEN b ELSE f[y]]
  PROVE  Sum(g) = SatSub(Sum(f) + b, At(f, x))
<1>1. PICK D, E : D = DOMAIN f /\ E = D \cup {s}
  OBVIOUS
<1>2. PICK h : h = [y \in E |-> IF y = s THEN b ELSE f[y]]
  OBVIOUS
<1>3. /\ IsFiniteSet(D) /\ IsFiniteSet(E) /\ s \notin D
      /\ \A y \in D : f[y] \in Nat /\ f[y] = h[y]
      /\ \A y \in E : h[y] \in Nat
      /\ h[s] = b
  <2>1. IsFiniteSet(E)
    BY <1>1, FS_AddElement
  <2> QED
    BY <1>1, <1>2, <2>1
<1>4. IntegersOn(f, D) /\ IntegersOn(h, D) /\ IntegersOn(h, E)
  <2>1. \A y \in D : f[y] \in Int /\ h[y] \in Int
    <3> SUFFICES ASSUME NEW y \in D PROVE f[y] \in Int /\ h[y] \in Int
      OBVIOUS
    <3>1. f[y] \in Nat /\ f[y] = h[y]
      BY <1>3
    <3> QED
      BY <3>1
  <2>2. \A y \in E : h[y] \in Int
    <3> SUFFICES ASSUME NEW y \in E PROVE h[y] \in Int
      OBVIOUS
    <3>1. h[y] \in Nat
      BY <1>3
    <3> QED
      BY <3>1
  <2> QED
    BY <2>1, <2>2 DEF IntegersOn
<1>5. PICK total \in Int : total = Sum(f) /\ total = SumFunctionOnSet(f, D)
  BY <1>1, <1>3, <1>4, SumType DEF Sum
<1>6. SumFunctionOnSet(h, E) = total + b
  <2>1. SumFunctionOnSet(h, D) = total
    BY <1>3, <1>4, <1>5, SumCongruence
  <2>2. SumFunctionOnSet(h, D \cup {s}) = SumFunctionOnSet(h, D) + h[s]
    <3>1. IntegersOn(h, D \cup {s})
      BY <1>1, <1>4
    <3> QED
      BY <1>3, <3>1, SumAdd
  <2> QED
    BY <1>1, <1>3, <2>1, <2>2
<1>7. PICK rest : rest = E \ {x} /\ DOMAIN g = rest /\ IsFiniteSet(rest)
  <2>1. IsFiniteSet(E \ {x})
    BY <1>3, FS_RemoveElement
  <2> QED
    BY <1>1, <2>1
<1>8. Sum(g) = SumFunctionOnSet(h, rest)
  <2>1. \A y \in rest : h[y] = g[y]
    BY <1>1, <1>2, <1>7
  <2>2. IntegersOn(h, rest)
    BY <1>4, <1>7 DEF IntegersOn
  <2>3. SumFunctionOnSet(h, rest) = SumFunctionOnSet(g, rest)
    <3>1. IsFiniteSet(rest)
      BY <1>7
    <3> QED
      BY <2>1, <2>2, <3>1, SumCongruence
  <2> QED
    BY <1>7, <2>3 DEF Sum
<1>9. CASE x \notin D
  <2>1. rest = E /\ At(f, x) = 0
    BY <1>1, <1>7, <1>9 DEF At
  <2>2. total + b \in Nat
    BY <1>3, <1>6, SumOfNaturals
  <2> QED
    BY <1>5, <1>6, <1>8, <2>1, <2>2 DEF SatSub
<1>10. CASE x \in D
  <2>1. x \in E /\ h[x] = f[x] /\ At(f, x) = f[x] /\ h[x] \in Nat
    BY <1>1, <1>3, <1>10 DEF At
  <2>2. SumFunctionOnSet(h, E) = h[x] + SumFunctionOnSet(h, E \ {x})
    BY <1>3, <1>4, <2>1, SumRemove
  <2>3. h[x] <= SumFunctionOnSet(h, E)
    BY <1>3, <2>1, SumCovers
  <2>4. SumFunctionOnSet(h, rest) \in Int
    <3>1. IntegersOn(h, rest)
      BY <1>4, <1>7 DEF IntegersOn
    <3> QED
      BY <1>7, <3>1, SumType
  <2> QED
    BY <1>5, <1>6, <1>7, <1>8, <2>1, <2>2, <2>3, <2>4 DEF SatSub
<1> QED
  BY <1>9, <1>10

(* What burnt up to a session that has ended is settled by the sessions    *)
(* announced until then.                                                   *)
LEMMA BurntUpToSame ==
  ASSUME NEW s \in Int, burnt' = burnt, {a \in announced : a <= s} = {a \in announced' : a <= s}
  PROVE  BurntUpTo(s)' = BurntUpTo(s)
<1>1. First(announced, s) = First(announced', s)
  BY FirstSame
<1>2. BurntUpTo(s)' = SumFrom(burnt', First(announced', s), s)
  BY DEF BurntUpTo, First
<1> QED
  BY <1>1, <1>2, BurntUpToIs

(* A session begins that is announced: both counters start afresh.         *)
LEMMA AnnouncedStep ==
  ASSUME ErasInv, BurnsInv, StartSession, Announce(session + 1), burnt' = burnt
  PROVE  /\ Counter(burnOf', session') /\ totalBurn' = Sum(burnOf)'
         /\ Filed' /\ RecentFiled'
         /\ sessionBurn' = BurntUpTo(session)'
<1>1. /\ session \in Int /\ session >= -1 /\ session' = session + 1
      /\ announced' = announced \cup {session + 1} /\ sessionBurn' = 0
  BY SessionFacts DEF StartSession, Announce
<1>2. /\ sessionBurn \in Nat /\ totalBurn \in Nat /\ announced \subseteq 0..session
      /\ sessionBurn = BurntUpTo(session) /\ totalBurn = Sum(burnOf)
  BY DEF BurnsInv, WindowTypeOK
<1>3. PICK C \in Nat : C = BurnedEnergySessionsCount /\ C >= 1
  BY WindowAssumption
<1>4. \A s \in DOMAIN burnOf : s \in Nat /\ s < session /\ burnOf[s] \in Nat
  <2> SUFFICES ASSUME NEW s \in DOMAIN burnOf PROVE s \in Nat /\ s < session /\ burnOf[s] \in Nat
    OBVIOUS
  <2>1. s \in 0..session /\ s + 1 \in 0..session /\ burnOf[s] \in Nat
    BY <1>2 DEF BurnsInv, Filed, Counter
  <2> QED
    BY <1>1, <2>1
<1>5. PICK x \in Int : x = session - C /\ session + 1 - (C + 1) = x /\ x < session
  BY <1>1, <1>3
<1>6. burnOf' = [s \in (DOMAIN burnOf \cup ({session} \cap Nat)) \ {x} |->
                   IF s = session THEN sessionBurn ELSE burnOf[s]]
  <2>1. burnOf' = BurnsWith(session + 1)
    BY DEF Announce
  <2>2. PICK index : index = session + 1
    OBVIOUS
  <2>3. index - 1 = session /\ index - (BurnedEnergySessionsCount + 1) = x
    BY <1>1, <1>3, <1>5, <2>2
  <2> QED
    BY <2>1, <2>2, <2>3 DEF BurnsWith
<1>7. totalBurn' = SatSub(IF session + 1 = 0 THEN totalBurn ELSE totalBurn + sessionBurn, At(burnOf, x))
  <2>1. totalBurn' = TotalWith(session + 1)
    BY DEF Announce
  <2>2. PICK index : index = session + 1
    OBVIOUS
  <2>3. index - (BurnedEnergySessionsCount + 1) = x
    BY <1>1, <1>3, <1>5, <2>2
  <2> QED
    BY <2>1, <2>2, <2>3 DEF TotalWith
<1>8. Counter(burnOf', session')
  <2>1. DOMAIN burnOf' \subseteq 0..(session + 1)
    <3>1. DOMAIN burnOf' \subseteq DOMAIN burnOf \cup ({session} \cap Nat)
      BY <1>6
    <3> QED
      BY <1>1, <1>4, <3>1
  <2>2. \A s \in DOMAIN burnOf' : burnOf'[s] \in Nat
    BY <1>2, <1>4, <1>6
  <2> QED
    BY <1>1, <2>1, <2>2 DEF Counter
<1>9. totalBurn' = Sum(burnOf)'
  <2>1. CASE session = -1
    <3>1. DOMAIN burnOf = {} /\ {session} \cap Nat = {}
      <4>1. ASSUME NEW s \in DOMAIN burnOf PROVE FALSE
        <5>1. s \in Nat /\ s < session
          BY <1>4
        <5> QED
          BY <2>1, <5>1
      <4>2. session \notin Nat
        BY <2>1
      <4> QED
        BY <4>1, <4>2
    <3>2. DOMAIN burnOf' = {} /\ At(burnOf, x) = 0
      BY <1>6, <3>1 DEF At
    <3>3. Sum(burnOf) = 0 /\ Sum(burnOf') = 0
      BY <3>1, <3>2, SumEmpty DEF Sum
    <3> QED
      BY <1>2, <1>7, <2>1, <3>2, <3>3 DEF SatSub, Sum
  <2>2. CASE session >= 0
    <3>1. {session} \cap Nat = {session} /\ session + 1 # 0
      BY <1>1, <2>2
    <3>2. PICK f, g, s, b : f = burnOf /\ g = burnOf' /\ s = session /\ b = sessionBurn
      OBVIOUS
    <3>3. /\ \A y \in DOMAIN f : f[y] \in Nat
          /\ s \notin DOMAIN f /\ x # s /\ b \in Nat
          /\ g = [y \in (DOMAIN f \cup {s}) \ {x} |-> IF y = s THEN b ELSE f[y]]
      BY <1>1, <1>2, <1>4, <1>5, <1>6, <3>1, <3>2
    <3>4. IsFiniteSet(DOMAIN f)
      <4>1. DOMAIN f \subseteq 0..session
        BY <3>2 DEF BurnsInv, Counter
      <4>2. IsFiniteSet(0..session)
        BY <1>1, FS_Interval
      <4> QED
        BY <4>1, <4>2, FS_Subset
    <3>5. Sum(g) = SatSub(Sum(f) + b, At(f, x))
      BY <3>3, <3>4, WindowMoves
    <3> QED
      BY <1>2, <1>7, <3>1, <3>2, <3>5 DEF Sum
  <2> QED
    BY <1>1, <2>1, <2>2
<1>10. \A s \in Int : s <= session => BurntUpTo(s)' = BurntUpTo(s)
  <2> SUFFICES ASSUME NEW s \in Int, s <= session PROVE BurntUpTo(s)' = BurntUpTo(s)
    OBVIOUS
  <2>1. {a \in announced : a <= s} = {a \in announced' : a <= s}
    BY <1>1
  <2> QED
    BY <2>1, BurntUpToSame
<1>11. Filed'
  <2> SUFFICES ASSUME NEW s \in DOMAIN burnOf' 
               PROVE  s + 1 \in announced' /\ burnOf'[s] = BurntUpTo(s)'
    BY DEF Filed
  <2>1. CASE s = session
    <3>1. burnOf'[s] = sessionBurn
      BY <1>6, <2>1
    <3> QED
      BY <1>1, <1>2, <1>10, <2>1, <3>1
  <2>2. CASE s # session
    <3>1. s \in DOMAIN burnOf /\ burnOf'[s] = burnOf[s]
      BY <1>6, <2>2
    <3>2. s \in Int /\ s <= session
      BY <1>1, <1>4, <3>1
    <3>3. s + 1 \in announced /\ burnOf[s] = BurntUpTo(s)
      BY <3>1 DEF BurnsInv, Filed
    <3> QED
      BY <1>1, <1>10, <3>1, <3>2, <3>3
  <2> QED
    BY <2>1, <2>2
<1>12. RecentFiled'
  <2> SUFFICES ASSUME NEW s \in announced', s \in 1..session', s >= session' - C + 1
               PROVE  s - 1 \in DOMAIN burnOf'
    BY <1>3 DEF RecentFiled
  <2>1. s \in Int /\ s >= 1 /\ s <= session + 1 /\ s >= session - C + 2
    BY <1>1, <1>3
  <2>2. s - 1 \in DOMAIN burnOf \cup ({session} \cap Nat)
    <3>1. CASE s = session + 1
      BY <1>1, <2>1, <3>1
    <3>2. CASE s # session + 1
      <4>1. s \in announced /\ s \in 1..session /\ s >= session - C + 1
        BY <1>1, <1>3, <2>1, <3>2
      <4>2. s - 1 \in DOMAIN burnOf
        BY <1>3, <4>1 DEF BurnsInv, RecentFiled
      <4> QED
        BY <4>2
    <3> QED
      BY <3>1, <3>2
  <2>3. s - 1 # x
    BY <1>1, <1>3, <1>5, <2>1
  <2> QED
    BY <1>6, <2>2, <2>3
<1>13. sessionBurn' = BurntUpTo(session)'
  <2>1. PICK seen, now : seen = announced' /\ now = session + 1 /\ now \in Nat
    BY <1>1
  <2>2. seen \subseteq Nat /\ now \in Int /\ now >= -1 /\ now \in seen
    BY <1>1, <1>2, <2>1
  <2>3. First(seen, now) = now
    BY <2>2, FirstIs
  <2>4. \A s \in now..now : At(burnt, s) = 0
    <3>1. now \notin DOMAIN burnt
      BY <1>1, <2>1 DEF BurnsInv, Counter
    <3> QED
      BY <3>1 DEF At
  <2>5. SumFrom(burnt, now, now) = 0
    <3>1. SumFrom(burnt, now, session) = 0
      BY <1>1, <2>1, SumFromEmpty
    <3>2. PICK f : f = burnt
      OBVIOUS
    <3>3. PICK last \in Int : last = session
      BY <1>1
    <3>4. now \in Int /\ now <= last + 1 /\ \A s \in now..(last + 1) : At(f, s) \in Int
      BY <1>1, <2>1, <2>4, <3>2, <3>3
    <3>5. SumFrom(f, now, last + 1) = SumFrom(f, now, last) + At(f, last + 1)
      BY <3>4, SumFromNext
    <3> QED
      BY <2>1, <2>2, <2>4, <3>1, <3>2, <3>3, <3>5
  <2>6. BurntUpTo(session)' = SumFrom(burnt', First(announced', session'), session')
    BY DEF BurntUpTo, First
  <2> QED
    BY <1>1, <2>1, <2>3, <2>5, <2>6
<1> QED
  BY <1>8, <1>9, <1>11, <1>12, <1>13

(* A session begins that is not announced: nothing has burnt in it yet.    *)
LEMMA SilentStep ==
  ASSUME ErasInv, BurnsInv, StartSession,
         UNCHANGED <<burnOf, totalBurn, generation, sessionBurn, announced, due>>, burnt' = burnt
  PROVE  /\ Counter(burnOf', session') /\ totalBurn' = Sum(burnOf)'
         /\ Filed' /\ RecentFiled'
         /\ sessionBurn' = BurntUpTo(session)'
<1>1. /\ session \in Int /\ session >= -1 /\ session' = session + 1
      /\ announced' = announced /\ sessionBurn' = sessionBurn /\ burnOf' = burnOf /\ totalBurn' = totalBurn
  BY SessionFacts DEF StartSession
<1>2. /\ announced \subseteq 0..session
      /\ sessionBurn = BurntUpTo(session) /\ totalBurn = Sum(burnOf)
      /\ Counter(burnOf, session)
  BY DEF BurnsInv, WindowTypeOK
<1>3. Counter(burnOf', session') /\ totalBurn' = Sum(burnOf)'
  BY <1>1, <1>2 DEF Counter, Sum
<1>4. \A s \in Int : BurntUpTo(s)' = BurntUpTo(s)
  BY <1>1, BurntUpToSame
<1>5. Filed'
  <2> SUFFICES ASSUME NEW s \in DOMAIN burnOf
               PROVE  s + 1 \in announced /\ burnOf[s] = BurntUpTo(s)'
    BY <1>1 DEF Filed
  <2>1. s \in Int
    BY <1>2 DEF Counter
  <2> QED
    BY <1>4, <2>1 DEF BurnsInv, Filed
<1>6. RecentFiled'
  <2> SUFFICES ASSUME NEW s \in announced', s \in 1..session',
                      s >= session' - BurnedEnergySessionsCount + 1
               PROVE  s - 1 \in DOMAIN burnOf'
    BY DEF RecentFiled
  <2>1. s \in announced /\ s \in 1..session /\ s >= session - BurnedEnergySessionsCount + 1
    BY <1>1, <1>2, WindowAssumption
  <2> QED
    BY <1>1, <2>1 DEF BurnsInv, RecentFiled
<1>7. sessionBurn' = BurntUpTo(session)'
  <2>1. PICK seen, now : seen = announced /\ now = session + 1
    OBVIOUS
  <2>2. seen \subseteq Nat /\ now \in Int /\ now >= 0 /\ now >= -1
    BY <1>1, <1>2, <2>1
  <2>3. PICK first \in Nat : first = First(announced, now) /\ first <= now
    BY <2>1, <2>2, FirstIs
  <2>4. first = First(announced, session)
    <3>1. {a \in announced : a <= session} = {a \in announced : a <= now}
      <4>1. \A a \in announced : a <= session /\ a <= session + 1
        BY <1>1, <1>2
      <4> QED
        BY <2>1, <4>1
    <3> QED
      BY <2>3, <3>1, FirstSame
  <2>5. PICK f : f = burnt
    OBVIOUS
  <2>6. PICK last \in Int : last = session /\ now = last + 1
    BY <1>1, <2>1
  <2>7. SumFrom(f, first, last + 1) = SumFrom(f, first, last) + At(f, last + 1)
    <3>1. DOMAIN f \subseteq 0..session /\ \A s \in DOMAIN f : f[s] \in Nat
      BY <2>5 DEF BurnsInv, Counter
    <3>2. \A s \in first..(last + 1) : At(f, s) \in Int
      BY <3>1 DEF At
    <3>3. first \in Int /\ first <= last + 1
      BY <2>3, <2>6
    <3> QED
      BY <3>2, <3>3, SumFromNext
  <2>8. At(f, last + 1) = 0
    BY <1>1, <2>5, <2>6 DEF BurnsInv, Counter, At
  <2>9. SumFrom(f, first, last) \in Int
    <3>1. DOMAIN f \subseteq 0..session /\ \A s \in DOMAIN f : f[s] \in Nat
      BY <2>5 DEF BurnsInv, Counter
    <3>2. \A s \in first..last : At(f, s) \in Int
      BY <3>1 DEF At
    <3>3. first \in Int
      BY <2>3
    <3> QED
      BY <3>2, <3>3, SumFromIs
  <2>10. BurntUpTo(now)' = SumFrom(f, first, last + 1)
    <3>1. BurntUpTo(now)' = BurntUpTo(now)
      BY <1>4, <2>2
    <3> QED
      BY <2>3, <2>5, <2>6, <3>1, BurntUpToIs
  <2>11. BurntUpTo(session) = SumFrom(f, first, last)
    BY <2>4, <2>5, <2>6, BurntUpToIs
  <2>12. BurntUpTo(session)' = BurntUpTo(now)'
    BY <1>1, <2>1
  <2> QED
    BY <1>1, <1>2, <2>7, <2>8, <2>9, <2>10, <2>11, <2>12
<1> QED
  BY <1>3, <1>5, <1>6, <1>7

(* A session begins, announced or not.                                     *)
LEMMA StartSessionBurns ==
  ASSUME ErasInv, BurnsInv, StartSessionW, ErasInv'
  PROVE  BurnsInv'
<1>1. StartSession /\ burnt' = burnt /\ settings' = settings /\ eraEnergy' = eraEnergy /\ burns' = burns
  BY DEF StartSessionW
<1>2. session \in Int /\ session >= -1 /\ session' = session + 1 /\ activeEra \in Int
      /\ activeEra' \in {activeEra, activeEra + 1}
  BY <1>1, SessionFacts DEF StartSession, StartEra
<1>3. /\ Counter(burnOf', session') /\ totalBurn' = Sum(burnOf)'
      /\ Filed' /\ RecentFiled'
      /\ sessionBurn' = BurntUpTo(session)'
  <2>1. CASE Announce(session + 1)
    BY <1>1, <2>1, AnnouncedStep
  <2>2. CASE UNCHANGED <<burnOf, totalBurn, generation, sessionBurn, announced, due>>
    BY <1>1, <2>2, SilentStep
  <2> QED
    BY <2>1, <2>2 DEF StartSessionW
<1>4. Counter(burnt', session')
  BY <1>1, <1>2 DEF BurnsInv, Counter
<1>5. /\ DOMAIN generation' \subseteq 0..(session + 1) /\ announced' \subseteq 0..(session + 1)
      /\ {sessionBurn', totalBurn'} \subseteq Nat
  <2>1. /\ DOMAIN generation \subseteq 0..session /\ announced \subseteq 0..session
        /\ sessionBurn \in Nat /\ totalBurn \in Nat
    BY DEF BurnsInv, WindowTypeOK
  <2>2. CASE Announce(session + 1)
    <3>1. DOMAIN generation' \subseteq DOMAIN generation \cup {session + 1}
          /\ announced' = announced \cup {session + 1} /\ sessionBurn' = 0
      BY <2>2 DEF Announce, GenerationWith
    <3>2. totalBurn' \in Nat
      <4>1. PICK f : f = burnOf'
        OBVIOUS
      <4>2. IsFiniteSet(DOMAIN f) /\ \A s \in DOMAIN f : f[s] \in Nat
        <5>1. DOMAIN f \subseteq 0..(session + 1) /\ \A s \in DOMAIN f : f[s] \in Nat
          BY <1>2, <1>3, <4>1 DEF Counter
        <5>2. IsFiniteSet(0..(session + 1))
          BY <1>2, FS_Interval
        <5> QED
          BY <5>1, <5>2, FS_Subset
      <4>3. SumFunctionOnSet(f, DOMAIN f) \in Nat
        BY <4>2, SumOfNaturals
      <4> QED
        BY <1>3, <4>1, <4>3 DEF Sum
    <3> QED
      BY <1>2, <2>1, <3>1, <3>2
  <2>3. CASE UNCHANGED <<burnOf, totalBurn, generation, sessionBurn, announced, due>>
    BY <1>2, <2>1, <2>3
  <2> QED
    BY <2>2, <2>3 DEF StartSessionW
<1>6. WindowTypeOK'
  <2>1. DOMAIN eraEnergy' \subseteq 0..activeEra'
    BY <1>1, <1>2 DEF BurnsInv, WindowTypeOK
  <2>2. EraTypeOK'
    BY DEF ErasInv
  <2>3. settings' \in Settings /\ burns' \in Nat
    BY <1>1 DEF BurnsInv, WindowTypeOK
  <2>4. DOMAIN burnOf' \subseteq 0..session'
    BY <1>3 DEF Counter
  <2> QED
    BY <1>2, <1>5, <2>1, <2>2, <2>3, <2>4 DEF WindowTypeOK
<1> QED
  BY <1>2, <1>3, <1>4, <1>6 DEF BurnsInv

(* The other steps leave the counters alone.                               *)
LEMMA OtherStepsBurns ==
  ASSUME ErasInv, BurnsInv, ErasInv',
         UNCHANGED <<session, activeEra, sessionBurn, burnOf, totalBurn, generation, burns, announced, burnt>>,
         settings' \in Settings, DOMAIN eraEnergy' \subseteq 0..activeEra
  PROVE  BurnsInv'
<1>1. WindowTypeOK'
  BY DEF BurnsInv, WindowTypeOK, ErasInv
<1>2. Counter(burnt', session') /\ Counter(burnOf', session') /\ totalBurn' = Sum(burnOf)'
  BY DEF BurnsInv, Sum
<1>3. \A s : BurntUpTo(s)' = BurntUpTo(s)
  BY DEF BurntUpTo
<1>4. Filed' /\ RecentFiled' /\ sessionBurn' = BurntUpTo(session)'
  BY <1>3 DEF BurnsInv, Filed, RecentFiled
<1> QED
  BY <1>1, <1>2, <1>4 DEF BurnsInv

(* Every step keeps the burns on file.                                     *)
LEMMA BurnsNext ==
  ASSUME ErasInv, BurnsInv, [WindowNext]_energyVars
  PROVE  BurnsInv'
<1>1. ErasInv'
  BY NextInv, WindowNextIsEraNext
<1>2. settings \in Settings /\ DOMAIN eraEnergy \subseteq 0..activeEra
  BY DEF BurnsInv, WindowTypeOK
<1>3. CASE EndSessionW
  <2>1. DOMAIN eraEnergy' \subseteq DOMAIN eraEnergy \cup {activeEra} /\ activeEra \in 0..activeEra
    BY <1>3, SessionFacts DEF EndSessionW, EndSession, Put
  <2> QED
    BY <1>1, <1>2, <1>3, <2>1, OtherStepsBurns DEF EndSessionW, EndSession
<1>4. CASE StartSessionW
  BY <1>1, <1>4, StartSessionBurns
<1>5. CASE PlanEraW
  <2>1. DOMAIN eraEnergy' \subseteq DOMAIN eraEnergy
    BY <1>5 DEF PlanEraW
  <2> QED
    BY <1>1, <1>2, <1>5, <2>1, OtherStepsBurns DEF PlanEraW, PlanEra, PlanNext
<1>6. CASE PlanSessionW
  BY <1>1, <1>2, <1>6, OtherStepsBurns DEF PlanSessionW, PlanSession, PlanNext, windowVars
<1>7. CASE ForceErasW
  BY <1>1, <1>2, <1>7, OtherStepsBurns DEF ForceErasW, ForceEras, windowVars
<1>8. CASE \E amount \in Amounts : Burn(amount)
  BY <1>8, BurnStep
<1>9. CASE \E choice \in Settings : SetParameters(choice)
  BY <1>1, <1>2, <1>9, OtherStepsBurns DEF SetParameters, eraVars
<1>10. CASE UNCHANGED energyVars
  BY <1>1, <1>2, <1>10, OtherStepsBurns DEF energyVars, eraVars, windowVars
<1> QED
  BY <1>3, <1>4, <1>5, <1>6, <1>7, <1>8, <1>9, <1>10 DEF WindowNext

(* Of every run of the windows: the total is the sum of the sessions on    *)
(* file, and each session on file holds what burnt since the announcement  *)
(* before, whichever sessions were never announced.                        *)
THEOREM BurnsAlwaysAddUp == WindowSpec => []BurnsAddUp
<1>1. WindowInit => BurnsInv
  BY BurnsInit
<1>2. ErasInv /\ BurnsInv /\ [WindowNext]_energyVars => BurnsInv'
  BY BurnsNext
<1>3. BurnsInv => BurnsAddUp
  BY DEF BurnsInv, BurnsAddUp, TotalIsSum, BurnsFiled, Filed, RecentFiled
<1> QED
  BY <1>1, <1>2, <1>3, ErasInvariantW, PTL DEF WindowSpec

-----------------------------------------------------------------------------
(* The energy of an era                                                    *)

(* What is generated in a session is a number.                             *)
LEMMA RateType ==
  ASSUME BurnsInv, Record(generation, session), NEW index \in Int
  PROVE  GenerationRate(index) \in Int
<1>1. /\ settings.override \in Nat \cup {None} /\ settings.minimum \in Nat /\ settings.factor \in Nat
      /\ sessionBurn \in Nat
  <2>1. settings \in SettingsOf(Nat) /\ sessionBurn \in Nat
    BY WindowAssumption DEF BurnsInv, WindowTypeOK
  <2> QED
    BY <2>1 DEF SettingsOf
<1>2. PICK burn \in Nat : burn = IF settings.override = None THEN sessionBurn ELSE settings.override
  BY <1>1
<1>3. PICK new \in Int : new = Max({burn, settings.minimum})
  <2>1. PICK m \in Nat : m = settings.minimum
    BY <1>1
  <2>2. PICK top \in {burn, m} : \A x \in {burn, m} : x <= top
    <3>1. CASE burn >= m
      BY <3>1
    <3>2. CASE ~(burn >= m)
      BY <3>2
    <3> QED
      BY <3>1, <3>2
  <2>3. {burn, m} \subseteq Int /\ top \in Int
    OBVIOUS
  <2>4. Max({burn, m}) = top
    BY <2>2, <2>3, MaxIs
  <2> QED
    BY <2>1, <2>3, <2>4
<1>4. PICK old \in Int : old = At(generation, index - 1)
  <2>1. PICK f, s, last : f = generation /\ s = index - 1 /\ last = session
    OBVIOUS
  <2>2. Record(f, last)
    BY <2>1
  <2>3. At(f, s) \in Int
    BY <2>2, AtIs
  <2> QED
    BY <2>1, <2>3
<1>5. PICK weight \in Int : weight = Min({100, 200 \div (settings.factor + 1)})
  <2>1. PICK w \in Int : w = 200 \div (settings.factor + 1)
    BY <1>1
  <2>2. PICK low \in {100, w} : \A x \in {100, w} : low <= x
    <3>1. CASE w <= 100
      BY <3>1
    <3>2. CASE ~(w <= 100)
      BY <3>2
    <3> QED
      BY <3>1, <3>2
  <2>3. {100, w} \subseteq Int /\ low \in Int
    OBVIOUS
  <2>4. Min({100, w}) = low
    BY <2>2, <2>3, MinIs
  <2> QED
    BY <2>1, <2>3, <2>4
<1>6. GenerationRate(index) = Percent(weight, new) + Percent(100 - weight, old)
  BY <1>2, <1>3, <1>4, <1>5 DEF GenerationRate, Smoothed
<1>7. \A p, a \in Int : Percent(p, a) \in Int
  <2> SUFFICES ASSUME NEW p \in Int, NEW a \in Int PROVE Percent(p, a) \in Int
    OBVIOUS
  <2>1. p * a \in Int
    OBVIOUS
  <2> QED
    BY <2>1 DEF Percent
<1> QED
  BY <1>6, <1>7

(* The energy of an era is stored just before the next one starts.        *)
Ended ==
  \A e \in DOMAIN eraEnergy :
    \/ e < activeEra
    \/ /\ e = activeEra /\ phase = "start"
       /\ activeEra + 1 \in DOMAIN eraStart /\ eraStart[activeEra + 1] = session + 1

(* The active era is due what its sessions generated, while all of them    *)
(* are on file.                                                            *)
Credited ==
  session >= 0 /\ session - eraStart[activeEra] <= SessionsPerEra =>
    At(due, activeEra) = SumFrom(generation, eraStart[activeEra], session)

EnergyInv ==
  /\ Record(generation, session)
  /\ Record(due, activeEra)
  /\ Ended
  /\ Credited
  /\ EraEnergyIsDue

(* At the beginning nothing is generated and no era has ended.             *)
LEMMA EnergyInit == WindowInit => EnergyInv
BY DEF WindowInit, EraInit, Nothing, EnergyInv, Record, Ended, Credited, EraEnergyIsDue

(* Where the active era begins.                                            *)
LEMMA ActiveStart ==
  ASSUME ErasInv, session >= 0
  PROVE  /\ activeEra \in DOMAIN eraStart /\ activeEra \in Nat /\ currentEra \in {activeEra, activeEra + 1}
         /\ eraStart[activeEra] \in Nat /\ eraStart[activeEra] <= session
<1>1. activeEra \in Nat /\ session \in Nat /\ currentEra \in {activeEra, activeEra + 1}
  BY DEF ErasInv, EraTypeOK, Counters, Planning
<1>2. activeEra \in DOMAIN eraStart
  BY <1>1, ErasAssumption DEF ErasInv, Planning, Oldest
<1>3. eraStart[activeEra] \in Nat
  BY <1>2 DEF ErasInv, EraTypeOK
<1>4. session \in 0..session /\ eraOfSession[session] = activeEra
  BY <1>1 DEF ErasInv, Counters
<1>5. eraStart[activeEra] <= session
  BY <1>1, <1>2, <1>4 DEF ErasInv, Windows
<1> QED
  BY <1>1, <1>2, <1>3, <1>5

(* An era that starts, starts in the session that was announced for it.    *)
LEMMA StartsOnTime ==
  ASSUME ErasInv, StartSession, StartsEra
  PROVE  activeEra + 1 \in DOMAIN eraStart /\ eraStart[activeEra + 1] = session + 1
<1>1. /\ activeEra + 1 \in DOMAIN eraStart /\ eraStart[activeEra + 1] <= session + 1
      /\ session \in Int /\ activeEra \in Int /\ eraStart[activeEra + 1] \in Nat /\ phase = "start"
  BY DEF ErasInv, EraTypeOK, StartsEra, StartSession
<1>2. eraStart[activeEra + 1] >= session + 1
  <2>1. CASE session = -1
    BY <1>1, <2>1
  <2>2. CASE session # -1
    <3>1. session >= 0 /\ currentEra \in {activeEra, activeEra + 1}
          /\ (currentEra = activeEra + 1 => eraStart[currentEra] = session + 1)
      BY <1>1, <2>2 DEF ErasInv, Counters, Planning
    <3>2. currentEra = activeEra + 1
      BY <1>1, <3>1, ErasAssumption DEF ErasInv, EraTypeOK, Planning, Oldest
    <3> QED
      BY <1>1, <3>1, <3>2
  <2> QED
    BY <2>1, <2>2
<1> QED
  BY <1>1, <1>2

(* What an announcement adds to the two records.                           *)
LEMMA AnnounceRecords ==
  ASSUME ErasInv, BurnsInv, EnergyInv, StartSession, Announce(session + 1),
         NEW rate, rate = GenerationRate(session + 1)
  PROVE  /\ rate \in Int
         /\ Record(generation', session') /\ Record(due', activeEra')
         /\ \A s \in Int : s # session - SessionsPerEra =>
              At(generation', s) = IF s = session + 1 THEN rate ELSE At(generation, s)
         /\ \A e : At(due', e) = IF e = activeEra' THEN At(due, e) + rate ELSE At(due, e)
<1>1. /\ session \in Int /\ session >= -1 /\ session' = session + 1
      /\ activeEra \in Int /\ activeEra >= -1 /\ activeEra' \in Nat /\ activeEra' >= activeEra
  <2>1. CASE StartsEra
    BY <2>1, SessionFacts DEF StartSession, StartEra
  <2>2. CASE ~StartsEra
    <3>1. session # -1
      <4>1. session = -1 => activeEra + 1 = 0 /\ 0 \in DOMAIN eraStart /\ eraStart[0] = 0
        BY ErasAssumption DEF ErasInv, EraTypeOK, Counters, Planning, Oldest
      <4> QED
        BY <2>2, <4>1 DEF StartsEra
    <3> QED
      BY <2>2, <3>1, SessionFacts DEF StartSession
  <2> QED
    BY <2>1, <2>2
<1>2. Record(generation, session) /\ Record(due, activeEra)
  BY DEF EnergyInv
<1>3. rate \in Int
  BY <1>1, <1>2, RateType
<1>4. PICK gone : gone = session - SessionsPerEra
  OBVIOUS
<1>5. generation' = [s \in (DOMAIN generation \cup {session + 1}) \ {gone} |->
                       IF s = session + 1 THEN rate ELSE generation[s]]
  <2>1. generation' = GenerationWith(session + 1)
    BY DEF Announce
  <2>2. PICK index : index = session + 1
    OBVIOUS
  <2>3. index - (SessionsPerEra + 1) = gone
    BY <1>1, <1>4, <2>2, ErasAssumption
  <2> QED
    BY <2>1, <2>2, <2>3 DEF GenerationWith
<1>6. due' = Put(due, activeEra', At(due, activeEra') + rate)
  BY DEF Announce
<1>7. Record(generation', session')
  <2>1. DOMAIN generation \subseteq 0..session /\ \A s \in DOMAIN generation : generation[s] \in Int
    BY <1>2 DEF Record
  <2>2. DOMAIN generation' \subseteq 0..(session + 1)
    BY <1>1, <1>5, <2>1
  <2>3. \A s \in DOMAIN generation' : generation'[s] \in Int
    BY <1>3, <1>5, <2>1
  <2> QED
    BY <1>1, <2>2, <2>3 DEF Record
<1>8. \A s \in Int : s # gone =>
        At(generation', s) = IF s = session + 1 THEN rate ELSE At(generation, s)
  BY <1>5 DEF At
<1>9. \A e : At(due', e) = IF e = activeEra' THEN At(due, e) + rate ELSE At(due, e)
  <2>1. PICK f, x, value : f = due /\ x = activeEra' /\ value = At(f, x) + rate
    OBVIOUS
  <2>2. PICK g : g = Put(f, x, value)
    OBVIOUS
  <2>3. g = [y \in DOMAIN f \cup {x} |-> IF y = x THEN value ELSE f[y]]
    BY <2>2 DEF Put
  <2>4. \A e : At(g, e) = IF e = x THEN value ELSE At(f, e)
    BY <2>3 DEF At
  <2> QED
    BY <1>6, <2>1, <2>2, <2>4
<1>10. Record(due', activeEra')
  <2>1. DOMAIN due \subseteq 0..activeEra /\ \A e \in DOMAIN due : due[e] \in Int
    BY <1>2 DEF Record
  <2>2. DOMAIN due' = DOMAIN due \cup {activeEra'}
    BY <1>6 DEF Put
  <2>3. \A e : At(due, e) \in Int
    BY <2>1 DEF At
  <2>4. \A e : At(due', e) \in Int
    BY <1>3, <1>9, <2>3
  <2>5. \A e \in DOMAIN due' : due'[e] \in Int
    BY <2>4 DEF At
  <2>6. DOMAIN due' \subseteq 0..activeEra'
    BY <1>1, <2>1, <2>2
  <2> QED
    BY <2>5, <2>6 DEF Record
<1> QED
  BY <1>3, <1>4, <1>7, <1>8, <1>9, <1>10

(* The sum over one session.                                               *)
LEMMA SumFromOne ==
  ASSUME NEW f, NEW s \in Int, At(f, s) \in Int
  PROVE  SumFrom(f, s, s) = At(f, s)
<1>1. PICK last \in Int : last = s - 1 /\ last + 1 = s
  OBVIOUS
<1>2. s <= last + 1 /\ \A t \in s..(last + 1) : At(f, t) \in Int
  <2> SUFFICES ASSUME NEW t \in s..(last + 1) PROVE At(f, t) \in Int
    BY <1>1
  <2>1. t = s
    BY <1>1
  <2> QED
    BY <2>1
<1>3. SumFrom(f, s, last + 1) = SumFrom(f, s, last) + At(f, last + 1)
  BY <1>2, SumFromNext
<1>4. SumFrom(f, s, last) = 0
  BY <1>1, SumFromEmpty
<1> QED
  BY <1>1, <1>3, <1>4

(* A session that starts an era: the era is due what that session          *)
(* generates, which is nothing if it is not announced.                     *)
LEMMA CreditAtStart ==
  ASSUME ErasInv, BurnsInv, EnergyInv, StartSessionW, StartsEra
  PROVE  Credited' /\ Record(generation', session') /\ Record(due', activeEra')
<1>1. StartSession
  BY DEF StartSessionW
<1>2. /\ session \in Int /\ session >= -1 /\ session' = session + 1 /\ activeEra \in Int /\ activeEra >= -1
      /\ activeEra' = activeEra + 1 /\ eraStart' = eraStart /\ eraStart[activeEra + 1] = session + 1
  BY <1>1, SessionFacts, StartsOnTime DEF StartSession, StartEra
<1>3. Record(generation, session) /\ Record(due, activeEra)
  BY DEF EnergyInv
<1>4. At(due, activeEra + 1) = 0
  BY <1>2, <1>3 DEF Record, At
<1>5. CASE Announce(session + 1)
  <2>1. PICK rate : rate = GenerationRate(session + 1)
    OBVIOUS
  <2>2. /\ rate \in Int
        /\ Record(generation', session') /\ Record(due', activeEra')
        /\ \A s \in Int : s # session - SessionsPerEra =>
              At(generation', s) = IF s = session + 1 THEN rate ELSE At(generation, s)
        /\ \A e : At(due', e) = IF e = activeEra' THEN At(due, e) + rate ELSE At(due, e)
    BY <1>1, <1>5, <2>1, AnnounceRecords
  <2>3. At(due', activeEra') = rate
    BY <1>2, <1>4, <2>2
  <2>4. PICK f, s : f = generation' /\ s = session + 1
    OBVIOUS
  <2>5. s \in Int /\ s # session - SessionsPerEra
    BY <1>2, <2>4, ErasAssumption
  <2>6. At(f, s) = rate
    BY <2>2, <2>4, <2>5
  <2>7. SumFrom(f, s, s) = rate
    BY <2>2, <2>5, <2>6, SumFromOne
  <2> QED
    BY <1>2, <2>2, <2>3, <2>4, <2>7 DEF Credited
<1>6. CASE UNCHANGED <<burnOf, totalBurn, generation, sessionBurn, announced, due>>
  <2>1. Record(generation', session') /\ Record(due', activeEra')
    BY <1>2, <1>3, <1>6 DEF Record
  <2>2. PICK f, s : f = generation /\ s = session + 1
    OBVIOUS
  <2>3. s \in Int /\ At(f, s) = 0
    BY <1>2, <1>3, <2>2 DEF Record, At
  <2>4. SumFrom(f, s, s) = 0
    BY <2>3, SumFromOne
  <2> QED
    BY <1>2, <1>4, <1>6, <2>1, <2>2, <2>4 DEF Credited
<1> QED
  BY <1>5, <1>6 DEF StartSessionW

(* A session within an era is announced, and adds what it generates.       *)
LEMMA CreditWithin ==
  ASSUME ErasInv, BurnsInv, EnergyInv, StartSessionW, ~StartsEra
  PROVE  Credited' /\ Record(generation', session') /\ Record(due', activeEra')
<1>1. StartSession /\ Announce(session + 1)
  BY DEF StartSessionW, SlashMayFail
<1>2. /\ session \in Int /\ session >= -1 /\ session' = session + 1
      /\ activeEra' = activeEra /\ eraStart' = eraStart
  BY <1>1, SessionFacts DEF StartSession
<1>3. session >= 0
  <2>1. session = -1 => activeEra + 1 = 0 /\ 0 \in DOMAIN eraStart /\ eraStart[0] = 0
    BY ErasAssumption DEF ErasInv, EraTypeOK, Counters, Planning, Oldest
  <2> QED
    BY <1>2, <2>1 DEF StartsEra
<1>4. PICK start \in Nat : start = eraStart[activeEra] /\ start <= session
  BY <1>3, ActiveStart
<1>5. PICK rate : rate = GenerationRate(session + 1)
  OBVIOUS
<1>6. /\ rate \in Int
      /\ Record(generation', session') /\ Record(due', activeEra')
      /\ \A s \in Int : s # session - SessionsPerEra =>
            At(generation', s) = IF s = session + 1 THEN rate ELSE At(generation, s)
      /\ \A e : At(due', e) = IF e = activeEra' THEN At(due, e) + rate ELSE At(due, e)
  BY <1>1, <1>5, AnnounceRecords
<1>7. ASSUME session' - start <= SessionsPerEra
      PROVE  At(due', activeEra) = SumFrom(generation', start, session')
  <2>1. At(due, activeEra) = SumFrom(generation, start, session)
    <3>1. session - start <= SessionsPerEra
      BY <1>2, <1>4, <1>7, ErasAssumption
    <3> QED
      BY <1>3, <1>4, <3>1 DEF EnergyInv, Credited
  <2>2. PICK f, g, last : f = generation /\ g = generation' /\ last = session
    OBVIOUS
  <2>3. /\ last \in Int /\ start \in Int /\ start <= last + 1
        /\ \A s \in start..last : At(f, s) = At(g, s)
        /\ At(g, last + 1) = rate
    <3>1. ASSUME NEW s \in start..(last + 1)
          PROVE  At(g, s) = IF s = last + 1 THEN rate ELSE At(f, s)
      <4>1. s \in Int /\ s # session - SessionsPerEra
        BY <1>2, <1>4, <1>7, <2>2, ErasAssumption
      <4> QED
        BY <1>6, <2>2, <4>1
    <3> QED
      BY <1>2, <1>4, <2>2, <3>1
  <2>4. \A s \in start..(last + 1) : At(g, s) \in Int
    <3>1. \A s \in DOMAIN g : g[s] \in Int
      BY <1>6, <2>2 DEF Record
    <3> QED
      BY <3>1 DEF At
  <2>5. SumFrom(g, start, last + 1) = SumFrom(g, start, last) + At(g, last + 1)
    BY <2>3, <2>4, SumFromNext
  <2>6. SumFrom(f, start, last) = SumFrom(g, start, last)
    BY <2>3, SumFromSame
  <2> QED
    BY <1>2, <1>6, <2>1, <2>2, <2>3, <2>5, <2>6
<1> QED
  BY <1>2, <1>4, <1>6, <1>7 DEF Credited

(* The start of a session credits the era that is active then, and leaves  *)
(* those that have ended alone.                                            *)
LEMMA StartSessionEnergy ==
  ASSUME ErasInv, BurnsInv, EnergyInv, StartSessionW
  PROVE  EnergyInv'
<1>1. Credited' /\ Record(generation', session') /\ Record(due', activeEra')
  BY CreditAtStart, CreditWithin
<1>2. StartSession /\ eraEnergy' = eraEnergy /\ eraStart' = eraStart /\ phase = "start"
  BY DEF StartSessionW, StartSession
<1>3. activeEra \in Int /\ activeEra' \in {activeEra, activeEra + 1}
  BY <1>2, SessionFacts DEF StartSession, StartEra
<1>4. \A e \in DOMAIN eraEnergy : e \in Int /\ e < activeEra'
  <2> SUFFICES ASSUME NEW e \in DOMAIN eraEnergy PROVE e \in Int /\ e < activeEra'
    OBVIOUS
  <2>1. e \in 0..activeEra
    BY DEF BurnsInv, WindowTypeOK
  <2>2. CASE e < activeEra
    BY <1>3, <2>1, <2>2
  <2>3. CASE ~(e < activeEra)
    <3>1. e = activeEra /\ activeEra + 1 \in DOMAIN eraStart /\ eraStart[activeEra + 1] = session + 1
      BY <2>3 DEF EnergyInv, Ended
    <3>2. StartsEra
      BY <3>1, SessionFacts DEF StartsEra
    <3> QED
      BY <1>2, <1>3, <3>1, <3>2 DEF StartSession, StartEra
  <2> QED
    BY <2>2, <2>3
<1>5. Ended'
  BY <1>2, <1>4 DEF Ended
<1>6. \A e \in DOMAIN eraEnergy : At(due', e) = At(due, e)
  <2> SUFFICES ASSUME NEW e \in DOMAIN eraEnergy PROVE At(due', e) = At(due, e)
    OBVIOUS
  <2>1. e # activeEra'
    BY <1>3, <1>4
  <2>2. CASE Announce(session + 1)
    <3>1. PICK rate : rate = GenerationRate(session + 1)
      OBVIOUS
    <3>2. \A x : At(due', x) = IF x = activeEra' THEN At(due, x) + rate ELSE At(due, x)
      BY <1>2, <2>2, <3>1, AnnounceRecords
    <3> QED
      BY <2>1, <3>2
  <2>3. CASE UNCHANGED <<burnOf, totalBurn, generation, sessionBurn, announced, due>>
    BY <2>3
  <2> QED
    BY <2>2, <2>3 DEF StartSessionW
<1>7. EraEnergyIsDue'
  <2> SUFFICES ASSUME NEW e \in DOMAIN eraEnergy,
                      {e, e + 1} \subseteq DOMAIN eraStart, eraStart[e + 1] - eraStart[e] <= SessionsPerEra + 1
               PROVE  eraEnergy[e] = At(due', e)
    BY <1>2 DEF EraEnergyIsDue
  <2>1. eraEnergy[e] = At(due, e)
    BY DEF EnergyInv, EraEnergyIsDue
  <2> QED
    BY <1>6, <2>1
<1> QED
  BY <1>1, <1>5, <1>7 DEF EnergyInv

(* The end of an era stores what its sessions generated, which is what it  *)
(* is due if none of them has left the record.                             *)
LEMMA EndSessionEnergy ==
  ASSUME ErasInv, BurnsInv, EnergyInv, EndSessionW
  PROVE  EnergyInv'
<1>1. /\ phase = "idle" /\ phase' = "start" /\ session' = session /\ activeEra' = activeEra
      /\ eraStart' = eraStart /\ generation' = generation /\ due' = due
  BY DEF EndSessionW, EndSession
<1>2. session \in Int /\ session >= 0 /\ activeEra \in Int
  BY <1>1, SessionFacts
<1>3. PICK start \in Nat : start = eraStart[activeEra] /\ start <= session /\ activeEra \in DOMAIN eraStart
  BY <1>2, ActiveStart
<1>4. \A e \in DOMAIN eraEnergy : e < activeEra
  BY <1>1, ZenonT(30) DEF EnergyInv, Ended
<1>5. CASE activeEra + 1 \in DOMAIN eraStart /\ eraStart[activeEra + 1] = session + 1
  <2>1. eraEnergy' = Put(eraEnergy, activeEra, EnergyOf(activeEra))
    BY <1>5 DEF EndSessionW
  <2>2. DOMAIN eraEnergy' = DOMAIN eraEnergy \cup {activeEra}
        /\ \A e \in DOMAIN eraEnergy' :
             eraEnergy'[e] = IF e = activeEra THEN EnergyOf(activeEra) ELSE eraEnergy[e]
    BY <2>1 DEF Put
  <2>3. Ended'
    BY <1>1, <1>4, <1>5, <2>2 DEF Ended
  <2>4. EnergyOf(activeEra) = SumFrom(generation, start, session)
    <3>1. SessionRange(activeEra) = <<start, session + 1>>
      BY <1>3, <1>5 DEF SessionRange
    <3>2. EnergyOf(activeEra) = SumFrom(generation, start, (session + 1) - 1)
      BY <3>1 DEF EnergyOf
    <3> QED
      BY <1>2, <3>2
  <2>5. EraEnergyIsDue'
    <3> SUFFICES ASSUME NEW e \in DOMAIN eraEnergy',
                        {e, e + 1} \subseteq DOMAIN eraStart,
                        eraStart[e + 1] - eraStart[e] <= SessionsPerEra + 1
                 PROVE  eraEnergy'[e] = At(due, e)
      BY <1>1 DEF EraEnergyIsDue
    <3>1. CASE e = activeEra
      <4>1. session - start <= SessionsPerEra
        BY <1>2, <1>3, <1>5, <3>1, ErasAssumption
      <4>2. At(due, activeEra) = SumFrom(generation, start, session)
        BY <1>2, <1>3, <4>1 DEF EnergyInv, Credited
      <4> QED
        BY <2>2, <2>4, <3>1, <4>2
    <3>2. CASE e # activeEra
      BY <2>2, <3>2 DEF EnergyInv, EraEnergyIsDue
    <3> QED
      BY <3>1, <3>2
  <2> QED
    BY <1>1, <2>3, <2>5 DEF EnergyInv, Credited
<1>6. CASE ~(activeEra + 1 \in DOMAIN eraStart /\ eraStart[activeEra + 1] = session + 1)
  <2>1. eraEnergy' = eraEnergy
    BY <1>6 DEF EndSessionW
  <2> QED
    BY <1>1, <1>4, <2>1 DEF EnergyInv, Ended, Credited, EraEnergyIsDue
<1> QED
  BY <1>5, <1>6

(* Planning an era forgets the oldest, and moves the start of no other.    *)
LEMMA PlanEraEnergy ==
  ASSUME ErasInv, BurnsInv, EnergyInv, PlanEraW
  PROVE  EnergyInv'
<1>1. /\ phase = "plan" /\ session' = session /\ activeEra' = activeEra /\ generation' = generation
      /\ due' = due /\ eraStart' = StartsWith(currentEra + 1) /\ currentEra' = currentEra + 1
      /\ eraEnergy' = [e \in DOMAIN eraEnergy \ {currentEra' - (HistoryDepth + 1)} |-> eraEnergy[e]]
  BY DEF PlanEraW, PlanEra, PlanNext
<1>2. /\ session \in Int /\ session >= -1 /\ activeEra \in Int /\ currentEra \in Nat
      /\ HistoryDepth \in Nat /\ HistoryDepth >= 1
  BY SessionFacts, ErasAssumption DEF ErasInv, EraTypeOK
<1>3. PICK gone : gone = currentEra - HistoryDepth /\ (currentEra + 1) - (HistoryDepth + 1) = gone
  BY <1>2
<1>4. \A e : e # currentEra + 1 /\ e # gone =>
        /\ e \in DOMAIN eraStart' <=> e \in DOMAIN eraStart
        /\ e \in DOMAIN eraStart => eraStart'[e] = eraStart[e]
  BY <1>1, <1>3 DEF StartsWith
<1>5. gone \notin DOMAIN eraStart'
  BY <1>1, <1>3 DEF StartsWith
<1>6. \A e \in DOMAIN eraEnergy : e \in Nat /\ e < activeEra
  <2> SUFFICES ASSUME NEW e \in DOMAIN eraEnergy PROVE e \in Nat /\ e < activeEra
    OBVIOUS
  <2>1. e \in 0..activeEra
    BY DEF BurnsInv, WindowTypeOK
  <2>2. e < activeEra
    BY <1>1, ZenonT(30) DEF EnergyInv, Ended
  <2> QED
    BY <2>1, <2>2
<1>7. Credited'
  <2> SUFFICES ASSUME session >= 0 PROVE Credited'
    BY <1>1 DEF Credited
  <2>1. activeEra \in DOMAIN eraStart /\ currentEra = activeEra
    BY <1>1, ActiveStart DEF ErasInv, Planning
  <2>2. eraStart'[activeEra] = eraStart[activeEra]
    BY <1>2, <1>3, <1>4, <2>1
  <2> QED
    BY <1>1, <2>2 DEF EnergyInv, Credited
<1>8. Ended'
  BY <1>1, <1>6 DEF Ended
<1>9. EraEnergyIsDue'
  <2> SUFFICES ASSUME NEW e \in DOMAIN eraEnergy',
                      {e, e + 1} \subseteq DOMAIN eraStart',
                      eraStart'[e + 1] - eraStart'[e] <= SessionsPerEra + 1
               PROVE  eraEnergy'[e] = At(due, e)
    BY <1>1 DEF EraEnergyIsDue
  <2>1. e \in DOMAIN eraEnergy /\ eraEnergy'[e] = eraEnergy[e]
    BY <1>1
  <2>2. e \in Nat /\ e < activeEra
    BY <1>6, <2>1
  <2>3. activeEra <= currentEra
    BY <1>2, <2>2 DEF ErasInv, Counters, Planning
  <2>4. e # currentEra + 1 /\ e + 1 # currentEra + 1
    BY <1>2, <2>2, <2>3
  <2>5. e # gone /\ e + 1 # gone
    BY <1>5
  <2>6. {e, e + 1} \subseteq DOMAIN eraStart /\ eraStart'[e] = eraStart[e] /\ eraStart'[e + 1] = eraStart[e + 1]
    BY <1>4, <2>4, <2>5
  <2> QED
    BY <2>1, <2>6 DEF EnergyInv, EraEnergyIsDue
<1> QED
  BY <1>1, <1>7, <1>8, <1>9 DEF EnergyInv

(* The other steps leave the eras' energy alone.                           *)
LEMMA OtherStepsEnergy ==
  ASSUME EnergyInv, phase # "start",
         UNCHANGED <<session, activeEra, eraStart, generation, due, eraEnergy>>
  PROVE  EnergyInv'
<1>1. Ended'
  BY ZenonT(30) DEF EnergyInv, Ended
<1> QED
  BY <1>1 DEF EnergyInv, Credited, EraEnergyIsDue

(* Every step credits the eras with what they are due.                     *)
LEMMA EnergyNext ==
  ASSUME ErasInv, BurnsInv, EnergyInv, [WindowNext]_energyVars
  PROVE  EnergyInv'
<1>1. CASE EndSessionW
  BY <1>1, EndSessionEnergy
<1>2. CASE StartSessionW
  BY <1>2, StartSessionEnergy
<1>3. CASE PlanEraW
  BY <1>3, PlanEraEnergy
<1>4. CASE PlanSessionW
  <2>1. phase = "plan"
    BY <1>4 DEF PlanSessionW, PlanSession, PlanNext
  <2> QED
    BY <1>4, <2>1, OtherStepsEnergy DEF PlanSessionW, PlanSession, PlanNext, windowVars
<1>5. CASE ForceErasW
  <2>1. phase = "idle"
    BY <1>5 DEF ForceErasW, ForceEras
  <2> QED
    BY <1>5, <2>1, OtherStepsEnergy DEF ForceErasW, ForceEras, windowVars
<1>6. CASE \E amount \in Amounts : Burn(amount)
  <2>1. phase = "idle"
    BY <1>6 DEF Burn
  <2> QED
    BY <1>6, <2>1, OtherStepsEnergy DEF Burn, eraVars
<1>7. CASE \E choice \in Settings : SetParameters(choice)
  <2>1. phase = "idle"
    BY <1>7 DEF SetParameters
  <2> QED
    BY <1>7, <2>1, OtherStepsEnergy DEF SetParameters, eraVars
<1>8. CASE UNCHANGED energyVars
  BY <1>8 DEF energyVars, eraVars, windowVars, EnergyInv, Ended, Credited, EraEnergyIsDue
<1> QED
  BY <1>1, <1>2, <1>3, <1>4, <1>5, <1>6, <1>7, <1>8 DEF WindowNext

(* Of every run of the windows: an era that ended is credited with all     *)
(* that was generated in its announced sessions, as long as it had no more *)
(* than one session too many.                                              *)
THEOREM ErasGetTheirEnergy == WindowSpec => []EraEnergyIsDue
<1>1. WindowInit => BurnsInv /\ EnergyInv
  BY BurnsInit, EnergyInit
<1>2. ErasInv /\ BurnsInv /\ EnergyInv /\ [WindowNext]_energyVars => BurnsInv' /\ EnergyInv'
  BY BurnsNext, EnergyNext
<1>3. EnergyInv => EraEnergyIsDue
  BY DEF EnergyInv
<1> QED
  BY <1>1, <1>2, <1>3, ErasInvariantW, PTL DEF WindowSpec
=============================================================================
