----------------------------- MODULE ErasProofs -----------------------------
(***************************************************************************)
(* Theorems about Eras for every SessionsPerEra, BondingDuration and       *)
(* HistoryDepth: ErasInv is inductive, and the safety properties the runs  *)
(* check follow from it.                                                   *)
(***************************************************************************)
EXTENDS Eras, RecursionTheorems

(* Genesis establishes the invariant.                                      *)
LEMMA InitInv == EraInit => ErasInv
BY ErasAssumption
   DEF EraInit, ErasInv, EraTypeOK, Counters, Planning, Windows, Oldest, Phases, Forcing

(* start_session keeps it, whether or not it starts an era.                *)
LEMMA StartSessionInv ==
  ASSUME ErasInv, StartSession
  PROVE  ErasInv'
<1> USE ErasAssumption
<1>1. CASE StartsEra
  <2>1. EraTypeOK'
    BY <1>1 DEF ErasInv, EraTypeOK, StartSession, StartEra, BondedWith, KeptEras, Phases, Counters
  <2>2. Counters'
    BY <1>1, SMTT(30) DEF ErasInv, EraTypeOK, StartSession, StartEra, BondedWith, Counters, Planning
  <2>3. Planning'
    BY <1>1 DEF ErasInv, EraTypeOK, StartSession, StartsEra, StartEra, BondedWith, Counters, Planning, Oldest
  <2>4. session \in Int /\ activeEra \in Int /\ session' = session + 1
        /\ activeEra' = activeEra + 1 /\ activeEra + 1 \in Nat /\ session + 1 \in Nat
    BY <1>1 DEF ErasInv, EraTypeOK, Counters, StartSession, StartEra, BondedWith
  <2>5. DOMAIN bondedEras' = Oldest(activeEra', BondingDuration)..activeEra'
    BY <1>1, <2>4 DEF ErasInv, EraTypeOK, Windows, StartSession, StartEra, BondedWith, KeptEras, Oldest
  <2>6. ASSUME NEW s \in 0..session'
        PROVE  \/ s = session + 1 /\ eraOfSession'[s] = activeEra + 1
               \/ s \in 0..session /\ eraOfSession'[s] = eraOfSession[s] /\ eraOfSession[s] \in Nat
                  /\ eraOfSession[s] <= activeEra
    BY <2>4 DEF ErasInv, EraTypeOK, Counters, StartSession
  <2>7. ASSUME NEW e \in DOMAIN bondedEras', NEW s \in 0..session'
        PROVE  bondedEras'[e] <= s <=> eraOfSession'[s] >= e
    <3>1. CASE e = activeEra + 1
      <4>1. bondedEras'[e] = session + 1
        BY <1>1, <3>1, <2>4, <2>7 DEF StartSession, StartEra, BondedWith
      <4> QED
        BY <3>1, <4>1, <2>4, <2>6
    <3>2. CASE e # activeEra + 1
      <4>1. e \in DOMAIN bondedEras /\ bondedEras'[e] = bondedEras[e] /\ e \in Nat
            /\ bondedEras[e] \in Nat /\ e <= activeEra
        BY <1>1, <3>2, <2>4, <2>7, <2>5 DEF StartSession, StartEra, BondedWith, KeptEras, ErasInv, EraTypeOK, Windows, Oldest
      <4>2. bondedEras[e] <= session
        BY <2>4, <4>1 DEF ErasInv, Windows, Counters
      <4> QED
        BY <4>1, <4>2, <2>4, <2>6 DEF ErasInv, Windows
    <3> QED
      BY <3>1, <3>2
  <2>8. ASSUME NEW e \in DOMAIN eraStart, NEW s \in 0..session'
        PROVE  eraStart[e] <= s <=> eraOfSession'[s] >= e
    <3>1. e \in Nat /\ eraStart[e] \in Nat /\ currentEra \in Nat
          /\ e <= currentEra
      BY DEF ErasInv, EraTypeOK, Planning, Oldest
    <3>2. CASE s \in 0..session
      BY <2>4, <2>6, <3>1, <3>2 DEF ErasInv, Windows
    <3>3. CASE s = session + 1
      <4>1. eraOfSession'[s] = activeEra + 1
        BY <3>3, <2>4, <2>6
      <4>2. CASE e <= activeEra
        <5>1. eraStart[e] <= session
          BY <2>4, <3>1, <4>2 DEF ErasInv, Windows, Counters
        <5> QED
          BY <5>1, <4>1, <4>2, <3>1, <3>3, <2>4
      <4>3. CASE e = activeEra + 1
        BY <1>1, <4>1, <4>3, <3>1, <3>3, <2>4 DEF StartsEra
      <4>4. CASE e > activeEra + 1
        <5>1. session = -1 /\ e = 1 /\ currentEra = 1 /\ activeEra = -1
          BY <4>4, <3>1, <2>4 DEF ErasInv, EraTypeOK, Planning, Counters
        <5>2. eraStart[e] = 1
          BY <5>1 DEF ErasInv, Planning
        <5> QED
          BY <5>1, <5>2, <4>1, <3>3
      <4> QED
        BY <4>2, <4>3, <4>4, <3>1, <2>4
    <3> QED
      BY <3>2, <3>3, <2>4
  <2>9. Windows'
    BY <2>5, <2>7, <2>8 DEF Windows, StartSession
  <2> QED
    BY <2>1, <2>2, <2>3, <2>9 DEF ErasInv
<1>2. CASE ~StartsEra
  <2>1. EraTypeOK'
    BY <1>2 DEF ErasInv, EraTypeOK, StartSession, StartsEra, Phases, Counters, Planning, Oldest
  <2>2. Counters'
    BY <1>2 DEF ErasInv, EraTypeOK, StartSession, StartsEra, Counters, Planning, Oldest
  <2>3. Planning'
    BY <1>2 DEF ErasInv, EraTypeOK, StartSession, StartsEra, Counters, Planning, Oldest
  <2>4. /\ session \in Nat /\ activeEra \in Nat /\ session' = session + 1
        /\ UNCHANGED <<activeEra, bondedEras, eraStart, currentEra>>
        /\ currentEra = activeEra
    BY <1>2 DEF ErasInv, EraTypeOK, StartSession, StartsEra, Counters, Planning, Oldest
  <2>5. ASSUME NEW s \in 0..session'
        PROVE  \/ s = session + 1 /\ eraOfSession'[s] = activeEra
               \/ s \in 0..session /\ eraOfSession'[s] = eraOfSession[s]
    BY <2>4 DEF ErasInv, EraTypeOK, Counters, StartSession
  <2>6. ASSUME NEW e \in DOMAIN bondedEras, NEW s \in 0..session'
        PROVE  bondedEras[e] <= s <=> eraOfSession'[s] >= e
    <3>1. e \in Nat /\ bondedEras[e] \in Nat /\ e <= activeEra
      BY <2>4 DEF ErasInv, EraTypeOK, Windows, Oldest
    <3>2. bondedEras[e] <= session
      BY <2>4, <3>1 DEF ErasInv, Windows, Counters
    <3> QED
      BY <2>4, <2>5, <3>1, <3>2 DEF ErasInv, Windows
  <2>7. ASSUME NEW e \in DOMAIN eraStart, NEW s \in 0..session'
        PROVE  eraStart[e] <= s <=> eraOfSession'[s] >= e
    <3>1. e \in Nat /\ eraStart[e] \in Nat /\ e <= activeEra
      BY <2>4 DEF ErasInv, EraTypeOK, Planning, Oldest
    <3>2. eraStart[e] <= session
      BY <2>4, <3>1 DEF ErasInv, Windows, Counters
    <3> QED
      BY <2>4, <2>5, <3>1, <3>2 DEF ErasInv, Windows
  <2>8. DOMAIN bondedEras' = Oldest(activeEra', BondingDuration)..activeEra'
    BY <2>4 DEF ErasInv, Windows
  <2>9. Windows'
    BY <2>4, <2>6, <2>7, <2>8 DEF Windows
  <2> QED
    BY <2>1, <2>2, <2>3, <2>9 DEF ErasInv
<1> QED
  BY <1>1, <1>2

(* Planning an era keeps it; pruning ErasStartSessionIndex is what moves   *)
(* the lower end of its domain.                                            *)
LEMMA PlanEraInv ==
  ASSUME ErasInv, PlanEra
  PROVE  ErasInv'
<1> USE ErasAssumption
<1>1. EraTypeOK'
  BY DEF ErasInv, EraTypeOK, PlanEra, StartsWith, PlanNext, Phases, Forcing
<1>2. Counters'
  BY DEF ErasInv, EraTypeOK, PlanEra, StartsWith, PlanNext, Counters
<1>3. Planning'
  BY SMTT(30) DEF ErasInv, EraTypeOK, PlanEra, StartsWith, PlanNext, Counters, Planning, Oldest
<1>4. Windows'
  <2>1. /\ session \in Int /\ currentEra \in Nat /\ activeEra \in Int /\ planned \in Nat
        /\ UNCHANGED <<session, activeEra, bondedEras, eraOfSession>>
        /\ session <= planned /\ activeEra <= currentEra
    BY DEF ErasInv, EraTypeOK, PlanEra, StartsWith, PlanNext, Counters, Planning
  <2>2. ASSUME NEW e \in DOMAIN eraStart', NEW s \in 0..session
        PROVE  eraStart'[e] <= s <=> eraOfSession[s] >= e
    <3>1. CASE e = currentEra + 1
      BY <2>1, <3>1, <2>2 DEF PlanEra, StartsWith, ErasInv, EraTypeOK, Counters
    <3>2. CASE e # currentEra + 1
      BY <2>1, <3>2, <2>2 DEF PlanEra, StartsWith, ErasInv, Windows
    <3> QED
      BY <3>1, <3>2
  <2> QED
    BY <2>1, <2>2 DEF ErasInv, Windows
<1> QED
  BY <1>1, <1>2, <1>3, <1>4 DEF ErasInv

(* The other calls do not touch what the invariant relates.                *)
LEMMA OtherStepsInv ==
  ASSUME ErasInv,
         EndSession \/ PlanSession \/ (\E mode \in Forcing : ForceEras(mode)) \/ UNCHANGED eraVars
  PROVE  ErasInv'
<1>1. CASE EndSession
  BY <1>1 DEF ErasInv, EraTypeOK, EndSession, Counters, Planning, Windows, Phases
<1>2. CASE PlanSession
  BY <1>2 DEF ErasInv, EraTypeOK, PlanSession, PlanNext, Counters, Planning, Windows, Phases
<1>3. ASSUME NEW mode \in Forcing, ForceEras(mode)
      PROVE  ErasInv'
  BY <1>3 DEF ErasInv, EraTypeOK, ForceEras, Counters, Planning, Windows, Phases, Forcing
<1>4. CASE UNCHANGED eraVars
  BY <1>4 DEF ErasInv, EraTypeOK, eraVars, Counters, Planning, Windows
<1> QED
  BY <1>1, <1>2, <1>3, <1>4

(* Every step keeps it.                                                    *)
LEMMA NextInv == ErasInv /\ [EraNext]_eraVars => ErasInv'
BY StartSessionInv, PlanEraInv, OtherStepsInv DEF EraNext

(* ErasInv, and with it the type invariant, holds in every state.          *)
THEOREM ErasInvariant == EraSpec => []ErasInv
BY InitInv, NextInv, PTL DEF EraSpec

(* NoSessionSkipped: the arm of start_session that "should never happen"   *)
(* never does.                                                             *)
THEOREM SessionsNotSkipped == EraSpec => []NoSessionSkipped
<1>1. ErasInv => NoSessionSkipped
  BY ErasAssumption DEF ErasInv, EraTypeOK, Counters, Planning, NoSessionSkipped, Oldest
<1> QED
  BY <1>1, ErasInvariant, PTL

(* PlannedAhead: planning is never more than one era ahead.                *)
THEOREM PlanningOneAhead == EraSpec => []PlannedAhead
<1>1. ErasInv => PlannedAhead
  BY DEF ErasInv, Planning, PlannedAhead
<1> QED
  BY <1>1, ErasInvariant, PTL

(* The oldest bonded era starts the report window, and a session is inside *)
(* it exactly when its era is.                                             *)
LEMMA WindowStart ==
  ASSUME ErasInv, NEW s \in DOMAIN eraOfSession
  PROVE  Reportable(s) <=> eraOfSession[s] >= Oldest(activeEra, BondingDuration)
<1> DEFINE lo == Oldest(activeEra, BondingDuration)
<1> USE ErasAssumption
<1>1. /\ activeEra \in Nat /\ lo \in Nat /\ lo <= activeEra
      /\ DOMAIN bondedEras = lo..activeEra
      /\ s \in 0..session
  BY DEF ErasInv, EraTypeOK, Counters, Windows, Oldest
<1>2. Min(DOMAIN bondedEras) = lo
  <2>1. /\ lo \in DOMAIN bondedEras /\ DOMAIN bondedEras \subseteq Int
        /\ \A x \in DOMAIN bondedEras : lo <= x
    BY <1>1
  <2> QED
    BY <2>1, MinIs
<1>3. bondedEras[lo] <= s <=> eraOfSession[s] >= lo
  BY <1>1 DEF ErasInv, Windows
<1> QED
  BY <1>1, <1>2, <1>3 DEF Reportable, ErasInv, EraTypeOK

(* The invariant gives the report window ...                               *)
LEMMA WindowFromInv == ErasInv => ReportWindow
<1> SUFFICES ASSUME ErasInv, NEW s \in DOMAIN eraOfSession
             PROVE  Reportable(s) <=> eraOfSession[s] >= activeEra - BondingDuration
  BY DEF ReportWindow
<1>1. eraOfSession[s] \in Nat /\ activeEra \in Int
  BY DEF ErasInv, EraTypeOK
<1> QED
  BY <1>1, WindowStart, ErasAssumption DEF Oldest

(* ReportWindow: pruning keeps exactly the last BondingDuration eras and   *)
(* the active one reportable.                                              *)
THEOREM ReportsWithinWindow == EraSpec => []ReportWindow
BY WindowFromInv, ErasInvariant, PTL

(* ... the era an offence is charged to ...                                *)
LEMMA ChargeFromInv == ErasInv => ReportsHitTheirEra
<1> SUFFICES ASSUME ErasInv, NEW s \in DOMAIN eraOfSession, Reportable(s)
             PROVE  OffenceEra(s) = eraOfSession[s]
  BY DEF ReportsHitTheirEra
<1> DEFINE lo == Oldest(activeEra, BondingDuration)
           e == eraOfSession[s]
           started == {f \in DOMAIN bondedEras : bondedEras[f] <= s}
<1> USE ErasAssumption
<1>1. /\ s \in 0..session /\ e \in Nat /\ e <= activeEra /\ e >= lo
      /\ activeEra \in Nat /\ lo \in Nat /\ session \in Nat
      /\ DOMAIN bondedEras = lo..activeEra
  BY WindowStart DEF ErasInv, EraTypeOK, Counters, Windows, Oldest
<1>2. CASE s >= StartIndex(activeEra)
  <2>1. activeEra \in DOMAIN eraStart
    BY <1>1 DEF ErasInv, EraTypeOK, Counters, Planning, Oldest
  <2>2. eraStart[activeEra] <= s
    BY <1>1, <1>2, <2>1 DEF StartIndex, ErasInv, EraTypeOK
  <2>3. e >= activeEra
    BY <1>1, <2>1, <2>2 DEF ErasInv, Windows
  <2> QED
    BY <1>1, <1>2, <2>3 DEF OffenceEra
<1>3. CASE ~(s >= StartIndex(activeEra))
  <2>1. \A f \in DOMAIN bondedEras : f \in started <=> f <= e
    BY <1>1 DEF ErasInv, Windows
  <2>2. e \in started /\ started \subseteq Int /\ \A f \in started : f <= e
    BY <1>1, <2>1
  <2>3. Max(started) = e
    BY <2>2, MaxIs
  <2> QED
    BY <1>3, <2>2, <2>3 DEF OffenceEra
<1> QED
  BY <1>2, <1>3

(* ReportsHitTheirEra: on_offence charges a reportable offence to the era  *)
(* its session belonged to.                                                *)
THEOREM ReportsChargeTheirEra == EraSpec => []ReportsHitTheirEra
BY ChargeFromInv, ErasInvariant, PTL

(* ... and the era a session is attributed to.                             *)
LEMMA LookupFromInv == ErasInv => SessionLookupAgrees
<1> SUFFICES ASSUME ErasInv, NEW s \in DOMAIN eraOfSession
             PROVE  EraForSession(s) = IF eraOfSession[s] >= currentEra - HistoryDepth
                                       THEN eraOfSession[s] ELSE None
  BY DEF SessionLookupAgrees
<1> DEFINE lo == Oldest(currentEra, HistoryDepth)
           e == eraOfSession[s]
           reached == {f \in 0..currentEra : /\ f..currentEra \subseteq DOMAIN eraStart
                                             /\ eraStart[f] <= s}
<1> USE ErasAssumption
<1>1. /\ s \in 0..session /\ s <= planned /\ e \in Nat /\ e <= currentEra
      /\ currentEra \in Nat /\ lo \in Nat /\ lo <= currentEra /\ s \in Int /\ planned \in Int
      /\ DOMAIN eraStart = lo..currentEra
  BY DEF ErasInv, EraTypeOK, Counters, Planning, Oldest, Phases
<1>2. \A f \in Int : f \in reached <=> f \in lo..currentEra /\ f <= e
  BY <1>1 DEF ErasInv, Windows
<1>3. e >= currentEra - HistoryDepth <=> e >= lo
  BY <1>1 DEF Oldest
<1>4. CASE e >= lo
  <2>1. e \in reached /\ reached \subseteq Int /\ \A f \in reached : f <= e
    BY <1>1, <1>2, <1>4
  <2>2. Max(reached) = e
    BY <2>1, MaxIs
  <2> QED
    BY <1>1, <1>3, <1>4, <2>1, <2>2 DEF EraForSession
<1>5. CASE ~(e >= lo)
  <2>1. reached = {}
    BY <1>1, <1>2, <1>5
  <2> QED
    BY <1>1, <1>3, <1>5, <2>1 DEF EraForSession
<1> QED
  BY <1>4, <1>5

(* SessionLookupAgrees: era_for_session names the era of every session of  *)
(* the last HistoryDepth eras and no other.                                *)
THEOREM SessionLookupCorrect == EraSpec => []SessionLookupAgrees
BY LookupFromInv, ErasInvariant, PTL

(***************************************************************************)
(* Whatever era a lookup by range is asked for.                            *)
(***************************************************************************)
LEMMA RangeFromInv == ErasInv => SessionRangeAgrees
<1> SUFFICES ASSUME ErasInv, NEW e \in DOMAIN eraStart, NEW s \in DOMAIN eraOfSession
             PROVE  eraOfSession[s] = e <=>
                      SessionRange(e)[1] <= s /\ s < SessionRange(e)[2]
  BY DEF SessionRangeAgrees
<1> USE ErasAssumption
<1>1. /\ s \in 0..session /\ s <= planned /\ s \in Int /\ planned \in Int
      /\ eraOfSession[s] \in Nat /\ eraOfSession[s] <= currentEra
      /\ e \in Nat /\ e <= currentEra /\ currentEra \in Nat
      /\ eraStart[e] \in Nat
  BY DEF ErasInv, EraTypeOK, Counters, Planning, Oldest, Phases
<1>2. eraStart[e] <= s <=> eraOfSession[s] >= e
  BY <1>1 DEF ErasInv, Windows
<1>3. CASE e + 1 \in DOMAIN eraStart
  <2>1. /\ eraStart[e + 1] \in Nat
        /\ eraStart[e + 1] <= s <=> eraOfSession[s] >= e + 1
    BY <1>1, <1>3 DEF ErasInv, EraTypeOK, Windows
  <2> QED
    BY <1>1, <1>2, <1>3, <2>1 DEF SessionRange
<1>4. CASE e + 1 \notin DOMAIN eraStart
  <2>1. e = currentEra
    BY <1>1, <1>4 DEF ErasInv, Planning, Oldest
  <2> QED
    BY <1>1, <1>2, <1>4, <2>1 DEF SessionRange
<1> QED
  BY <1>3, <1>4

(* SessionRangeAgrees: session_range_for_era holds exactly the sessions of *)
(* the era.                                                                *)
THEOREM SessionRangeCorrect == EraSpec => []SessionRangeAgrees
BY RangeFromInv, ErasInvariant, PTL

(* LookupsAgree: all lookups of sessions and eras give what happened, for  *)
(* every length of an era, of the bonding and of the history.              *)
THEOREM LookupsCorrect == EraSpec => []LookupsAgree
<1>1. NoSessionSkipped /\ ReportsHitTheirEra /\ SessionLookupAgrees /\ SessionRangeAgrees
        => LookupsAgree
  BY DEF LookupsAgree
<1> QED
  BY <1>1, SessionsNotSkipped, ReportsChargeTheirEra, SessionLookupCorrect,
     SessionRangeCorrect, PTL
=============================================================================
