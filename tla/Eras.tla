-------------------------------- MODULE Eras --------------------------------
(***************************************************************************)
(* Sessions and eras of pallet energy-generation.                          *)
(*                                                                         *)
(* pallet-session rotates sessions inside one on_initialize: it ends       *)
(* session i, starts session i+1 and plans session i+2, each a call of     *)
(* this pallet's SessionManager.  `phase` says which of the three calls    *)
(* comes next; extrinsics and offence reports run only when it is "idle".  *)
(*                                                                         *)
(* At genesis pallet-session plans sessions 0 and 1 and then starts 0.     *)
(* Planning 0 always yields era 0 at session 0, so EraInit is the state after *)
(* it.  -1 stands for "none started yet" (ActiveEra is None), which makes  *)
(* the code's map(|e| e.index + 1).unwrap_or(0) the expression             *)
(* activeEra + 1.                                                          *)
(***************************************************************************)
EXTENDS Integers, FiniteSetsExt

CONSTANTS
  SessionsPerEra,    \* T::SessionsPerEra
  BondingDuration,   \* T::BondingDuration, in eras
  HistoryDepth,      \* T::HistoryDepth, in eras
  MaxSession         \* bound on the sessions explored

ASSUME ErasAssumption ==
  /\ SessionsPerEra \in Nat \ {0}
  /\ BondingDuration \in Nat
  /\ HistoryDepth \in Nat \ {0}
  /\ MaxSession \in Nat

VARIABLES
  phase,         \* the SessionManager call pallet-session makes next
  session,       \* pallet-session's current index
  planned,       \* CurrentPlannedSession
  currentEra,    \* CurrentEra, the latest planned era
  activeEra,     \* ActiveEra.index
  eraStart,      \* ErasStartSessionIndex: era |-> first session
  bondedEras,    \* BondedEras: era |-> first session, kept while slashable
  forceEra,      \* ForceEra
  eraOfSession   \* history: the active era of every started session

eraVars == <<phase, session, planned, currentEra, activeEra, eraStart,
             bondedEras, forceEra, eraOfSession>>

Forcing == {"NotForcing", "ForceNew", "ForceNone", "ForceAlways"}
Phases  == {"idle", "start", "plan"}
None    == -1

SatSub(a, b) == IF a >= b THEN a - b ELSE 0

StartIndex(era) == IF era \in DOMAIN eraStart THEN eraStart[era] ELSE 0

-----------------------------------------------------------------------------
(***************************************************************************)
(* Lookups other code makes in this state.                                 *)
(***************************************************************************)

(* FilterHistoricalOffences: a report is passed on when its session is not *)
(* older than the oldest bonded era.                                       *)
Reportable(s) ==
  /\ DOMAIN bondedEras # {}
  /\ s >= bondedEras[Min(DOMAIN bondedEras)]

(* Mutant: an offence in the first session of an era misses that era.      *)
OffenceEraStrict(s) ==
  LET started == {e \in DOMAIN bondedEras : bondedEras[e] < s}
  IN  IF s >= StartIndex(activeEra) THEN activeEra
      ELSE IF started = {} THEN None
      ELSE Max(started)

(* The era on_offence charges an offence of session s to.                  *)
OffenceEra(s) ==
  LET started == {e \in DOMAIN bondedEras : bondedEras[e] <= s}
  IN  IF s >= StartIndex(activeEra) THEN activeEra
      ELSE IF started = {} THEN None
      ELSE Max(started)

(* EraSessionLookup::era_for_session: walks back from the current era and  *)
(* gives up at the first era whose start is no longer stored.              *)
EraForSession(s) ==
  LET reached == {e \in 0..currentEra :
                     /\ e..currentEra \subseteq DOMAIN eraStart
                     /\ eraStart[e] <= s}
  IN  IF s > planned \/ reached = {} THEN None ELSE Max(reached)

(* EraSessionLookup::session_range_for_era, for an era whose start is      *)
(* stored: <<first session, first session of the next era>>.               *)
SessionRange(era) ==
  <<eraStart[era],
    IF era + 1 \in DOMAIN eraStart THEN eraStart[era + 1] ELSE planned + 1>>

-----------------------------------------------------------------------------
EraInit ==
  /\ phase = "plan"
  /\ session = -1
  /\ planned = 0
  /\ currentEra = 0
  /\ activeEra = -1
  /\ eraStart = [e \in {0} |-> 0]
  /\ bondedEras = [e \in {} |-> 0]
  /\ forceEra \in Forcing
  /\ eraOfSession = [s \in {} |-> 0]

(* end_session acts only when the next era starts in the next session, and *)
(* end_era then changes nothing here (the energy rate and the disabled set *)
(* belong to others).                                                      *)
EndSession ==
  /\ phase = "idle"
  /\ session < MaxSession
  /\ phase' = "start"
  /\ UNCHANGED <<session, planned, currentEra, activeEra, eraStart,
                 bondedEras, forceEra, eraOfSession>>

(* Mutant: the comparison the wrong way round.                             *)
StartsEraSwapped == activeEra + 1 \in DOMAIN eraStart /\ eraStart[activeEra + 1] > session + 1

StartsEra == activeEra + 1 \in DOMAIN eraStart /\ eraStart[activeEra + 1] <= session + 1

(* The eras start_era keeps in BondedEras when `era` becomes active.       *)
KeptEras(era) ==
  {e \in DOMAIN bondedEras \cup {era} :
     era > BondingDuration => e >= era - BondingDuration}

BondedWith(era) ==
  [e \in KeptEras(era) |-> IF e = era THEN session + 1 ELSE bondedEras[e]]

(* start_era, but for the slashes it applies (module SlashQueue).          *)
StartEra == activeEra' = activeEra + 1 /\ bondedEras' = BondedWith(activeEra + 1)

StartSession ==
  /\ phase = "start"
  /\ session' = session + 1
  /\ IF StartsEra THEN StartEra ELSE UNCHANGED <<activeEra, bondedEras>>
  /\ eraOfSession' = [s \in DOMAIN eraOfSession \cup {session + 1} |->
                        IF s = session + 1 THEN activeEra' ELSE eraOfSession[s]]
  /\ phase' = IF planned = session + 1 THEN "plan" ELSE "idle"
  /\ UNCHANGED <<planned, currentEra, eraStart, forceEra>>

(* new_session asks for an election in this session.                       *)
EraDue ==
  \/ forceEra \in {"ForceNew", "ForceAlways"}
  \/ /\ forceEra = "NotForcing"
     /\ SatSub(planned + 1, StartIndex(currentEra)) >= SessionsPerEra

PlanNext ==
  /\ phase = "plan"
  /\ planned' = planned + 1
  /\ phase' = IF session = -1 THEN "start" ELSE "idle"
  /\ UNCHANGED <<session, activeEra, bondedEras, eraOfSession>>

(* Mutant: an era that leaves the history is not cleared.                  *)
StartsWithOld(era) ==
  [e \in DOMAIN eraStart \cup {era} |-> IF e = era THEN planned + 1 ELSE eraStart[e]]

(* ErasStartSessionIndex once `era` is planned for the new session and     *)
(* clear_era_information has dropped the era that leaves the history.      *)
StartsWith(era) ==
  [e \in (DOMAIN eraStart \cup {era}) \ {era - (HistoryDepth + 1)} |->
     IF e = era THEN planned + 1 ELSE eraStart[e]]

(* trigger_new_era, after a successful election.  The bound keeps a        *)
(* planned era startable: at MaxSession every election fails.              *)
PlanEra ==
  /\ EraDue
  /\ planned < MaxSession
  /\ PlanNext
  /\ currentEra' = currentEra + 1
  /\ eraStart' = StartsWith(currentEra + 1)
  /\ forceEra' = IF forceEra = "ForceNew" THEN "NotForcing" ELSE forceEra

(* No era is due, or the election finds too few validators.                *)
PlanSession ==
  /\ PlanNext
  /\ UNCHANGED <<currentEra, eraStart, forceEra>>

(* force_no_eras, force_new_era, force_new_era_always.                     *)
ForceEras(mode) ==
  /\ phase = "idle"
  /\ mode \in Forcing \ {"NotForcing"}
  /\ forceEra' = mode
  /\ UNCHANGED <<phase, session, planned, currentEra, activeEra, eraStart,
                 bondedEras, eraOfSession>>

EraNext ==
  \/ EndSession
  \/ StartSession
  \/ PlanEra
  \/ PlanSession
  \/ \E mode \in Forcing : ForceEras(mode)

(* Sessions are rotated by the clock (BABE epochs), whatever users do.     *)
EraFairness ==
  /\ WF_eraVars(EndSession)
  /\ WF_eraVars(StartSession)
  /\ WF_eraVars(PlanEra \/ PlanSession)

EraSpec == EraInit /\ [][EraNext]_eraVars /\ EraFairness

-----------------------------------------------------------------------------
(***************************************************************************)
(* Properties.                                                             *)
(***************************************************************************)
EraTypeOK ==
  /\ phase \in Phases
  /\ session \in Int
  /\ planned \in Nat
  /\ currentEra \in Nat
  /\ activeEra \in Int
  /\ DOMAIN eraStart \subseteq Nat
  /\ \A e \in DOMAIN eraStart : eraStart[e] \in Nat
  /\ DOMAIN bondedEras \subseteq Nat
  /\ \A e \in DOMAIN bondedEras : bondedEras[e] \in Nat
  /\ forceEra \in Forcing
  /\ DOMAIN eraOfSession \subseteq Nat
  /\ \A s \in DOMAIN eraOfSession : eraOfSession[s] \in Nat

(* start_session's Ordering::Less arm: "This arm should never happen".  An *)
(* era that is planned but not yet active starts at a session still to be  *)
(* started, whatever mix of forcing and failed elections led here.         *)
NoSessionSkipped ==
  phase = "start" /\ activeEra + 1 \in DOMAIN eraStart =>
    eraStart[activeEra + 1] >= session + 1

(* Once a session has started, planning runs at most one era ahead of the  *)
(* active era, and the era ahead starts in the very next session: forcing  *)
(* an era while one is already planned never stacks a second one.          *)
PlannedAhead ==
  session >= 0 =>
    /\ currentEra \in {activeEra, activeEra + 1}
    /\ currentEra = activeEra + 1 => eraStart[currentEra] = session + 1

(* A report that FilterHistoricalOffences lets through is charged to the   *)
(* era that was active in the session of the offence: on_offence's lookup  *)
(* over the pruned BondedEras agrees with what happened.                   *)
ReportsHitTheirEra ==
  \A s \in DOMAIN eraOfSession :
    Reportable(s) => OffenceEra(s) = eraOfSession[s]

(* Exactly the offences of the last BondingDuration eras and of the active *)
(* one can be reported: pruning neither shortens nor stretches the window. *)
ReportWindow ==
  \A s \in DOMAIN eraOfSession :
    Reportable(s) <=> eraOfSession[s] >= activeEra - BondingDuration

(* era_for_session, which the energy rate of an era relies on, names the   *)
(* era a session belonged to for every session of the last HistoryDepth    *)
(* eras, and never names a wrong one.                                      *)
SessionLookupAgrees ==
  \A s \in DOMAIN eraOfSession :
    EraForSession(s) = IF eraOfSession[s] >= currentEra - HistoryDepth
                       THEN eraOfSession[s] ELSE None

(* session_range_for_era, by which the energy of an era is shared out,      *)
(* holds exactly the sessions of that era, over both ends of the history.  *)
SessionRangeAgrees ==
  \A e \in DOMAIN eraStart : \A s \in DOMAIN eraOfSession :
    eraOfSession[s] = e <=>
      SessionRange(e)[1] <= s /\ s < SessionRange(e)[2]

(* The four lookups together: whatever mix of forcing and failed elections *)
(* led here, every question other code asks about a session or an era is   *)
(* answered by what really happened.                                       *)
LookupsAgree ==
  NoSessionSkipped /\ ReportsHitTheirEra /\ SessionLookupAgrees /\ SessionRangeAgrees

(***************************************************************************)
(* The inductive invariant behind them: where the counters stand between   *)
(* the three calls of a rotation, which eras the two maps hold, and how    *)
(* both maps agree with the eras the started sessions belonged to.         *)
(***************************************************************************)
Oldest(era, depth) == IF era > depth THEN era - depth ELSE 0

Counters ==
  /\ session >= -1
  /\ session = -1 <=> activeEra = -1
  /\ activeEra >= -1
  /\ phase = "idle" => session >= 0 /\ planned = session + 1
  /\ phase = "start" => planned = IF session = -1 THEN 1 ELSE session + 1
  /\ phase = "plan" => planned = IF session = -1 THEN 0 ELSE session
  /\ DOMAIN eraOfSession = 0..session
  /\ \A s \in 0..session : eraOfSession[s] <= activeEra
  /\ session >= 0 => eraOfSession[session] = activeEra

Planning ==
  /\ DOMAIN eraStart = Oldest(currentEra, HistoryDepth)..currentEra
  /\ session = -1 => /\ currentEra \in {0, 1}
                     /\ eraStart[0] = 0
                     /\ phase = "plan" => currentEra = 0
                     /\ currentEra = 1 => eraStart[1] = 1
  /\ session >= 0 => /\ currentEra \in {activeEra, activeEra + 1}
                     /\ phase = "plan" => currentEra = activeEra
                     /\ currentEra = activeEra + 1 => eraStart[currentEra] = session + 1

Windows ==
  /\ DOMAIN bondedEras = Oldest(activeEra, BondingDuration)..activeEra
  /\ \A e \in DOMAIN bondedEras : \A s \in 0..session :
       bondedEras[e] <= s <=> eraOfSession[s] >= e
  /\ \A e \in DOMAIN eraStart : \A s \in 0..session :
       eraStart[e] <= s <=> eraOfSession[s] >= e

ErasInv == EraTypeOK /\ Counters /\ Planning /\ Windows

(* An era once planned becomes active.                                     *)
PlannedEraStarts == [](currentEra > activeEra => <>(activeEra >= currentEra))
=============================================================================
