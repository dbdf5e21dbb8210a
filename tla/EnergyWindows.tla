----------------------------- MODULE EnergyWindows -----------------------------
(***************************************************************************)
(* Energy burnt and generated per session: the counters that pallets        *)
(* energy-broker and dynamic-energy keep, and the energy an era is credited *)
(* with when it ends, on top of the sessions and eras of Eras.              *)
(*                                                                         *)
(* Both pallets are told of every burn, and of every session that           *)
(* start_session announces; each keeps a SessionEnergyBurn that it empties  *)
(* then, so `sessionBurn` stands for both.                                  *)
(***************************************************************************)
EXTENDS Eras

CONSTANTS
  BurnedEnergySessionsCount,  \* T::BurnedEnergySessionsCount
  SlashDeferDuration,         \* T::SlashDeferDuration, in eras
  Settings,                   \* choices of root, see SettingsOf
  Amounts,                    \* amounts burnt at once
  MaxBurns                    \* bound on the burns reported

(* Parameters root may set: EnergyBurnOverride (None or an amount),         *)
(* MinimumEnergyGeneration and GenerationRateSmoothFactor.                  *)
SettingsOf(S) == [override : S \cup {None}, minimum : S, factor : S \ {0}]

ASSUME WindowAssumption ==
  /\ BurnedEnergySessionsCount \in Nat \ {0}
  /\ SlashDeferDuration \in Nat
  /\ Settings \subseteq SettingsOf(Nat) /\ Settings # {}
  /\ Amounts \subseteq Nat
  /\ MaxBurns \in Nat

VARIABLES
  settings,     \* the parameters in force
  sessionBurn,  \* SessionEnergyBurn
  burnOf,       \* EnergyBurn: session |-> energy burnt
  totalBurn,    \* TotalEnergyBurn
  generation,   \* EnergyGeneration: session |-> energy generated
  eraEnergy,    \* what calculate gave for every ended era
  burns,        \* counts the burns
  announced,    \* history: the sessions announced
  burnt,        \* history: session |-> burnt while it ran
  due           \* history: era |-> generated in its announced sessions

windowVars == <<settings, sessionBurn, burnOf, totalBurn, generation, eraEnergy,
                burns, announced, burnt, due>>
energyVars == <<eraVars, windowVars>>

Put(f, x, value) == [y \in DOMAIN f \cup {x} |-> IF y = x THEN value ELSE f[y]]
At(f, x) == IF x \in DOMAIN f THEN f[x] ELSE 0
Sum(f) == SumFunctionOnSet(f, DOMAIN f)
SumFrom(f, first, last) == SumFunctionOnSet([x \in first..last |-> At(f, x)], first..last)
Nothing == [x \in {} |-> 0]

-----------------------------------------------------------------------------
(* smooth_value: the weight of the new value is 2 / (factor + 1), a Perbill *)
(* (here percent); both products are rounded to the nearest.                *)
Percent(pct, amount) == (pct * amount + 49) \div 100

Smoothed(new, old) ==
  LET weight == Min({100, 200 \div (settings.factor + 1)})
  IN  Percent(weight, new) + Percent(100 - weight, old)

GenerationRate(index) ==
  LET burn == IF settings.override = None THEN sessionBurn ELSE settings.override
  IN  Smoothed(Max({burn, settings.minimum}), At(generation, index - 1))

(* Mutant: keeps one session less than an era may take in.                  *)
GenerationShort(index) ==
  [s \in (DOMAIN generation \cup {index}) \ {index - SessionsPerEra} |->
     IF s = index THEN GenerationRate(index) ELSE generation[s]]

(* update_generation_rate and the removal behind it.                        *)
GenerationWith(index) ==
  [s \in (DOMAIN generation \cup {index}) \ {index - (SessionsPerEra + 1)} |->
     IF s = index THEN GenerationRate(index) ELSE generation[s]]

(* Mutant: the session that leaves the window stays in the total.           *)
TotalGrowing(index) == IF index = 0 THEN totalBurn ELSE totalBurn + sessionBurn

TotalWith(index) ==
  SatSub(IF index = 0 THEN totalBurn ELSE totalBurn + sessionBurn,
         At(burnOf, index - (BurnedEnergySessionsCount + 1)))

(* EnergyBurn when session `index` begins: filed under the one that ended.  *)
BurnsWith(index) ==
  [s \in (DOMAIN burnOf \cup ({index - 1} \cap Nat)) \ {index - (BurnedEnergySessionsCount + 1)} |->
     IF s = index - 1 THEN sessionBurn ELSE burnOf[s]]

(* SessionChangeListeners::on_new_session, for the two pallets.             *)
Announce(index) ==
  /\ burnOf' = BurnsWith(index)
  /\ totalBurn' = TotalWith(index)
  /\ generation' = GenerationWith(index)
  /\ sessionBurn' = 0
  /\ announced' = announced \cup {index}
  /\ due' = Put(due, activeEra', At(due, activeEra') + GenerationRate(index))

(* calculate, over session_range_for_era.                                   *)
EnergyOf(era) == SumFrom(generation, SessionRange(era)[1], SessionRange(era)[2] - 1)

-----------------------------------------------------------------------------
(* Genesis sets the override and leaves the other parameters at default.    *)
WindowInit ==
  /\ EraInit
  /\ settings \in Settings
  /\ settings.override # None /\ settings.minimum = 0 /\ settings.factor = 1
  /\ sessionBurn = 0 /\ totalBurn = 0 /\ burns = 0
  /\ burnOf = Nothing /\ generation = Nothing /\ eraEnergy = Nothing
  /\ announced = {}
  /\ burnt = Nothing /\ due = Nothing

(* on_energy_burn, from the fees of a transaction.                          *)
Burn(amount) ==
  /\ phase = "idle"
  /\ burns < MaxBurns
  /\ burns' = burns + 1
  /\ sessionBurn' = sessionBurn + amount
  /\ burnt' = Put(burnt, session, At(burnt, session) + amount)
  /\ UNCHANGED <<eraVars, settings, burnOf, totalBurn, generation, eraEnergy, announced, due>>

(* force_set_energy_burn, set_minimum_energy_generation and                 *)
(* set_generation_rate_smooth_factor.                                       *)
SetParameters(choice) ==
  /\ phase = "idle"
  /\ settings' = choice
  /\ UNCHANGED <<eraVars, sessionBurn, burnOf, totalBurn, generation, eraEnergy,
                 burns, announced, burnt, due>>

(* end_session: in the last session of an era end_era stores its energy.    *)
EndSessionW ==
  /\ EndSession
  /\ eraEnergy' = IF activeEra + 1 \in DOMAIN eraStart /\ eraStart[activeEra + 1] = session + 1
                  THEN Put(eraEnergy, activeEra, EnergyOf(activeEra))
                  ELSE eraEnergy
  /\ UNCHANGED <<settings, sessionBurn, burnOf, totalBurn, generation, burns, announced, burnt, due>>

(* Slashes are enacted when an era starts, the first of them                *)
(* SlashDeferDuration + 1 eras into the chain, and one that fails (module   *)
(* SlashQueue) makes start_session return before it announces the session.  *)
SlashMayFail == StartsEra /\ SlashDeferDuration > 0 /\ activeEra + 1 > SlashDeferDuration

StartSessionW ==
  /\ StartSession
  /\ \/ Announce(session + 1)
     \/ /\ SlashMayFail
        /\ UNCHANGED <<burnOf, totalBurn, generation, sessionBurn, announced, due>>
  /\ UNCHANGED <<settings, eraEnergy, burns, burnt>>

(* clear_era_information forgets the energy of the era with its other data. *)
PlanEraW ==
  /\ PlanEra
  /\ eraEnergy' = [e \in DOMAIN eraEnergy \ {currentEra' - (HistoryDepth + 1)} |-> eraEnergy[e]]
  /\ UNCHANGED <<settings, sessionBurn, burnOf, totalBurn, generation, burns, announced, burnt, due>>

PlanSessionW == PlanSession /\ UNCHANGED windowVars

ForceErasW == \E mode \in Forcing : ForceEras(mode) /\ UNCHANGED windowVars

WindowNext ==
  \/ EndSessionW
  \/ StartSessionW
  \/ PlanEraW
  \/ PlanSessionW
  \/ ForceErasW
  \/ \E amount \in Amounts : Burn(amount)
  \/ \E choice \in Settings : SetParameters(choice)

WindowFairness ==
  /\ WF_energyVars(EndSessionW)
  /\ WF_energyVars(StartSessionW)
  /\ WF_energyVars(PlanEraW \/ PlanSessionW)

WindowSpec == WindowInit /\ [][WindowNext]_energyVars /\ WindowFairness

-----------------------------------------------------------------------------
(***************************************************************************)
(* Properties.                                                             *)
(***************************************************************************)
WindowTypeOK ==
  /\ EraTypeOK
  /\ settings \in Settings
  /\ {sessionBurn, totalBurn, burns} \subseteq Nat
  /\ DOMAIN burnOf \cup DOMAIN generation \cup announced \subseteq 0..session
  /\ DOMAIN eraEnergy \subseteq 0..activeEra

(* TotalEnergyBurn, which the capacity of the broker is set to, is the sum  *)
(* of the sessions on file: it never drifts from them, and its saturating   *)
(* subtraction never bites.                                                 *)
TotalIsSum == WindowTypeOK /\ totalBurn = Sum(burnOf)

(* What burnt since the announcement before is filed under the session that *)
(* ended, once; nothing of the last BurnedEnergySessionsCount sessions is   *)
(* missing, whichever sessions were never announced.                        *)
BurntUpTo(s) ==
  LET before == Max({a \in announced : a <= s} \cup {-1})
  IN  SumFrom(burnt, Max({before, 0}), s)

BurnsFiled ==
  /\ \A s \in DOMAIN burnOf : s + 1 \in announced /\ burnOf[s] = BurntUpTo(s)
  /\ \A s \in announced :
       s \in 1..session /\ s >= session - BurnedEnergySessionsCount + 1 => s - 1 \in DOMAIN burnOf
  /\ phase = "idle" => sessionBurn = BurntUpTo(session)

(* Both: the energy burnt in the window is accounted for, session by        *)
(* session and in total.                                                    *)
BurnsAddUp == TotalIsSum /\ BurnsFiled

(* An era is credited with all that was generated in its sessions, as long  *)
(* as it had no more than one session too many.                             *)
EraEnergyIsDue ==
  \A e \in DOMAIN eraEnergy :
    /\ {e, e + 1} \subseteq DOMAIN eraStart
    /\ eraStart[e + 1] - eraStart[e] <= SessionsPerEra + 1
    => eraEnergy[e] = At(due, e)
=============================================================================
