-------------------------------- MODULE Disabling --------------------------------
(***************************************************************************)
(* Offenders that are disabled for the rest of an era: DisabledValidators   *)
(* of pallet energy-generation, and the list that pallet-session keeps of   *)
(* the same indices, over the sessions and eras of module Eras.             *)
(*                                                                         *)
(* pallet-session is external: at a rotation the queued validators become   *)
(* the active ones, and its list is cleared if they were queued as changed, *)
(* as they are when an election chose them or one of them set new keys.     *)
(* Nothing else writes its list than this pallet.                          *)
(***************************************************************************)
EXTENDS Eras, Sequences

CONSTANTS
  Elections,             \* the sets an election may choose, in their order
  DisablingLimitFactor   \* DISABLING_LIMIT_FACTOR

ASSUME DisablingAssumption ==
  /\ \A set \in Elections :
       /\ set \in Seq({set[i] : i \in 1 .. Len(set)})
       /\ \A i, j \in 1 .. Len(set) : set[i] = set[j] => i = j
  /\ DisablingLimitFactor \in Nat \ {0}

VARIABLES
  validators,       \* Validators of pallet-session
  queued,           \* QueuedKeys: the validators of the next session
  changed,          \* QueuedChanged
  disabled,         \* DisabledValidators: sorted without duplicates, so a set of places
  sessionDisabled,  \* DisabledValidators of pallet-session
  offenders         \* history: whose offences of the active era were reported

listVars == <<validators, queued, changed, disabled, sessionDisabled, offenders>>
disablingVars == <<eraVars, listVars>>

Indices == 1 .. Len(validators)
ActiveSet == {validators[i] : i \in Indices}

(* An era that was planned at genesis would start with validators that      *)
(* pallet-session did not queue as changed: eras are longer than a session  *)
(* and not forced at genesis.                                              *)
DisablingInit ==
  /\ EraInit
  /\ SessionsPerEra > 1 /\ forceEra = "NotForcing"
  /\ validators \in Elections /\ queued = validators /\ changed = FALSE
  /\ disabled = {} /\ sessionDisabled = {} /\ offenders = {}

-----------------------------------------------------------------------------
(* disable_limit.                                                          *)
DisableLimit(n) == SatSub(n, 1) \div DisablingLimitFactor

(* No offender is disabled for an offence in a previous era.               *)
Past(era) == activeEra > era

(* The decision for an offender of an era: its place, or no place.         *)
Decision(stash, era) ==
  IF Cardinality(disabled) >= DisableLimit(Len(validators)) \/ Past(era) THEN {}
  ELSE {i \in Indices : validators[i] = stash}

(* on_offence, for one who is not invulnerable. A report that slashes, but  *)
(* not more than one before in the era, returns before add_offending_       *)
(* validator, where its stash has been: it is this step or none. Offences   *)
(* of the active era come with a proof that the stash is a validator.       *)
OnOffence(stash, offenceSession) ==
  LET era == OffenceEra(offenceSession)
  IN  /\ phase = "idle"
      /\ Reportable(offenceSession)
      /\ ~Past(era) => stash \in ActiveSet
      /\ disabled' = disabled \cup Decision(stash, era)
      /\ sessionDisabled' = sessionDisabled \cup (disabled' \ disabled)
      /\ offenders' = IF Past(era) THEN offenders ELSE offenders \cup {stash}
      /\ UNCHANGED <<eraVars, validators, queued, changed>>

(* end_session: the era ends if the next one starts in the next session.   *)
EraEnds == activeEra + 1 \in DOMAIN eraStart /\ eraStart[activeEra + 1] = session + 1

(* end_era clears the list of this pallet, pallet-session its own if the    *)
(* validators that take over are queued as changed.                        *)
EndAnySession ==
  /\ EndSession
  /\ disabled' = IF EraEnds THEN {} ELSE disabled
  /\ offenders' = IF EraEnds THEN {} ELSE offenders
  /\ validators' = queued
  /\ sessionDisabled' = IF changed THEN {} ELSE sessionDisabled
  /\ UNCHANGED <<queued, changed>>

(* Mutant: start_session trusts pallet-session to keep its list.           *)
DisabledFromTrusted == sessionDisabled

(* start_session disables everybody on the list again.                     *)
DisabledFromStart == sessionDisabled \cup disabled

StartAnySession ==
  /\ StartSession
  /\ sessionDisabled' = DisabledFromStart
  /\ UNCHANGED <<validators, queued, changed, disabled, offenders>>

ElectNext(set) ==
  /\ PlanEra
  /\ queued' = set
  /\ changed' = TRUE
  /\ UNCHANGED <<validators, disabled, sessionDisabled, offenders>>

(* Without an election the validators stay, but may set new keys; not so at *)
(* genesis.                                                                *)
KeepNext(newKeys) ==
  /\ PlanSession
  /\ session = -1 => ~newKeys
  /\ queued' = validators
  /\ changed' = newKeys
  /\ UNCHANGED <<validators, disabled, sessionDisabled, offenders>>

Elected == UNION {{set[i] : i \in 1 .. Len(set)} : set \in Elections}

DisablingNext ==
  \/ \E stash \in Elected, s \in DOMAIN eraOfSession : OnOffence(stash, s)
  \/ EndAnySession
  \/ StartAnySession
  \/ \E set \in Elections : ElectNext(set)
  \/ \E newKeys \in BOOLEAN : KeepNext(newKeys)
  \/ \E mode \in Forcing : ForceEras(mode) /\ UNCHANGED listVars

DisablingSpec == DisablingInit /\ [][DisablingNext]_disablingVars

-----------------------------------------------------------------------------
DisablingTypeOK ==
  /\ validators \in Elections /\ queued \in Elections /\ changed \in BOOLEAN
  /\ disabled \subseteq Indices /\ sessionDisabled \subseteq Nat

(* Who offends in the active era is out until the era ends, at both places, *)
(* as long as there is room: between rotations the two lists agree, though  *)
(* pallet-session clears its own at other times; places on them are those   *)
(* of offenders of this era, never of an earlier one with other validators; *)
(* they are less than one in DisablingLimitFactor; and who is missing is    *)
(* missing for want of room.                                               *)
OffendersAreOut ==
  /\ DisablingTypeOK
  /\ phase # "start" => sessionDisabled = disabled
  /\ \A i \in disabled : validators[i] \in offenders
  /\ disabled # {} => DisablingLimitFactor * Cardinality(disabled) < Len(validators)
  /\ Cardinality(disabled) < DisableLimit(Len(validators)) =>
       offenders = {validators[i] : i \in disabled}

(* How it holds: while an era is ahead the validators of the next session   *)
(* are queued as changed, otherwise they are those of this one.            *)
DisablingInv ==
  /\ OffendersAreOut
  /\ Cardinality(disabled) <= DisableLimit(Len(validators))
  /\ sessionDisabled \subseteq disabled
  /\ session = -1 => forceEra = "NotForcing" /\ currentEra = 0 /\ SessionsPerEra > 1
                     /\ queued = validators /\ disabled = {} /\ offenders = {}
  /\ session >= 0 /\ phase = "idle" =>
       IF currentEra = activeEra + 1 THEN changed ELSE queued = validators
================================================================================
