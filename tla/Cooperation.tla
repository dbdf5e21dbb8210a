------------------------------ MODULE Cooperation ------------------------------
(***************************************************************************)
(* Who validates and who cooperates with whom, in pallet energy-generation, *)
(* and the stake of VIP members that pallet privileges keeps a copy of.     *)
(*                                                                         *)
(* Every call writes several of the maps Validators, Cooperators and        *)
(* Collaborations, so they are one record `maps`, and the helpers of the    *)
(* code are operators from a record to the next. Stashes are their own      *)
(* controllers. Stake that is unlocking, and dust, are left to module       *)
(* Bonding: the minimum balance is one. Reputation is a level. A validator  *)
(* without an entry in Collaborations and one with an empty set are the     *)
(* same to all calls, and to this model.                                    *)
(***************************************************************************)
EXTENDS Integers, FiniteSetsExt

CONSTANTS
  Stashes,
  Vips,                \* the stashes that may become VIP members
  MaxStake,            \* bound on the stake of every stash
  Candidates,          \* bound: the stashes that ask to validate
  Joiners,             \* bound: the stashes that ask to cooperate
  MaxLevel,            \* bound on the reputation of every stash
  CooperatorLevel,     \* min_coop_reputation as update_prefs sets it
  ValidatorLevel,      \* ValidatorReputationTier
  CollaborativeLevel,  \* CollaborativeValidatorReputationTier
  BonusPart,           \* of the runtime's ReputationExposureMultiplier: percent, by level
  MinValidatorBond,
  MinCooperatorBond,
  MaxCooperations,     \* targets of one cooperator
  TaxPercent,          \* of a VIP member who leaves
  Accuracy             \* the denominator of Perbill

ASSUME CooperationAssumption ==
  /\ IsFiniteSet(Stashes) /\ Vips \subseteq Stashes
  /\ MaxStake \in [Stashes -> Nat]
  /\ Candidates \subseteq Stashes /\ Joiners \subseteq Stashes
  /\ {MinValidatorBond, MinCooperatorBond, MaxCooperations} \subseteq Nat \ {0}
  /\ MaxLevel \in [Stashes -> Nat]
  /\ \A s \in Stashes : \A level \in 0 .. MaxLevel[s] : BonusPart[level] \in Nat
  /\ {CooperatorLevel, ValidatorLevel, CollaborativeLevel} \subseteq Nat \ {0}
  /\ TaxPercent \in 0 .. 100
  /\ Accuracy \in Nat \ {0}

VARIABLES
  active,      \* Ledger: the active stake of every bonded stash
  reputation,  \* AccountReputation
  maps         \* validators, cooperators, collaborations and vip, see TypeOK

vars == <<active, reputation, maps>>

-----------------------------------------------------------------------------
(* Partial functions *)

Put(f, x, value) == [y \in DOMAIN f \cup {x} |-> IF y = x THEN value ELSE f[y]]
Drop(f, x) == [y \in DOMAIN f \ {x} |-> f[y]]
At(f, x, default) == IF x \in DOMAIN f THEN f[x] ELSE default
Nothing == [x \in {} |-> 0]

Monus(x, y) == IF x > y THEN x - y ELSE 0
Total(f) == SumFunctionOnSet(f, DOMAIN f)

Bonded(s) == s \in DOMAIN active

-----------------------------------------------------------------------------
(* Reading the maps *)

Targets(m, c) == At(m.cooperators, c, Nothing)
Listed(m, v) == m.collaborations[v]

\* get_active_stake, with the ledger a call has written.
ActiveStake(m, led, s) ==
  IF s \in DOMAIN m.validators
  THEN At(led, s, 0)
  ELSE LET t == Targets(m, s)
       IN  SumFunctionOnSet(t, {v \in DOMAIN t : s \in Listed(m, v)})

\* What a validator expects of its cooperators; there are defaults for one that is none.
MinCoopLevel(m, v) == IF v \in DOMAIN m.validators THEN CooperatorLevel ELSE 0

LegitForValidator(s) == reputation[s] >= ValidatorLevel
LegitForCollab(s) == reputation[s] >= CollaborativeLevel

MinActiveBond(m, s) ==
  IF s \in DOMAIN m.cooperators THEN MinCooperatorBond
  ELSE IF s \in DOMAIN m.validators THEN MinValidatorBond
  ELSE 0

-----------------------------------------------------------------------------
(* Writing the maps *)

UpdateActiveStake(m, led, s) ==
  IF s \in DOMAIN m.vip THEN [m EXCEPT !.vip[s] = ActiveStake(m, led, s)] ELSE m

\* The copy of the stake is made while the cooperator still has its targets, but after it was
\* taken off their lists.
RemoveCooperator(m, led, s) ==
  IF s \notin DOMAIN m.cooperators THEN m
  ELSE LET listed == [v \in Stashes |->
                        IF v \in DOMAIN m.cooperators[s] THEN m.collaborations[v] \ {s}
                                                         ELSE m.collaborations[v]]
           unlisted == [m EXCEPT !.collaborations = listed]
       IN  [UpdateActiveStake(unlisted, led, s) EXCEPT !.cooperators = Drop(@, s)]

RemoveValidator(m, led, s) ==
  IF s \notin DOMAIN m.validators THEN m
  ELSE UpdateActiveStake([m EXCEPT !.validators = Drop(@, s), !.collaborations[s] = {}],
                         led, s)

AddCooperator(m, s, targets) ==
  [m EXCEPT !.collaborations = [v \in Stashes |-> IF v \in DOMAIN targets THEN @[v] \cup {s} ELSE @[v]],
            !.cooperators = Put(@, s, targets)]

\* Mutant: the copy of the stake is not made anew.
MakeCooperatorSilent(m, led, s, targets) == AddCooperator(RemoveValidator(m, led, s), s, targets)

\* The end of cooperate: from validator to cooperator.
MakeCooperator(m, led, s, targets) ==
  UpdateActiveStake(AddCooperator(RemoveValidator(m, led, s), s, targets), led, s)

\* The end of validate: from cooperator to validator.
MakeValidator(m, led, s, collaborative) ==
  UpdateActiveStake([RemoveCooperator(m, led, s) EXCEPT !.validators = Put(@, s, collaborative)],
                    led, s)

ChillStash(m, led, s) == RemoveCooperator(RemoveValidator(m, led, s), led, s)

ChillAll(m, led, set) == FoldSet(LAMBDA s, n : ChillStash(n, led, s), m, set)

\* do_remove_validator_from_cooperators_target: from those of its cooperators that are listed.
RemoveFromTargets(m, s) ==
  [m EXCEPT !.cooperators = [c \in DOMAIN @ |-> IF c \in Listed(m, s) THEN Drop(@[c], s)
                                                                     ELSE @[c]]]

Percent(pct, amount) == (pct * amount + 49) \div 100

\* Mutant: the targets stay as they are when the stake behind them shrinks.
AdjustNothing(m, led, s) == m

AdjustTargets(m, led, s) ==
  LET targets == Targets(m, s)
      proportion == (At(led, s, 0) * Accuracy) \div Total(targets)
  IN  IF s \in DOMAIN m.cooperators /\ Total(targets) > 0 /\ proportion < Accuracy
      THEN [m EXCEPT !.cooperators[s] =
              [v \in DOMAIN targets |-> (proportion * targets[v]) \div Accuracy]]
      ELSE m

-----------------------------------------------------------------------------
(* Bonding *)

Init ==
  /\ active = Nothing
  /\ reputation \in {[s \in Stashes |-> 0], MaxLevel}
  /\ maps = [validators |-> Nothing, cooperators |-> Nothing,
             collaborations |-> [s \in Stashes |-> {}], vip |-> Nothing]

\* bond, bond_extra and rebond.
Bond(s, extra) ==
  /\ At(active, s, 0) + extra <= MaxStake[s]
  /\ active' = Put(active, s, At(active, s, 0) + extra)
  /\ maps' = UpdateActiveStake(maps, active', s)
  /\ UNCHANGED reputation

\* The copy of the stake is made before the targets are adjusted, and not after.
Unbond(s, value) ==
  /\ Bonded(s)
  /\ active[s] >= value
  /\ active[s] - value >= MinActiveBond(maps, s)
  /\ active' = [active EXCEPT ![s] = @ - value]
  /\ maps' = AdjustTargets(UpdateActiveStake(maps, active', s), active', s)
  /\ UNCHANGED reputation

\* Mutant: the cooperator survives its bond.
KillValidatorOnly(s) ==
  /\ Bonded(s)
  /\ active[s] = 0
  /\ active' = Drop(active, s)
  /\ maps' = RemoveValidator(maps, active', s)
  /\ UNCHANGED reputation

\* withdraw_unbonded and reap_stash, with nothing left.
KillStash(s) ==
  /\ Bonded(s)
  /\ active[s] = 0
  /\ active' = Drop(active, s)
  /\ maps' = RemoveCooperator(RemoveValidator(maps, active', s), active', s)
  /\ UNCHANGED reputation

-----------------------------------------------------------------------------
(* Roles *)

Validate(s, collaborative) ==
  /\ Bonded(s)
  /\ active[s] >= MinValidatorBond
  /\ LegitForValidator(s)
  /\ collaborative => LegitForCollab(s)
  /\ maps' = MakeValidator(maps, active, s, collaborative)
  /\ UNCHANGED <<active, reputation>>

\* A target is one the cooperator has already or one that accepts cooperators.
Cooperate(s, targets) ==
  /\ Bonded(s)
  /\ active[s] >= MinCooperatorBond
  /\ active[s] >= Total(targets)
  /\ Cardinality(DOMAIN targets) \in 1 .. MaxCooperations
  /\ \A v \in DOMAIN targets :
       /\ LegitForCollab(v)
       /\ MinCoopLevel(maps, v) <= reputation[s]
       /\ v \in DOMAIN Targets(maps, s) \/ At(maps.validators, v, FALSE)
  /\ maps' = MakeCooperator(maps, active, s, targets)
  /\ UNCHANGED <<active, reputation>>

\* chill, of the controller, and force_chill, of root.
Chill(s) ==
  /\ Bonded(s)
  /\ maps' = ChillStash(RemoveFromTargets(maps, s), active, s)
  /\ UNCHANGED <<active, reputation>>

\* chill_other, of anybody: a stash that has too little left for its role. Whether roles are
\* so scarce that root allows it is free; targets that cannot be decoded do not occur.
ChillOther(s) ==
  /\ Bonded(s)
  /\ active[s] < MinActiveBond(maps, s)
  /\ maps' = ChillStash(RemoveFromTargets(maps, s), active, s)
  /\ UNCHANGED <<active, reputation>>

\* FilterHistoricalOffences chills who offended in the active era; its cooperators keep it as
\* their target.
ChillOffender(s) ==
  /\ s \in DOMAIN maps.validators
  /\ maps' = ChillStash(maps, active, s)
  /\ UNCHANGED <<active, reputation>>

Kick(s, c) ==
  /\ Bonded(s)
  /\ LET m == [maps EXCEPT
                 !.collaborations[s] = @ \ {c},
                 !.cooperators = [d \in DOMAIN @ |-> IF d = c THEN Drop(@[d], s) ELSE @[d]]]
     IN  maps' = UpdateActiveStake(UpdateActiveStake(m, active, c), active, s)
  /\ UNCHANGED <<active, reputation>>

MakeCollaborative(s) ==
  /\ LegitForCollab(s)
  /\ s \in DOMAIN maps.validators
  /\ maps' = [maps EXCEPT !.validators[s] = TRUE]
  /\ UNCHANGED <<active, reputation>>

-----------------------------------------------------------------------------
(* Eras *)

\* ellect_validators: validators without the reputation are chilled, those without the
\* reputation to collaborate lose their cooperators.
Ellected(m, led) ==
  LET chilled == ChillAll(m, led, {s \in DOMAIN m.validators : ~LegitForValidator(s)})
      alone == {s \in DOMAIN chilled.validators : ~LegitForCollab(s)}
  IN  [chilled EXCEPT !.validators = [s \in DOMAIN @ |-> @[s] /\ s \notin alone],
                      !.collaborations = [v \in Stashes |-> IF v \in alone THEN {} ELSE @[v]]]

\* The cooperators exposed with a validator if exposures were collected now, each with its
\* stake: the runtime's CooperatorExposureMultiplier is one.
Exposed(m, v) ==
  [c \in {c \in Listed(m, v) : /\ v \in DOMAIN Targets(m, c)
                               /\ reputation[c] >= MinCoopLevel(m, v)}
     |-> m.cooperators[c][v]]

\* Stake with the bonus of its owner's reputation, in whole units.
WithBonus(s, stake) == (stake * (100 + BonusPart[reputation[s]])) \div 100

\* What a validator is exposed with itself.
Own(s) == IF s \in DOMAIN maps.validators THEN WithBonus(s, At(active, s, 0)) ELSE 0

Ellect ==
  /\ maps' = Ellected(maps, active)
  /\ UNCHANGED <<active, reputation>>

-----------------------------------------------------------------------------
(* Reputation and slashes *)

Gain(s) ==
  /\ reputation[s] < MaxLevel[s]
  /\ reputation' = [reputation EXCEPT ![s] = @ + 1]
  /\ UNCHANGED <<active, maps>>

\* do_slash, of the stake; the copy is made before the targets are adjusted.
SlashStake(m, led, s) == AdjustTargets(UpdateActiveStake(m, led, s), led, s)

\* What apply_slash does to one of the slashed of the exposure of `v`, with the ledger and the
\* reputation already written: after the slash, it is chilled if its reputation requires it.
Unfit(m, rep, v, s) ==
  IF s = v THEN rep[v] < ValidatorLevel \/ (At(m.validators, v, FALSE) /\ rep[v] < CollaborativeLevel)
           ELSE rep[s] < MinCoopLevel(m, v)

ApplyTo(m, led, rep, v, stake, s) ==
  LET slashed == IF stake > 0 THEN SlashStake(m, led, s) ELSE m
  IN  IF Unfit(slashed, rep, v, s) THEN ChillStash(slashed, led, s) ELSE slashed

ApplyToAll(m, led, rep, v, stake, others) ==
  FoldSet(LAMBDA s, n : ApplyTo(n, led, rep, v, stake, s), ApplyTo(m, led, rep, v, stake, v), others)

\* apply_slash of a slash found in the exposure of some past era, which any of the stashes may
\* be in: each loses a unit of stake, reputation, or both, and then what its reputation no
\* longer allows. The validator is dealt with first.
ApplySlash(v, others, stake, points) ==
  LET slashed == others \cup {v}
  IN  /\ \A s \in slashed : Bonded(s)
      /\ active' = [s \in DOMAIN active |->
                      IF s \in slashed THEN Monus(active[s], stake) ELSE active[s]]
      /\ reputation' = [s \in Stashes |->
                          IF s \in slashed THEN Monus(reputation[s], points) ELSE reputation[s]]
      /\ maps' = ApplyToAll(maps, active', reputation', v, stake, others)

-----------------------------------------------------------------------------
(* VIP members *)

BecomeVip(s) ==
  /\ s \notin DOMAIN maps.vip
  /\ s \in DOMAIN maps.validators \/ DOMAIN Targets(maps, s) # {}
  /\ maps' = [maps EXCEPT !.vip = Put(@, s, ActiveStake(maps, active, s))]
  /\ UNCHANGED <<active, reputation>>

\* The targets left after the tax: those that still take part and keep the minimum bond.
Taxed(m, s) ==
  LET t == Targets(m, s)
      left == [v \in DOMAIN t |-> t[v] - Percent(TaxPercent, t[v])]
  IN  [v \in {v \in DOMAIN t : s \in Listed(m, v) /\ left[v] >= MinCooperatorBond} |-> left[v]]

\* slash_vip_account, and the membership with it. Without stake left to slash the ledger is not
\* written.
ExitVip(s) ==
  LET coops == s \in DOMAIN maps.cooperators /\ s \notin DOMAIN maps.validators
      taxed == {v \in DOMAIN Targets(maps, s) : s \in Listed(maps, v)}
      taxes == [v \in taxed |-> Percent(TaxPercent, Targets(maps, s)[v])]
      tax == IF coops THEN Total(taxes) ELSE Percent(TaxPercent, active[s])
      chills == s \in DOMAIN maps.validators /\ active[s] - tax < MinValidatorBond
      m == IF coops THEN AddCooperator(maps, s, Taxed(maps, s))
           ELSE IF chills THEN ChillStash(maps, active, s)
           ELSE maps
  IN  /\ Bonded(s)
      /\ s \in DOMAIN maps.vip
      /\ active' = [active EXCEPT ![s] = Monus(@, tax)]
      /\ maps' = [m EXCEPT !.vip = Drop(@, s)]
      /\ UNCHANGED reputation

\* In January leaving is free.
ExitVipFreely(s) ==
  /\ s \in DOMAIN maps.vip
  /\ maps' = [maps EXCEPT !.vip = Drop(@, s)]
  /\ UNCHANGED <<active, reputation>>

-----------------------------------------------------------------------------
TargetChoices(s) == UNION {[T -> 1 .. MaxStake[s]] : T \in SUBSET Stashes}

Next ==
  \/ Ellect
  \/ \E s \in Stashes :
       \/ KillStash(s) \/ Chill(s) \/ ChillOther(s) \/ ChillOffender(s) \/ MakeCollaborative(s) \/ Gain(s)
       \/ \E value \in 1 .. MaxStake[s] : Bond(s, value) \/ Unbond(s, value)
       \/ \E c \in Stashes : Kick(s, c)
       \/ \E others \in SUBSET (Stashes \ {s}), stake \in 0 .. 1, points \in 0 .. 1 :
            stake + points > 0 /\ ApplySlash(s, others, stake, points)
  \/ \E s \in Candidates, collaborative \in BOOLEAN : Validate(s, collaborative)
  \/ \E s \in Joiners : \E targets \in TargetChoices(s) : Cooperate(s, targets)
  \/ \E s \in Vips : BecomeVip(s) \/ ExitVip(s) \/ ExitVipFreely(s)

Spec == Init /\ [][Next]_vars

-----------------------------------------------------------------------------
(* Properties *)

TypeOK ==
  /\ DOMAIN active \subseteq Stashes
  /\ \A s \in DOMAIN active : active[s] \in 0 .. MaxStake[s]
  /\ DOMAIN reputation = Stashes /\ \A s \in Stashes : reputation[s] \in 0 .. MaxLevel[s]
  /\ DOMAIN maps.validators \subseteq Stashes
  /\ \A s \in DOMAIN maps.validators : maps.validators[s] \in BOOLEAN
  /\ DOMAIN maps.cooperators \subseteq Stashes
  /\ \A c \in DOMAIN maps.cooperators :
       \A v \in DOMAIN maps.cooperators[c] :
         v \in Stashes /\ maps.cooperators[c][v] \in 0 .. MaxStake[c]
  /\ maps.collaborations \in [Stashes -> SUBSET Stashes]
  /\ \A s \in DOMAIN maps.vip : maps.vip[s] \in 0 .. MaxStake[s]

\* The stake a stash has exposed with the validators that list it, if exposures were collected
\* now.
WithOthers(s) ==
  Total([v \in DOMAIN maps.validators |-> At(Exposed(maps, v), s, 0)])

\* No stake is exposed twice: whatever a stash unbonds, is slashed or taxed for, and however it
\* changes sides, what it has exposed with others is stake it has; and with what it is exposed
\* with itself, which a validator's reputation raises above its stake, it comes to no more than
\* that stake and one bonus.
NobodyOverexposed ==
  \A s \in Stashes :
    /\ WithOthers(s) <= At(active, s, 0)
    /\ Own(s) + WithOthers(s) <= WithBonus(s, At(active, s, 0))

\* A stash with a role has a bond: no killed stash stays behind as validator or cooperator.
RolesAreBonded ==
  TypeOK /\ DOMAIN maps.validators \cup DOMAIN maps.cooperators \subseteq DOMAIN active

\* The copy of a VIP member's stake, which earns its points, is never less than the stake:
\* no call that lets it grow forgets the copy.
CopyNeverShort == \A s \in DOMAIN maps.vip : maps.vip[s] >= ActiveStake(maps, active, s)
=============================================================================
