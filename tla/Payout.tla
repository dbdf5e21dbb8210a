------------------------------- MODULE Payout -------------------------------
(***************************************************************************)
(* Energy rewards of pallet energy-generation: which eras a validator can  *)
(* be paid for, on top of the era life cycle of Eras.                      *)
(*                                                                         *)
(* claimed_rewards is a sorted vector searched by bisection, here the set  *)
(* of its eras.  What a payout is worth is left out.                       *)
(***************************************************************************)
EXTENDS Eras

CONSTANT Stashes

VARIABLES
  bonded,     \* the stashes with an entry in Bonded and a ledger
  claimed,    \* ledger.claimed_rewards of each stash ({} without a ledger)
  exposures,  \* ErasStakersClipped: era |-> the validators it exposes
  rates,      \* the eras in ErasEnergyPerStakeCurrency
  elected,    \* history: era |-> the validators it exposed, never pruned
  since,      \* history: the current era when the stash bonded last
  times       \* history: <<stash, era>> |-> how often it was paid

payoutVars == <<bonded, claimed, exposures, rates, elected, since, times>>
vars == <<eraVars, payoutVars>>

-----------------------------------------------------------------------------
(* Mutant: forgets a claim while its era can still be claimed.             *)
RetainedShort(stash) == {e \in claimed[stash] : e > SatSub(currentEra, HistoryDepth)}

(* Mutant: forgets no claim.                                               *)
RetainedAll(stash) == claimed[stash]

(* The claims do_payout_stakers retains.                                   *)
Retained(stash) == {e \in claimed[stash] : e >= SatSub(currentEra, HistoryDepth)}

(* Mutant: the current era counts as claimed as well.                      *)
ClaimedAtBondLong == SatSub(currentEra, HistoryDepth)..currentEra

(* The eras a new ledger is born with as claimed.                          *)
ClaimedAtBond == SatSub(currentEra, HistoryDepth)..(currentEra - 1)

(* The era trigger_new_era clears when it plans `era`.                     *)
Cleared(era) == era - (HistoryDepth + 1)

(* What do_payout_stakers checks before it looks at the claims.            *)
Payable(stash, era) ==
  /\ era # activeEra
  /\ era \in SatSub(currentEra, HistoryDepth)..currentEra
  /\ era \in rates
  /\ stash \in bonded

-----------------------------------------------------------------------------
(* The stakers of the genesis config are bonded before era 0 is planned.   *)
PayoutInit ==
  /\ EraInit
  /\ bonded \in SUBSET Stashes
  /\ claimed = [s \in Stashes |-> {}]
  /\ exposures \in [{0} -> SUBSET bonded]
  /\ rates = {}
  /\ elected = exposures
  /\ since = [s \in Stashes |-> 0]
  /\ times = [p \in {} |-> 0]

(* end_session; end_era stores the rate of the era that ends with it.      *)
EndSessionP ==
  /\ EndSession
  /\ rates' = IF StartsEra THEN rates \cup {activeEra} ELSE rates
  /\ UNCHANGED <<bonded, claimed, exposures, elected, since, times>>

StartSessionP == StartSession /\ UNCHANGED payoutVars

(* trigger_new_era: clear_era_information, then store_stakers_info.        *)
PlanEraP ==
  /\ PlanEra
  /\ LET era == currentEra + 1
     IN  \E validators \in SUBSET bonded :
           /\ exposures' = [e \in (DOMAIN exposures \cup {era}) \ {Cleared(era)} |->
                              IF e = era THEN validators ELSE exposures[e]]
           /\ rates' = rates \ {Cleared(era)}
           /\ elected' = [e \in DOMAIN elected \cup {era} |->
                            IF e = era THEN validators ELSE elected[e]]
  /\ UNCHANGED <<bonded, claimed, since, times>>

PlanSessionP == PlanSession /\ UNCHANGED payoutVars

ForceErasP == \E mode \in Forcing : ForceEras(mode) /\ UNCHANGED payoutVars

Bond(stash) ==
  /\ phase = "idle"
  /\ stash \notin bonded
  /\ bonded' = bonded \cup {stash}
  /\ claimed' = [claimed EXCEPT ![stash] = ClaimedAtBond]
  /\ since' = [since EXCEPT ![stash] = currentEra]
  /\ UNCHANGED <<eraVars, exposures, rates, elected, times>>

(* kill_stash, from whichever call.                                        *)
Kill(stash) ==
  /\ phase = "idle"
  /\ stash \in bonded
  /\ bonded' = bonded \ {stash}
  /\ claimed' = [claimed EXCEPT ![stash] = {}]
  /\ UNCHANGED <<eraVars, exposures, rates, elected, since, times>>

(* A payment counts if the era exposed the stash; if not, the claim is     *)
(* entered all the same.                                                   *)
Counted(stash, era) ==
  IF era \in DOMAIN exposures /\ stash \in exposures[era]
  THEN [p \in DOMAIN times \cup {<<stash, era>>} |->
          (IF p \in DOMAIN times THEN times[p] ELSE 0) + (IF p = <<stash, era>> THEN 1 ELSE 0)]
  ELSE times

PayoutStakers(stash, era) ==
  /\ phase = "idle"
  /\ Payable(stash, era)
  /\ era \notin Retained(stash)
  /\ Cardinality(Retained(stash)) < HistoryDepth
  /\ claimed' = [claimed EXCEPT ![stash] = Retained(stash) \cup {era}]
  /\ times' = Counted(stash, era)
  /\ UNCHANGED <<eraVars, bonded, exposures, rates, elected, since>>

Next ==
  \/ EndSessionP
  \/ StartSessionP
  \/ PlanEraP
  \/ PlanSessionP
  \/ ForceErasP
  \/ \E stash \in Stashes : Bond(stash)
  \/ \E stash \in Stashes : Kill(stash)
  \/ \E stash \in Stashes, era \in 0..currentEra : PayoutStakers(stash, era)

Spec == PayoutInit /\ [][Next]_vars

-----------------------------------------------------------------------------
(***************************************************************************)
(* Properties.                                                             *)
(***************************************************************************)

(* Types.                                                                  *)
TypeOK ==
  /\ bonded \subseteq Stashes
  /\ claimed \in [Stashes -> SUBSET Nat]
  /\ DOMAIN exposures \subseteq Nat
  /\ \A e \in DOMAIN exposures : exposures[e] \subseteq Stashes
  /\ rates \subseteq Nat
  /\ DOMAIN elected \subseteq Nat
  /\ since \in [Stashes -> Nat]
  /\ DOMAIN times \subseteq Stashes \X Nat

(* No stash is paid twice for an era, also if its ledger, and the claims   *)
(* in it, are killed and bonded anew in between.                           *)
PaidOnce == \A p \in DOMAIN times : times[p] = 1

(* The bound on claimed_rewards: "following bound is always expected to be *)
(* satisfied".  No payout that passes the other checks fails on it, and no *)
(* new ledger is born with more.                                           *)
BoundIsMet ==
  \A s \in bonded :
    /\ Cardinality(claimed[s]) <= HistoryDepth
    /\ \A e \in 0..currentEra :
         Payable(s, e) /\ e \notin Retained(s) => Cardinality(Retained(s)) < HistoryDepth

(* Nothing earned gets lost within the history: an ended era of the last   *)
(* HistoryDepth that exposed a stash bonded since can be claimed as long   *)
(* as it has not been paid.                                                *)
EarnedCanBeClaimed ==
  \A s \in bonded, e \in DOMAIN elected :
    /\ s \in elected[e]
    /\ e >= since[s]
    /\ e >= currentEra - HistoryDepth
    /\ e < activeEra
    /\ <<s, e>> \notin DOMAIN times
    => /\ Payable(s, e)
       /\ e \notin Retained(s)
       /\ e \in DOMAIN exposures /\ s \in exposures[e]

(* The inductive invariant behind PaidOnce: what was paid is an ended era, *)
(* and is claimed in the ledger unless it has left the history.            *)
PaidIsClaimed ==
  \A p \in DOMAIN times :
    /\ times[p] = 1
    /\ p[2] < activeEra
    /\ p[1] \in bonded =>
         p[2] \in claimed[p[1]] \/ p[2] < SatSub(currentEra, HistoryDepth)

RatesOfEnded ==
  \A e \in rates : e < activeEra \/ (e = activeEra /\ phase = "start" /\ StartsEra)

PaidInv == PaidIsClaimed /\ RatesOfEnded

(* The inductive invariant behind EarnedCanBeClaimed: within the history   *)
(* nothing is cleared, no ended era lacks its rate, and a claim that is no *)
(* payment is older than the ledger or of an era the stash did not serve.  *)
HistoryKept ==
  /\ DOMAIN elected = 0..currentEra
  /\ \A e \in 0..currentEra :
       e >= currentEra - HistoryDepth => e \in DOMAIN exposures /\ exposures[e] = elected[e]
  /\ \A e \in 0..(activeEra - 1) : e >= currentEra - HistoryDepth => e \in rates
  /\ phase = "start" /\ StartsEra /\ activeEra >= 0 => activeEra \in rates

ClaimsPaid ==
  \A s \in Stashes :
    /\ claimed[s] \subseteq 0..(currentEra - 1)
    /\ \A e \in claimed[s] : e >= since[s] /\ s \in elected[e] => <<s, e>> \in DOMAIN times

(* What BoundIsMet rests on besides: no ledger ever holds too many claims. *)
ClaimsBounded == \A s \in Stashes : Cardinality(claimed[s]) <= HistoryDepth
=============================================================================
