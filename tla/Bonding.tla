------------------------------- MODULE Bonding -------------------------------
(***************************************************************************)
(* The stash of one validator: its ledger, its balance and the lock on it, *)
(* from bond to kill_stash, under the eras of module Eras and the deferred *)
(* slashes that era starts enact (their queue is module SlashQueue).       *)
(*                                                                         *)
(* The offences slashed here are timely, that is reported before the era   *)
(* start that enacts them, and the amount of a slash is any part of what   *)
(* the stash had at stake in the era of the offence.  The multiplier of    *)
(* exposures is one and the stash is its own controller.                   *)
(***************************************************************************)
EXTENDS Eras, StakingLedger

CONSTANTS
  SlashDeferDuration,  \* T::SlashDeferDuration, in eras
  MaxUnlockingChunks,  \* T::MaxUnlockingChunks
  MinBalance,          \* T::StakeCurrency::minimum_balance
  MinBond,             \* min_bond_for_validator
  TaxPercents,         \* what get_tax_percent may answer: at most 30, see penalty_percent
  Supply               \* bound on the balance of the stash

(* The code's integrity test only asks for SlashDeferDuration to be below  *)
(* BondingDuration.  At BondingDuration - 1 a chunk can be withdrawn once  *)
(* the era it waits for is planned, a session before the era starts and    *)
(* enacts its slashes; one era less and it cannot.                         *)
ASSUME BondingAssumption ==
  /\ SlashDeferDuration \in 1..(BondingDuration - 2)
  /\ MaxUnlockingChunks \in Nat \ {0}
  /\ MinBalance \in Nat \ {0}
  /\ MinBond \in Nat
  /\ TaxPercents \subseteq 0..30
  /\ Supply \in Nat

VARIABLES
  bonded,      \* the stash has an entry in Bonded and a ledger
  ledger,      \* its ledger (all zero when there is none)
  free,        \* free_balance of the stash, the locked part included
  lock,        \* the amount of the staking lock
  validating,  \* the stash is in Validators
  owed         \* history: era |-> what a slash for it may still take

bondVars == <<bonded, ledger, free, lock, validating, owed>>
vars == <<eraVars, bondVars>>

NoLedger == [total |-> 0, active |-> 0, unlocking |-> <<>>]

(* Perbill times an amount, rounded to the nearest, halves down.           *)
Percent(pct, amount) == (pct * amount + 49) \div 100

(* Currency::slash leaves a bonded account its minimum balance.            *)
FreeAfter(slashed) == free - Min({slashed, Less(free, MinBalance)})

(* Mutant: the lock is left as it was.                                     *)
UpdateLedgerOnly(l) == ledger' = l /\ UNCHANGED lock

(* update_ledger                                                           *)
UpdateLedger(l) == ledger' = l /\ lock' = l.total

(* kill_stash and remove_lock                                              *)
Kill ==
  /\ bonded' = FALSE
  /\ ledger' = NoLedger
  /\ lock' = 0
  /\ validating' = FALSE

(* History: `taken` has left the stake other than by being withdrawn.      *)
Settle(taken) == [e \in DOMAIN owed |-> Less(owed[e], taken)]

-----------------------------------------------------------------------------
BondInit ==
  /\ EraInit
  /\ bonded = FALSE
  /\ ledger = NoLedger
  /\ free = Supply
  /\ lock = 0
  /\ validating = FALSE
  /\ owed = [e \in {} |-> 0]

(* Extrinsics run between the calls of a session rotation.                 *)
Extrinsic == phase = "idle" /\ UNCHANGED eraVars

Bond(value) ==
  /\ Extrinsic
  /\ ~bonded
  /\ value >= MinBalance
  /\ free >= MinBalance                          \* inc_consumers
  /\ bonded' = TRUE
  /\ LET v == Min({value, free})
     IN  UpdateLedger([total |-> v, active |-> v, unlocking |-> <<>>])
  /\ UNCHANGED <<free, validating, owed>>

BondExtra(maxAdditional) ==
  LET extra == Min({maxAdditional, free - ledger.total})
  IN
  /\ Extrinsic
  /\ bonded
  /\ free >= ledger.total
  /\ ledger.active + extra >= MinBalance
  /\ UpdateLedger([ledger EXCEPT !.total = @ + extra, !.active = @ + extra])
  /\ UNCHANGED <<bonded, free, validating, owed>>

(* One chunk per era: the last chunk takes what falls due in its era.      *)
WithChunk(chunks, value, era) ==
  IF chunks # <<>> /\ Last(chunks).era = era
  THEN [chunks EXCEPT ![Len(chunks)].value = @ + value]
  ELSE Append(chunks, [value |-> value, era |-> era])

(* Mutant: the funds wait for one era less.                                *)
UnlockEraShort == currentEra + BondingDuration - 1

UnlockEra == currentEra + BondingDuration

(* Mutant: a stash without chunks is let go, whatever is active.           *)
SpentWithoutChunks(l) == l.unlocking = <<>>

(* do_withdraw_unbonded kills a stash with nothing left worth keeping.     *)
Spent(l) == l.unlocking = <<>> /\ l.active < MinBalance

(* unbond: withdraws first when the queue is full (which fails if that     *)
(* kills the stash), takes the dust along and burns the tax.  With nothing *)
(* to unbond, the call is no more than that withdrawal.                    *)
Unbond(value, pct) ==
  LET full    == Len(ledger.unlocking) = MaxUnlockingChunks
      l       == IF full THEN Consolidate(ledger, currentEra) ELSE ledger
      asked   == Min({value, l.active})
      dust    == IF l.active - asked < MinBalance THEN l.active - asked ELSE 0
      out     == asked + dust
      tax     == Percent(pct, asked) + Percent(pct, dust)
  IN
  /\ Extrinsic
  /\ bonded
  /\ ~(full /\ Spent(l))
  /\ Len(l.unlocking) < MaxUnlockingChunks
  /\ asked > 0
  /\ l.active - out >= IF validating THEN MinBond ELSE 0
  /\ UpdateLedger([total     |-> l.total - tax,
                   active    |-> l.active - out,
                   unlocking |-> WithChunk(l.unlocking, out - tax, UnlockEra)])
  /\ free' = FreeAfter(tax)
  /\ owed' = Settle(tax)
  /\ UNCHANGED <<bonded, validating>>

WithdrawUnbonded ==
  LET l == Consolidate(ledger, currentEra)
  IN
  /\ Extrinsic
  /\ bonded
  /\ IF Spent(l) THEN Kill ELSE UpdateLedger(l) /\ UNCHANGED <<bonded, validating>>
  /\ UNCHANGED <<free, owed>>

RebondStake(value) ==
  /\ Extrinsic
  /\ bonded
  /\ ledger.unlocking # <<>>
  /\ Rebond(ledger, value).active >= MinBalance
  /\ UpdateLedger(Rebond(ledger, value))
  /\ UNCHANGED <<bonded, free, validating, owed>>

Validate ==
  /\ Extrinsic
  /\ bonded /\ ~validating
  /\ ledger.active >= MinBond
  /\ validating' = TRUE
  /\ UNCHANGED <<bonded, ledger, free, lock, owed>>

(* chill, chill_other, force_chill and the loss of reputation.             *)
Chill ==
  /\ Extrinsic
  /\ validating
  /\ validating' = FALSE
  /\ UNCHANGED <<bonded, ledger, free, lock, owed>>

(* slash_vip_account, for a stash that leaves its VIP status and is not a  *)
(* cooperator.                                                             *)
TaxVip(pct) ==
  LET tax == Percent(pct, ledger.active)
      l   == SlashStake(ledger, tax, MinBalance, UnlockEra)
      taken == ledger.total - l.total
  IN
  /\ Extrinsic
  /\ bonded
  /\ validating' = (validating /\ ledger.active - tax >= MinBond)
  /\ IF taken > 0 THEN UpdateLedger(l) ELSE UNCHANGED <<ledger, lock>>
  /\ free' = FreeAfter(taken)
  /\ owed' = Settle(taken)
  /\ UNCHANGED bonded

ReapStash ==
  /\ Extrinsic
  /\ bonded
  /\ free < MinBalance \/ ledger.total < MinBalance
  /\ Kill
  /\ UNCHANGED <<free, owed>>

(* force_unstake: root lets the stash go, with what it owes.               *)
ForceUnstake ==
  /\ Extrinsic
  /\ bonded
  /\ Kill
  /\ owed' = [e \in {} |-> 0]
  /\ UNCHANGED free

(* The stash spends what the lock leaves it, or receives.                  *)
Transfer(balance) ==
  /\ Extrinsic
  /\ balance >= lock
  /\ bonded => balance >= MinBalance
  /\ free' = balance
  /\ UNCHANGED <<bonded, ledger, lock, validating, owed>>

-----------------------------------------------------------------------------
EndSessionB  == EndSession /\ UNCHANGED bondVars
PlanSessionB == PlanSession /\ UNCHANGED bondVars
ForceErasB   == \E mode \in Forcing : ForceEras(mode) /\ UNCHANGED bondVars

(* The exposure of the planned era is the active stake of a validator.     *)
PlanEraB ==
  /\ PlanEra
  /\ owed' = [e \in DOMAIN owed \cup {currentEra + 1} |->
                IF e = currentEra + 1 THEN IF validating THEN ledger.active ELSE 0
                ELSE owed[e]]
  /\ UNCHANGED <<bonded, ledger, free, lock, validating>>

(* do_slash on this stash while era + SlashDeferDuration + 1 starts: takes *)
(* up to what it had at stake in `era`, and chills it if that cost it its  *)
(* reputation.  The slash era it passes on is era + 1.                     *)
EnactSlash(era, amount) ==
  LET l == SlashStake(ledger, amount, MinBalance, era + 1 + BondingDuration)
      taken == ledger.total - l.total
  IN
  /\ IF taken > 0 THEN UpdateLedger(l) ELSE UNCHANGED <<ledger, lock>>
  /\ free' = FreeAfter(taken)
  /\ validating' \in {validating, FALSE}
  /\ owed' = [e \in DOMAIN owed \ {era} |-> Less(owed[e], taken)]
  /\ UNCHANGED bonded

StartSessionB ==
  /\ StartSession
  /\ LET era == activeEra - SlashDeferDuration       \* the one whose slashes run now
     IN  IF StartsEra /\ era \in DOMAIN owed
         THEN IF bonded
              THEN \E amount \in 0..owed[era] : EnactSlash(era, amount)
              ELSE /\ owed' = [e \in DOMAIN owed \ {era} |-> owed[e]]
                   /\ UNCHANGED <<bonded, ledger, free, lock, validating>>
         ELSE UNCHANGED bondVars

Amounts == 1..Supply

Next ==
  \/ EndSessionB
  \/ StartSessionB
  \/ PlanEraB
  \/ PlanSessionB
  \/ ForceErasB
  \/ \E value \in Amounts : Bond(value)
  \/ \E value \in Amounts : BondExtra(value)
  \/ \E value \in Amounts, pct \in TaxPercents : Unbond(value, pct)
  \/ WithdrawUnbonded
  \/ \E value \in Amounts : RebondStake(value)
  \/ Validate
  \/ Chill
  \/ \E pct \in TaxPercents : TaxVip(pct)
  \/ ReapStash
  \/ ForceUnstake
  \/ \E balance \in 0..Supply : Transfer(balance)

Spec == BondInit /\ [][Next]_vars

-----------------------------------------------------------------------------
(***************************************************************************)
(* Properties.                                                             *)
(***************************************************************************)
(* Types; and a stash that is gone has left no stake, no lock and no role. *)
TypeOK ==
  /\ bonded \in BOOLEAN
  /\ ledger.total \in Nat /\ ledger.active \in Nat
  /\ \A i \in DOMAIN ledger.unlocking :
       ledger.unlocking[i].value \in Nat /\ ledger.unlocking[i].era \in Nat
  /\ free \in 0..Supply
  /\ lock \in Nat
  /\ validating \in BOOLEAN
  /\ \A e \in DOMAIN owed : owed[e] \in Nat
  /\ ~bonded => ledger = NoLedger /\ lock = 0 /\ ~validating

(* What unbond, rebond and slash_stake rely on: chunks are not empty, wait *)
(* for growing eras, one chunk each, and none longer than the bonding      *)
(* duration.                                                               *)
ChunksInOrder ==
  \A i \in DOMAIN ledger.unlocking :
    /\ ledger.unlocking[i].value > 0
    /\ ledger.unlocking[i].era <= currentEra + BondingDuration
    /\ \A j \in 1..(i-1) : ledger.unlocking[j].era < ledger.unlocking[i].era

(* Once the due chunks are gone, no more are left than the bonding duration *)
(* has eras: a longer queue cannot make unbond fail with NoMoreChunks.     *)
RoomToUnbond == Len(Consolidate(ledger, currentEra).unlocking) <= BondingDuration

(* The stake accounted for is there, locked, and never more than the       *)
(* account holds, through taxes, slashes and transfers in between; and the *)
(* chunks that unlock are in a shape every call can work with.             *)
StakeIsBacked ==
  /\ TypeOK
  /\ ChunksInOrder
  /\ RoomToUnbond
  /\ ledger.total = ledger.active + Unlocking(ledger.unlocking)
  /\ lock = ledger.total
  /\ ledger.total <= free

(* Stake cannot leave before the slash: while the era start that enacts    *)
(* the slashes of an era is to come, the ledger still holds what was at    *)
(* stake in that era, but for what other slashes and taxes took.           *)
StakeAwaitsSlash == bonded => \A e \in DOMAIN owed : ledger.total >= owed[e]

(* A stash that goes on its own account owes less than a minimum balance.  *)
OnlyDustEscapes ==
  [][bonded /\ ~bonded' => \A e \in DOMAIN owed' : owed'[e] < MinBalance]_vars
=============================================================================
