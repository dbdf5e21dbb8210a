------------------------------ MODULE LedgerCalls ------------------------------
(***************************************************************************)
(* The ledger arithmetic of StakingLedger, over every small ledger and     *)
(* argument: a behaviour picks a ledger and makes calls on it.             *)
(***************************************************************************)
EXTENDS StakingLedger

CONSTANTS
  MaxValue,    \* bound on the values of chunks
  MaxActive,   \* bound on the active stake
  MaxEra,      \* bound on the eras of chunks
  MaxChunks    \* bound on the length of the queue

ASSUME CallAssumption ==
  MaxValue \in Nat /\ MaxActive \in Nat /\ MaxEra \in Nat /\ MaxChunks \in Nat

VARIABLES
  before, after,   \* the ledger before and after the call
  call             \* the call: its name and arguments

callVars == <<before, after, call>>

BoundedChunk == [value : 1..MaxValue, era : 1..MaxEra]

(* Chunks are pushed with growing eras, at most one per era.               *)
Queues == {q \in BoundedSeq(BoundedChunk, MaxChunks) : \A i \in 2..Len(q) : q[i-1].era < q[i].era}

Ledgers == {[active |-> a, total |-> a + Unlocking(q), unlocking |-> q] :
              a \in 0..MaxActive, q \in Queues}

CallAmounts == 0..(MaxActive + MaxValue * MaxChunks + 1)

Idle == [op |-> "none"]

CallInit == after \in Ledgers /\ before = after /\ call = Idle

Slash(amount, minimum, boundary) ==
  /\ before' = after
  /\ call' = [op |-> "slash", amount |-> amount, minimum |-> minimum, boundary |-> boundary]
  /\ after' = SlashStake(after, amount, minimum, boundary)

RebondCall(amount) ==
  /\ before' = after
  /\ call' = [op |-> "rebond", amount |-> amount]
  /\ after' = Rebond(after, amount)

ConsolidateCall(era) ==
  /\ before' = after
  /\ call' = [op |-> "consolidate", era |-> era]
  /\ after' = Consolidate(after, era)

CallNext ==
  \/ \E amount \in CallAmounts, minimum \in 1..3, boundary \in 1..(MaxEra + 1) :
       Slash(amount, minimum, boundary)
  \/ \E amount \in CallAmounts : RebondCall(amount)
  \/ \E era \in 0..MaxEra : ConsolidateCall(era)

CallSpec == CallInit /\ [][CallNext]_callVars

-----------------------------------------------------------------------------
Taken == before.total - after.total

(* What every call keeps, and part of each property below: the total is    *)
(* the sum of active stake and chunks, the chunks stay sorted by era.      *)
SumsKept ==
  /\ after.total = after.active + Unlocking(after.unlocking)
  /\ after.unlocking \in Queues

(* However the slash is spread over active stake and chunks, it takes all  *)
(* that was asked for or all there is.                                     *)
SlashTakesEnough ==
  call.op = "slash" => SumsKept /\ Taken >= Min({call.amount, before.total})

(* And no more, but for dust: when less than the minimum would be left of   *)
(* the last stake or chunk it reaches, that is taken too. The doc of        *)
(* slash_stake says "This will never slash more than the given amount"      *)
(* (energy-generation/src/lib.rs:404): it does, by less than one minimum. A *)
(* stake of 3 slashed by 2 with a minimum of 2 loses 3.                     *)
SlashTakesNoMore ==
  call.op = "slash" => Taken < call.amount + call.minimum

(* Chunks that were already unbonding in the era of the offence are spared *)
(* while the active stake and the younger chunks can bear the slash.       *)
SlashSparesOlder ==
  call.op = "slash" =>
    LET first == FirstSlashable(before.unlocking, call.boundary)
        older == SubSeq(before.unlocking, 1, first - 1)
    IN  before.total - Unlocking(older) >= call.amount =>
          IsPrefix(older, after.unlocking)

(* rebond brings back what was asked for or all there is, taking the       *)
(* chunks that would unlock last: only the last chunk left may be split.   *)
RebondNewestFirst ==
  call.op = "rebond" =>
    /\ after.active = before.active + Min({call.amount, Unlocking(before.unlocking)})
    /\ SumsKept
    /\ after.total = before.total
    /\ after.unlocking # <<>> => IsPrefix(Front(after.unlocking), before.unlocking)

(* consolidate_unlocked releases a chunk in its era, not before or after.  *)
ConsolidateInTime ==
  call.op = "consolidate" =>
    /\ Range(after.unlocking) = {c \in Range(before.unlocking) : c.era > call.era}
    /\ after.active = before.active
    /\ SumsKept

(* What slash_stake takes, and from where.                                 *)
SlashIsExact == SlashTakesEnough /\ SlashTakesNoMore /\ SlashSparesOlder

(* What rebond and consolidate_unlocked give back.                         *)
UnlockingIsExact == RebondNewestFirst /\ ConsolidateInTime
=============================================================================
