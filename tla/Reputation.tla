------------------------------- MODULE Reputation -------------------------------
(***************************************************************************)
(* Reputation of accounts: points earned with time, rewards and slashes,    *)
(* and the tier derived from them (pallets/reputation).                     *)
(*                                                                         *)
(* Points are abstract: only their order against the thresholds of the      *)
(* ranks matters, so the power curve of from_rank is any increasing         *)
(* function FromRank. A tier is an index (0 Vanguard, 1 Trailblazer,        *)
(* 2 Ultramodern) and a rank relative to it.                                *)
(***************************************************************************)
EXTENDS Integers, FiniteSetsExt

CONSTANTS
  Accounts,
  MaxRank,         \* the largest rank told apart
  FromRank,        \* the least points of each rank
  PointsPerBlock,  \* REPUTATION_POINTS_PER_BLOCK
  Amounts,         \* points rewarded, slashed or set at once
  MaxPoints,       \* bound: nobody is rewarded beyond these points
  MaxBlock         \* bound: the last block

ASSUME ReputationAssumption ==
  /\ MaxRank \in Nat /\ MaxRank >= 9
  /\ FromRank \in [0 .. MaxRank -> Nat]
  /\ FromRank[0] = 0
  /\ \A r \in 1 .. MaxRank : FromRank[r - 1] < FromRank[r]
  /\ PointsPerBlock \in Nat \ {0}
  /\ Amounts \subseteq Nat
  /\ MaxPoints \in Nat /\ MaxBlock \in Nat

VARIABLES
  block,     \* frame_system's block number
  live,      \* the accounts frame_system knows
  record,    \* AccountReputation: a record for some of the accounts
  entitled,  \* history: the points each account would have, had they all been paid at once
  peak,      \* history: the highest rank reached since the points were last set
  unseen     \* history: accounts whose record was made by a reward

reputationVars == <<block, live, record, entitled, peak, unseen>>

-----------------------------------------------------------------------------
(* Points, ranks and tiers *)

RanksPerTier == 3
MiddleRank == 2

Rank(points) == Max({r \in 0 .. MaxRank : FromRank[r] <= points})

NoTier == [index |-> -1, rel |-> 0]

RankOf(tier) == tier.rel + RanksPerTier * tier.index

\* Mutant: the first rank of a tier is taken for rank zero of the next.
TryFromRankDivided(rank) ==
  IF rank = 0 THEN NoTier
  ELSE LET index == Min({2, rank \div RanksPerTier})
       IN [index |-> index, rel |-> rank - RanksPerTier * index]

TryFromRank(rank) ==
  IF rank = 0 THEN NoTier
  ELSE LET index == Min({2, (rank - 1) \div RanksPerTier})
       IN [index |-> index, rel |-> rank - RanksPerTier * index]

\* A falling account keeps its tier at rank zero until it passes a threshold below the tier.
\* Mutant: the threshold does not go with the rank an account lands on.
ZeroThresholdHigh(tier) == FromRank[tier.index + MiddleRank]

ZeroThreshold(tier) == FromRank[Max({0, tier.index - 1}) + MiddleRank]

\* Where an account of rank zero lands when it loses its tier.
Landing(tier) ==
  IF tier.index = 0 THEN NoTier ELSE TryFromRank(tier.index - 1 + MiddleRank)

Falls(tier, points) ==
  /\ Rank(points) < RankOf(tier)
  /\ points < FromRank[RanksPerTier * tier.index + 1]
  /\ points > ZeroThreshold(tier)

WithRankRelativeTo(tier, points) ==
  LET rank == Rank(points)
  IN  IF rank = 0 THEN NoTier
      ELSE IF tier = NoTier THEN TryFromRank(rank)
      ELSE IF rank = RankOf(tier) THEN tier
      ELSE IF tier.rel = 0 /\ points <= ZeroThreshold(tier) THEN Landing(tier)
      ELSE IF Falls(tier, points) THEN [tier EXCEPT !.rel = 0]
      ELSE TryFromRank(rank)

-----------------------------------------------------------------------------
(* Records *)

Monus(x, y) == IF x > y THEN x - y ELSE 0

WithBlocknumber(now) == [tier |-> NoTier, points |-> 0, updated |-> now]

OfPoints(points, now) ==
  [tier |-> TryFromRank(Rank(points)), points |-> points, updated |-> now]

Update(rec, points) ==
  [rec EXCEPT !.tier = WithRankRelativeTo(rec.tier, points), !.points = points]

Increase(rec, points) == Update(rec, rec.points + points)
Decrease(rec, points) == Update(rec, Monus(rec.points, points))

Calculate(start, end) == PointsPerBlock * Monus(end, start)

\* Mutant: the record keeps the block it was last updated at.
UpdateUndated(rec, now) == Increase(rec, Calculate(rec.updated, now))

UpdateWithBlockNumber(rec, now) ==
  [Increase(rec, Calculate(rec.updated, now)) EXCEPT !.updated = now]

Put(map, a, value) == [b \in DOMAIN map \cup {a} |-> IF b = a THEN value ELSE map[b]]
Drop(map, a) == [b \in DOMAIN map \ {a} |-> map[b]]

Known(a) == a \in DOMAIN record

\* The history that goes with a record set for account a.
Note(a, rec, points, highest) ==
  /\ record' = Put(record, a, rec)
  /\ entitled' = Put(entitled, a, points)
  /\ peak' = Put(peak, a, Max({highest, Rank(rec.points)}))

Start(a, rec) == Note(a, rec, rec.points, 0)

-----------------------------------------------------------------------------
(* Actions *)

ReputationInit ==
  /\ block = 0
  /\ live \in SUBSET Accounts
  /\ record \in [live -> {OfPoints(p, 0) : p \in Amounts}]
  /\ entitled = [a \in live |-> record[a].points]
  /\ peak = [a \in live |-> Rank(record[a].points)]
  /\ unseen = {}

NextBlock ==
  /\ block < MaxBlock
  /\ block' = block + 1
  /\ entitled' = [a \in DOMAIN entitled |-> entitled[a] + PointsPerBlock]
  /\ UNCHANGED <<live, record, peak, unseen>>

\* Called by energy-generation whenever a session is planned.
UpdatePointsForTime ==
  /\ record' = [a \in DOMAIN record |-> UpdateWithBlockNumber(record[a], block)]
  /\ peak' = [a \in DOMAIN record |-> Max({peak[a], Rank(record'[a].points)})]
  /\ UNCHANGED <<block, live, entitled, unseen>>

DoSlash(a, points) ==
  /\ Known(a)
  /\ Note(a, [Decrease(record[a], points) EXCEPT !.updated = block],
          Monus(entitled[a], points), peak[a])
  /\ UNCHANGED <<block, live, unseen>>

DoIncreasePoints(a, points) ==
  /\ Known(a)
  /\ record[a].points + points <= MaxPoints
  /\ Note(a, Increase(record[a], points), entitled[a] + points, peak[a])
  /\ UNCHANGED <<block, live, unseen>>

\* Rewards of validators and reporters, and the minting of a NAC: the record is made when
\* there is none, with no block it was updated at.
IncreaseCreating(a, points) ==
  \/ DoIncreasePoints(a, points)
  \/ /\ ~Known(a)
     /\ Start(a, OfPoints(points, 0))
     /\ unseen' = unseen \cup {a}
     /\ UNCHANGED <<block, live>>

ForceSetPoints(a, points) ==
  /\ Start(a, OfPoints(points, block))
  /\ unseen' = unseen \ {a}
  /\ UNCHANGED <<block, live>>

ForceResetPoints ==
  /\ record' = [a \in DOMAIN record |-> OfPoints(FromRank[1], block)]
  /\ entitled' = [a \in DOMAIN record |-> FromRank[1]]
  /\ peak' = [a \in DOMAIN record |-> 1]
  /\ unseen' = {}
  /\ UNCHANGED <<block, live>>

\* Any account may ask for it, for any account.
UpdatePoints(a) ==
  /\ IF Known(a)
     THEN Note(a, UpdateWithBlockNumber(record[a], block), entitled[a], peak[a])
     ELSE Start(a, WithBlocknumber(block))
  /\ UNCHANGED <<block, live, unseen>>

\* The runtime's OnNewAccount is NacManaging: it mints the account's NAC, which is worth the
\* points of Vanguard 1.
OnNewAccount(a) ==
  /\ a \notin live
  /\ live' = live \cup {a}
  /\ IF Known(a)
     THEN UNCHANGED <<record, entitled, peak>>
     ELSE Start(a, Increase(WithBlocknumber(block), FromRank[1]))
  /\ UNCHANGED <<block, unseen>>

OnKilledAccount(a) ==
  /\ a \in live
  /\ live' = live \ {a}
  /\ record' = Drop(record, a)
  /\ entitled' = Drop(entitled, a)
  /\ peak' = Drop(peak, a)
  /\ unseen' = unseen \ {a}
  /\ UNCHANGED block

ReputationNext ==
  \/ NextBlock
  \/ UpdatePointsForTime
  \/ ForceResetPoints
  \/ \E a \in Accounts :
       \/ UpdatePoints(a)
       \/ OnNewAccount(a)
       \/ OnKilledAccount(a)
       \/ \E points \in Amounts :
            \/ DoSlash(a, points)
            \/ IncreaseCreating(a, points)
            \/ ForceSetPoints(a, points)

ReputationSpec == ReputationInit /\ [][ReputationNext]_reputationVars

-----------------------------------------------------------------------------
(* Properties *)

\* A record's tier is none or a tier with a rank; rank zero is for the tiers above the first
\* ("If tier felt lower than Vanguard 1, it'll return None").
ReputationTypeOK ==
  /\ block \in 0 .. MaxBlock
  /\ live \subseteq Accounts
  /\ DOMAIN record \subseteq Accounts
  /\ DOMAIN entitled = DOMAIN record /\ DOMAIN peak = DOMAIN record
  /\ unseen \subseteq DOMAIN record
  /\ \A a \in DOMAIN record :
       /\ record[a].points \in Nat
       /\ record[a].updated \in 0 .. block
       /\ \/ record[a].tier = NoTier
          \/ /\ record[a].tier.index \in 0 .. 2
             /\ record[a].tier.rel \in 0 .. MaxRank
             /\ record[a].tier.index = 0 => record[a].tier.rel > 0

\* However an account's points went up and down, its tier is never below the one its points
\* alone would give: what with_rank_relative_to remembers of the past only ever helps.
TierCoversRank ==
  /\ ReputationTypeOK
  /\ \A a \in DOMAIN record :
    LET tier == record[a].tier
    IN  Rank(record[a].points) <= IF tier = NoTier THEN 0 ELSE RankOf(tier)

\* Rank zero of a tier is kept by accounts that fell from that tier, and given to no other.
ZeroRankWasHeld ==
  \A a \in DOMAIN record :
    LET tier == record[a].tier
    IN  tier # NoTier /\ tier.rel = 0 => peak[a] > RanksPerTier * tier.index

Potential(a) == record[a].points + Calculate(record[a].updated, block)

\* No block is paid for twice, however updates at session planning, updates asked for by
\* anybody, slashes and rewards interleave: the points of an account and those still to come
\* never exceed what it was given plus the time it has been known.
AccruedOnce ==
  \A a \in DOMAIN record \ unseen : Potential(a) <= entitled[a]

\* Refuted: update_points is documented to give points "for time being in the network", but a
\* record made by a reward counts the blocks from the first of the chain.
TimeInNetwork == \A a \in DOMAIN record : Potential(a) <= entitled[a]

=============================================================================
