-------------------------------- MODULE PartsProofs --------------------------------
(***************************************************************************)
(* Theorems about the parts that module MCParts runs side by side:          *)
(* Reputation, for every increasing curve of thresholds and any amounts;    *)
(* Disabling, over the invariant of sessions and eras that module           *)
(* ErasProofs proves; and Tokens, whatever the amounts, schedules and       *)
(* callers. Then about SlashQueue, which is told of the same offences as    *)
(* Disabling, for every set of stashes, every exposure and every choice of  *)
(* the durations that integrity_test allows.                               *)
(***************************************************************************)
EXTENDS SlashQueue, Reputation, Disabling, Tokens, ErasProofs, RecursionTheorems

-----------------------------------------------------------------------------
(* Reputation *)

(* Extremes of sets of numbers.                                            *)

(* Max of FiniteSetsExt on a set that has a greatest element.              *)
LEMMA MaxOf ==
  ASSUME NEW S, NEW m \in S, S \subseteq Int, \A x \in S : x <= m
  PROVE  Max(S) = m
<1>1. \E x \in S : \A y \in S : x >= y
  <2>1. \A y \in S : m >= y
    OBVIOUS
  <2> QED
    BY <2>1
<1>2. Max(S) \in S /\ \A y \in S : Max(S) >= y
  BY <1>1, ZenonT(20) DEF Max
<1>3. Max(S) \in Int /\ Max(S) >= m /\ Max(S) <= m
  BY <1>2
<1> QED
  BY <1>3

(* Max of FiniteSetsExt on two numbers.                                    *)
LEMMA MaxOfPair ==
  ASSUME NEW x \in Int, NEW y \in Int
  PROVE  Max({x, y}) = IF x >= y THEN x ELSE y
<1>1. CASE x >= y
  BY <1>1, MaxOf, {x, y} \subseteq Int, \A z \in {x, y} : z <= x
<1>2. CASE ~(x >= y)
  BY <1>2, MaxOf, {x, y} \subseteq Int, \A z \in {x, y} : z <= y
<1> QED
  BY <1>1, <1>2

(* Min of FiniteSetsExt on two numbers.                                    *)
LEMMA MinOfPair ==
  ASSUME NEW x \in Int, NEW y \in Int
  PROVE  Min({x, y}) = IF x <= y THEN x ELSE y
<1> DEFINE S == {x, y}
           m == IF x <= y THEN x ELSE y
<1>1. m \in S /\ m \in Int /\ \A z \in S : m <= z
  OBVIOUS
<1> HIDE DEF m
<1>2. \E z \in S : \A w \in S : z <= w
  BY <1>1
<1>3. Min(S) \in S /\ \A w \in S : Min(S) <= w
  BY <1>2, ZenonT(20) DEF Min
<1>4. Min(S) \in Int /\ Min(S) <= m /\ m <= Min(S)
  BY <1>1, <1>3
<1>5. Min(S) = m
  BY <1>1, <1>4
<1> QED
  BY <1>5 DEF m

(* A set of numbers up to n has a greatest element: it is the one least    *)
(* far from n.                                                             *)
LEMMA MaxExists ==
  ASSUME NEW n \in Nat, NEW S, S \subseteq 0 .. n, S # {}
  PROVE  Max(S) \in S /\ \A y \in S : y <= Max(S)
<1> DEFINE T == {n - x : x \in S}
<1>1. T \subseteq Nat /\ T # {}
  <2>1. \A x \in S : n - x \in Nat
    OBVIOUS
  <2>2. T \subseteq Nat
    BY <2>1
  <2>3. PICK x \in S : TRUE
    OBVIOUS
  <2>4. n - x \in T
    OBVIOUS
  <2> QED
    BY <2>2, <2>4
<1>2. PICK t \in T : \A y \in T : t <= y
  BY <1>1, LeastNatural
<1>3. PICK m \in S : t = n - m
  OBVIOUS
<1>4. ASSUME NEW y \in S PROVE y <= m
  <2>1. t <= n - y
    BY <1>2
  <2> QED
    BY <2>1, <1>3
<1>5. Max(S) = m
  <2>1. S \subseteq Int /\ \A y \in S : y <= m
    BY <1>4
  <2> QED
    BY <2>1, MaxOf
<1> QED
  BY <1>4, <1>5

-----------------------------------------------------------------------------
(* Ranks and tiers.                                                        *)

(* from_rank is increasing over any distance, not only from one rank to    *)
(* the next.                                                               *)
LEMMA FromRankIncreases ==
  ASSUME NEW r \in 0 .. MaxRank, NEW s \in 0 .. MaxRank, r < s
  PROVE  FromRank[r] < FromRank[s]
<1> USE ReputationAssumption
<1> DEFINE T == {q \in r + 1 .. MaxRank : ~(FromRank[r] < FromRank[q])}
<1>1. SUFFICES ASSUME ~(FromRank[r] < FromRank[s]) PROVE FALSE
  OBVIOUS
<1>8. s \in T
  BY <1>1
<1>2. T \subseteq Nat
  OBVIOUS
<1>3. PICK q \in T : \A y \in T : q <= y
  BY <1>8, <1>2, LeastNatural
<1>4. q \in 1 .. MaxRank /\ FromRank[q - 1] < FromRank[q] /\ q - 1 \in 0 .. MaxRank
  OBVIOUS
<1>5. FromRank[r] \in Nat /\ FromRank[q] \in Nat /\ FromRank[q - 1] \in Nat
  BY <1>4
<1>6. CASE q = r + 1
  BY <1>4, <1>5, <1>6
<1>7. CASE q > r + 1
  <2>1. q - 1 \notin T
    BY <1>3, <1>4
  <2>2. FromRank[r] < FromRank[q - 1]
    BY <2>1, <1>4, <1>7
  <2> QED
    BY <2>2, <1>4, <1>5
<1> QED
  BY <1>4, <1>6, <1>7

(* The rank of some points is the last one they reach.                     *)
LEMMA RankIs ==
  ASSUME NEW points \in Nat
  PROVE  /\ Rank(points) \in 0 .. MaxRank
         /\ FromRank[Rank(points)] <= points
         /\ \A r \in 0 .. MaxRank : points <= FromRank[r] => Rank(points) <= r
         /\ \A r \in 1 .. MaxRank : points < FromRank[r] => Rank(points) <= r - 1
<1> USE ReputationAssumption
<1> DEFINE S == {r \in 0 .. MaxRank : FromRank[r] <= points}
<1>1. S \subseteq 0 .. MaxRank /\ 0 \in S
  OBVIOUS
<1>2. Max(S) \in S
  BY <1>1, MaxExists
<1>3. Rank(points) \in S
  BY <1>2 DEF Rank
<1>4. ASSUME NEW r \in 0 .. MaxRank, r < Rank(points)
      PROVE  FromRank[r] < points
  BY <1>3, <1>4, FromRankIncreases, FromRank[r] \in Nat, FromRank[Rank(points)] \in Nat
<1>5. ASSUME NEW r \in 0 .. MaxRank, points <= FromRank[r]
      PROVE  Rank(points) <= r
  <2>1. ~(FromRank[r] < points)
    BY <1>5, FromRank[r] \in Nat
  <2>2. ~(r < Rank(points))
    BY <2>1, <1>4
  <2> QED
    BY <2>2, <1>3
<1>6. ASSUME NEW r \in 1 .. MaxRank, points < FromRank[r]
      PROVE  Rank(points) <= r - 1
  <2>1. Rank(points) <= r
    BY <1>5, <1>6, FromRank[r] \in Nat
  <2>2. Rank(points) # r
    BY <1>3, <1>6, FromRank[r] \in Nat
  <2> QED
    BY <2>1, <2>2, <1>3
<1> QED
  BY <1>3, <1>5, <1>6

Tiers == [index : 0 .. 2, rel : 0 .. MaxRank]

(* None, or a tier and a rank that the code can give.                      *)
TierOK(tier) == tier = NoTier \/ (tier \in Tiers /\ (tier.index = 0 => tier.rel > 0))

Covered(tier, rank) == rank <= IF tier = NoTier THEN 0 ELSE RankOf(tier)

(* An account that has a tier once had more than rank zero of it.          *)
Held(tier, highest) == tier # NoTier => highest > RanksPerTier * tier.index

(* try_from_rank loses nothing: a rank and its tier determine each other.  *)
LEMMA TryFromRankIs ==
  ASSUME NEW rank \in 1 .. MaxRank
  PROVE  /\ TryFromRank(rank) \in Tiers
         /\ TryFromRank(rank) # NoTier
         /\ TryFromRank(rank).rel > 0
         /\ RankOf(TryFromRank(rank)) = rank
<1>1. MaxRank \in Nat /\ rank \in Int /\ rank # 0
  BY ReputationAssumption
<1>2. PICK q \in Int : q = (rank - 1) \div 3
  BY <1>1
<1>3. q >= 0 /\ 3 * q <= rank - 1
  BY <1>1, <1>2
<1>4. PICK i \in Int : i = IF 2 <= q THEN 2 ELSE q
  OBVIOUS
<1>5. Min({2, q}) = i
  <2>1. 2 \in Int /\ q \in Int
    OBVIOUS
  <2>2. Min({2, q}) = IF 2 <= q THEN 2 ELSE q
    BY <2>1, MinOfPair, Zenon
  <2> QED
    BY <1>4, <2>2
<1>6. i \in 0 .. 2 /\ rank - 3 * i \in 1 .. MaxRank
  BY <1>1, <1>3, <1>4
<1>7. TryFromRank(rank) = [index |-> i, rel |-> rank - 3 * i]
  <2>1. TryFromRank(rank) = LET index == Min({2, q}) IN [index |-> index, rel |-> rank - 3 * index]
    BY <1>1, <1>2 DEF TryFromRank, RanksPerTier
  <2> QED
    BY <1>5, <2>1
<1>8. rank - 3 * i \in 0 .. MaxRank /\ rank - 3 * i > 0 /\ i # -1 /\ (rank - 3 * i) + 3 * i = rank
  BY <1>1, <1>6
<1> QED
  BY <1>6, <1>7, <1>8 DEF Tiers, NoTier, RankOf, RanksPerTier

(* The parts of a tier are numbers.                                        *)
LEMMA TierParts ==
  ASSUME NEW tier \in Tiers
  PROVE  /\ tier.index \in 0 .. 2 /\ tier.rel \in 0 .. MaxRank
         /\ tier.index \in Int /\ tier.rel \in Int /\ tier.rel >= 0
         /\ RankOf(tier) = tier.rel + 3 * tier.index
<1>1. tier.index \in 0 .. 2 /\ tier.rel \in 0 .. MaxRank
  BY DEF Tiers
<1> QED
  BY <1>1, ReputationAssumption, SMTT(30) DEF RankOf, RanksPerTier

(* Landing on a lower tier: rank 2 or 3 of the first one.                  *)
LEMMA LandingIs ==
  ASSUME NEW tier \in Tiers, tier.index > 0
  PROVE  /\ TierOK(Landing(tier)) /\ Landing(tier) # NoTier
         /\ RankOf(Landing(tier)) = tier.index + 1
         /\ Landing(tier).index = 0
<1>1. MaxRank \in Nat /\ MaxRank >= 9
  BY ReputationAssumption
<1>2. PICK rank \in Int : rank = tier.index + 1
  BY TierParts
<1>3. rank \in 1 .. MaxRank /\ rank \in 2 .. 3
  BY <1>1, <1>2, TierParts
<1>4. Landing(tier) = TryFromRank(rank)
  <2>1. tier.index # 0 /\ (tier.index - 1) + 2 = rank
    BY <1>2, TierParts
  <2> QED
    BY <2>1 DEF Landing, MiddleRank
<1>5. PICK new \in Tiers : new = TryFromRank(rank)
  BY <1>3, TryFromRankIs
<1>6. new # NoTier /\ new.rel > 0 /\ RankOf(new) = rank
  BY <1>3, <1>5, TryFromRankIs
<1>7. new.index = 0
  BY <1>3, <1>6, TierParts
<1> QED
  BY <1>2, <1>4, <1>5, <1>6, <1>7 DEF TierOK

(* with_rank_relative_to, whatever the tier before and whatever the points: *)
(* the tier it gives is one the code can give, covers the rank of the       *)
(* points, and its rank zero only ever goes to those who were above it.     *)
LEMMA RelativeRank ==
  ASSUME NEW tier, TierOK(tier), NEW points \in Nat,
         NEW highest \in Nat, Held(tier, highest), Rank(points) <= highest
  PROVE  /\ TierOK(WithRankRelativeTo(tier, points))
         /\ Covered(WithRankRelativeTo(tier, points), Rank(points))
         /\ Held(WithRankRelativeTo(tier, points), highest)
<1>1. MaxRank \in Nat /\ MaxRank >= 9
  BY ReputationAssumption
<1>2. PICK rank \in 0 .. MaxRank : rank = Rank(points)
  BY RankIs
<1>3. PICK new : new = WithRankRelativeTo(tier, points)
  OBVIOUS
<1> SUFFICES TierOK(new) /\ Covered(new, rank) /\ Held(new, highest)
  BY <1>2, <1>3
<1>4. rank \in Int /\ rank >= 0 /\ rank <= highest
  BY <1>1, <1>2
<1>5. CASE rank = 0
  <2>1. new = NoTier
    BY <1>2, <1>3, <1>5 DEF WithRankRelativeTo
  <2> QED
    BY <1>5, <2>1 DEF TierOK, Covered, Held
<1>6. ASSUME rank # 0, new = TryFromRank(rank)
      PROVE  TierOK(new) /\ Covered(new, rank) /\ Held(new, highest)
  <2>1. rank \in 1 .. MaxRank
    BY <1>4, <1>6
  <2>2. new \in Tiers /\ new # NoTier /\ new.rel > 0 /\ RankOf(new) = rank
    BY <2>1, <1>6, TryFromRankIs
  <2>3. highest > 3 * new.index
    BY <1>4, <2>2, TierParts
  <2> QED
    BY <1>4, <2>2, <2>3 DEF TierOK, Covered, Held, RanksPerTier
<1>7. CASE rank # 0 /\ tier = NoTier
  <2>1. new = TryFromRank(rank)
    BY <1>2, <1>3, <1>7 DEF WithRankRelativeTo
  <2> QED
    BY <1>6, <1>7, <2>1
<1>8. CASE rank # 0 /\ tier # NoTier
  <2>1. tier \in Tiers /\ (tier.index = 0 => tier.rel > 0) /\ highest > 3 * tier.index
    BY <1>8 DEF TierOK, Held, RanksPerTier
  <2>2. CASE rank = RankOf(tier)
    <3>1. new = tier
      BY <1>2, <1>3, <1>8, <2>2 DEF WithRankRelativeTo
    <3>2. Covered(new, rank)
      BY <1>4, <1>8, <2>2, <3>1 DEF Covered
    <3>3. TierOK(new) /\ Held(new, highest)
      BY <3>1
    <3> QED
      BY <3>2, <3>3
  <2>3. CASE rank # RankOf(tier) /\ tier.rel = 0 /\ points <= ZeroThreshold(tier)
    <3>1. tier.index \in 1 .. 2
      BY <2>1, <2>3, TierParts
    <3>2. Max({0, tier.index - 1}) = tier.index - 1
      <4>1. 0 \in Int /\ tier.index - 1 \in Int /\ (0 >= tier.index - 1 => 0 = tier.index - 1)
        BY <3>1
      <4>2. Max({0, tier.index - 1}) = IF 0 >= tier.index - 1 THEN 0 ELSE tier.index - 1
        BY <4>1, MaxOfPair, Zenon
      <4> QED
        BY <4>1, <4>2
    <3>3. tier.index + 1 \in 0 .. MaxRank /\ (tier.index - 1) + 2 = tier.index + 1
      BY <1>1, <3>1
    <3>4. points <= FromRank[tier.index + 1]
      BY <2>3, <3>2, <3>3 DEF ZeroThreshold, MiddleRank
    <3>5. rank <= tier.index + 1
      BY <1>2, <3>3, <3>4, RankIs
    <3>6. new = Landing(tier)
      BY <1>2, <1>3, <1>8, <2>3 DEF WithRankRelativeTo
    <3>7. TierOK(new) /\ new # NoTier /\ RankOf(new) = tier.index + 1 /\ new.index = 0
      BY <2>1, <3>1, <3>6, LandingIs
    <3>8. highest > 3 * new.index
      BY <1>4, <1>8, <3>7
    <3> QED
      BY <3>5, <3>7, <3>8 DEF Covered, Held, RanksPerTier
  <2>4. CASE /\ rank # RankOf(tier) /\ ~(tier.rel = 0 /\ points <= ZeroThreshold(tier))
             /\ Falls(tier, points)
    <3>1. new = [tier EXCEPT !.rel = 0]
      BY <1>2, <1>3, <1>8, <2>4 DEF WithRankRelativeTo
    <3>2. 3 * tier.index + 1 \in 1 .. MaxRank
      BY <1>1, <2>1, TierParts
    <3>3. points < FromRank[3 * tier.index + 1]
      BY <2>4 DEF Falls, RanksPerTier
    <3>4. rank <= (3 * tier.index + 1) - 1
      BY <1>2, <3>2, <3>3, RankIs
    <3>5. rank <= 3 * tier.index
      BY <1>4, <2>1, <3>4, TierParts
    <3>6. new \in Tiers /\ new.index = tier.index /\ new.rel = 0
      BY <1>1, <2>1, <3>1 DEF Tiers
    <3>7. new.index > 0 /\ RankOf(new) = 3 * tier.index
      BY <1>4, <1>8, <2>1, <3>5, <3>6, TierParts
    <3>8. new # NoTier
      BY <3>7 DEF NoTier
    <3> QED
      BY <2>1, <3>5, <3>6, <3>7, <3>8 DEF TierOK, Covered, Held, RanksPerTier
  <2>5. CASE /\ rank # RankOf(tier) /\ ~(tier.rel = 0 /\ points <= ZeroThreshold(tier))
             /\ ~Falls(tier, points)
    <3>1. new = TryFromRank(rank)
      BY <1>2, <1>3, <1>8, <2>5 DEF WithRankRelativeTo
    <3> QED
      BY <1>6, <1>8, <3>1
  <2> QED
    BY <2>2, <2>3, <2>4, <2>5
<1> QED
  BY <1>5, <1>7, <1>8

-----------------------------------------------------------------------------
(* Records.                                                                *)

Records == [tier : Tiers \cup {NoTier}, points : Nat, updated : Nat]

(* What holds of the record of one account, granted the highest rank it had. *)
RecordOK(rec, highest, now) ==
  /\ rec \in Records
  /\ rec.updated <= now
  /\ TierOK(rec.tier)
  /\ Covered(rec.tier, Rank(rec.points))
  /\ Held(rec.tier, highest)
  /\ highest \in Nat

(* The points it has and those to come are among those it was granted.       *)
Accrued(rec, granted, now) == rec.points + Calculate(rec.updated, now) <= granted

(* Time is paid by the block: one block later, one block more.             *)
LEMMA CalculateIs ==
  ASSUME NEW start \in Nat, NEW now \in Nat, start <= now
  PROVE  /\ Calculate(start, now) \in Nat
         /\ Calculate(now, now) = 0
         /\ Calculate(start, now + 1) = Calculate(start, now) + PointsPerBlock
<1>1. PointsPerBlock \in Nat
  BY ReputationAssumption
<1>2. \A k, n \in Nat : k * n \in Nat /\ k * 0 = 0 /\ k * (n + 1) = k * n + k
  OBVIOUS
<1>3. Monus(now, start) = now - start /\ now - start \in Nat /\ Monus(now, now) = 0
      /\ Monus(now + 1, start) = (now - start) + 1
  BY DEF Monus
<1> QED
  BY <1>1, <1>2, <1>3 DEF Calculate

(* A record with new points.                                               *)
LEMMA UpdateOK ==
  ASSUME NEW rec, NEW highest, NEW now \in Nat, RecordOK(rec, highest, now), NEW points \in Nat
  PROVE  /\ RecordOK(Update(rec, points), Max({highest, Rank(points)}), now)
         /\ Update(rec, points).points = points
         /\ Update(rec, points).updated = rec.updated
<1>1. rec.tier \in Tiers \cup {NoTier} /\ rec.updated \in Nat /\ highest \in Nat
      /\ rec.updated <= now /\ TierOK(rec.tier) /\ Held(rec.tier, highest)
  BY DEF RecordOK, Records
<1>2. Rank(points) \in Nat
  <2>1. Rank(points) \in 0 .. MaxRank
    BY RankIs
  <2> QED
    BY <2>1, ReputationAssumption
<1>3. PICK higher \in Nat : higher = Max({highest, Rank(points)})
  <2>1. highest \in Int /\ Rank(points) \in Int
    BY <1>1, <1>2
  <2>2. Max({highest, Rank(points)}) = IF highest >= Rank(points) THEN highest ELSE Rank(points)
    BY <2>1, MaxOfPair, Zenon
  <2> QED
    BY <1>1, <1>2, <2>2
<1>4. higher >= highest /\ Rank(points) <= higher
  <2>1. highest \in Int /\ Rank(points) \in Int
    BY <1>1, <1>2
  <2>2. Max({highest, Rank(points)}) = IF highest >= Rank(points) THEN highest ELSE Rank(points)
    BY <2>1, MaxOfPair, Zenon
  <2> QED
    BY <1>3, <2>1, <2>2
<1>5. Held(rec.tier, higher)
  <2>1. CASE rec.tier = NoTier
    BY <2>1 DEF Held
  <2>2. CASE rec.tier # NoTier
    BY <1>1, <1>4, <2>2, TierParts DEF Held, RanksPerTier
  <2> QED
    BY <2>1, <2>2
<1>6. PICK new : new = WithRankRelativeTo(rec.tier, points)
  OBVIOUS
<1>7. TierOK(new) /\ Covered(new, Rank(points)) /\ Held(new, higher)
  BY <1>1, <1>4, <1>5, <1>6, RelativeRank
<1>8. new \in Tiers \cup {NoTier}
  BY <1>7 DEF TierOK
<1>9. Update(rec, points) = [tier |-> new, points |-> points, updated |-> rec.updated]
  <2>1. rec = [tier |-> rec.tier, points |-> rec.points, updated |-> rec.updated]
    BY DEF RecordOK, Records
  <2>2. Update(rec, points) = [rec EXCEPT !.tier = new, !.points = points]
    BY <1>6 DEF Update
  <2> QED
    BY <2>1, <2>2
<1> QED
  BY <1>1, <1>3, <1>7, <1>8, <1>9 DEF RecordOK, Records

(* A record that is dated anew.                                            *)
LEMMA DatedOK ==
  ASSUME NEW rec, NEW highest, NEW now \in Nat, RecordOK(rec, highest, now)
  PROVE  /\ RecordOK([rec EXCEPT !.updated = now], highest, now)
         /\ [rec EXCEPT !.updated = now].points = rec.points
         /\ [rec EXCEPT !.updated = now].updated = now
BY DEF RecordOK, Records

(* A record made of points, whatever they are.                             *)
LEMMA OfPointsOK ==
  ASSUME NEW points \in Nat, NEW at \in Nat, NEW now \in Nat, at <= now,
         NEW highest \in Nat, Rank(points) <= highest
  PROVE  /\ RecordOK(OfPoints(points, at), highest, now)
         /\ OfPoints(points, at).points = points
         /\ OfPoints(points, at).updated = at
<1>1. PICK rank \in 0 .. MaxRank : rank = Rank(points)
  BY RankIs
<1>2. PICK new : new = TryFromRank(rank)
  OBVIOUS
<1>3. TierOK(new) /\ Covered(new, rank) /\ Held(new, highest)
  <2>1. CASE rank = 0
    BY <1>2, <2>1 DEF TryFromRank, TierOK, Covered, Held
  <2>2. CASE rank # 0
    <3>1. rank \in 1 .. MaxRank
      BY <2>2, ReputationAssumption
    <3>2. new \in Tiers /\ new # NoTier /\ new.rel > 0 /\ RankOf(new) = rank
      BY <1>2, <3>1, TryFromRankIs
    <3>3. highest > 3 * new.index
      BY <1>1, <3>1, <3>2, TierParts
    <3> QED
      BY <3>1, <3>2, <3>3 DEF TierOK, Covered, Held, RanksPerTier
  <2> QED
    BY <2>1, <2>2
<1>4. new \in Tiers \cup {NoTier}
  BY <1>3 DEF TierOK
<1>5. OfPoints(points, at) = [tier |-> new, points |-> points, updated |-> at]
  BY <1>1, <1>2 DEF OfPoints
<1> QED
  BY <1>1, <1>3, <1>4, <1>5 DEF RecordOK, Records

(* An empty record.                                                        *)
LEMMA WithBlocknumberOK ==
  ASSUME NEW now \in Nat
  PROVE  /\ RecordOK(WithBlocknumber(now), 0, now)
         /\ WithBlocknumber(now).points = 0
         /\ WithBlocknumber(now).updated = now
<1>1. Rank(0) <= 0
  BY RankIs, ReputationAssumption
<1> QED
  BY <1>1 DEF WithBlocknumber, RecordOK, Records, TierOK, Covered, Held

(* Paying for time moves points from those to come to those there are.     *)
LEMMA UpdateWithBlockNumberOK ==
  ASSUME NEW rec, NEW highest, NEW now \in Nat, RecordOK(rec, highest, now)
  PROVE  LET new == UpdateWithBlockNumber(rec, now)
         IN  /\ RecordOK(new, Max({highest, Rank(new.points)}), now)
             /\ \A granted : Accrued(rec, granted, now) => Accrued(new, granted, now)
<1>1. rec.points \in Nat /\ rec.updated \in Nat /\ rec.updated <= now
  BY DEF RecordOK, Records
<1>2. PICK points \in Nat : points = rec.points + Calculate(rec.updated, now)
  BY <1>1, CalculateIs
<1>3. PICK new : new = Update(rec, points)
  OBVIOUS
<1>4. RecordOK(new, Max({highest, Rank(points)}), now) /\ new.points = points
  BY <1>3, UpdateOK
<1>5. PICK dated : dated = [new EXCEPT !.updated = now]
  OBVIOUS
<1>6. UpdateWithBlockNumber(rec, now) = dated
  BY <1>2, <1>3, <1>5 DEF UpdateWithBlockNumber, Increase
<1>7. RecordOK(dated, Max({highest, Rank(points)}), now) /\ dated.points = points
      /\ dated.updated = now
  BY <1>4, <1>5, DatedOK
<1>8. Calculate(now, now) = 0
  BY CalculateIs
<1>9. ASSUME NEW granted, Accrued(rec, granted, now)
      PROVE  Accrued(dated, granted, now)
  BY <1>2, <1>7, <1>8, <1>9 DEF Accrued
<1> QED
  BY <1>6, <1>7, <1>9

-----------------------------------------------------------------------------
(* The inductive invariant.                                                *)

Domains ==
  /\ block \in 0 .. MaxBlock
  /\ live \subseteq Accounts
  /\ DOMAIN record \subseteq Accounts
  /\ DOMAIN entitled = DOMAIN record /\ DOMAIN peak = DOMAIN record
  /\ unseen \subseteq DOMAIN record

RecordsOK == \A a \in DOMAIN record : RecordOK(record[a], peak[a], block)

Given ==
  /\ \A a \in DOMAIN record : entitled[a] \in Nat
  /\ \A a \in DOMAIN record \ unseen : Accrued(record[a], entitled[a], block)

ReputationInv == Domains /\ RecordsOK /\ Given

(* The records of genesis are made of their points, and dated to it.       *)
LEMMA ReputationInitInv == ReputationInit => ReputationInv
<1> SUFFICES ASSUME ReputationInit PROVE ReputationInv
  OBVIOUS
<1>1. block = 0 /\ live \subseteq Accounts /\ DOMAIN record = live /\ unseen = {}
      /\ DOMAIN entitled = live /\ DOMAIN peak = live /\ MaxBlock \in Nat /\ Amounts \subseteq Nat
  BY ReputationAssumption DEF ReputationInit
<1>2. ASSUME NEW a \in live
      PROVE  RecordOK(record[a], peak[a], 0) /\ entitled[a] \in Nat
             /\ Accrued(record[a], entitled[a], 0)
  <2>1. PICK p \in Amounts : record[a] = OfPoints(p, 0)
    BY DEF ReputationInit
  <2>2. p \in Nat /\ Rank(p) \in 0 .. MaxRank /\ Rank(p) <= Rank(p) /\ Rank(p) \in Nat
    <3>1. p \in Nat
      BY <1>1
    <3>2. Rank(p) \in 0 .. MaxRank
      BY <3>1, RankIs
    <3> QED
      BY <3>1, <3>2, ReputationAssumption
  <2>3. RecordOK(record[a], Rank(p), 0) /\ record[a].points = p /\ record[a].updated = 0
    BY <2>1, <2>2, OfPointsOK
  <2>4. peak[a] = Rank(p) /\ entitled[a] = p
    BY <2>3 DEF ReputationInit
  <2>5. Calculate(0, 0) = 0
    BY CalculateIs
  <2> QED
    BY <2>2, <2>3, <2>4, <2>5 DEF Accrued
<1> QED
  BY <1>1, <1>2 DEF ReputationInv, Domains, RecordsOK, Given

(* Any action that sets the record of one account, and its history with it. *)
LEMMA NoteInv ==
  ASSUME ReputationInv, NEW a \in Accounts,
         NEW rec, NEW points \in Nat, NEW highest,
         Note(a, rec, points, highest),
         RecordOK(rec, Max({highest, Rank(rec.points)}), block),
         unseen' \subseteq unseen \cup {a}, unseen \ {a} \subseteq unseen',
         a \notin unseen' => Accrued(rec, points, block),
         block' = block, live' \subseteq Accounts
  PROVE  ReputationInv'
<1>1. DOMAIN record' = DOMAIN record \cup {a} /\ DOMAIN entitled' = DOMAIN entitled \cup {a}
      /\ DOMAIN peak' = DOMAIN peak \cup {a}
  BY DEF Note, Put
<1>2. record'[a] = rec /\ entitled'[a] = points /\ peak'[a] = Max({highest, Rank(rec.points)})
  BY DEF Note, Put
<1>3. ASSUME NEW b \in DOMAIN record, b # a
      PROVE  record'[b] = record[b] /\ entitled'[b] = entitled[b] /\ peak'[b] = peak[b]
  BY <1>3 DEF Note, Put, ReputationInv, Domains
<1>4. Domains'
  BY <1>1 DEF ReputationInv, Domains
<1>5. RecordsOK'
  <2>1. ASSUME NEW b \in DOMAIN record' PROVE RecordOK(record'[b], peak'[b], block')
    <3>1. CASE b = a
      BY <1>2, <3>1
    <3>2. CASE b # a
      <4>1. b \in DOMAIN record
        BY <1>1, <3>2
      <4>2. record'[b] = record[b] /\ peak'[b] = peak[b]
        BY <1>3, <3>2, <4>1
      <4> QED
        BY <4>1, <4>2 DEF ReputationInv, RecordsOK
    <3> QED
      BY <3>1, <3>2
  <2> QED
    BY <2>1 DEF RecordsOK
<1>6. Given'
  <2>1. ASSUME NEW b \in DOMAIN record'
        PROVE  entitled'[b] \in Nat /\ (b \notin unseen' => Accrued(record'[b], entitled'[b], block'))
    <3>1. CASE b = a
      BY <1>2, <3>1
    <3>2. CASE b # a
      <4>1. b \in DOMAIN record /\ (b \notin unseen' => b \notin unseen)
        BY <1>1, <3>2
      <4>2. record'[b] = record[b] /\ entitled'[b] = entitled[b]
        BY <1>3, <3>2, <4>1
      <4> QED
        BY <4>1, <4>2 DEF ReputationInv, Given
    <3> QED
      BY <3>1, <3>2
  <2> QED
    BY <2>1 DEF Given
<1> QED
  BY <1>4, <1>5, <1>6 DEF ReputationInv

(* Time passes: everybody is entitled to the points of one more block.     *)
LEMMA NextBlockInv ==
  ASSUME ReputationInv, NextBlock
  PROVE  ReputationInv'
<1>1. block \in Nat /\ block' = block + 1 /\ block' \in 0 .. MaxBlock /\ record' = record
      /\ peak' = peak /\ live' = live /\ unseen' = unseen /\ PointsPerBlock \in Nat
      /\ entitled' = [a \in DOMAIN record |-> entitled[a] + PointsPerBlock]
  BY ReputationAssumption DEF ReputationInv, Domains, NextBlock
<1>2. ASSUME NEW a \in DOMAIN record
      PROVE  /\ RecordOK(record[a], peak[a], block + 1)
             /\ entitled'[a] \in Nat
             /\ a \notin unseen => Accrued(record[a], entitled'[a], block + 1)
  <2>1. RecordOK(record[a], peak[a], block) /\ entitled[a] \in Nat
        /\ (a \notin unseen => Accrued(record[a], entitled[a], block))
    BY DEF ReputationInv, RecordsOK, Given
  <2>2. record[a].updated \in Nat /\ record[a].updated <= block /\ record[a].points \in Nat
    BY <2>1 DEF RecordOK, Records
  <2>3. Calculate(record[a].updated, block + 1) = Calculate(record[a].updated, block) + PointsPerBlock
        /\ Calculate(record[a].updated, block) \in Nat
    BY <1>1, <2>2, CalculateIs
  <2>4. RecordOK(record[a], peak[a], block + 1)
    BY <1>1, <2>1, <2>2 DEF RecordOK
  <2>5. entitled'[a] = entitled[a] + PointsPerBlock
    BY <1>1
  <2> QED
    BY <1>1, <2>1, <2>2, <2>3, <2>4, <2>5 DEF Accrued
<1>3. Domains'
  BY <1>1 DEF ReputationInv, Domains
<1> QED
  BY <1>1, <1>2, <1>3 DEF ReputationInv, RecordsOK, Given

(* All records are brought up to date.                                     *)
LEMMA UpdatePointsForTimeInv ==
  ASSUME ReputationInv, UpdatePointsForTime
  PROVE  ReputationInv'
<1>1. block \in Nat /\ block' = block /\ live' = live /\ unseen' = unseen /\ entitled' = entitled
      /\ DOMAIN record' = DOMAIN record /\ DOMAIN peak' = DOMAIN record
  BY ReputationAssumption DEF ReputationInv, Domains, UpdatePointsForTime
<1>2. ASSUME NEW a \in DOMAIN record
      PROVE  /\ RecordOK(record'[a], peak'[a], block)
             /\ entitled[a] \in Nat
             /\ a \notin unseen => Accrued(record'[a], entitled[a], block)
  <2>1. RecordOK(record[a], peak[a], block) /\ entitled[a] \in Nat
        /\ (a \notin unseen => Accrued(record[a], entitled[a], block))
    BY DEF ReputationInv, RecordsOK, Given
  <2>2. record'[a] = UpdateWithBlockNumber(record[a], block)
        /\ peak'[a] = Max({peak[a], Rank(record'[a].points)})
    BY DEF UpdatePointsForTime
  <2> QED
    BY <1>1, <2>1, <2>2, UpdateWithBlockNumberOK
<1>3. Domains'
  BY <1>1 DEF ReputationInv, Domains
<1> QED
  BY <1>1, <1>2, <1>3 DEF ReputationInv, RecordsOK, Given

(* All records start anew with the points of the first rank.               *)
LEMMA ForceResetPointsInv ==
  ASSUME ReputationInv, ForceResetPoints
  PROVE  ReputationInv'
<1>1. block \in Nat /\ block' = block /\ live' = live /\ unseen' = {}
      /\ DOMAIN record' = DOMAIN record /\ DOMAIN peak' = DOMAIN record /\ DOMAIN entitled' = DOMAIN record
  BY ReputationAssumption DEF ReputationInv, Domains, ForceResetPoints
<1>2. PICK first \in Nat : first = FromRank[1]
  BY ReputationAssumption
<1>3. Rank(first) <= 1
  <2>1. 1 \in 0 .. MaxRank /\ first <= FromRank[1]
    BY <1>2, ReputationAssumption
  <2> QED
    BY <2>1, RankIs
<1>4. RecordOK(OfPoints(first, block), 1, block) /\ OfPoints(first, block).points = first
      /\ OfPoints(first, block).updated = block
  BY <1>1, <1>3, OfPointsOK
<1>5. Calculate(block, block) = 0
  BY <1>1, CalculateIs
<1>6. Accrued(OfPoints(first, block), first, block)
  BY <1>4, <1>5 DEF Accrued
<1>7. ASSUME NEW a \in DOMAIN record
      PROVE  record'[a] = OfPoints(first, block) /\ peak'[a] = 1 /\ entitled'[a] = first
  BY <1>2 DEF ForceResetPoints
<1>8. Domains'
  BY <1>1 DEF ReputationInv, Domains
<1> QED
  BY <1>1, <1>4, <1>6, <1>7, <1>8 DEF ReputationInv, RecordsOK, Given

(* What the invariant says of one account.                                 *)
LEMMA OfAccount ==
  ASSUME ReputationInv, NEW a \in DOMAIN record
  PROVE  /\ block \in Nat
         /\ RecordOK(record[a], peak[a], block)
         /\ record[a].points \in Nat
         /\ record[a].updated \in Nat /\ record[a].updated <= block
         /\ Calculate(record[a].updated, block) \in Nat
         /\ entitled[a] \in Nat
         /\ a \notin unseen => Accrued(record[a], entitled[a], block)
<1>1. block \in Nat /\ RecordOK(record[a], peak[a], block) /\ entitled[a] \in Nat
      /\ (a \notin unseen => Accrued(record[a], entitled[a], block))
  BY DEF ReputationInv, Domains, RecordsOK, Given
<1>2. record[a].points \in Nat /\ record[a].updated \in Nat /\ record[a].updated <= block
  BY <1>1 DEF RecordOK, Records
<1> QED
  BY <1>1, <1>2, CalculateIs

(* A slash takes points, moves the date and so forfeits the time since.    *)
LEMMA DoSlashInv ==
  ASSUME ReputationInv, NEW a \in Accounts, NEW points \in Amounts, DoSlash(a, points)
  PROVE  ReputationInv'
<1>1. a \in DOMAIN record /\ points \in Nat /\ block' = block /\ live' = live /\ unseen' = unseen
  BY ReputationAssumption DEF DoSlash, Known
<1>2. PICK left \in Nat : left = Monus(record[a].points, points)
  BY <1>1, OfAccount DEF Monus
<1>3. PICK rest \in Nat : rest = Monus(entitled[a], points)
  BY <1>1, OfAccount DEF Monus
<1>4. PICK rec : rec = [Update(record[a], left) EXCEPT !.updated = block]
  OBVIOUS
<1>5. RecordOK(rec, Max({peak[a], Rank(left)}), block) /\ rec.points = left /\ rec.updated = block
  BY <1>1, <1>4, OfAccount, UpdateOK, DatedOK
<1>6. Note(a, rec, rest, peak[a])
  BY <1>2, <1>3, <1>4 DEF DoSlash, Decrease
<1>7. ASSUME a \notin unseen' PROVE Accrued(rec, rest, block)
  <2>1. record[a].points + Calculate(record[a].updated, block) <= entitled[a]
    BY <1>1, <1>7, OfAccount DEF Accrued
  <2>2. left <= rest
    BY <1>1, <1>2, <1>3, <2>1, OfAccount DEF Monus
  <2>3. Calculate(block, block) = 0
    BY <1>1, OfAccount, CalculateIs
  <2> QED
    BY <1>5, <2>2, <2>3 DEF Accrued
<1>8. live' \subseteq Accounts /\ unseen' \subseteq unseen \cup {a} /\ unseen \ {a} \subseteq unseen'
  BY <1>1 DEF ReputationInv, Domains
<1> QED
  BY <1>1, <1>5, <1>6, <1>7, <1>8, NoteInv

(* A reward adds to what there is and to what was granted alike.             *)
LEMMA DoIncreasePointsInv ==
  ASSUME ReputationInv, NEW a \in Accounts, NEW points \in Amounts, DoIncreasePoints(a, points)
  PROVE  ReputationInv'
<1>1. a \in DOMAIN record /\ points \in Nat /\ block' = block /\ live' = live /\ unseen' = unseen
  BY ReputationAssumption DEF DoIncreasePoints, Known
<1>2. PICK more \in Nat : more = record[a].points + points
  BY <1>1, OfAccount
<1>3. PICK granted \in Nat : granted = entitled[a] + points
  BY <1>1, OfAccount
<1>4. PICK rec : rec = Update(record[a], more)
  OBVIOUS
<1>5. RecordOK(rec, Max({peak[a], Rank(more)}), block) /\ rec.points = more
      /\ rec.updated = record[a].updated
  BY <1>1, <1>4, OfAccount, UpdateOK
<1>6. Note(a, rec, granted, peak[a])
  BY <1>2, <1>3, <1>4 DEF DoIncreasePoints, Increase
<1>7. ASSUME a \notin unseen' PROVE Accrued(rec, granted, block)
  <2>1. record[a].points + Calculate(record[a].updated, block) <= entitled[a]
    BY <1>1, <1>7, OfAccount DEF Accrued
  <2>2. more + Calculate(record[a].updated, block) <= granted
    BY <1>1, <1>2, <1>3, <2>1, OfAccount
  <2> QED
    BY <1>5, <2>2 DEF Accrued
<1>8. live' \subseteq Accounts /\ unseen' \subseteq unseen \cup {a} /\ unseen \ {a} \subseteq unseen'
  BY <1>1 DEF ReputationInv, Domains
<1> QED
  BY <1>1, <1>5, <1>6, <1>7, <1>8, NoteInv

(* A record that starts with points of a granted date.                       *)
LEMMA StartInv ==
  ASSUME ReputationInv, NEW a \in Accounts, NEW rec, Start(a, rec),
         RecordOK(rec, Max({0, Rank(rec.points)}), block),
         unseen' \subseteq unseen \cup {a}, unseen \ {a} \subseteq unseen',
         a \notin unseen' => rec.updated = block,
         block' = block, live' \subseteq Accounts
  PROVE  ReputationInv'
<1>1. rec.points \in Nat /\ block \in Nat
  BY DEF RecordOK, Records, ReputationInv, Domains
<1>2. Note(a, rec, rec.points, 0)
  BY DEF Start
<1>3. ASSUME a \notin unseen' PROVE Accrued(rec, rec.points, block)
  <2>1. rec.updated = block /\ Calculate(block, block) = 0
    BY <1>1, <1>3, CalculateIs
  <2> QED
    BY <1>1, <2>1 DEF Accrued
<1> QED
  BY <1>1, <1>2, <1>3, NoteInv

(* OfPoints in the form StartInv wants it.                                 *)
LEMMA OfPointsStarts ==
  ASSUME NEW points \in Nat, NEW at \in Nat, NEW now \in Nat, at <= now
  PROVE  /\ RecordOK(OfPoints(points, at), Max({0, Rank(OfPoints(points, at).points)}), now)
         /\ OfPoints(points, at).updated = at
<1>1. PICK rank \in Nat : rank = Rank(points)
  <2>1. Rank(points) \in 0 .. MaxRank
    BY RankIs
  <2> QED
    BY <2>1, ReputationAssumption
<1>2. Max({0, rank}) = rank
  <2>1. 0 \in Int /\ rank \in Int /\ (0 >= rank => 0 = rank)
    OBVIOUS
  <2>2. Max({0, rank}) = IF 0 >= rank THEN 0 ELSE rank
    BY <2>1, MaxOfPair, Zenon
  <2> QED
    BY <2>1, <2>2
<1>3. rank <= rank
  OBVIOUS
<1>4. RecordOK(OfPoints(points, at), rank, now) /\ OfPoints(points, at).points = points
      /\ OfPoints(points, at).updated = at
  BY <1>1, <1>3, OfPointsOK
<1> QED
  BY <1>1, <1>2, <1>4

(* increase_creating is do_increase for who is known, and otherwise a      *)
(* record dated to genesis: its account becomes one of the unseen.         *)
LEMMA IncreaseCreatingInv ==
  ASSUME ReputationInv, NEW a \in Accounts, NEW points \in Amounts, IncreaseCreating(a, points)
  PROVE  ReputationInv'
<1>1. CASE DoIncreasePoints(a, points)
  BY <1>1, DoIncreasePointsInv
<1>2. CASE /\ ~Known(a)
           /\ Start(a, OfPoints(points, 0))
           /\ unseen' = unseen \cup {a}
           /\ UNCHANGED <<block, live>>
  <2>1. points \in Nat /\ 0 \in Nat /\ block \in Nat /\ 0 <= block /\ live' \subseteq Accounts
    BY <1>2, ReputationAssumption DEF ReputationInv, Domains
  <2>2. RecordOK(OfPoints(points, 0), Max({0, Rank(OfPoints(points, 0).points)}), block)
    BY <2>1, OfPointsStarts
  <2> QED
    BY <1>2, <2>1, <2>2, StartInv
<1> QED
  BY <1>1, <1>2 DEF IncreaseCreating

(* force_set_points writes the record anew, dated to this block.           *)
LEMMA ForceSetPointsInv ==
  ASSUME ReputationInv, NEW a \in Accounts, NEW points \in Amounts, ForceSetPoints(a, points)
  PROVE  ReputationInv'
<1>1. points \in Nat /\ block \in Nat /\ block <= block /\ live' \subseteq Accounts
  BY ReputationAssumption, SMTT(30) DEF ReputationInv, Domains, ForceSetPoints
<1>2. RecordOK(OfPoints(points, block), Max({0, Rank(OfPoints(points, block).points)}), block)
      /\ OfPoints(points, block).updated = block
  BY <1>1, OfPointsStarts
<1> QED
  BY <1>1, <1>2, StartInv DEF ForceSetPoints

(* update_points pays for time, or makes the record of this block.         *)
LEMMA UpdatePointsInv ==
  ASSUME ReputationInv, NEW a \in Accounts, UpdatePoints(a)
  PROVE  ReputationInv'
<1>1. block \in Nat /\ block' = block /\ live' \subseteq Accounts /\ unseen' = unseen
  BY DEF ReputationInv, Domains, UpdatePoints
<1>2. CASE Known(a)
  <2>1. a \in DOMAIN record
    BY <1>2 DEF Known
  <2>2. PICK rec : rec = UpdateWithBlockNumber(record[a], block)
    OBVIOUS
  <2>3. RecordOK(rec, Max({peak[a], Rank(rec.points)}), block)
        /\ (a \notin unseen' => Accrued(rec, entitled[a], block))
    BY <1>1, <2>1, <2>2, OfAccount, UpdateWithBlockNumberOK
  <2>4. Note(a, rec, entitled[a], peak[a]) /\ entitled[a] \in Nat
    BY <1>2, <2>1, <2>2, OfAccount DEF UpdatePoints
  <2> QED
    BY <1>1, <2>3, <2>4, NoteInv
<1>3. CASE ~Known(a)
  <2>1. PICK rec : rec = WithBlocknumber(block)
    OBVIOUS
  <2>2. RecordOK(rec, 0, block) /\ rec.points = 0 /\ rec.updated = block
    BY <1>1, <2>1, WithBlocknumberOK
  <2>3. Rank(rec.points) = 0
    <3>1. Rank(0) \in 0 .. MaxRank /\ (0 <= FromRank[0] => Rank(0) <= 0)
      BY RankIs, ReputationAssumption
    <3> QED
      BY <2>2, <3>1, ReputationAssumption
  <2>4. Max({0, Rank(rec.points)}) = 0
    BY <2>3, MaxOf, {0, 0} \subseteq Int, \A x \in {0, 0} : x <= 0
  <2>5. Start(a, rec)
    BY <1>3, <2>1 DEF UpdatePoints
  <2> QED
    BY <1>1, <2>2, <2>4, <2>5, StartInv
<1> QED
  BY <1>2, <1>3

(* A new account gets its NAC, unless a reward came before it.             *)
LEMMA OnNewAccountInv ==
  ASSUME ReputationInv, NEW a \in Accounts, OnNewAccount(a)
  PROVE  ReputationInv'
<1>1. block \in Nat /\ block' = block /\ live' \subseteq Accounts /\ unseen' = unseen
  BY DEF ReputationInv, Domains, OnNewAccount
<1>2. CASE Known(a)
  <2>1. record' = record /\ entitled' = entitled /\ peak' = peak
    BY <1>2 DEF OnNewAccount
  <2> QED
    BY <1>1, <2>1 DEF ReputationInv, Domains, RecordsOK, Given
<1>3. CASE ~Known(a)
  <2>1. PICK empty : empty = WithBlocknumber(block)
    OBVIOUS
  <2>2. RecordOK(empty, 0, block) /\ empty.points = 0 /\ empty.updated = block
    BY <1>1, <2>1, WithBlocknumberOK
  <2>3. PICK first \in Nat : first = FromRank[1]
    BY ReputationAssumption
  <2>4. PICK rec : rec = Update(empty, first)
    OBVIOUS
  <2>5. RecordOK(rec, Max({0, Rank(first)}), block) /\ rec.points = first /\ rec.updated = block
    BY <1>1, <2>2, <2>4, UpdateOK
  <2>6. Start(a, rec)
    <3>1. Increase(empty, FromRank[1]) = Update(empty, first)
      BY <2>2, <2>3 DEF Increase
    <3> QED
      BY <1>3, <2>1, <2>4, <3>1 DEF OnNewAccount
  <2> QED
    BY <1>1, <2>5, <2>6, StartInv
<1> QED
  BY <1>2, <1>3

(* A killed account takes its record and its history with it.              *)
LEMMA OnKilledAccountInv ==
  ASSUME ReputationInv, NEW a \in Accounts, OnKilledAccount(a)
  PROVE  ReputationInv'
<1>1. /\ block' = block /\ live' \subseteq live /\ unseen' = unseen \ {a}
      /\ DOMAIN record' = DOMAIN record \ {a}
      /\ DOMAIN entitled' = DOMAIN entitled \ {a}
      /\ DOMAIN peak' = DOMAIN peak \ {a}
  BY DEF OnKilledAccount, Drop
<1>2. ASSUME NEW b \in DOMAIN record'
      PROVE  record'[b] = record[b] /\ entitled'[b] = entitled[b] /\ peak'[b] = peak[b]
             /\ b \in DOMAIN record /\ (b \notin unseen' => b \notin unseen)
  BY <1>1 DEF OnKilledAccount, Drop, ReputationInv, Domains
<1>3. Domains'
  BY <1>1 DEF ReputationInv, Domains
<1> QED
  BY <1>1, <1>2, <1>3 DEF ReputationInv, RecordsOK, Given

-----------------------------------------------------------------------------
(* The theorems.                                                           *)

(* Every step of the pallet keeps the invariant.                           *)
LEMMA ReputationNextInv == ReputationInv /\ [ReputationNext]_reputationVars => ReputationInv'
<1> SUFFICES ASSUME ReputationInv, [ReputationNext]_reputationVars PROVE ReputationInv'
  OBVIOUS
<1>1. CASE NextBlock
  BY <1>1, NextBlockInv
<1>2. CASE UpdatePointsForTime
  BY <1>2, UpdatePointsForTimeInv
<1>3. CASE ForceResetPoints
  BY <1>3, ForceResetPointsInv
<1>4. ASSUME NEW a \in Accounts, UpdatePoints(a) PROVE ReputationInv'
  BY <1>4, UpdatePointsInv
<1>5. ASSUME NEW a \in Accounts, OnNewAccount(a) PROVE ReputationInv'
  BY <1>5, OnNewAccountInv
<1>6. ASSUME NEW a \in Accounts, OnKilledAccount(a) PROVE ReputationInv'
  BY <1>6, OnKilledAccountInv
<1>7. ASSUME NEW a \in Accounts, NEW points \in Amounts, DoSlash(a, points) PROVE ReputationInv'
  BY <1>7, DoSlashInv
<1>8. ASSUME NEW a \in Accounts, NEW points \in Amounts, IncreaseCreating(a, points)
      PROVE  ReputationInv'
  BY <1>8, IncreaseCreatingInv
<1>9. ASSUME NEW a \in Accounts, NEW points \in Amounts, ForceSetPoints(a, points)
      PROVE  ReputationInv'
  BY <1>9, ForceSetPointsInv
<1>10. CASE UNCHANGED reputationVars
  BY <1>10 DEF reputationVars, ReputationInv, Domains, RecordsOK, Given
<1> QED
  BY <1>1, <1>2, <1>3, <1>4, <1>5, <1>6, <1>7, <1>8, <1>9, <1>10 DEF ReputationNext

(* Records are well formed, dated no later than now, in the tiers the code *)
(* can give; their histories are of the same accounts.                     *)
THEOREM ReputationInvariant == ReputationSpec => []ReputationInv
<1> QED
  BY ReputationInitInv, ReputationNextInv, PTL DEF ReputationSpec

(* with_rank_relative_to remembers only to the advantage of the account:   *)
(* whatever way its points came and went, its tier covers their rank.      *)
THEOREM TierNeverBelowRank == ReputationSpec => []TierCoversRank
<1>1. ReputationInv => TierCoversRank
  <2> SUFFICES ASSUME ReputationInv PROVE TierCoversRank
    OBVIOUS
  <2>1. ASSUME NEW a \in DOMAIN record
        PROVE  /\ record[a].points \in Nat
               /\ record[a].updated \in 0 .. block
               /\ TierOK(record[a].tier)
               /\ Covered(record[a].tier, Rank(record[a].points))
    BY OfAccount DEF RecordOK
  <2>2. ASSUME NEW a \in DOMAIN record
        PROVE  \/ record[a].tier = NoTier
               \/ /\ record[a].tier.index \in 0 .. 2
                  /\ record[a].tier.rel \in 0 .. MaxRank
                  /\ record[a].tier.index = 0 => record[a].tier.rel > 0
    BY <2>1, TierParts DEF TierOK
  <2>3. ReputationTypeOK
    BY <2>1, <2>2 DEF ReputationTypeOK, ReputationInv, Domains
  <2> QED
    BY <2>1, <2>3 DEF TierCoversRank, Covered
<1> QED
  BY <1>1, ReputationInvariant, PTL

(* Rank zero of a tier is only kept by those who had more of that tier.    *)
THEOREM ZeroRankIsKept == ReputationSpec => []ZeroRankWasHeld
<1>1. ReputationInv => ZeroRankWasHeld
  <2> SUFFICES ASSUME ReputationInv, NEW a \in DOMAIN record,
                      record[a].tier # NoTier
               PROVE  peak[a] > RanksPerTier * record[a].tier.index
    BY DEF ZeroRankWasHeld
  <2> QED
    BY OfAccount DEF RecordOK, Held
<1> QED
  BY <1>1, ReputationInvariant, PTL

(* Updates by the session, by anybody and by slashes never pay a block     *)
(* twice.                                                                  *)
THEOREM NoBlockPaidTwice == ReputationSpec => []AccruedOnce
<1>1. ReputationInv => AccruedOnce
  BY DEF ReputationInv, Given, Accrued, AccruedOnce, Potential
<1> QED
  BY <1>1, ReputationInvariant, PTL

-----------------------------------------------------------------------------
(* Disabling *)

(* What the strategy allows is less than one in DisablingLimitFactor.       *)
LEMMA LimitIsShare ==
  ASSUME NEW n \in Nat, NEW c \in Nat, c <= DisableLimit(n), c # 0
  PROVE  DisablingLimitFactor * c < n
  <1> DEFINE f == DisablingLimitFactor
             q == SatSub(n, 1) \div f
  <1>1. f \in Nat /\ f > 0
    BY DisablingAssumption
  <1>2. q \in Int /\ f * q <= SatSub(n, 1) /\ c <= q
    BY <1>1, Z3 DEF DisableLimit, SatSub
  <1> QED
    BY <1>1, <1>2, Z3 DEF SatSub

(* The limit is a number.                                                *)
LEMMA LimitIsNat ==
  ASSUME NEW n \in Nat
  PROVE  DisableLimit(n) \in Nat
<1> DEFINE f == DisablingLimitFactor
           m == SatSub(n, 1)
<1>1. f \in Nat /\ f > 0 /\ m \in Nat
  BY DisablingAssumption DEF SatSub
<1> HIDE DEF f, m
<1>2. m \div f \in Nat
  BY <1>1, Z3
<1> QED
  BY <1>2 DEF DisableLimit, f, m

(* The disabled places are finitely many, as the validators are.           *)
LEMMA DisabledFinite ==
  ASSUME DisablingTypeOK
  PROVE  /\ Len(validators) \in Nat /\ IsFiniteSet(disabled)
         /\ Cardinality(disabled) \in Nat
<1>1. Len(validators) \in Nat
  BY DisablingAssumption DEF DisablingTypeOK
<1>2. IsFiniteSet(Indices)
  BY <1>1, FS_Interval DEF Indices
<1> QED
  BY <1>1, <1>2, FS_Subset, FS_CardinalityType DEF DisablingTypeOK

(* The same of a set of places.                                            *)
LEMMA PlacesAreShare ==
  ASSUME NEW D, IsFiniteSet(D), NEW n \in Nat, Cardinality(D) <= DisableLimit(n), D # {}
  PROVE  DisablingLimitFactor * Cardinality(D) < n
<1>1. Cardinality(D) \in Nat /\ Cardinality(D) # 0
  BY FS_EmptySet, FS_CardinalityType
<1> QED
  BY <1>1, LimitIsShare

(* Genesis establishes the invariant.                                      *)
LEMMA DisablingInitInv == DisablingInit => DisablingInv
<1> SUFFICES ASSUME DisablingInit
             PROVE  DisablingInv
  OBVIOUS
<1>1. DisablingTypeOK
  BY DEF DisablingInit, DisablingTypeOK
<1>2. Cardinality(disabled) = 0 /\ disabled = {}
  BY FS_EmptySet DEF DisablingInit
<1>3. DisableLimit(Len(validators)) \in Nat
  BY <1>1, DisabledFinite, LimitIsNat
<1>4. OffendersAreOut
  BY <1>1, <1>2, <1>3 DEF DisablingInit, OffendersAreOut
<1> QED
  BY <1>2, <1>3, <1>4 DEF DisablingInv, DisablingInit, EraInit

(* A report adds at most one place, and only where there is room.          *)
LEMMA ReportKeeps ==
  ASSUME ErasInv, DisablingInv, NEW stash \in Elected, NEW s \in DOMAIN eraOfSession,
         OnOffence(stash, s)
  PROVE  DisablingInv'
<1> DEFINE era == OffenceEra(s)
           room == Cardinality(disabled) < DisableLimit(Len(validators))
<1>1. DisablingTypeOK /\ DisablingTypeOK'
  <2>1. DisablingTypeOK
    BY DEF DisablingInv, OffendersAreOut
  <2>2. Indices \subseteq Nat
    BY <2>1, DisabledFinite DEF Indices
  <2>3. disabled' \subseteq Indices /\ sessionDisabled' \subseteq Nat
    BY <2>1, <2>2 DEF OnOffence, Decision, DisablingTypeOK
  <2> QED
    BY <2>1, <2>3 DEF DisablingTypeOK, OnOffence, Indices
<1>2. /\ Len(validators) \in Nat /\ Cardinality(disabled) \in Nat /\ IsFiniteSet(disabled)
      /\ DisableLimit(Len(validators)) \in Nat
  BY <1>1, DisabledFinite, LimitIsNat
<1>3. UNCHANGED <<eraVars, validators, queued, changed>> /\ phase = "idle"
  BY DEF OnOffence
<1>4. activeEra \in Nat /\ session \in Nat /\ DisablingInv!4'
  BY <1>3 DEF ErasInv, EraTypeOK, Counters, DisablingInv, eraVars
<1>5. sessionDisabled' = disabled'
  BY <1>3 DEF OnOffence, DisablingInv, OffendersAreOut
<1>6. /\ \A i \in disabled' : validators[i] \in offenders'
      /\ Cardinality(disabled') <= DisableLimit(Len(validators))
      /\ Cardinality(disabled') < DisableLimit(Len(validators)) =>
           offenders' = {validators[i] : i \in disabled'}
  <2>1. CASE Past(era)
    <3>1. disabled' = disabled /\ offenders' = offenders
      BY <2>1 DEF OnOffence, Decision
    <3> QED
      BY <3>1 DEF DisablingInv, OffendersAreOut
  <2>2. CASE ~(Past(era)) /\ ~room
    <3>1. disabled' = disabled /\ offenders \subseteq offenders'
      BY <1>2, <2>2 DEF OnOffence, Decision
    <3> QED
      BY <1>2, <2>2, <3>1 DEF DisablingInv, OffendersAreOut
  <2>3. CASE ~(Past(era)) /\ room
    <3>1. offenders' = offenders \cup {stash} /\ stash \in ActiveSet
      BY <2>3 DEF OnOffence
    <3>2. PICK i \in Indices : validators[i] = stash
      BY <3>1 DEF ActiveSet
    <3>3. \A j \in Indices : validators[j] = stash => j = i
      BY <3>2, DisablingAssumption, <1>1 DEF Indices, DisablingTypeOK
    <3>4. disabled' = disabled \cup {i}
      BY <1>2, <2>3, <3>2, <3>3 DEF OnOffence, Decision
    <3>5. Cardinality(disabled \cup {i}) =
            IF i \in disabled THEN Cardinality(disabled) ELSE Cardinality(disabled) + 1
      BY <1>2, FS_AddElement
    <3>6. /\ Cardinality(disabled') \in Nat
          /\ Cardinality(disabled') <= Cardinality(disabled) + 1
      BY <1>2, <3>4, <3>5
    <3>7. offenders = {validators[j] : j \in disabled}
      BY <2>3 DEF DisablingInv, OffendersAreOut
    <3> QED
      BY <1>2, <2>3, <3>1, <3>2, <3>4, <3>6, <3>7
  <2> QED
    BY <2>1, <2>2, <2>3
<1>7. disabled' # {} => DisablingLimitFactor * Cardinality(disabled') < Len(validators)
  <2>1. IsFiniteSet(disabled')
    <3>1. IsFiniteSet(1 .. Len(validators))
      BY <1>2, FS_Interval
    <3>2. disabled' \subseteq 1 .. Len(validators)
      BY <1>1, <1>3 DEF DisablingTypeOK, Indices
    <3> QED
      BY <3>1, <3>2, FS_Subset
  <2> QED
    BY <1>2, <1>6, <2>1, PlacesAreShare
<1>8. OffendersAreOut'
  BY <1>1, <1>3, <1>5, <1>6, <1>7 DEF OffendersAreOut
<1> QED
  BY <1>3, <1>4, <1>5, <1>6, <1>8 DEF DisablingInv, eraVars

(* The era that ends is the one before the planned era, so both lists are   *)
(* cleared together; else the validators stay and so does the list.        *)
LEMMA EndKeeps ==
  ASSUME ErasInv, DisablingInv, EndAnySession
  PROVE  DisablingInv'
<1>1. /\ phase = "idle" /\ phase' = "start" /\ session \in Nat /\ activeEra \in Int
      /\ UNCHANGED <<session, currentEra, activeEra, forceEra>>
  BY DEF EndAnySession, EndSession, ErasInv, EraTypeOK, Counters
<1>2. EraEnds <=> currentEra = activeEra + 1
  BY <1>1, ErasAssumption DEF EraEnds, ErasInv, EraTypeOK, Planning, Oldest
<1>3. IF EraEnds THEN changed ELSE queued = validators
  BY <1>1, <1>2 DEF DisablingInv
<1>4. CASE EraEnds
  <2>1. disabled' = {} /\ sessionDisabled' = {} /\ offenders' = {} /\ UNCHANGED <<queued, changed>>
        /\ validators' = queued
    BY <1>3, <1>4 DEF EndAnySession
  <2>2. DisablingTypeOK'
    BY <2>1 DEF DisablingInv, OffendersAreOut, DisablingTypeOK
  <2>3. Cardinality(disabled') = 0
    BY <2>1, FS_EmptySet
  <2>4. Len(validators') \in Nat /\ DisableLimit(Len(validators')) \in Nat
    BY <2>2, DisablingAssumption, LimitIsNat DEF DisablingTypeOK
  <2> QED
    BY <1>1, <2>1, <2>2, <2>3, <2>4 DEF DisablingInv, OffendersAreOut
<1>5. CASE ~EraEnds
  <2>1. UNCHANGED <<validators, queued, changed, disabled, offenders>>
        /\ sessionDisabled' \in {{}, sessionDisabled}
    BY <1>3, <1>5 DEF EndAnySession
  <2>2. DisablingTypeOK'
    BY <2>1 DEF DisablingInv, OffendersAreOut, DisablingTypeOK, Indices
  <2> QED
    BY <1>1, <2>1, <2>2 DEF DisablingInv, OffendersAreOut
<1> QED
  BY <1>4, <1>5

(* The list is made whole again at the start of the session.               *)
LEMMA StartKeeps ==
  ASSUME ErasInv, DisablingInv, StartAnySession
  PROVE  DisablingInv'
<1>1. UNCHANGED <<validators, queued, changed, disabled, offenders, currentEra, forceEra>>
      /\ session' = session + 1 /\ phase = "start" /\ session \in Int /\ session >= -1
  BY DEF StartAnySession, StartSession, ErasInv, EraTypeOK, Counters
<1>2. sessionDisabled' = disabled'
  BY <1>1 DEF StartAnySession, DisabledFromStart, DisablingInv
<1>3. DisablingTypeOK'
  <2>1. DisablingTypeOK /\ Indices \subseteq Nat
    BY DisabledFinite DEF DisablingInv, OffendersAreOut, Indices
  <2> QED
    BY <1>1, <1>2, <2>1 DEF DisablingTypeOK, Indices
<1>4. phase' = "idle" => session = -1 /\ activeEra = -1 /\ activeEra' = 0
  <2>1. ASSUME phase' = "idle"
        PROVE  session = -1 /\ activeEra = -1
    BY <1>1, <2>1 DEF StartAnySession, StartSession, ErasInv, Counters
  <2>2. ASSUME session = -1, activeEra = -1
        PROVE  activeEra' = 0
    <3>1. currentEra = 0 /\ eraStart[0] = 0 /\ 0 \in DOMAIN eraStart
      BY <2>2, ErasAssumption DEF DisablingInv, ErasInv, Planning, Oldest
    <3> QED
      BY <2>2, <3>1 DEF StartAnySession, StartSession, StartsEra, StartEra
  <2> QED
    BY <2>1, <2>2
<1>5. phase' = "idle" => queued' = validators' /\ currentEra' # activeEra' + 1
  BY <1>1, <1>4 DEF DisablingInv
<1>6. session' # -1
  BY <1>1
<1> QED
  BY <1>1, <1>2, <1>3, <1>5, <1>6 DEF DisablingInv, OffendersAreOut

(* Planning touches what comes next only.                                  *)
LEMMA PlanKeeps ==
  ASSUME ErasInv, DisablingInv,
         (\E set \in Elections : ElectNext(set)) \/ (\E newKeys \in BOOLEAN : KeepNext(newKeys))
  PROVE  DisablingInv'
<1>1. /\ UNCHANGED <<validators, disabled, sessionDisabled, offenders, session, activeEra>>
      /\ phase = "plan" /\ session \in Int /\ session >= -1
      /\ phase' = IF session = -1 THEN "start" ELSE "idle"
      /\ sessionDisabled = disabled
  BY DEF ElectNext, KeepNext, PlanEra, PlanSession, PlanNext, ErasInv, EraTypeOK, Counters,
         DisablingInv, OffendersAreOut
<1>2. DisablingTypeOK'
  BY <1>1 DEF ElectNext, KeepNext, DisablingInv, OffendersAreOut, DisablingTypeOK, Indices
<1>3. CASE \E set \in Elections : ElectNext(set)
  <2>1. session # -1
    <3>1. SUFFICES ASSUME session = -1
                   PROVE  FALSE
      OBVIOUS
    <3>2. forceEra = "NotForcing" /\ planned = 0 /\ StartIndex(currentEra) = 0 /\ SessionsPerEra > 1
      BY <1>1, <3>1 DEF DisablingInv, ErasInv, EraTypeOK, Counters, Planning, StartIndex
    <3> QED
      BY <1>3, <3>2, ErasAssumption DEF ElectNext, PlanEra, EraDue, SatSub
  <2>2. changed' /\ currentEra' = activeEra' + 1
    BY <1>1, <1>3, <2>1 DEF ElectNext, PlanEra, ErasInv, Planning
  <2> QED
    BY <1>1, <1>2, <2>1, <2>2 DEF DisablingInv, OffendersAreOut
<1>4. CASE \E newKeys \in BOOLEAN : KeepNext(newKeys)
  <2>1. queued' = validators' /\ UNCHANGED <<currentEra, forceEra>>
    BY <1>1, <1>4 DEF KeepNext, PlanSession
  <2>2. session >= 0 => currentEra' # activeEra' + 1
    BY <1>1, <2>1 DEF ErasInv, EraTypeOK, Planning
  <2> QED
    BY <1>1, <1>2, <2>1, <2>2 DEF DisablingInv, OffendersAreOut
<1> QED
  BY <1>3, <1>4

(* Forcing touches none of it, and comes after genesis.                    *)
LEMMA ForceKeeps ==
  ASSUME ErasInv, DisablingInv,
         \/ \E mode \in Forcing : ForceEras(mode) /\ UNCHANGED listVars
         \/ UNCHANGED disablingVars
  PROVE  DisablingInv'
<1>1. UNCHANGED <<listVars, phase, session, currentEra, activeEra>>
      /\ (session # -1 \/ UNCHANGED forceEra)
  BY DEF ForceEras, disablingVars, eraVars, ErasInv, Counters
<1> QED
  BY <1>1 DEF listVars, DisablingInv, OffendersAreOut, DisablingTypeOK, Indices

(* OffendersAreOut, for every sequence of elections, every length of eras    *)
(* and windows and every factor of the strategy.                            *)
THEOREM OffendersStayOut == DisablingSpec => []OffendersAreOut
<1>1. DisablingInit => ErasInv /\ DisablingInv
  BY InitInv, DisablingInitInv DEF DisablingInit
<1>2. ErasInv /\ [DisablingNext]_disablingVars => ErasInv'
  <2>1. [DisablingNext]_disablingVars => [EraNext]_eraVars
    BY DEF DisablingNext, disablingVars, EraNext, OnOffence, EndAnySession, StartAnySession,
           ElectNext, KeepNext
  <2> QED
    BY <2>1, NextInv
<1>3. ErasInv /\ DisablingInv /\ [DisablingNext]_disablingVars => DisablingInv'
  BY ReportKeeps, EndKeeps, StartKeeps, PlanKeeps, ForceKeeps DEF DisablingNext
<1>4. DisablingInv => OffendersAreOut
  BY DEF DisablingInv
<1> QED
  BY <1>1, <1>2, <1>3, <1>4, PTL DEF DisablingSpec

-----------------------------------------------------------------------------
(* Tokens *)

(* Approvals and permits *)

UsedBy(u) == {p \in used : p.owner = u}

(* What is approved and spent, and the permits used: each has a nonce below *)
(* that of its owner.                                                      *)
ApprovalInv ==
  /\ approval \in [DOMAIN approves -> [value : Nat, spent : Nat]]
  /\ \A k \in DOMAIN approves :
       approves[k] \in Nat /\ approval[k].spent + approves[k] = approval[k].value
  /\ nonces \in [Owners -> Nat]
  /\ \A p \in used : p.owner \in Owners /\ p.nonce \in Nat /\ p.nonce < nonces[p.owner]
  /\ \A u \in Owners : IsFiniteSet(UsedBy(u)) /\ Cardinality(UsedBy(u)) = nonces[u]

(* At genesis nothing is approved.                                        *)
LEMMA ApprovalInitInv == TokensInit => ApprovalInv
<1> SUFFICES ASSUME TokensInit
             PROVE  ApprovalInv
  OBVIOUS
<1>1. \A u \in Owners : UsedBy(u) = {}
  BY DEF TokensInit, UsedBy
<1>2. DOMAIN approves = {} /\ approval = approves /\ approves = [x \in {} |-> 0]
  BY DEF TokensInit, Nothing
<1>3. approval \in [DOMAIN approves -> [value : Nat, spent : Nat]]
  BY <1>2
<1> QED
  BY <1>1, <1>2, <1>3, FS_EmptySet DEF TokensInit, ApprovalInv

(* An approval starts anew.                                                *)
LEMMA ApprovingKeeps ==
  ASSUME ApprovalInv, NEW o, NEW s, NEW value \in Nat, Approving(o, s, value)
  PROVE  /\ approval' \in [DOMAIN approves' -> [value : Nat, spent : Nat]]
         /\ \A k \in DOMAIN approves' :
              approves'[k] \in Nat /\ approval'[k].spent + approves'[k] = approval'[k].value
<1>1. /\ approves' = [k \in DOMAIN approves \cup {<<o, s>>} |->
                        IF k = <<o, s>> THEN value ELSE approves[k]]
      /\ approval' = [k \in DOMAIN approves \cup {<<o, s>>} |->
                        IF k = <<o, s>> THEN [value |-> value, spent |-> 0] ELSE approval[k]]
  BY DEF Approving, WithEntry, ApprovalInv
<1> QED
  BY <1>1 DEF ApprovalInv

(* A permit takes the nonce of its owner, which no permit used had.         *)
LEMMA PermitKeeps ==
  ASSUME ApprovalInv, NEW p \in Permits, Permit(p)
  PROVE  ApprovalInv'
<1>1. /\ p.owner \in Owners /\ p.nonce \in Nat /\ p.value \in Nat
      /\ nonces[p.owner] \in Nat /\ p.nonce = nonces[p.owner]
      /\ nonces' = [nonces EXCEPT ![p.owner] = @ + 1]
      /\ used' = used \cup {p} /\ Approving(p.owner, p.spender, p.value)
  BY TokensAssumption DEF Permit, Permits, NextNonce, ApprovalInv
<1>2. nonces' \in [Owners -> Nat]
  BY <1>1 DEF ApprovalInv
<1>3. \A q \in used' : q.owner \in Owners /\ q.nonce \in Nat /\ q.nonce < nonces'[q.owner]
  <2> SUFFICES ASSUME NEW q \in used'
               PROVE  q.owner \in Owners /\ q.nonce \in Nat /\ q.nonce < nonces'[q.owner]
    OBVIOUS
  <2>1. CASE q = p
    BY <1>1, <2>1 DEF ApprovalInv
  <2>2. CASE q \in used /\ q.owner = p.owner
    <3>1. q.nonce \in Nat /\ q.nonce < nonces[p.owner] /\ nonces'[q.owner] = nonces[p.owner] + 1
      BY <1>1, <2>2 DEF ApprovalInv
    <3> QED
      BY <1>1, <2>2, <3>1
  <2>3. CASE q \in used /\ q.owner # p.owner
    BY <1>1, <2>3 DEF ApprovalInv
  <2> QED
    BY <1>1, <2>1, <2>2, <2>3
<1>4. ASSUME NEW u \in Owners
      PROVE  IsFiniteSet(UsedBy(u)') /\ Cardinality(UsedBy(u)') = nonces'[u]
  <2>1. CASE u # p.owner
    BY <1>1, <2>1 DEF ApprovalInv, UsedBy
  <2>2. CASE u = p.owner
    <3>1. UsedBy(u)' = UsedBy(u) \cup {p}
      BY <1>1, <2>2 DEF UsedBy
    <3>2. p \notin UsedBy(u)
      BY <1>1 DEF ApprovalInv, UsedBy
    <3>3. IsFiniteSet(UsedBy(u)) /\ Cardinality(UsedBy(u)) = nonces[u]
      BY DEF ApprovalInv
    <3>4. IsFiniteSet(UsedBy(u) \cup {p}) /\ Cardinality(UsedBy(u) \cup {p}) = nonces[u] + 1
      BY <3>2, <3>3, FS_AddElement
    <3> QED
      BY <1>1, <2>2, <3>1, <3>4 DEF ApprovalInv
  <2> QED
    BY <2>1, <2>2
<1> QED
  BY <1>1, <1>2, <1>3, <1>4, ApprovingKeeps DEF ApprovalInv

(* What is spent is taken off what is approved.                            *)
LEMMA TransferFromKeeps ==
  ASSUME ApprovalInv, NEW caller, NEW from, NEW to, NEW value \in Values,
         TransferFrom(caller, from, to, value)
  PROVE  ApprovalInv'
<1>1. UNCHANGED <<nonces, used>> /\ value \in Nat
  BY TokensAssumption DEF TransferFrom
<1>2. CASE caller = from
  BY <1>1, <1>2 DEF TransferFrom, ApprovalInv, UsedBy
<1>3. CASE caller # from
  <2> DEFINE k == <<from, caller>>
  <2>1. /\ k \in DOMAIN approves /\ value <= approves[k]
        /\ approves' = [approves EXCEPT ![k] = @ - value]
        /\ approval' = [approval EXCEPT ![k].spent = @ + value]
    BY <1>3 DEF TransferFrom, Remaining
  <2>2. DOMAIN approves' = DOMAIN approves
    BY <2>1
  <2>3. ASSUME NEW j \in DOMAIN approves
        PROVE  /\ approval'[j] \in [value : Nat, spent : Nat]
               /\ approves'[j] \in Nat /\ approval'[j].spent + approves'[j] = approval'[j].value
    <3>1. approval[j] \in [value : Nat, spent : Nat] /\ approves[j] \in Nat
          /\ approval[j].spent + approves[j] = approval[j].value
      BY DEF ApprovalInv
    <3>2. CASE j = k
      <4>1. approval'[j] = [approval[j] EXCEPT !.spent = @ + value] /\ approves'[j] = approves[j] - value
        BY <2>1, <3>2 DEF ApprovalInv
      <4> QED
        BY <1>1, <2>1, <3>1, <3>2, <4>1
    <3>3. CASE j # k
      BY <2>1, <3>1, <3>3 DEF ApprovalInv
    <3> QED
      BY <3>2, <3>3
  <2>4. approval' \in [DOMAIN approves' -> [value : Nat, spent : Nat]]
    BY <2>1, <2>2, <2>3 DEF ApprovalInv
  <2> QED
    BY <1>1, <2>2, <2>3, <2>4 DEF ApprovalInv, UsedBy
<1> QED
  BY <1>2, <1>3

(* Every step keeps it; most do not touch it.                             *)
LEMMA ApprovalNextInv ==
  ASSUME ApprovalInv, [TokensNext]_tokensVars
  PROVE  ApprovalInv'
<1>1. ASSUME UNCHANGED erc20Vars
      PROVE  ApprovalInv'
  BY <1>1 DEF erc20Vars, ApprovalInv, UsedBy
<1>2. ASSUME NEW p \in Permits, Permit(p)
      PROVE  ApprovalInv'
  BY <1>2, PermitKeeps
<1>3. ASSUME NEW u \in Users, NEW v \in Users, NEW w \in Users, NEW amount \in Values,
             TransferFrom(u, v, w, amount)
      PROVE  ApprovalInv'
  BY <1>3, TransferFromKeeps
<1>4. ASSUME NEW u \in Owners, NEW v \in Spenders, NEW amount \in Values, Approve(u, v, amount)
      PROVE  ApprovalInv'
  <2>1. amount \in Nat /\ Approving(u, v, amount) /\ UNCHANGED <<nonces, used>>
    BY <1>4, TokensAssumption DEF Approve
  <2> QED
    BY <2>1, ApprovingKeeps DEF ApprovalInv, UsedBy
<1>5. \/ UNCHANGED erc20Vars
      \/ \E p \in Permits : Permit(p)
      \/ \E u, v, w \in Users, amount \in Values : TransferFrom(u, v, w, amount)
      \/ \E u \in Owners, v \in Spenders, amount \in Values : Approve(u, v, amount)
  BY DEF TokensNext, tokensVars, NextHeight, BridgeTransfer, Payout, Transfer, RequestFunds, Vest,
         ForceRemoveVesting, ForceVestedTransfer, erc20Vars
<1> QED
  BY <1>1, <1>2, <1>3, <1>4, <1>5

(* ApprovalsHold: no allowance is spent twice, no permit used twice.        *)
THEOREM ApprovalsSpentOnce == TokensSpec => []ApprovalsHold
<1>1. ApprovalInv => ApprovalsHold
  BY DEF ApprovalInv, ApprovalsHold, UsedBy
<1>2. ApprovalInv /\ [TokensNext]_tokensVars => ApprovalInv'
  BY ApprovalNextInv
<1> QED
  BY <1>1, <1>2, ApprovalInitInv, PTL DEF TokensSpec

-----------------------------------------------------------------------------
(* Vesting *)

(* What a schedule keeps reserved.                                         *)
ScheduleCovered(s, r, n) == s.locked - r <= s.perBlock * Minus(n, s.start)

(* A schedule in storage is the one that was granted; one that is not in    *)
(* storage any more has come to its end.                                   *)
VestingInv ==
  /\ height \in Nat
  /\ reserved \in [Holders -> Nat]
  /\ DOMAIN schedules \subseteq DOMAIN grants /\ DOMAIN grants \subseteq Vesters
  /\ \A u \in DOMAIN schedules : schedules[u] = grants[u]
  /\ \A u \in DOMAIN grants :
       grants[u] \in Schedules /\ IsValid(grants[u])
       /\ ScheduleCovered(grants[u], reserved[u], height)

(* Time only releases more.                                                *)
LEMMA CoveredLater ==
  ASSUME NEW s \in [locked : Nat, perBlock : Nat, start : Nat], NEW r \in Int, NEW n \in Nat,
         ScheduleCovered(s, r, n)
  PROVE  ScheduleCovered(s, r, n + 1)
<1> DEFINE m == Minus(n, s.start)
           l == Minus(n + 1, s.start)
           p == s.perBlock
<1>1. m \in Nat /\ l \in {m, m + 1} /\ p \in Nat
  BY DEF Minus
<1> HIDE DEF m, l, p
<1>2. p * m <= p * l /\ p * m \in Int /\ p * l \in Int
  <2>1. p * (m + 1) = p * m + p
    BY <1>1, Z3
  <2> QED
    BY <1>1, <2>1
<1>3. s.locked - r <= p * m
  BY DEF ScheduleCovered, m, p
<1>4. s.locked - r \in Int
  OBVIOUS
<1> QED
  BY <1>2, <1>3, <1>4 DEF ScheduleCovered, l, p

(* A new schedule is reserved in full.                                     *)
LEMMA CoveredInFull ==
  ASSUME NEW s \in [locked : Nat, perBlock : Nat, start : Nat], NEW r \in Int, NEW n \in Nat,
         r >= s.locked
  PROVE  ScheduleCovered(s, r, n)
<1>1. Minus(n, s.start) \in Nat /\ s.perBlock \in Nat /\ s.locked \in Nat
  BY DEF Minus
<1>2. s.perBlock * Minus(n, s.start) \in Nat
  BY <1>1, Z3
<1> QED
  BY <1>1, <1>2 DEF ScheduleCovered

(* What do_vest reserves is what the schedule asks for, also when nothing   *)
(* is locked any more or the product is too large for a balance.           *)
LEMMA CoveredAsLocked ==
  ASSUME NEW s \in [locked : Nat, perBlock : Nat, start : Nat], NEW n \in Nat, BalanceMax \in Nat,
         s.perBlock > 0, s.locked <= BalanceMax
  PROVE  LockedAt(s, n) \in Nat /\ ScheduleCovered(s, LockedAt(s, n), n)
<1> DEFINE m == Minus(n, s.start)
           p == s.perBlock
<1>1. m \in Nat /\ p \in Nat /\ p >= 1 /\ s.locked \in Nat
  BY DEF Minus
<1>2. (IF p > 1 THEN p ELSE 1) = p
  BY <1>1
<1> HIDE DEF m, p
<1>3. m * p \in Nat /\ m * p = p * m
  BY <1>1, Z3
<1>4. LockedAt(s, n) = IF m * p > BalanceMax THEN 0 ELSE Minus(s.locked, m * p)
  BY <1>2 DEF LockedAt, m, p
<1>5. LockedAt(s, n) \in Nat /\ s.locked - LockedAt(s, n) <= m * p
  <2>1. CASE m * p > BalanceMax
    BY <1>1, <1>3, <1>4, <2>1
  <2>2. CASE ~(m * p > BalanceMax)
    BY <1>1, <1>3, <1>4, <2>2 DEF Minus
  <2> QED
    BY <2>1, <2>2
<1>6. ScheduleCovered(s, LockedAt(s, n), n) <=> s.locked - LockedAt(s, n) <= p * m
  BY DEF ScheduleCovered, p, m
<1> QED
  BY <1>1, <1>3, <1>5, <1>6

(* At genesis nobody is under a schedule.                                 *)
LEMMA VestingInitInv == TokensInit => VestingInv
BY DEF TokensInit, VestingInv, Nothing

(* Every step keeps it.                                                   *)
LEMMA VestingNextInv ==
  ASSUME VestingInv, [TokensNext]_tokensVars
  PROVE  VestingInv'
<1> USE TokensAssumption
<1>1. ASSUME UNCHANGED <<height, reserved, vestingVars>>
      PROVE  VestingInv'
  BY <1>1 DEF VestingInv, vestingVars
<1>2. CASE NextHeight
  <2>1. height' = height + 1 /\ UNCHANGED <<reserved, schedules, grants>>
    BY <1>2 DEF NextHeight, walletVars, vestingVars
  <2>2. ASSUME NEW u \in DOMAIN grants
        PROVE  ScheduleCovered(grants[u], reserved[u], height + 1)
    <3>1. /\ grants[u] \in [locked : Nat, perBlock : Nat, start : Nat]
          /\ reserved[u] \in Int /\ height \in Nat /\ ScheduleCovered(grants[u], reserved[u], height)
      BY DEF VestingInv, Holders
    <3> QED
      BY <3>1, CoveredLater
  <2> QED
    BY <2>1, <2>2 DEF VestingInv
<1>3. ASSUME NEW source, NEW dest \in Vesters, NEW s \in Schedules,
             ForceVestedTransfer(source, dest, s)
      PROVE  VestingInv'
  <2>1. /\ reserved' = [reserved EXCEPT ![dest] = @ + s.locked]
        /\ schedules' = [u \in DOMAIN schedules \cup {dest} |-> IF u = dest THEN s ELSE schedules[u]]
        /\ grants' = [u \in DOMAIN grants \cup {dest} |-> IF u = dest THEN s ELSE grants[u]]
        /\ IsValid(s) /\ UNCHANGED height
    BY <1>3 DEF ForceVestedTransfer, WithEntry
  <2>2. reserved[dest] \in Nat /\ s.locked \in Nat /\ dest \in Holders
    BY DEF VestingInv, Holders
  <2>3. reserved' \in [Holders -> Nat] /\ reserved'[dest] >= s.locked
    BY <2>1, <2>2 DEF VestingInv
  <2>4. ScheduleCovered(s, reserved'[dest], height)
    <3>1. s \in [locked : Nat, perBlock : Nat, start : Nat]
      OBVIOUS
    <3> QED
      BY <2>2, <2>3, <3>1, CoveredInFull DEF VestingInv
  <2>5. ASSUME NEW u \in DOMAIN grants'
        PROVE  /\ grants'[u] \in Schedules /\ IsValid(grants'[u])
               /\ ScheduleCovered(grants'[u], reserved'[u], height)
    <3>1. CASE u = dest
      BY <2>1, <2>4, <3>1
    <3>2. CASE u # dest
      BY <2>1, <3>2 DEF VestingInv
    <3> QED
      BY <3>1, <3>2
  <2>6. /\ DOMAIN schedules' \subseteq DOMAIN grants' /\ DOMAIN grants' \subseteq Vesters
        /\ \A u \in DOMAIN schedules' : schedules'[u] = grants'[u]
    BY <2>1 DEF VestingInv
  <2>7. height' \in Nat /\ height' = height
    BY <2>1 DEF VestingInv
  <2>8. \A u \in DOMAIN grants' :
          grants'[u] \in Schedules /\ IsValid(grants'[u])
          /\ ScheduleCovered(grants'[u], reserved'[u], height')
    <3> HIDE DEF ScheduleCovered, IsValid
    <3> QED
      BY <2>5, <2>7
  <2> QED
    BY <2>3, <2>6, <2>7, <2>8, Zenon DEF VestingInv, ScheduleCovered, IsValid
<1>4. ASSUME NEW who \in Vesters, Vest(who)
      PROVE  VestingInv'
  <2> DEFINE s == schedules[who]
             locked == LockedAt(s, height)
  <2>1. /\ who \in DOMAIN schedules /\ UNCHANGED height
        /\ reserved' = [reserved EXCEPT ![who] = locked]
        /\ schedules' = IF locked = 0 THEN WithoutEntry(schedules, who) ELSE schedules
        /\ UNCHANGED grants
    BY <1>4 DEF Vest
  <2>2. /\ s = grants[who] /\ who \in Holders /\ height \in Nat
        /\ s \in [locked : Nat, perBlock : Nat, start : Nat] /\ s.perBlock > 0 /\ s.locked <= BalanceMax
    BY <2>1 DEF VestingInv, IsValid, Holders
  <2>3. locked \in Nat /\ ScheduleCovered(s, locked, height)
    BY <2>2, CoveredAsLocked
  <2>4. reserved' \in [Holders -> Nat]
    BY <2>1, <2>2, <2>3 DEF VestingInv
  <2>5. /\ DOMAIN schedules' \subseteq DOMAIN schedules
        /\ \A u \in DOMAIN schedules' : schedules'[u] = schedules[u]
    BY <2>1 DEF WithoutEntry
  <2>6. ASSUME NEW u \in DOMAIN grants
        PROVE  ScheduleCovered(grants[u], reserved'[u], height)
    <3>1. CASE u = who
      BY <2>1, <2>2, <2>3, <3>1 DEF VestingInv
    <3>2. CASE u # who
      BY <2>1, <3>2 DEF VestingInv
    <3> QED
      BY <3>1, <3>2
  <2> QED
    BY <2>1, <2>4, <2>5, <2>6 DEF VestingInv
<1>5. ASSUME NEW who \in Vesters, ForceRemoveVesting(who)
      PROVE  VestingInv'
  <2> DEFINE slashed == Lesser(schedules[who].locked, reserved[who])
  <2>1. /\ who \in DOMAIN schedules /\ UNCHANGED height
        /\ reserved' = [reserved EXCEPT ![who] = @ - slashed]
        /\ schedules' = [u \in DOMAIN schedules \ {who} |-> schedules[u]]
        /\ grants' = [u \in DOMAIN grants \ {who} |-> grants[u]]
    BY <1>5 DEF ForceRemoveVesting, WithoutEntry
  <2>2. who \in Holders /\ schedules[who].locked \in Nat /\ reserved[who] \in Nat
    BY <2>1 DEF VestingInv, Holders
  <2>3. reserved[who] - slashed \in Nat
    BY <2>2 DEF Lesser
  <2>4. reserved' \in [Holders -> Nat]
    BY <2>1, <2>3 DEF VestingInv
  <2> QED
    BY <2>1, <2>4 DEF VestingInv
<1>6. ASSUME TokensNext
      PROVE  \/ UNCHANGED <<height, reserved, vestingVars>>
             \/ NextHeight
             \/ \E source \in Users, dest \in Vesters, s \in Schedules : ForceVestedTransfer(source, dest, s)
             \/ \E who \in Vesters : Vest(who) \/ ForceRemoveVesting(who)
  <2>1. ASSUME NEW u, NEW amount, BridgeTransfer(u, amount)
        PROVE  UNCHANGED <<height, reserved, vestingVars>>
    BY <2>1 DEF BridgeTransfer
  <2>2. ASSUME NEW u, NEW amount, Payout(u, amount)
        PROVE  UNCHANGED <<height, reserved, vestingVars>>
    BY <2>2 DEF Payout
  <2>3. ASSUME NEW u, NEW v, NEW amount, Transfer(u, v, amount)
        PROVE  UNCHANGED <<height, reserved, vestingVars>>
    BY <2>3 DEF Transfer
  <2>4. ASSUME NEW u, NEW v, NEW w, NEW amount, TransferFrom(u, v, w, amount)
        PROVE  UNCHANGED <<height, reserved, vestingVars>>
    BY <2>4 DEF TransferFrom
  <2>5. ASSUME NEW u, NEW v, NEW amount, Approve(u, v, amount)
        PROVE  UNCHANGED <<height, reserved, vestingVars>>
    BY <2>5 DEF Approve, walletVars
  <2>6. ASSUME NEW p, Permit(p)
        PROVE  UNCHANGED <<height, reserved, vestingVars>>
    BY <2>6 DEF Permit, walletVars
  <2>7. ASSUME NEW u, NEW amount, RequestFunds(u, amount)
        PROVE  UNCHANGED <<height, reserved, vestingVars>>
    BY <2>7 DEF RequestFunds
  <2> QED
    BY <1>6, <2>1, <2>2, <2>3, <2>4, <2>5, <2>6, <2>7, Zenon DEF TokensNext
<1>7. ASSUME NEW who \in Vesters, Vest(who) \/ ForceRemoveVesting(who)
      PROVE  VestingInv'
  BY <1>4, <1>5, <1>7
<1>8. UNCHANGED tokensVars => UNCHANGED <<height, reserved, vestingVars>>
  BY DEF tokensVars, walletVars
<1> QED
  BY <1>1, <1>2, <1>3, <1>6, <1>7, <1>8

(* NothingVestsEarly, for every schedule, also one that starts in the       *)
(* future, is vested in full or long after its end, or whose end overflows. *)
THEOREM VestsOnTime == TokensSpec => []NothingVestsEarly
<1>1. VestingInv => NothingVestsEarly
  BY DEF VestingInv, NothingVestsEarly, ScheduleCovered
<1>2. VestingInv /\ [TokensNext]_tokensVars => VestingInv'
  BY VestingNextInv
<1> QED
  BY <1>1, <1>2, VestingInitInv, PTL DEF TokensSpec

-----------------------------------------------------------------------------
(* What moves, and what is in hands *)

(* Nothing is negative, and what is issued is in hands.                     *)
BalanceInv ==
  /\ VestingInv
  /\ free \in [Holders -> Nat]
  /\ issued = InHands(free) + InHands(reserved)

(* The holders are finitely many.                                          *)
LEMMA HoldersFinite == IsFiniteSet(Holders) /\ Users \subseteq Holders
<1>1. IsFiniteSet({BridgeAccount, FeeReceiverAccount})
  BY FS_EmptySet, FS_AddElement, {BridgeAccount, FeeReceiverAccount} = ({} \cup {BridgeAccount}) \cup {FeeReceiverAccount}
<1> QED
  BY <1>1, FS_Union, TokensAssumption DEF Holders

(* What is in hands is a number.                                           *)
LEMMA InHandsIs ==
  ASSUME NEW f \in [Holders -> Int]
  PROVE  InHands(f) \in Int
BY HoldersFinite, SumType DEF InHands, IntegersOn

(* An entry that is raised, or lowered.                                    *)
Raises(f, g, a, d) ==
  f \in [Holders -> Int] /\ a \in Holders /\ d \in Int /\ g = [f EXCEPT ![a] = f[a] + d]

(* The sum moves with the entry.                                           *)
LEMMA RaisedBy ==
  ASSUME NEW f, NEW g, NEW a, NEW d, Raises(f, g, a, d)
  PROVE  g \in [Holders -> Int] /\ InHands(g) = InHands(f) + d
<1>1. /\ f \in [Holders -> Int] /\ a \in Holders /\ d \in Int
      /\ g \in [Holders -> Int] /\ g[a] = f[a] + d /\ \A x \in Holders : x # a => g[x] = f[x]
  BY DEF Raises
<1>2. IsFiniteSet(Holders) /\ IntegersOn(f, Holders) /\ IntegersOn(g, Holders)
  BY <1>1, HoldersFinite DEF IntegersOn
<1>3. InHands(g) = InHands(f) + g[a] - f[a]
  BY <1>1, <1>2, SumUpdate DEF InHands
<1>4. f[a] \in Int /\ InHands(f) \in Int
  BY <1>1, InHandsIs
<1> QED
  BY <1>1, <1>3, <1>4

(* What moves leaves one holder and reaches another, or the same.           *)
LEMMA MovedIs ==
  ASSUME free \in [Holders -> Nat], NEW from \in Holders, NEW to \in Holders, NEW amount \in Nat,
         amount <= free[from]
  PROVE  /\ Moved(from, to, amount) \in [Holders -> Nat]
         /\ InHands(Moved(from, to, amount)) = InHands(free)
         /\ from # to => Moved(from, to, amount)[to] = free[to] + amount
         /\ from = to => Moved(from, to, amount)[to] = free[to]
<1> DEFINE f == [free EXCEPT ![from] = free[from] - amount]
           g == [f EXCEPT ![to] = f[to] + amount]
<1>1. Moved(from, to, amount) = g
  BY DEF Moved
<1>2. free \in [Holders -> Int] /\ free[from] - amount = free[from] + (-amount) /\ -amount \in Int
  OBVIOUS
<1>3. f \in [Holders -> Int] /\ InHands(f) = InHands(free) + (-amount)
  <2>1. Raises(free, f, from, -amount)
    BY <1>2 DEF Raises
  <2> HIDE DEF f
  <2> QED
    BY <2>1, RaisedBy
<1>4. g \in [Holders -> Int] /\ InHands(g) = InHands(f) + amount
  <2> HIDE DEF f
  <2>1. Raises(f, g, to, amount)
    BY <1>3 DEF Raises
  <2> HIDE DEF g
  <2> QED
    BY <2>1, RaisedBy
<1>5. InHands(free) \in Int
  BY <1>2, InHandsIs
<1>6. InHands(g) = InHands(free)
  <2> HIDE DEF f, g
  <2> QED
    BY <1>3, <1>4, <1>5
<1>7. /\ \A x \in Holders : g[x] >= 0
      /\ from # to => g[to] = free[to] + amount
      /\ from = to => g[to] = free[to]
  OBVIOUS
<1>8. g \in [Holders -> Nat]
  BY <1>4, <1>7
<1> HIDE DEF g
<1> QED
  BY <1>1, <1>6, <1>7, <1>8

(* A fee is no more than the amount.                                       *)
LEMMA FeeIs ==
  ASSUME NEW percent \in 0 .. 100, NEW amount \in Nat
  PROVE  MulFloor(percent, amount) \in Nat /\ MulFloor(percent, amount) <= amount
<1> DEFINE p == percent * amount
<1>1. p \in Nat /\ p <= 100 * amount
  <2>1. percent * amount <= 100 * amount /\ percent * amount >= 0 /\ percent * amount \in Int
    BY Z3
  <2> QED
    BY <2>1
<1> HIDE DEF p
<1>2. p \div 100 \in Nat /\ p \div 100 <= amount
  BY <1>1
<1> QED
  BY <1>2 DEF MulFloor, p

(* What the bridge splits stays in hands: a fee and the rest.               *)
LEMMA SplitIs ==
  ASSUME free \in [Holders -> Nat], NEW from \in Holders, NEW to \in Holders,
         NEW taken \in Nat, NEW fee \in Nat, fee <= taken, taken <= free[from], Split(from, to, taken, fee)
  PROVE  free' \in [Holders -> Nat] /\ InHands(free') = InHands(free)
<1> DEFINE f == [free EXCEPT ![from] = free[from] - taken]
           g == [f EXCEPT ![to] = f[to] + taken - fee]
           h == [g EXCEPT ![FeeReceiverAccount] = g[FeeReceiverAccount] + fee]
<1>1. free' = h
  BY DEF Split
<1>2. free \in [Holders -> Int] /\ -taken \in Int /\ taken - fee \in Int /\ FeeReceiverAccount \in Holders
  BY DEF Holders
<1>3. f \in [Holders -> Int] /\ InHands(f) = InHands(free) + (-taken)
  <2>1. Raises(free, f, from, -taken)
    BY <1>2 DEF Raises
  <2> HIDE DEF f
  <2> QED
    BY <2>1, RaisedBy
<1>4. g \in [Holders -> Int] /\ InHands(g) = InHands(f) + (taken - fee)
  <2>1. f[to] + taken - fee = f[to] + (taken - fee)
    BY <1>3
  <2> HIDE DEF f
  <2>2. Raises(f, g, to, taken - fee)
    BY <1>2, <1>3, <2>1 DEF Raises
  <2> HIDE DEF g
  <2> QED
    BY <2>2, RaisedBy
<1>5. h \in [Holders -> Int] /\ InHands(h) = InHands(g) + fee
  <2> HIDE DEF f, g
  <2>1. Raises(g, h, FeeReceiverAccount, fee)
    BY <1>2, <1>4 DEF Raises
  <2> HIDE DEF h
  <2> QED
    BY <2>1, RaisedBy
<1>6. InHands(free) \in Int
  BY <1>2, InHandsIs
<1>7. InHands(h) = InHands(free)
  <2> HIDE DEF f, g, h
  <2> QED
    BY <1>3, <1>4, <1>5, <1>6
<1>8. \A x \in Holders : h[x] >= 0
  <2>1. \A x \in Holders : f[x] >= 0 /\ f[x] \in Int
    BY <1>2
  <2> HIDE DEF f
  <2>2. \A x \in Holders : g[x] >= 0 /\ g[x] \in Int
    BY <1>2, <1>3, <2>1
  <2> HIDE DEF g
  <2> QED
    BY <1>2, <1>4, <2>2
<1>9. h \in [Holders -> Nat]
  BY <1>5, <1>8
<1> HIDE DEF h
<1> QED
  BY <1>1, <1>7, <1>9

(* At genesis everything is free.                                          *)
LEMMA BalanceInitInv == TokensInit => BalanceInv
<1> SUFFICES ASSUME TokensInit PROVE BalanceInv
  OBVIOUS
<1>1. free \in [Holders -> Nat] /\ reserved = [a \in Holders |-> 0] /\ issued = InHands(free)
  BY TokensAssumption DEF TokensInit
<1>2. \A a \in Holders : reserved[a] = 0
  BY <1>1
<1>3. InHands(reserved) = 0
  BY <1>2, HoldersFinite, SumOfZeros DEF InHands
<1>4. InHands(free) \in Int
  BY <1>1, InHandsIs
<1> QED
  BY <1>1, <1>3, <1>4, VestingInitInv DEF BalanceInv

(* Calls that only move what is free.                                      *)
LEMMA FreeMoves ==
  ASSUME BalanceInv, VestingInv', free' \in [Holders -> Nat], InHands(free') = InHands(free),
         UNCHANGED <<reserved, issued>>
  PROVE  BalanceInv'
<1>1. InHands(reserved') = InHands(reserved)
  BY DEF InHands, Holders
<1> QED
  BY <1>1 DEF BalanceInv

(* The three ways in which schedules change.                               *)
LEMMA VestingConserves ==
  ASSUME BalanceInv, VestingInv',
         \/ \E source \in Users, dest \in Vesters, s \in Schedules : ForceVestedTransfer(source, dest, s)
         \/ \E who \in Vesters : Vest(who) \/ ForceRemoveVesting(who)
  PROVE  BalanceInv'
<1>1. /\ free \in [Holders -> Nat] /\ reserved \in [Holders -> Nat] /\ height \in Nat
      /\ free \in [Holders -> Int] /\ reserved \in [Holders -> Int]
      /\ issued = InHands(free) + InHands(reserved)
      /\ \A u \in DOMAIN schedules : schedules[u] \in Schedules /\ schedules[u].perBlock > 0
      /\ Vesters \subseteq Holders /\ Users \subseteq Holders
      /\ BalanceMax \in Nat
      /\ \A s \in Schedules : /\ s.locked \in Nat /\ s.locked <= BalanceMax
                              /\ s \in [locked : Nat, perBlock : Nat, start : Nat]
  BY TokensAssumption DEF BalanceInv, VestingInv, Holders, IsValid
<1>2. InHands(free) \in Int /\ InHands(reserved) \in Int
  BY <1>1, InHandsIs
<1>3. ASSUME NEW source \in Users, NEW dest \in Vesters, NEW s \in Schedules,
             ForceVestedTransfer(source, dest, s)
      PROVE  BalanceInv'
  <2> DEFINE moved == Moved(source, dest, s.locked)
  <2>1. /\ free[source] - s.locked >= 1 /\ issued' = issued
        /\ free' = [moved EXCEPT ![dest] = moved[dest] - s.locked]
        /\ reserved' = [reserved EXCEPT ![dest] = reserved[dest] + s.locked]
    BY <1>3 DEF ForceVestedTransfer, Keeps
  <2>2. s.locked \in Nat /\ s.locked <= free[source] /\ source \in Holders /\ dest \in Holders
        /\ free[source] \in Nat /\ free[dest] \in Nat
    BY <1>1, <2>1
  <2>3. /\ moved \in [Holders -> Nat] /\ InHands(moved) = InHands(free)
        /\ source # dest => moved[dest] = free[dest] + s.locked
        /\ source = dest => moved[dest] = free[dest]
    BY <1>1, <2>2, MovedIs
  <2> HIDE DEF moved
  <2>4. moved[dest] \in Nat /\ moved[dest] >= s.locked
    BY <2>2, <2>3
  <2>5. free' \in [Holders -> Nat]
    BY <2>1, <2>2, <2>3, <2>4
  <2>6. InHands(free') = InHands(moved) + (-s.locked)
    <3>1. moved[dest] - s.locked = moved[dest] + (-s.locked) /\ -s.locked \in Int /\ moved \in [Holders -> Int]
      BY <2>2, <2>3, <2>4
    <3>2. Raises(moved, free', dest, -s.locked)
      BY <2>1, <2>2, <3>1 DEF Raises
    <3> QED
      BY <3>2, RaisedBy
  <2>7. InHands(reserved') = InHands(reserved) + s.locked
    <3>1. Raises(reserved, reserved', dest, s.locked)
      BY <1>1, <2>1, <2>2 DEF Raises
    <3> QED
      BY <3>1, RaisedBy
  <2>8. issued' = InHands(free') + InHands(reserved')
    BY <1>1, <1>2, <2>1, <2>2, <2>3, <2>6, <2>7
  <2>9. InHands(free)' = InHands(free') /\ InHands(reserved)' = InHands(reserved')
    BY DEF InHands, Holders
  <2> QED
    BY <2>5, <2>8, <2>9 DEF BalanceInv
<1>4. ASSUME NEW who \in Vesters, Vest(who)
      PROVE  BalanceInv'
  <2> DEFINE locked == LockedAt(schedules[who], height)
             more == reserved[who] - locked
  <2>1. /\ who \in DOMAIN schedules /\ locked <= free[who] + reserved[who] /\ issued' = issued
        /\ free' = [free EXCEPT ![who] = free[who] + reserved[who] - locked]
        /\ reserved' = [reserved EXCEPT ![who] = locked]
    BY <1>4 DEF Vest
  <2>2. who \in Holders /\ free[who] \in Nat /\ reserved[who] \in Nat
    BY <1>1
  <2>3. locked \in Nat
    BY <1>1, <2>1, CoveredAsLocked
  <2> HIDE DEF locked
  <2>4. free' \in [Holders -> Nat]
    BY <1>1, <2>1, <2>2, <2>3
  <2>5. more \in Int /\ free[who] + reserved[who] - locked = free[who] + more
        /\ -more \in Int /\ reserved[who] + (-more) = locked
    BY <2>2, <2>3
  <2> HIDE DEF more
  <2>6. InHands(free') = InHands(free) + more
    <3>1. Raises(free, free', who, more)
      BY <1>1, <2>1, <2>2, <2>5 DEF Raises
    <3> QED
      BY <3>1, RaisedBy
  <2>7. InHands(reserved') = InHands(reserved) + (-more)
    <3>1. Raises(reserved, reserved', who, -more)
      BY <1>1, <2>1, <2>2, <2>5 DEF Raises
    <3> QED
      BY <3>1, RaisedBy
  <2>8. issued' = InHands(free') + InHands(reserved')
    BY <1>1, <1>2, <2>1, <2>5, <2>6, <2>7
  <2>9. InHands(free)' = InHands(free') /\ InHands(reserved)' = InHands(reserved')
    BY DEF InHands, Holders
  <2> QED
    BY <2>4, <2>8, <2>9 DEF BalanceInv
<1>5. ASSUME NEW who \in Vesters, ForceRemoveVesting(who)
      PROVE  BalanceInv'
  <2> DEFINE slashed == Lesser(schedules[who].locked, reserved[who])
  <2>1. /\ who \in DOMAIN schedules /\ issued' = issued - slashed /\ free' = free
        /\ reserved' = [reserved EXCEPT ![who] = reserved[who] - slashed]
    BY <1>5 DEF ForceRemoveVesting
  <2>2. who \in Holders /\ reserved[who] \in Nat /\ schedules[who].locked \in Nat
    BY <1>1, <2>1
  <2>3. slashed \in Nat
    BY <2>2 DEF Lesser
  <2> HIDE DEF slashed
  <2>4. reserved[who] - slashed = reserved[who] + (-slashed) /\ -slashed \in Int
    BY <2>2, <2>3
  <2>5. reserved' = [reserved EXCEPT ![who] = reserved[who] + (-slashed)]
    BY <2>1, <2>4
  <2>6. InHands(reserved') = InHands(reserved) + (-slashed)
    <3>1. Raises(reserved, reserved', who, -slashed)
      BY <1>1, <2>2, <2>4, <2>5 DEF Raises
    <3> QED
      BY <3>1, RaisedBy
  <2>7. InHands(free)' = InHands(free) /\ InHands(reserved)' = InHands(reserved')
    BY <2>1 DEF InHands, Holders
  <2>8. issued' = InHands(free) + InHands(reserved')
    BY <1>1, <1>2, <2>1, <2>3, <2>6
  <2> QED
    BY <1>1, <2>1, <2>7, <2>8 DEF BalanceInv
<1> QED
  BY <1>3, <1>4, <1>5

(* The calls that transfer, and the gifts of the faucet.                   *)
LEMMA BalanceNextInv == BalanceInv /\ [TokensNext]_tokensVars => BalanceInv'
<1> SUFFICES ASSUME BalanceInv, [TokensNext]_tokensVars PROVE BalanceInv'
  OBVIOUS
<1>1. VestingInv'
  BY VestingNextInv DEF BalanceInv
<1>2. /\ free \in [Holders -> Nat] /\ free \in [Holders -> Int] /\ Users \subseteq Holders
      /\ Requesters \subseteq Holders /\ BridgeAccount \in Holders /\ Values \subseteq Nat
      /\ issued = InHands(free) + InHands(reserved) /\ reserved \in [Holders -> Int]
  BY TokensAssumption DEF BalanceInv, VestingInv, Holders
<1>3. ASSUME UNCHANGED walletVars PROVE BalanceInv'
  <2>1. free' \in [Holders -> Nat] /\ InHands(free') = InHands(free) /\ UNCHANGED <<reserved, issued>>
    BY <1>2, <1>3 DEF walletVars
  <2> QED
    BY <1>1, <2>1, FreeMoves
<1>4. ASSUME NEW u \in Users, NEW v \in Users, NEW amount \in Values,
             free' = Moved(u, v, amount), amount <= free[u], UNCHANGED <<reserved, issued>>
      PROVE  BalanceInv'
  <2>1. free' \in [Holders -> Nat] /\ InHands(free') = InHands(free)
    BY <1>2, <1>4, MovedIs
  <2> QED
    BY <1>1, <1>4, <2>1, FreeMoves
<1>5. ASSUME NEW u \in Users, NEW amount \in Values, BridgeTransfer(u, amount)
      PROVE  BalanceInv'
  <2> DEFINE fee == MulFloor(WithdrawalFeePercent, amount)
             taken == amount + fee
  <2>1. fee \in Nat /\ amount \in Nat /\ free[u] \in Nat
    BY <1>2, FeeIs, TokensAssumption
  <2>2. /\ free[u] - taken >= 1 /\ Split(u, BridgeAccount, taken, fee)
        /\ UNCHANGED <<reserved, issued>>
    BY <1>5 DEF BridgeTransfer, Keeps
  <2> HIDE DEF fee
  <2>3. taken \in Nat /\ fee <= taken /\ taken <= free[u]
    BY <2>1, <2>2
  <2> HIDE DEF taken
  <2>4. free' \in [Holders -> Nat] /\ InHands(free') = InHands(free)
    BY <1>2, <2>1, <2>2, <2>3, SplitIs
  <2> QED
    BY <1>1, <2>2, <2>4, FreeMoves
<1>6. ASSUME NEW u \in Users, NEW amount \in Values, Payout(u, amount)
      PROVE  BalanceInv'
  <2> DEFINE fee == MulFloor(DepositFeePercent, amount)
  <2>1. fee \in Nat /\ amount \in Nat /\ fee <= amount /\ free[BridgeAccount] \in Nat
    BY <1>2, FeeIs, TokensAssumption
  <2>2. /\ free[BridgeAccount] - amount >= 1 /\ Split(BridgeAccount, u, amount, fee)
        /\ UNCHANGED <<reserved, issued>>
    BY <1>6 DEF Payout, Keeps
  <2> HIDE DEF fee
  <2>3. amount <= free[BridgeAccount]
    BY <2>1, <2>2
  <2>4. free' \in [Holders -> Nat] /\ InHands(free') = InHands(free)
    BY <1>2, <2>1, <2>2, <2>3, SplitIs
  <2> QED
    BY <1>1, <2>2, <2>4, FreeMoves
<1>7. ASSUME NEW u \in Requesters, NEW amount \in Values, RequestFunds(u, amount)
      PROVE  BalanceInv'
  <2>1. /\ free' = [free EXCEPT ![u] = free[u] + amount] /\ issued' = issued + amount
        /\ reserved' = reserved
    BY <1>7 DEF RequestFunds
  <2>2. u \in Holders /\ amount \in Nat
    BY <1>2
  <2>3. InHands(free') = InHands(free) + amount /\ free' \in [Holders -> Nat]
    <3>1. Raises(free, free', u, amount)
      BY <1>2, <2>1, <2>2 DEF Raises
    <3>2. free' \in [Holders -> Nat]
      BY <1>2, <2>1, <2>2
    <3> QED
      BY <3>1, <3>2, RaisedBy
  <2>4. InHands(free)' = InHands(free') /\ InHands(reserved)' = InHands(reserved)
    BY <2>1 DEF InHands, Holders
  <2>5. InHands(free) \in Int /\ InHands(reserved) \in Int
    BY <1>2, InHandsIs
  <2>6. issued' = InHands(free') + InHands(reserved)
    BY <1>2, <2>1, <2>2, <2>3, <2>5
  <2> QED
    BY <1>1, <2>3, <2>4, <2>6 DEF BalanceInv
<1>8. ASSUME NEW u, NEW v, NEW amount, Approve(u, v, amount)
      PROVE  UNCHANGED walletVars
  BY <1>8 DEF Approve, walletVars
<1>9. ASSUME NEW p, Permit(p)
      PROVE  UNCHANGED walletVars
  BY <1>9 DEF Permit, walletVars
<1>10. ASSUME NEW u \in Users, NEW v \in Users, NEW amount \in Values, Transfer(u, v, amount)
       PROVE  BalanceInv'
  <2>1. free' = Moved(u, v, amount) /\ amount <= free[u] /\ UNCHANGED <<reserved, issued>>
    BY <1>10 DEF Transfer
  <2> QED
    BY <1>4, <2>1
<1>11. ASSUME NEW u \in Users, NEW v \in Users, NEW w \in Users, NEW amount \in Values,
              TransferFrom(u, v, w, amount)
       PROVE  BalanceInv'
  <2>1. free' = Moved(v, w, amount) /\ amount <= free[v] /\ UNCHANGED <<reserved, issued>>
    BY <1>11 DEF TransferFrom
  <2> QED
    BY <1>4, <2>1
<1>12. NextHeight => UNCHANGED walletVars
  BY DEF NextHeight, walletVars
<1>13. UNCHANGED tokensVars => UNCHANGED walletVars
  BY DEF tokensVars
<1>14. ASSUME TokensNext
       PROVE  \/ NextHeight
              \/ \E p \in Permits : Permit(p)
              \/ \E u \in Users, amount \in Values : BridgeTransfer(u, amount) \/ Payout(u, amount)
              \/ \E u \in Users, v \in Users, amount \in Values : Transfer(u, v, amount)
              \/ \E u \in Users, v \in Users, w \in Users, amount \in Values : TransferFrom(u, v, w, amount)
              \/ \E u \in Requesters, amount \in Values : RequestFunds(u, amount)
              \/ \E u \in Owners, v \in Spenders, amount \in Values : Approve(u, v, amount)
              \/ \E source \in Users, dest \in Vesters, s \in Schedules : ForceVestedTransfer(source, dest, s)
              \/ \E who \in Vesters : Vest(who) \/ ForceRemoveVesting(who)
  BY <1>14, Zenon DEF TokensNext
<1>15. ASSUME \/ \E source \in Users, dest \in Vesters, s \in Schedules : ForceVestedTransfer(source, dest, s)
              \/ \E who \in Vesters : Vest(who) \/ ForceRemoveVesting(who)
       PROVE  BalanceInv'
  BY <1>1, <1>15, VestingConserves
<1> QED
  BY <1>3, <1>5, <1>6, <1>7, <1>8, <1>9, <1>10, <1>11, <1>12, <1>13, <1>14, <1>15, Zenon

(* TokensConserved, for all amounts, fees and schedules, also of who is at  *)
(* both ends of a transfer or is an account of the bridge.                 *)
THEOREM NoTokenMadeOrLost == TokensSpec => []TokensConserved
<1>1. BalanceInv => TokensConserved
  BY DEF BalanceInv, VestingInv, TokensConserved
<1> QED
  BY <1>1, BalanceInitInv, BalanceNextInv, PTL DEF TokensSpec

-----------------------------------------------------------------------------
(* What the faucet gives *)

(* The blocks of a run, and the windows among them.                          *)
Heights == 0 .. MaxHeight
Gifts == [Requesters \X Heights -> Nat]
From(n) == {k \in Heights : k >= n}
Between(m, n) == {k \in Heights : m <= k /\ k < n}
By(gifts, u) == [n \in Heights |-> gifts[<<u, n>>]]

(* What was given in some of the blocks is a sum over one function for all. *)
LEMMA GivenIs ==
  ASSUME NEW gifts \in Gifts, NEW u \in Requesters, NEW S \in SUBSET Heights
  PROVE  /\ GivenIn(gifts, u, S) = SumFunctionOnSet(By(gifts, u), S)
         /\ IsFiniteSet(S) /\ \A k \in S : By(gifts, u)[k] = gifts[<<u, k>>] /\ gifts[<<u, k>>] \in Nat
         /\ GivenIn(gifts, u, S) \in Nat
<1> DEFINE f == [n \in S |-> gifts[<<u, n>>]]
           g == By(gifts, u)
<1>1. IsFiniteSet(Heights)
  BY FS_Interval, TokensAssumption DEF Heights
<1>2. IsFiniteSet(S)
  BY <1>1, FS_Subset
<1>3. \A k \in S : gifts[<<u, k>>] \in Nat
  BY DEF Gifts
<1>4. \A k \in S : f[k] = g[k] /\ g[k] = gifts[<<u, k>>]
  BY DEF By
<1> HIDE DEF f, g
<1>5. IntegersOn(f, S)
  <2> SUFFICES ASSUME NEW k \in S PROVE f[k] \in Int
    BY DEF IntegersOn
  <2>1. f[k] = gifts[<<u, k>>] /\ gifts[<<u, k>>] \in Nat
    BY <1>3, <1>4
  <2> QED
    BY <2>1
<1>6. SumFunctionOnSet(f, S) = SumFunctionOnSet(g, S)
  BY <1>2, <1>4, <1>5, SumCongruence
<1>7. SumFunctionOnSet(g, S) \in Nat
  BY <1>2, <1>3, <1>4, SumOfNaturals
<1> QED
  BY <1>2, <1>3, <1>4, <1>6, <1>7 DEF GivenIn, f, g

(* Some blocks in two parts.                                               *)
LEMMA GivenSplit ==
  ASSUME NEW gifts \in Gifts, NEW u \in Requesters, NEW R \in SUBSET Heights, NEW Q \in SUBSET Heights,
         NEW S \in SUBSET (R \cup Q), R \cap Q = {}
  PROVE  GivenIn(gifts, u, S) <= GivenIn(gifts, u, R) + GivenIn(gifts, u, Q)
<1> DEFINE f == By(gifts, u)
<1>1. PICK T \in SUBSET Heights : T = R \cup Q
  OBVIOUS
<1>2. S \in SUBSET Heights /\ S \in SUBSET T
  BY <1>1
<1> HIDE DEF f
<1>3. /\ GivenIn(gifts, u, S) = SumFunctionOnSet(f, S)
      /\ IsFiniteSet(R) /\ IsFiniteSet(Q) /\ IsFiniteSet(T)
      /\ GivenIn(gifts, u, R) = SumFunctionOnSet(f, R)
      /\ GivenIn(gifts, u, Q) = SumFunctionOnSet(f, Q)
      /\ \A k \in T : f[k] \in Nat
  <2>1. GivenIn(gifts, u, S) = SumFunctionOnSet(f, S)
    BY <1>2, GivenIs DEF f
  <2>2. IsFiniteSet(R) /\ GivenIn(gifts, u, R) = SumFunctionOnSet(f, R)
    BY GivenIs DEF f
  <2>3. IsFiniteSet(Q) /\ GivenIn(gifts, u, Q) = SumFunctionOnSet(f, Q)
    BY GivenIs DEF f
  <2>4. IsFiniteSet(T) /\ \A k \in T : f[k] \in Nat
    <3>1. IsFiniteSet(T) /\ \A k \in T : f[k] = gifts[<<u, k>>] /\ gifts[<<u, k>>] \in Nat
      BY GivenIs DEF f
    <3> QED
      BY <3>1
  <2> QED
    BY <2>1, <2>2, <2>3, <2>4
<1>4. SumFunctionOnSet(f, S) <= SumFunctionOnSet(f, T)
  BY <1>2, <1>3, SumOfMore
<1>5. IntegersOn(f, R \cup Q)
  BY <1>1, <1>3 DEF IntegersOn
<1>6. SumFunctionOnSet(f, R \cup Q) = SumFunctionOnSet(f, R) + SumFunctionOnSet(f, Q)
  BY <1>3, <1>5, SumSplit
<1> QED
  BY <1>1, <1>3, <1>4, <1>6

(* More blocks, no less given.                                             *)
LEMMA GivenLess ==
  ASSUME NEW gifts \in Gifts, NEW u \in Requesters, NEW S \in SUBSET Heights, NEW R \in SUBSET S
  PROVE  GivenIn(gifts, u, R) <= GivenIn(gifts, u, S)
<1> DEFINE f == By(gifts, u)
<1>1. R \in SUBSET Heights
  OBVIOUS
<1> HIDE DEF f
<1>2. /\ IsFiniteSet(S) /\ \A k \in S : f[k] \in Nat
      /\ GivenIn(gifts, u, R) = SumFunctionOnSet(f, R)
      /\ GivenIn(gifts, u, S) = SumFunctionOnSet(f, S)
  BY <1>1, GivenIs DEF f
<1> QED
  BY <1>2, SumOfMore

(* The same gifts add up to the same.                                      *)
LEMMA GivenSame ==
  ASSUME NEW gifts \in Gifts, NEW more \in Gifts, NEW u \in Requesters, NEW S \in SUBSET Heights,
         \A k \in S : more[<<u, k>>] = gifts[<<u, k>>]
  PROVE  GivenIn(more, u, S) = GivenIn(gifts, u, S)
<1> DEFINE f == By(gifts, u)
           g == By(more, u)
<1> HIDE DEF f, g
<1>1. /\ IsFiniteSet(S) /\ \A k \in S : f[k] \in Nat /\ g[k] = f[k]
      /\ GivenIn(gifts, u, S) = SumFunctionOnSet(f, S)
      /\ GivenIn(more, u, S) = SumFunctionOnSet(g, S)
  BY GivenIs DEF f, g
<1>2. IntegersOn(f, S)
  BY <1>1 DEF IntegersOn
<1> QED
  BY <1>1, <1>2, SumCongruence

(* No gifts add up to nothing.                                             *)
LEMMA GivenNone ==
  ASSUME NEW gifts \in Gifts, NEW u \in Requesters, NEW S \in SUBSET Heights,
         \A k \in S : gifts[<<u, k>>] = 0
  PROVE  GivenIn(gifts, u, S) = 0
<1> DEFINE f == By(gifts, u)
<1> HIDE DEF f
<1>1. /\ IsFiniteSet(S) /\ \A k \in S : f[k] = 0
      /\ GivenIn(gifts, u, S) = SumFunctionOnSet(f, S)
  BY GivenIs DEF f
<1> QED
  BY <1>1, SumOfZeros

(* One more gift: it counts where its block does.                          *)
Gave(gifts, more, u, n, amount) ==
  /\ gifts \in Gifts /\ u \in Requesters /\ n \in Heights /\ amount \in Nat
  /\ more = [gifts EXCEPT ![<<u, n>>] = gifts[<<u, n>>] + amount]

(* The sums that a gift moves, and those it leaves.                        *)
LEMMA GivenMore ==
  ASSUME NEW gifts, NEW more, NEW u, NEW n, NEW amount, Gave(gifts, more, u, n, amount)
  PROVE  /\ more \in Gifts
         /\ \A v \in Requesters : \A k \in Heights :
              <<v, k>> # <<u, n>> => more[<<v, k>>] = gifts[<<v, k>>]
         /\ \A S \in SUBSET Heights :
              GivenIn(more, u, S) = GivenIn(gifts, u, S) + (IF n \in S THEN amount ELSE 0)
<1>1. gifts \in Gifts /\ u \in Requesters /\ n \in Heights /\ amount \in Nat
  BY DEF Gave
<1>2. gifts[<<u, n>>] \in Nat
  BY <1>1 DEF Gifts
<1>3. more \in Gifts
  BY <1>2 DEF Gave, Gifts
<1>4. /\ more[<<u, n>>] = gifts[<<u, n>>] + amount
      /\ \A v \in Requesters : \A k \in Heights :
              <<v, k>> # <<u, n>> => more[<<v, k>>] = gifts[<<v, k>>]
  BY <1>1 DEF Gave, Gifts
<1>5. ASSUME NEW S \in SUBSET Heights
      PROVE  GivenIn(more, u, S) = GivenIn(gifts, u, S) + (IF n \in S THEN amount ELSE 0)
  <2> DEFINE f == By(gifts, u)
             g == By(more, u)
  <2> HIDE DEF f, g
  <2>1. /\ IsFiniteSet(S)
        /\ \A k \in S : f[k] \in Nat /\ g[k] \in Nat /\ f[k] = gifts[<<u, k>>] /\ g[k] = more[<<u, k>>]
        /\ GivenIn(gifts, u, S) = SumFunctionOnSet(f, S) /\ GivenIn(gifts, u, S) \in Nat
        /\ GivenIn(more, u, S) = SumFunctionOnSet(g, S)
    BY <1>1, <1>3, GivenIs DEF f, g
  <2>2. CASE n \in S
    <3>1. IntegersOn(f, S) /\ IntegersOn(g, S)
      <4>1. ASSUME NEW k \in S PROVE f[k] \in Int /\ g[k] \in Int
        <5>1. f[k] \in Nat /\ g[k] \in Nat
          BY <2>1
        <5> QED
          BY <5>1
      <4> QED
        BY <4>1 DEF IntegersOn
    <3>2. \A k \in S : k # n => g[k] = f[k]
      BY <1>1, <1>4, <2>1
    <3>3. SumFunctionOnSet(g, S) = SumFunctionOnSet(f, S) + g[n] - f[n]
      BY <2>1, <2>2, <3>1, <3>2, SumUpdate
    <3>4. g[n] = f[n] + amount /\ f[n] \in Nat
      BY <1>4, <2>1, <2>2
    <3>5. GivenIn(more, u, S) = GivenIn(gifts, u, S) + amount
      BY <1>1, <2>1, <3>3, <3>4
    <3> QED
      BY <2>2, <3>5
  <2>3. CASE n \notin S
    <3>1. \A k \in S : more[<<u, k>>] = gifts[<<u, k>>]
      BY <1>1, <1>4, <2>3
    <3>2. GivenIn(more, u, S) = GivenIn(gifts, u, S)
      BY <1>1, <1>3, <3>1, GivenSame
    <3> QED
      BY <2>1, <2>3, <3>2
  <2> QED
    BY <2>2, <2>3
<1> QED
  BY <1>3, <1>4, <1>5

(* What the faucet knows of a requester, and what it gave it up to block n. *)
(* All gifts since the period began are in its sum, and before that no     *)
(* window was given more than the limit that ends with it.                 *)
PeriodOf(gifts, u, r, n) ==
  /\ r.since \in 0 .. n /\ r.sum \in 0 .. MaxAmount
  /\ \A k \in Heights : gifts[<<u, k>>] # 0 => k <= n /\ k < r.since + AccumulationPeriod
  /\ GivenIn(gifts, u, From(r.since)) = r.sum
  /\ \A m \in Heights :
       r.since <= m + AccumulationPeriod => GivenIn(gifts, u, Between(m, r.since)) <= MaxAmount

FaucetOf(gifts, u, r, n) ==
  /\ PeriodOf(gifts, u, r, n)
  /\ \A m \in Heights : GivenIn(gifts, u, Period(m)) <= 2 * MaxAmount

FaucetInv ==
  /\ height \in Heights
  /\ given \in Gifts
  /\ requests \in [Requesters -> [sum : Nat, since : Nat]]
  /\ AccumulationPeriod > 0 => \A u \in Requesters : FaucetOf(given, u, requests[u], height)

(* A window that reaches the period: what was given before it, and in it.   *)
LEMMA PeriodIsBounded ==
  ASSUME NEW gifts \in Gifts, NEW u \in Requesters, NEW r, NEW n \in Nat, PeriodOf(gifts, u, r, n),
         NEW m \in Heights, r.since <= m + AccumulationPeriod
  PROVE  GivenIn(gifts, u, Period(m)) <= 2 * MaxAmount
<1>1. r.since \in Nat /\ r.sum \in Nat /\ r.sum <= MaxAmount /\ MaxAmount \in Nat
      /\ AccumulationPeriod \in Nat /\ MaxHeight \in Nat /\ m \in Nat
  BY TokensAssumption DEF PeriodOf, Heights
<1> DEFINE R == Between(m, r.since)
           Q == From(r.since)
<1>2. R \in SUBSET Heights /\ Q \in SUBSET Heights /\ R \cap Q = {} /\ Period(m) \in SUBSET (R \cup Q)
  BY <1>1 DEF Between, From, Period, Heights
<1>3. GivenIn(gifts, u, R) <= MaxAmount /\ GivenIn(gifts, u, Q) = r.sum
  BY DEF PeriodOf
<1> HIDE DEF R, Q
<1>4. GivenIn(gifts, u, Period(m)) <= GivenIn(gifts, u, R) + GivenIn(gifts, u, Q)
  BY <1>2, GivenSplit
<1>5. Period(m) \in SUBSET Heights
  BY <1>2
<1>6. GivenIn(gifts, u, R) \in Nat /\ GivenIn(gifts, u, Period(m)) \in Nat
  BY <1>2, <1>5, GivenIs
<1> QED
  BY <1>1, <1>3, <1>4, <1>6

(* A request within the period, or one that begins the next.               *)
LEMMA RequestKeeps ==
  ASSUME NEW gifts, NEW more, NEW u, NEW amount, height \in Heights, AccumulationPeriod > 0,
         Gave(gifts, more, u, height, amount), NEW r, FaucetOf(gifts, u, r, height),
         amount <= MaxAmount, NEW q, q = Accumulated(r, amount), q.sum <= MaxAmount
  PROVE  FaucetOf(more, u, q, height)
<1>1. /\ gifts \in Gifts /\ u \in Requesters /\ amount \in Nat /\ more \in Gifts
      /\ \A k \in Heights : k # height => more[<<u, k>>] = gifts[<<u, k>>]
      /\ \A S \in SUBSET Heights :
           GivenIn(more, u, S) = GivenIn(gifts, u, S) + (IF height \in S THEN amount ELSE 0)
  <2>1. /\ more \in Gifts
        /\ \A v \in Requesters : \A k \in Heights :
             <<v, k>> # <<u, height>> => more[<<v, k>>] = gifts[<<v, k>>]
        /\ \A S \in SUBSET Heights :
             GivenIn(more, u, S) = GivenIn(gifts, u, S) + (IF height \in S THEN amount ELSE 0)
    BY GivenMore
  <2>2. gifts \in Gifts /\ u \in Requesters /\ amount \in Nat
    BY DEF Gave
  <2> QED
    BY <2>1, <2>2
<1>2. /\ r.since \in Nat /\ r.since <= height /\ r.sum \in Nat /\ r.sum <= MaxAmount
      /\ height \in Nat /\ height <= MaxHeight /\ AccumulationPeriod \in Nat /\ MaxAmount \in Nat
      /\ \A m \in Heights : m \in Nat
  BY TokensAssumption DEF FaucetOf, PeriodOf, Heights
<1>3. \A k \in Heights : gifts[<<u, k>>] # 0 => k <= height /\ k < r.since + AccumulationPeriod
  BY DEF FaucetOf, PeriodOf
<1>4. \A n \in Nat, m \in Heights :
        From(n) \in SUBSET Heights /\ Between(m, n) \in SUBSET Heights /\ Period(m) \in SUBSET Heights
  BY <1>2 DEF From, Between, Period, Heights
<1>5. CASE height - r.since < AccumulationPeriod
  <2>1. q.sum = r.sum + amount /\ q.since = r.since
    BY <1>2, <1>5 DEF Accumulated
  <2>2. height \in From(r.since)
    BY <1>2 DEF From
  <2>3. GivenIn(more, u, From(q.since)) = q.sum
    <3>1. GivenIn(gifts, u, From(r.since)) = r.sum
      BY DEF FaucetOf, PeriodOf
    <3> QED
      BY <1>1, <1>2, <1>4, <2>1, <2>2, <3>1
  <2>4. ASSUME NEW m \in Heights, q.since <= m + AccumulationPeriod
        PROVE  GivenIn(more, u, Between(m, q.since)) <= MaxAmount
    <3>1. height \notin Between(m, r.since) /\ Between(m, r.since) \in SUBSET Heights
      BY <1>2, <1>4 DEF Between
    <3>2. GivenIn(gifts, u, Between(m, r.since)) <= MaxAmount
      BY <2>1, <2>4 DEF FaucetOf, PeriodOf
    <3>3. GivenIn(gifts, u, Between(m, r.since)) \in Nat
      BY <1>1, <3>1, GivenIs
    <3> QED
      BY <1>1, <2>1, <3>1, <3>2, <3>3
  <2>5. ASSUME NEW k \in Heights, more[<<u, k>>] # 0
        PROVE  k <= height /\ k < q.since + AccumulationPeriod
    <3>1. CASE k = height
      BY <1>2, <1>5, <2>1, <3>1
    <3>2. CASE k # height
      BY <1>1, <1>3, <2>1, <2>5, <3>2
    <3> QED
      BY <3>1, <3>2
  <2>6. q.since \in 0 .. height /\ q.sum \in 0 .. MaxAmount
    BY <1>1, <1>2, <2>1
  <2>7. PeriodOf(more, u, q, height)
    BY <2>3, <2>4, <2>5, <2>6 DEF PeriodOf
  <2>8. ASSUME NEW m \in Heights PROVE GivenIn(more, u, Period(m)) <= 2 * MaxAmount
    <3>1. CASE q.since <= m + AccumulationPeriod
      BY <1>1, <1>2, <2>7, <3>1, PeriodIsBounded
    <3>2. CASE ~(q.since <= m + AccumulationPeriod)
      <4>1. height \notin Period(m) /\ Period(m) \in SUBSET Heights
        BY <1>2, <1>4, <2>1, <3>2 DEF Period
      <4>2. GivenIn(gifts, u, Period(m)) <= 2 * MaxAmount /\ GivenIn(gifts, u, Period(m)) \in Nat
        BY <1>1, <4>1, GivenIs DEF FaucetOf
      <4> QED
        BY <1>1, <4>1, <4>2
    <3> QED
      BY <3>1, <3>2
  <2> QED
    BY <2>7, <2>8 DEF FaucetOf
<1>6. CASE ~(height - r.since < AccumulationPeriod)
  <2>1. q.sum = amount /\ q.since = height /\ r.since + AccumulationPeriod <= height
    BY <1>2, <1>6 DEF Accumulated
  <2>2. height \in From(height) /\ From(height) \in SUBSET Heights
    BY <1>2, <1>4 DEF From
  <2>3. GivenIn(more, u, From(q.since)) = q.sum
    <3>1. \A k \in From(height) : gifts[<<u, k>>] = 0
      <4> SUFFICES ASSUME NEW k \in Heights, k >= height, gifts[<<u, k>>] # 0 PROVE FALSE
        BY DEF From
      <4>1. k \in Nat /\ k < r.since + AccumulationPeriod
        BY <1>2, <1>3
      <4> QED
        BY <1>2, <2>1, <4>1
    <3>2. GivenIn(gifts, u, From(height)) = 0
      BY <1>1, <2>2, <3>1, GivenNone
    <3> QED
      BY <1>1, <2>1, <2>2, <3>2
  <2>4. ASSUME NEW m \in Heights, q.since <= m + AccumulationPeriod
        PROVE  GivenIn(more, u, Between(m, q.since)) <= MaxAmount
    <3>1. height \notin Between(m, height) /\ Between(m, height) \in SUBSET Heights
      BY <1>2, <1>4 DEF Between
    <3>2. Between(m, height) \in SUBSET From(r.since) /\ From(r.since) \in SUBSET Heights
      BY <1>2, <1>4, <2>1, <2>4 DEF Between, From, Heights
    <3>3. GivenIn(gifts, u, Between(m, height)) <= GivenIn(gifts, u, From(r.since))
      BY <1>1, <3>2, GivenLess
    <3>4. GivenIn(gifts, u, From(r.since)) = r.sum
      BY DEF FaucetOf, PeriodOf
    <3>5. GivenIn(gifts, u, Between(m, height)) \in Nat
      BY <1>1, <3>1, GivenIs
    <3> QED
      BY <1>1, <1>2, <2>1, <3>1, <3>3, <3>4, <3>5
  <2>5. ASSUME NEW k \in Heights, more[<<u, k>>] # 0
        PROVE  k <= height /\ k < q.since + AccumulationPeriod
    <3>1. CASE k = height
      BY <1>2, <2>1, <3>1
    <3>2. CASE k # height
      <4>1. gifts[<<u, k>>] # 0 /\ k \in Nat
        BY <1>1, <1>2, <2>5, <3>2
      <4>2. k <= height /\ k < r.since + AccumulationPeriod
        BY <1>3, <4>1
      <4> QED
        BY <1>2, <2>1, <4>1, <4>2
    <3> QED
      BY <3>1, <3>2
  <2>6. q.since \in 0 .. height /\ q.sum \in 0 .. MaxAmount
    BY <1>1, <1>2, <2>1
  <2>7. PeriodOf(more, u, q, height)
    BY <2>3, <2>4, <2>5, <2>6 DEF PeriodOf
  <2>8. ASSUME NEW m \in Heights PROVE GivenIn(more, u, Period(m)) <= 2 * MaxAmount
    <3>1. CASE q.since <= m + AccumulationPeriod
      BY <1>1, <1>2, <2>7, <3>1, PeriodIsBounded
    <3>2. CASE ~(q.since <= m + AccumulationPeriod)
      <4>1. height \notin Period(m) /\ Period(m) \in SUBSET Heights
        BY <1>2, <1>4, <2>1, <3>2 DEF Period
      <4>2. GivenIn(gifts, u, Period(m)) <= 2 * MaxAmount /\ GivenIn(gifts, u, Period(m)) \in Nat
        BY <1>1, <4>1, GivenIs DEF FaucetOf
      <4> QED
        BY <1>1, <4>1, <4>2
    <3> QED
      BY <3>1, <3>2
  <2> QED
    BY <2>7, <2>8 DEF FaucetOf
<1> QED
  BY <1>5, <1>6

(* The gifts to others are no matter.                                      *)
LEMMA FaucetStays ==
  ASSUME NEW gifts \in Gifts, NEW more \in Gifts, NEW u \in Requesters, NEW r, NEW n \in Nat,
         FaucetOf(gifts, u, r, n), \A k \in Heights : more[<<u, k>>] = gifts[<<u, k>>]
  PROVE  FaucetOf(more, u, r, n)
<1>1. r.since \in Nat /\ \A m \in Heights : m \in Nat
  BY DEF FaucetOf, PeriodOf, Heights
<1>2. \A m \in Heights :
        /\ From(r.since) \in SUBSET Heights /\ Between(m, r.since) \in SUBSET Heights
        /\ Period(m) \in SUBSET Heights
  BY <1>1, TokensAssumption DEF From, Between, Period, Heights
<1>3. \A S \in SUBSET Heights : GivenIn(more, u, S) = GivenIn(gifts, u, S)
  BY GivenSame
<1>4. /\ r.since \in 0 .. n /\ r.sum \in 0 .. MaxAmount
      /\ \A k \in Heights : gifts[<<u, k>>] # 0 => k <= n /\ k < r.since + AccumulationPeriod
      /\ GivenIn(gifts, u, From(r.since)) = r.sum
      /\ \A m \in Heights :
           r.since <= m + AccumulationPeriod => GivenIn(gifts, u, Between(m, r.since)) <= MaxAmount
      /\ \A m \in Heights : GivenIn(gifts, u, Period(m)) <= 2 * MaxAmount
  BY DEF FaucetOf, PeriodOf
<1>5. \A k \in Heights : more[<<u, k>>] # 0 => k <= n /\ k < r.since + AccumulationPeriod
  BY <1>4
<1>6. GivenIn(more, u, From(r.since)) = r.sum
  <2>1. From(r.since) \in SUBSET Heights
    BY DEF From
  <2> QED
    BY <1>3, <1>4, <2>1
<1>7. ASSUME NEW m \in Heights
      PROVE  /\ r.since <= m + AccumulationPeriod => GivenIn(more, u, Between(m, r.since)) <= MaxAmount
             /\ GivenIn(more, u, Period(m)) <= 2 * MaxAmount
  BY <1>2, <1>3, <1>4
<1> QED
  BY <1>4, <1>5, <1>6, <1>7 DEF FaucetOf, PeriodOf

(* Time passes: no gift is of a block ahead.                               *)
LEMMA FaucetLater ==
  ASSUME NEW gifts, NEW u, NEW r, NEW n \in Nat, FaucetOf(gifts, u, r, n)
  PROVE  FaucetOf(gifts, u, r, n + 1)
<1>1. r.since \in 0 .. (n + 1)
      /\ \A k \in Heights : gifts[<<u, k>>] # 0 => k <= n + 1 /\ k < r.since + AccumulationPeriod
  BY DEF FaucetOf, PeriodOf, Heights
<1> QED
  BY <1>1 DEF FaucetOf, PeriodOf

(* At genesis nothing was given.                                           *)
LEMMA FaucetInitInv == TokensInit => FaucetInv
<1> SUFFICES ASSUME TokensInit PROVE FaucetInv
  OBVIOUS
<1>1. /\ height = 0 /\ height \in Heights /\ given \in Gifts
      /\ requests \in [Requesters -> [sum : Nat, since : Nat]]
      /\ MaxAmount \in Nat /\ AccumulationPeriod \in Nat
  BY TokensAssumption DEF TokensInit, Heights, Gifts
<1>2. ASSUME NEW u \in Requesters
      PROVE  FaucetOf(given, u, requests[u], height)
  <2>1. requests[u].sum = 0 /\ requests[u].since = 0 /\ \A k \in Heights : given[<<u, k>>] = 0
    BY DEF TokensInit, Heights
  <2>2. \A S \in SUBSET Heights : GivenIn(given, u, S) = 0
    BY <1>1, <2>1, GivenNone
  <2>3. \A m \in Heights :
          From(0) \in SUBSET Heights /\ Between(m, 0) \in SUBSET Heights /\ Period(m) \in SUBSET Heights
    BY <1>1, TokensAssumption DEF From, Between, Period, Heights
  <2> QED
    BY <1>1, <2>1, <2>2, <2>3 DEF FaucetOf, PeriodOf
<1> QED
  BY <1>1, <1>2 DEF FaucetInv

(* A request is one of its requester, and of the block.                    *)
LEMMA FaucetNextInv == FaucetInv /\ [TokensNext]_tokensVars => FaucetInv'
<1> SUFFICES ASSUME FaucetInv, [TokensNext]_tokensVars PROVE FaucetInv'
  OBVIOUS
<1>1. /\ height \in Heights /\ height \in Nat /\ given \in Gifts
      /\ requests \in [Requesters -> [sum : Nat, since : Nat]]
      /\ AccumulationPeriod > 0 => \A u \in Requesters : FaucetOf(given, u, requests[u], height)
  BY DEF FaucetInv, Heights
<1>2. ASSUME UNCHANGED <<height, requests, given>> PROVE FaucetInv'
  BY <1>1, <1>2 DEF FaucetInv, Heights, Gifts
<1>3. ASSUME NextHeight PROVE FaucetInv'
  <2>1. height' = height + 1 /\ UNCHANGED <<requests, given>> /\ height + 1 \in Heights
    BY <1>1, <1>3, TokensAssumption DEF NextHeight, faucetVars, Heights
  <2>2. AccumulationPeriod > 0 => \A u \in Requesters : FaucetOf(given, u, requests[u], height + 1)
    BY <1>1, FaucetLater
  <2> QED
    BY <1>1, <2>1, <2>2 DEF FaucetInv
<1>4. ASSUME NEW u \in Requesters, NEW amount \in Values, RequestFunds(u, amount) PROVE FaucetInv'
  <2>1. PICK q : q = Accumulated(requests[u], amount)
    OBVIOUS
  <2>2. /\ amount <= MaxAmount /\ q.sum <= MaxAmount /\ height' = height
        /\ requests' = [requests EXCEPT ![u] = q]
        /\ given' = [given EXCEPT ![<<u, height>>] = given[<<u, height>>] + amount]
        /\ amount \in Nat
    BY <1>4, <2>1, TokensAssumption DEF RequestFunds
  <2>3. Gave(given, given', u, height, amount)
    BY <1>1, <2>2 DEF Gave
  <2>4. /\ given' \in Gifts
        /\ \A v \in Requesters : \A k \in Heights : v # u => given'[<<v, k>>] = given[<<v, k>>]
    BY <2>3, GivenMore
  <2>5. requests' \in [Requesters -> [sum : Nat, since : Nat]]
    <3>1. requests[u].sum \in Nat /\ requests[u].since \in Nat
      BY <1>1
    <3>2. q \in [sum : Nat, since : Nat]
      BY <1>1, <2>1, <2>2, <3>1 DEF Accumulated
    <3> QED
      BY <1>1, <2>2, <3>2
  <2>6. ASSUME AccumulationPeriod > 0, NEW v \in Requesters
        PROVE  FaucetOf(given', v, requests'[v], height)
    <3>1. CASE v = u
      <4>1. FaucetOf(given, u, requests[u], height) /\ requests'[u] = q
        BY <1>1, <2>2, <2>6
      <4>2. FaucetOf(given', u, q, height)
        BY <1>1, <2>1, <2>2, <2>3, <2>6, <4>1, RequestKeeps
      <4> QED
        BY <3>1, <4>1, <4>2
    <3>2. CASE v # u
      <4>1. FaucetOf(given, v, requests[v], height) /\ requests'[v] = requests[v]
        BY <1>1, <2>2, <2>6, <3>2
      <4>2. \A k \in Heights : given'[<<v, k>>] = given[<<v, k>>]
        BY <2>4, <3>2
      <4>3. FaucetOf(given', v, requests[v], height)
        BY <1>1, <2>4, <4>1, <4>2, FaucetStays
      <4> QED
        BY <4>1, <4>3
    <3> QED
      BY <3>1, <3>2
  <2> QED
    BY <1>1, <2>2, <2>4, <2>5, <2>6 DEF FaucetInv
<1>5. ASSUME NEW u, NEW amount, BridgeTransfer(u, amount) \/ Payout(u, amount)
      PROVE  UNCHANGED <<height, requests, given>>
  BY <1>5 DEF BridgeTransfer, Payout, faucetVars
<1>6. ASSUME NEW u, NEW v, NEW amount, Transfer(u, v, amount) \/ Approve(u, v, amount)
      PROVE  UNCHANGED <<height, requests, given>>
  BY <1>6 DEF Transfer, Approve, faucetVars
<1>7. ASSUME NEW u, NEW v, NEW w, NEW amount, TransferFrom(u, v, w, amount)
      PROVE  UNCHANGED <<height, requests, given>>
  BY <1>7 DEF TransferFrom, faucetVars
<1>8. ASSUME NEW p, Permit(p)
      PROVE  UNCHANGED <<height, requests, given>>
  BY <1>8 DEF Permit, faucetVars
<1>9. ASSUME NEW u, Vest(u) \/ ForceRemoveVesting(u)
      PROVE  UNCHANGED <<height, requests, given>>
  BY <1>9 DEF Vest, ForceRemoveVesting, faucetVars
<1>10. ASSUME NEW u, NEW v, NEW s, ForceVestedTransfer(u, v, s)
       PROVE  UNCHANGED <<height, requests, given>>
  BY <1>10 DEF ForceVestedTransfer, faucetVars
<1>11. UNCHANGED tokensVars => UNCHANGED <<height, requests, given>>
  BY DEF tokensVars, faucetVars
<1>12. ASSUME TokensNext
       PROVE  \/ UNCHANGED <<height, requests, given>>
              \/ NextHeight
              \/ \E u \in Requesters, amount \in Values : RequestFunds(u, amount)
  BY <1>5, <1>6, <1>7, <1>8, <1>9, <1>10, <1>12, Zenon DEF TokensNext
<1> QED
  BY <1>2, <1>3, <1>4, <1>11, <1>12

(* FaucetIsBounded, for every limit and period: also of windows that begin  *)
(* before the last period did and end in it.                               *)
THEOREM FaucetGivesTwoLimits == TokensSpec => []FaucetIsBounded
<1>1. FaucetInv => FaucetIsBounded
  <2> SUFFICES ASSUME FaucetInv, NEW u \in Requesters, NEW m \in Heights
               PROVE  GivenIn(given, u, Period(m)) <= 2 * MaxAmount
    BY DEF FaucetIsBounded, Heights
  <2>1. CASE AccumulationPeriod > 0
    BY <2>1 DEF FaucetInv, FaucetOf
  <2>2. CASE ~(AccumulationPeriod > 0)
    <3>1. AccumulationPeriod = 0 /\ m \in Nat /\ MaxAmount \in Nat
      BY <2>2, TokensAssumption DEF Heights
    <3>2. Period(m) = {}
      BY <3>1 DEF Period
    <3>3. GivenIn(given, u, Period(m)) = 0
      BY <3>2, SumEmpty DEF GivenIn
    <3> QED
      BY <3>1, <3>3
  <2> QED
    BY <2>1, <2>2
<1> QED
  BY <1>1, FaucetInitInv, FaucetNextInv, PTL DEF TokensSpec

-----------------------------------------------------------------------------
(* The slash queue *)

(* Every step of the slash queue is a step of the era life cycle or leaves *)
(* it alone, so what is proved of Eras holds here.                         *)
LEMMA NextIsEraNext == [Next]_vars => [EraNext]_eraVars
BY DEF Next, vars, slashVars, EraNext, EndSessionS, StartSessionS, PlanEraS, PlanSessionS,
       ForceErasS, Report, CancelDeferredSlash, KillStash, Bond

(* The era invariant holds in every state of the slash queue.              *)
THEOREM ErasInvariantS == Spec => []ErasInv
<1>1. Init => ErasInv
  BY InitInv DEF Init
<1>2. ErasInv /\ [Next]_vars => ErasInv'
  BY NextInv, NextIsEraNext
<1> QED
  BY <1>1, <1>2, PTL DEF Spec

(* A reportable session is charged to an era of the report window.         *)
LEMMA OffenceEraInWindow ==
  ASSUME ErasInv, NEW s \in 0..session, Reportable(s), session >= 0
  PROVE  /\ OffenceEra(s) \in Nat
         /\ OffenceEra(s) <= activeEra
         /\ activeEra <= OffenceEra(s) + BondingDuration
<1>1. s \in DOMAIN eraOfSession /\ activeEra \in Int
  BY DEF ErasInv, EraTypeOK, Counters
<1>2. OffenceEra(s) = eraOfSession[s]
  BY <1>1, ChargeFromInv DEF ReportsHitTheirEra
<1>3. eraOfSession[s] >= activeEra - BondingDuration
  BY <1>1, WindowFromInv DEF ReportWindow
<1>4. eraOfSession[s] \in Nat /\ eraOfSession[s] <= activeEra
  BY <1>1 DEF ErasInv, EraTypeOK, Counters
<1> QED
  BY <1>1, <1>2, <1>3, <1>4, ErasAssumption

(* Each record Enactments yields comes from one slash of the queue.        *)
LEMMA EnactmentsOrigin ==
  ASSUME NEW queue, NEW at, NEW arg, NEW x \in Enactments(queue, at, arg)
  PROVE  \E t \in queue : \E k \in DOMAIN t.victims :
           x = [id |-> t.id, victim |-> t.victims[k], at |-> at, slashEra |-> t.slashEra, arg |-> arg]
BY DEF Enactments

(* Type correctness.                                                       *)
THEOREM TypeCorrect == Spec => []TypeOK
<1> USE SlashAssumption, ErasAssumption
<1>1. Init => TypeOK
  BY InitInv DEF Init, TypeOK, ErasInv
<1>2. ErasInv /\ ErasInv' /\ TypeOK /\ [Next]_vars => TypeOK'
  <2> SUFFICES ASSUME ErasInv, ErasInv', TypeOK, [Next]_vars PROVE TypeOK'
    OBVIOUS
  <2>0. EraTypeOK'
    BY DEF ErasInv
  <2>1. CASE StartSessionS
    <3>1. activeEra + 1 \in Nat /\ session + 1 \in Int /\ SatSub(activeEra + 1, SlashDeferDuration) \in Nat
      BY DEF ErasInv, EraTypeOK, Counters, SatSub
    <3>2. Enactments(Due(activeEra + 1), activeEra + 1, SatSub(activeEra + 1, SlashDeferDuration))
            \subseteq Enactment
      <4> SUFFICES ASSUME NEW x \in Enactments(Due(activeEra + 1), activeEra + 1,
                                               SatSub(activeEra + 1, SlashDeferDuration))
                   PROVE  x \in Enactment
        OBVIOUS
      <4>1. PICK t \in Due(activeEra + 1) : \E k \in DOMAIN t.victims :
              x = [id |-> t.id, victim |-> t.victims[k], at |-> activeEra + 1,
                   slashEra |-> t.slashEra, arg |-> SatSub(activeEra + 1, SlashDeferDuration)]
        BY EnactmentsOrigin
      <4>2. t \in Slash
        BY DEF Due, TypeOK
      <4>3. t.id \in Nat /\ t.slashEra \in Nat /\ t.victims \in Seq(Stashes)
        BY <4>2 DEF Slash
      <4> QED
        BY <4>1, <4>3, <3>1 DEF Enactment
    <3> QED
      BY <2>0, <2>1, <3>1, <3>2 DEF StartSessionS, Take, TypeOK
  <2>2. ASSUME NEW s \in 0..session, NEW victims \in Exposures, Report(s, victims)
        PROVE  TypeOK'
    <3> DEFINE slash == [id |-> filed, victims |-> victims, slashEra |-> OffenceEra(s),
                         due |-> OffenceEra(s) + SlashDeferDuration + 1, reported |-> activeEra]
    <3>1. OffenceEra(s) \in Nat /\ activeEra \in Nat /\ session >= 0
      BY <2>2, OffenceEraInWindow DEF Report, ErasInv, EraTypeOK, Counters
    <3>2. slash \in Slash
      BY <3>1 DEF Slash, TypeOK
    <3>3. Enactments({slash}, activeEra, slash.slashEra) \subseteq Enactment
      <4> SUFFICES ASSUME NEW x \in Enactments({slash}, activeEra, slash.slashEra)
                   PROVE  x \in Enactment
        OBVIOUS
      <4>1. \E k \in DOMAIN victims :
              x = [id |-> filed, victim |-> victims[k], at |-> activeEra,
                   slashEra |-> OffenceEra(s), arg |-> OffenceEra(s)]
        BY EnactmentsOrigin
      <4> QED
        BY <4>1, <3>1 DEF Enactment, TypeOK
    <3>4. filed' \in Nat /\ bonded' = bonded /\ notified' = notified
      BY <2>2 DEF Report, TypeOK
    <3>5. enacted' \subseteq enacted \cup Enactments({slash}, activeEra, slash.slashEra)
      BY <2>2 DEF Report, Handle, EnactNow, Enqueue, DueEra
    <3>6. unapplied' \subseteq unapplied \cup {slash}
      BY <2>2 DEF Report, Handle, EnactNow, Enqueue, DueEra
    <3> HIDE DEF slash
    <3> QED
      BY <2>0, <3>2, <3>3, <3>4, <3>5, <3>6 DEF TypeOK
  <2>3. CASE EndSessionS \/ PlanEraS \/ PlanSessionS \/ ForceErasS \/ UNCHANGED vars
    BY <2>0, <2>3 DEF EndSessionS, PlanEraS, PlanSessionS, ForceErasS, vars, slashVars, TypeOK
  <2>4. ASSUME NEW era, NEW slashes, CancelDeferredSlash(era, slashes)
        PROVE  TypeOK'
    BY <2>0, <2>4 DEF CancelDeferredSlash, TypeOK
  <2>5. ASSUME NEW stash \in Stashes, KillStash(stash) \/ Bond(stash)
        PROVE  TypeOK'
    BY <2>0, <2>5 DEF KillStash, Bond, TypeOK
  <2> QED
    BY <2>1, <2>2, <2>3, <2>4, <2>5 DEF Next
<1> QED
  BY <1>1, <1>2, ErasInvariantS, PTL DEF Spec

(* Starting an era takes out exactly the slashes due in it.                *)
LEMMA StartSessionQueue ==
  ASSUME ErasInv, TypeOK, QueueInv, StartSessionS
  PROVE  QueueInv'
<1> USE SlashAssumption
<1>1. CASE StartsEra
  <2> DEFINE era == activeEra + 1
             queue == Due(era)
             new == Enactments(queue, era, SatSub(era, SlashDeferDuration))
  <2>1. /\ unapplied' = unapplied \ queue /\ enacted' = enacted \cup new
        /\ filed' = filed /\ activeEra' = era /\ activeEra \in Int
    BY <1>1 DEF StartSessionS, StartSession, StartEra, Take, TypeOK, EraTypeOK
  <2>2. \A s \in unapplied' :
          /\ SlashDeferDuration > 0
          /\ s.id < filed
          /\ s.slashEra <= s.reported /\ s.reported <= activeEra'
          /\ s.due = s.slashEra + SlashDeferDuration + 1
          /\ Timely(s) => s.due > activeEra'
    <3> SUFFICES ASSUME NEW s \in unapplied, s.due # era
                 PROVE  /\ SlashDeferDuration > 0
                        /\ s.id < filed
                        /\ s.slashEra <= s.reported /\ s.reported <= activeEra'
                        /\ s.due = s.slashEra + SlashDeferDuration + 1
                        /\ Timely(s) => s.due > activeEra'
      BY <2>1 DEF Due
    <3>1. s.slashEra \in Nat /\ s.reported \in Nat /\ s.due \in Nat /\ s.id \in Nat
      BY DEF TypeOK, Slash
    <3> QED
      BY <2>1, <3>1 DEF QueueInv
  <2>3. \A x \in new : \E t \in unapplied :
          /\ t.id = x.id /\ x.at = era /\ t.due = era /\ t.slashEra = x.slashEra
          /\ x = [id |-> t.id, victim |-> x.victim, at |-> era, slashEra |-> t.slashEra,
                  arg |-> SatSub(era, SlashDeferDuration)]
    <3> SUFFICES ASSUME NEW x \in new
                 PROVE  \E t \in unapplied :
                          /\ t.id = x.id /\ x.at = era /\ t.due = era /\ t.slashEra = x.slashEra
                          /\ x = [id |-> t.id, victim |-> x.victim, at |-> era,
                                  slashEra |-> t.slashEra, arg |-> SatSub(era, SlashDeferDuration)]
      OBVIOUS
    <3>1. PICK t \in queue : \E k \in DOMAIN t.victims :
            x = [id |-> t.id, victim |-> t.victims[k], at |-> era,
                 slashEra |-> t.slashEra, arg |-> SatSub(era, SlashDeferDuration)]
      BY EnactmentsOrigin
    <3> QED
      BY <3>1 DEF Due
  <2>4. \A x \in enacted' : x.id < filed /\ \A s \in unapplied' : s.id # x.id
    BY <2>1, <2>3 DEF QueueInv, Due
  <2>5. \A x, y \in enacted' : x.id = y.id /\ x.victim = y.victim => x = y
    BY <2>1, <2>3 DEF QueueInv, Due
  <2>6. \A x \in enacted' :
          IF SlashDeferDuration = 0
          THEN x.at \in x.slashEra..(x.slashEra + BondingDuration) /\ x.arg = x.slashEra
          ELSE x.at = x.slashEra + SlashDeferDuration + 1 /\ x.arg = x.slashEra + 1
    <3>1. \A x \in new : /\ SlashDeferDuration > 0 /\ x.at = x.slashEra + SlashDeferDuration + 1
                          /\ x.arg = x.slashEra + 1
      <4> SUFFICES ASSUME NEW x \in new
                   PROVE  /\ SlashDeferDuration > 0 /\ x.at = x.slashEra + SlashDeferDuration + 1
                          /\ x.arg = x.slashEra + 1
        OBVIOUS
      <4>1. PICK t \in unapplied :
              /\ t.due = era /\ t.slashEra = x.slashEra /\ x.at = era
              /\ x.arg = SatSub(era, SlashDeferDuration)
        BY <2>3
      <4>2. t.slashEra \in Nat /\ SlashDeferDuration > 0 /\ era = t.slashEra + SlashDeferDuration + 1
        BY <4>1 DEF QueueInv, TypeOK, Slash
      <4> QED
        BY <4>1, <4>2 DEF SatSub
    <3> HIDE DEF new
    <3> QED
      BY <2>1, <3>1 DEF QueueInv
  <2>7. \A s, t \in unapplied' : s.id = t.id => s = t
    BY <2>1 DEF QueueInv
  <2> QED
    BY <2>1, <2>2, <2>4, <2>5, <2>6, <2>7 DEF QueueInv, Timely
<1>2. CASE ~StartsEra
  BY <1>2 DEF StartSessionS, StartSession, QueueInv, Timely
<1> QED
  BY <1>1, <1>2

(* Filing a report queues a slash whose due era is still ahead if the      *)
(* report is timely, or enacts it at once when nothing is deferred.        *)
LEMMA ReportQueue ==
  ASSUME ErasInv, TypeOK, QueueInv,
         NEW s \in 0..session, NEW victims \in Exposures, Report(s, victims)
  PROVE  QueueInv'
<1> USE SlashAssumption, ErasAssumption
<1> DEFINE era == OffenceEra(s)
           slash == [id |-> filed, victims |-> victims, slashEra |-> era,
                     due |-> era + SlashDeferDuration + 1, reported |-> activeEra]
           new == Enactments({slash}, activeEra, era)
<1>1. /\ era \in Nat /\ era <= activeEra /\ activeEra <= era + BondingDuration
      /\ activeEra \in Nat /\ filed \in Nat
  BY OffenceEraInWindow DEF Report, ErasInv, EraTypeOK, Counters, TypeOK
<1>2. filed' = filed + 1 /\ activeEra' = activeEra
  BY DEF Report, eraVars
<1>3. \A t \in unapplied : t.id < filed /\ t.id \in Nat
  BY DEF QueueInv, TypeOK, Slash
<1>4. \A x \in enacted : x.id < filed /\ x.id \in Nat
  BY DEF QueueInv, TypeOK, Enactment
<1>5. CASE SlashDeferDuration = 0
  <2>1. unapplied' = unapplied /\ enacted' = enacted \cup new
    BY <1>5 DEF Report, Handle, EnactNow, Enqueue, DueEra
  <2>2. \A x \in new : /\ x.id = filed /\ x.at = activeEra /\ x.slashEra = era /\ x.arg = era
                       /\ x = [id |-> filed, victim |-> x.victim, at |-> activeEra,
                               slashEra |-> era, arg |-> era]
    <3> SUFFICES ASSUME NEW x \in new
                 PROVE  /\ x.id = filed /\ x.at = activeEra /\ x.slashEra = era /\ x.arg = era
                        /\ x = [id |-> filed, victim |-> x.victim, at |-> activeEra,
                                slashEra |-> era, arg |-> era]
      OBVIOUS
    <3>1. \E k \in DOMAIN victims :
            x = [id |-> filed, victim |-> victims[k], at |-> activeEra,
                 slashEra |-> era, arg |-> era]
      BY EnactmentsOrigin
    <3> QED
      BY <3>1
  <2>3. unapplied = {}
    BY <1>5 DEF QueueInv
  <2> HIDE DEF new, era
  <2>4. \A x \in enacted' : x.id < filed'
    BY <1>1, <1>2, <1>4, <2>1, <2>2
  <2>5. \A x, y \in enacted' : x.id = y.id /\ x.victim = y.victim => x = y
    BY <1>1, <1>4, <2>1, <2>2 DEF QueueInv
  <2>6. \A x \in enacted' : x.at \in x.slashEra..(x.slashEra + BondingDuration) /\ x.arg = x.slashEra
    <3>1. \A x \in new : x.at \in x.slashEra..(x.slashEra + BondingDuration) /\ x.arg = x.slashEra
      BY <1>1, <2>2
    <3>2. \A x \in enacted : x.at \in x.slashEra..(x.slashEra + BondingDuration) /\ x.arg = x.slashEra
      BY <1>5 DEF QueueInv
    <3> QED
      BY <2>1, <3>1, <3>2
  <2> QED
    BY <1>5, <2>1, <2>3, <2>4, <2>5, <2>6 DEF QueueInv
<1>6. CASE SlashDeferDuration # 0
  <2>1. unapplied' = unapplied \cup {slash} /\ enacted' = enacted
    BY <1>6 DEF Report, Handle, EnactNow, Enqueue, DueEra
  <2>2. /\ slash.id = filed /\ slash.slashEra = era /\ slash.reported = activeEra
        /\ slash.due = era + SlashDeferDuration + 1
    OBVIOUS
  <2> HIDE DEF slash, era
  <2>3. Timely(slash) => slash.due > activeEra
    BY <1>1, <2>2 DEF Timely
  <2>4. \A t \in unapplied' :
          /\ SlashDeferDuration > 0
          /\ t.id < filed'
          /\ t.slashEra <= t.reported /\ t.reported <= activeEra'
          /\ t.due = t.slashEra + SlashDeferDuration + 1
          /\ Timely(t) => t.due > activeEra'
    BY <1>1, <1>2, <1>3, <1>6, <2>1, <2>2, <2>3 DEF QueueInv
  <2>5. \A t, u \in unapplied' : t.id = u.id => t = u
    BY <1>1, <1>3, <2>1, <2>2 DEF QueueInv
  <2>6. \A x \in enacted' : x.id < filed' /\ \A t \in unapplied' : t.id # x.id
    BY <1>1, <1>2, <1>4, <2>1, <2>2 DEF QueueInv
  <2>7. \A x \in enacted' :
          /\ \A y \in enacted' : x.id = y.id /\ x.victim = y.victim => x = y
          /\ IF SlashDeferDuration = 0
             THEN x.at \in x.slashEra..(x.slashEra + BondingDuration) /\ x.arg = x.slashEra
             ELSE x.at = x.slashEra + SlashDeferDuration + 1 /\ x.arg = x.slashEra + 1
    BY <2>1 DEF QueueInv
  <2> QED
    BY <1>6, <2>4, <2>5, <2>6, <2>7 DEF QueueInv, Timely
<1> QED
  BY <1>5, <1>6

(* The queue invariant holds in every state.                               *)
THEOREM QueueInvariant == Spec => []QueueInv
<1>1. Init => QueueInv
  BY DEF Init, QueueInv
<1>2. ErasInv /\ TypeOK /\ QueueInv /\ [Next]_vars => QueueInv'
  <2> SUFFICES ASSUME ErasInv, TypeOK, QueueInv, [Next]_vars PROVE QueueInv'
    OBVIOUS
  <2>1. CASE StartSessionS
    BY <2>1, StartSessionQueue
  <2>2. ASSUME NEW s \in 0..session, NEW victims \in Exposures, Report(s, victims)
        PROVE  QueueInv'
    BY <2>2, ReportQueue
  <2>3. CASE EndSessionS \/ PlanEraS \/ PlanSessionS \/ ForceErasS \/ UNCHANGED vars
    BY <2>3 DEF EndSessionS, PlanEraS, PlanSessionS, PlanEra, PlanSession, PlanNext, EndSession,
                ForceErasS, ForceEras, vars, eraVars, slashVars, QueueInv, Timely
  <2>4. ASSUME NEW era, NEW slashes, CancelDeferredSlash(era, slashes)
        PROVE  QueueInv'
    BY <2>4 DEF CancelDeferredSlash, eraVars, QueueInv, Timely
  <2>5. ASSUME NEW stash \in Stashes, KillStash(stash) \/ Bond(stash)
        PROVE  QueueInv'
    BY <2>5 DEF KillStash, Bond, eraVars, QueueInv, Timely
  <2> QED
    BY <2>1, <2>2, <2>3, <2>4, <2>5 DEF Next
<1> QED
  BY <1>1, <1>2, ErasInvariantS, TypeCorrect, PTL DEF Spec

(* TimelySlashesStillDue: a slash reported within SlashDeferDuration eras  *)
(* of the offence is never left behind by the era start that enacts it.    *)
THEOREM TimelyNeverStranded == Spec => []TimelySlashesStillDue
<1>1. QueueInv => TimelySlashesStillDue
  BY DEF QueueInv, TimelySlashesStillDue
<1> QED
  BY <1>1, QueueInvariant, PTL

(* EnactedOnce: no slash is taken from the same victim twice.              *)
THEOREM SlashedAtMostOnce == Spec => []EnactedOnce
<1>1. QueueInv => EnactedOnce
  BY DEF QueueInv, EnactedOnce
<1> QED
  BY <1>1, QueueInvariant, PTL

(* EnactedWhenDue: deferral is measured from the offence, exactly.         *)
THEOREM SlashedWhenDue == Spec => []EnactedWhenDue
<1>1. QueueInv => EnactedWhenDue
  BY DEF QueueInv, EnactedWhenDue
<1> QED
  BY <1>1, QueueInvariant, PTL

(***************************************************************************)
(* Refinement: the queue keeps the promise of SlashPromise.                *)
(***************************************************************************)
(* What is enacted is a sentence of the case that is on file.              *)
LEMMA EnactmentsAreSentences ==
  ASSUME NEW queue \in SUBSET Slash, NEW at, NEW arg
  PROVE  {SentenceOf(x) : x \in Enactments(queue, at, arg)}
           \subseteq Promise!Sentences({CaseOf(t) : t \in queue}, at)
<1> SUFFICES ASSUME NEW x \in Enactments(queue, at, arg)
             PROVE  SentenceOf(x) \in Promise!Sentences({CaseOf(t) : t \in queue}, at)
  OBVIOUS
<1>1. PICK t \in queue : \E k \in DOMAIN t.victims :
        x = [id |-> t.id, victim |-> t.victims[k], at |-> at, slashEra |-> t.slashEra, arg |-> arg]
  BY EnactmentsOrigin
<1>2. t.victims \in Seq(Stashes)
  BY SlashAssumption DEF Slash
<1>3. PICK k \in DOMAIN t.victims :
        x = [id |-> t.id, victim |-> t.victims[k], at |-> at, slashEra |-> t.slashEra, arg |-> arg]
  BY <1>1
<1>4. t.victims[k] \in Stashes
  BY <1>2, <1>3
<1>5. SentenceOf(x) = [id |-> CaseOf(t).id, victim |-> t.victims[k], since |-> CaseOf(t).since, at |-> at]
  BY <1>3 DEF SentenceOf, CaseOf
<1>6. CaseOf(t) \in {CaseOf(u) : u \in queue}
  OBVIOUS
<1> QED
  BY <1>4, <1>5, <1>6 DEF Promise!Sentences

(* Starting an era closes the cases whose day it is.                       *)
LEMMA EraClosesCases ==
  ASSUME TypeOK, QueueInv, StartSessionS, StartsEra
  PROVE  Promise!NextEra
<1> DEFINE at    == activeEra + 1
           queue == Due(at)
           arg   == SatSub(at, SlashDeferDuration)
           new   == Enactments(queue, at, arg)
           open  == {CaseOf(s) : s \in unapplied}
           due   == {c \in open : c.since + SlashDeferDuration + 1 = at}
           some  == {SentenceOf(x) : x \in new}
<1>1. /\ unapplied' = unapplied \ queue /\ enacted' = enacted \cup new
      /\ activeEra' = at
  BY DEF StartSessionS, StartSession, StartEra, Take
<1>2. \A s \in unapplied : s.due = s.slashEra + SlashDeferDuration + 1
  BY DEF QueueInv
<1>3. due = {CaseOf(t) : t \in queue}
  BY <1>2 DEF Due, CaseOf
<1>4. {CaseOf(s) : s \in unapplied'} = open \ due
  BY <1>1, <1>2 DEF Due, CaseOf
<1>5. some \in SUBSET Promise!Sentences(due, at)
  <2>1. queue \in SUBSET Slash
    BY DEF Due, TypeOK
  <2> HIDE DEF queue, arg, due
  <2> QED
    BY <2>1, <1>3, EnactmentsAreSentences
<1>6. {SentenceOf(x) : x \in enacted'} = {SentenceOf(x) : x \in enacted} \cup some
  <2> HIDE DEF new
  <2> QED
    BY <1>1
<1>7. due = {c \in open : Promise!Day(c) = at}
  BY DEF Promise!Day
<1> HIDE DEF some, due
<1> QED
  BY <1>1, <1>4, <1>5, <1>6, <1>7 DEF Promise!NextEra

(* A report opens a case, or is the sentence when nothing is deferred.     *)
LEMMA ReportFilesCase ==
  ASSUME ErasInv, TypeOK, QueueInv,
         NEW s \in 0..session, NEW victims \in Exposures, Report(s, victims)
  PROVE  \E id \in 0..MaxReports, since \in 0..activeEra : Promise!File(id, since)
<1> DEFINE since == OffenceEra(s)
           slash == [id |-> filed, victims |-> victims, slashEra |-> since,
                     due |-> DueEra(since), reported |-> activeEra]
           new   == Enactments({slash}, activeEra, since)
           some  == {SentenceOf(x) : x \in new}
<1>1. /\ since \in Nat /\ since <= activeEra /\ activeEra <= since + BondingDuration
      /\ activeEra \in Nat /\ filed \in Nat
  BY OffenceEraInWindow DEF Report, ErasInv, EraTypeOK, Counters, TypeOK
<1>2. filed \in 0..MaxReports /\ since \in 0..activeEra
  BY <1>1, SlashAssumption DEF Report
<1>3. Promise!Reportable(since) /\ activeEra' = activeEra
  BY <1>1 DEF Promise!Reportable, Report, eraVars
<1>4. Promise!Fresh(filed)
  <2>1. \A t \in unapplied : CaseOf(t).id # filed
    BY <1>1 DEF QueueInv, CaseOf, TypeOK, Slash
  <2>2. \A x \in enacted : SentenceOf(x).id # filed
    BY <1>1 DEF QueueInv, SentenceOf, TypeOK, Enactment
  <2> QED
    BY <2>1, <2>2 DEF Promise!Fresh
<1>5. slash \in Slash
  BY <1>1, SlashAssumption DEF Slash, DueEra
<1>6. CaseOf(slash) = [id |-> filed, since |-> since] /\ slash.slashEra = since
  BY DEF CaseOf
<1>7. CASE SlashDeferDuration = 0
  <2>1. unapplied' = unapplied /\ enacted' = enacted \cup new
    BY <1>7 DEF Report, Handle, EnactNow
  <2> HIDE DEF slash, since
  <2>2. some \in SUBSET Promise!Sentences({[id |-> filed, since |-> since]}, activeEra)
    <3>1. {CaseOf(t) : t \in {slash}} = {[id |-> filed, since |-> since]}
      BY <1>6
    <3>2. {slash} \in SUBSET Slash
      BY <1>5
    <3> QED
      BY <3>1, <3>2, EnactmentsAreSentences
  <2> HIDE DEF new
  <2>3. {SentenceOf(x) : x \in enacted'} = {SentenceOf(x) : x \in enacted} \cup some
    BY <2>1
  <2> HIDE DEF some
  <2>4. Promise!File(filed, since)
    BY <1>3, <1>4, <1>7, <2>1, <2>2, <2>3 DEF Promise!File
  <2> QED
    BY <1>2, <2>4
<1>8. CASE SlashDeferDuration # 0
  <2>1. unapplied' = unapplied \cup {slash} /\ enacted' = enacted
    BY <1>8 DEF Report, Handle, Enqueue
  <2> HIDE DEF slash, since
  <2>2. {CaseOf(t) : t \in unapplied'} = {CaseOf(t) : t \in unapplied} \cup {[id |-> filed, since |-> since]}
    BY <1>6, <2>1
  <2>3. Promise!File(filed, since)
    BY <1>3, <1>4, <1>8, <2>1, <2>2 DEF Promise!File
  <2> QED
    BY <1>2, <2>3
<1> QED
  BY <1>7, <1>8

(* Cancelling slashes drops their cases and no other: two slashes never    *)
(* share a case.                                                           *)
LEMMA CancelDropsCases ==
  ASSUME QueueInv, NEW slashes, NEW era, CancelDeferredSlash(era, slashes)
  PROVE  \E cases \in SUBSET {CaseOf(s) : s \in unapplied} : Promise!Drop(cases)
<1> DEFINE cases == {CaseOf(s) : s \in slashes}
<1>1. slashes \subseteq unapplied /\ unapplied' = unapplied \ slashes
  BY DEF CancelDeferredSlash, Due
<1>2. \A s, t \in unapplied : CaseOf(s) = CaseOf(t) => s = t
  <2> SUFFICES ASSUME NEW s \in unapplied, NEW t \in unapplied, CaseOf(s) = CaseOf(t)
               PROVE  s = t
    OBVIOUS
  <2>1. s.id = t.id
    BY DEF CaseOf
  <2> QED
    BY <2>1 DEF QueueInv
<1>3. {CaseOf(s) : s \in unapplied'} = {CaseOf(s) : s \in unapplied} \ cases
  BY <1>1, <1>2
<1>4. cases \in SUBSET {CaseOf(s) : s \in unapplied}
  BY <1>1
<1>5. activeEra' = activeEra /\ enacted' = enacted
  BY DEF CancelDeferredSlash, eraVars
<1> HIDE DEF cases
<1>6. Promise!Drop(cases)
  BY <1>3, <1>5 DEF Promise!Drop
<1> QED
  BY <1>4, <1>6

(* KeepsPromise: every behaviour of the queue, with its sessions, failed   *)
(* slashes and dead stashes, is one of SlashPromise.                       *)
THEOREM PromiseKept == Spec => KeepsPromise
<1>1. Init => Promise!Init
  BY DEF Init, EraInit, Promise!Init
<1>2. ErasInv /\ TypeOK /\ QueueInv /\ [Next]_vars => [Promise!Next]_(Promise!vars)
  <2> SUFFICES ASSUME ErasInv, TypeOK, QueueInv, [Next]_vars
               PROVE  Promise!Next \/ UNCHANGED Promise!vars
    OBVIOUS
  <2>1. CASE StartSessionS /\ StartsEra
    BY <2>1, EraClosesCases DEF Promise!Next
  <2>2. CASE StartSessionS /\ ~StartsEra
    <3>1. UNCHANGED <<activeEra, unapplied, enacted>>
      BY <2>2 DEF StartSessionS, StartSession
    <3> QED
      BY <3>1 DEF Promise!vars
  <2>3. ASSUME NEW s \in 0..session, NEW victims \in Exposures, Report(s, victims)
        PROVE  Promise!Next
    BY <2>3, ReportFilesCase DEF Promise!Next
  <2>4. CASE EndSessionS \/ PlanEraS \/ PlanSessionS \/ ForceErasS \/ UNCHANGED vars
    <3>1. UNCHANGED <<activeEra, unapplied, enacted>>
      BY <2>4 DEF EndSessionS, PlanEraS, PlanSessionS, PlanEra, PlanSession, PlanNext, EndSession,
                  ForceErasS, ForceEras, vars, eraVars, slashVars
    <3> QED
      BY <3>1 DEF Promise!vars
  <2>5. ASSUME NEW era, NEW slashes, CancelDeferredSlash(era, slashes)
        PROVE  Promise!Next
    BY <2>5, CancelDropsCases DEF Promise!Next
  <2>6. ASSUME NEW stash \in Stashes, KillStash(stash) \/ Bond(stash)
        PROVE  UNCHANGED Promise!vars
    <3>1. UNCHANGED <<activeEra, unapplied, enacted>>
      BY <2>6 DEF KillStash, Bond, eraVars
    <3> QED
      BY <3>1 DEF Promise!vars
  <2> QED
    BY <2>1, <2>2, <2>3, <2>4, <2>5, <2>6 DEF Next
<1> QED
  BY <1>1, <1>2, ErasInvariantS, TypeCorrect, QueueInvariant, PTL
  DEF Spec, KeepsPromise, Promise!Spec

====================================================================================
