------------------------------- MODULE Privileges -------------------------------
(***************************************************************************)
(* The years of pallet privileges: VIP and VIPP points are earned day by    *)
(* day, filed at the turn of the year, and paid from the rewards of that    *)
(* year.                                                                   *)
(*                                                                         *)
(* A date is a number of days; years have DaysPerYear days. The pallet      *)
(* learns of the date at the end of an era (update_quarter_info) and from   *)
(* root (update_time). Thresholds of VIPPs are module Membership's, and     *)
(* appear as their sum; stakes are module Cooperation's, as are the taxes   *)
(* of leaving.                                                             *)
(***************************************************************************)
EXTENDS Integers, FiniteSetsExt, Maps

CONSTANTS
  Members,
  DaysPerYear,
  MaxDay,          \* bound on the clock
  MaxGap,          \* days between the ends of two eras, at most
  MaxUpdateDays,   \* MAX_UPDATE_DAYS
  IncreaseConstant,\* INCREASE_VIP_POINTS_CONSTANT
  Stakes,          \* active stakes of members
  Thresholds,      \* thresholds of single VIPPs
  MaxThreshold,    \* bound on the sum of those of a member
  RewardSums,      \* rewards of a year
  ForcedPoints,    \* bound: points that root sets
  Funds            \* what the pallet's account has to pay from

ASSUME PrivilegesAssumption ==
  /\ IsFiniteSet(Members)
  /\ {DaysPerYear, MaxUpdateDays, IncreaseConstant} \subseteq Nat \ {0}
  /\ {MaxDay, MaxGap, MaxThreshold, Funds} \subseteq Nat
  /\ DaysPerYear - 1 <= MaxDay
  /\ Stakes \cup Thresholds \cup RewardSums \cup ForcedPoints \subseteq Nat

VARIABLES
  clock,       \* today, by the timestamp
  lastEra,     \* the day of the last end of an era
  date,        \* CurrentDate
  vip,         \* VipMembers: points and active stake
  vipp,        \* VippMembers: points and the sum of the thresholds
  vipPoints,   \* VipPoints, by year and member
  vippPoints,  \* VippPoints
  rewards,     \* Rewards, by year
  funds,       \* the pallet's account
  earned,      \* history: VIP points of the days of each year, by year and member
  due,         \* history: who was a member when a year ended
  taken        \* history: what was paid, by year and member

memberVars == <<vip, vipp>>
yearVars == <<vipPoints, vippPoints, rewards, funds, taken>>
privilegesVars == <<clock, lastEra, date, memberVars, yearVars, earned, due>>

At(f, x, default) == IF x \in DOMAIN f THEN f[x] ELSE default
Lesser(x, y) == IF x < y THEN x ELSE y

Year(day) == day \div DaysPerYear
DaysSinceNewYear(day) == day % DaysPerYear

PrivilegesTypeOK ==
  /\ lastEra \in 0 .. MaxDay /\ clock \in lastEra .. MaxDay /\ date \in 0 .. clock
  /\ \A a \in DOMAIN vip : a \in Members /\ vip[a].points \in Nat /\ vip[a].stake \in Stakes \cup {0}
  /\ \A a \in DOMAIN vipp : a \in Members /\ vipp[a].points \in Nat /\ vipp[a].threshold \in Nat
  /\ DOMAIN vipPoints \cup DOMAIN vippPoints \subseteq (0 .. Year(date)) \X Members
  /\ DOMAIN rewards \subseteq 0 .. Year(date)
  /\ funds \in 0 .. Funds

(* Genesis sets the date.                                                  *)
PrivilegesInit ==
  /\ \E today \in 0 .. DaysPerYear - 1 : clock = today /\ lastEra = today /\ date = today
  /\ vip = Nothing /\ vipp = Nothing
  /\ vipPoints = Nothing /\ vippPoints = Nothing /\ rewards = Nothing
  /\ funds = Funds
  /\ earned = Nothing /\ due = {} /\ taken = Nothing

-----------------------------------------------------------------------------
(* Days and years. What a day changes is a record of the variables below.   *)

Books == [vip |-> vip, vipp |-> vipp, vipPoints |-> vipPoints, vippPoints |-> vippPoints,
          earned |-> earned, due |-> due]

(* calculate_points: a part of the stake, rounded to the nearest, down in   *)
(* the middle.                                                             *)
Points(stake, elapsed) ==
  LET divisor == IncreaseConstant + elapsed
  IN  (2 * stake + divisor - 1) \div (2 * divisor)

(* update_points_for_time and update_vipp_points_for_time: nothing on the   *)
(* first day of a year.                                                    *)
UpdatePoints(b, day) ==
  LET elapsed == DaysSinceNewYear(day)
      key(a)  == <<Year(day), a>>
  IN  IF elapsed = 0 THEN b
      ELSE [b EXCEPT
             !.vip = [a \in DOMAIN b.vip |->
                        [b.vip[a] EXCEPT !.points = @ + Points(b.vip[a].stake, elapsed)]],
             !.vipp = [a \in DOMAIN b.vipp |->
                        [b.vipp[a] EXCEPT !.points = @ +
                           Lesser(b.vipp[a].threshold,
                                  IF a \in DOMAIN b.vip THEN b.vip[a].stake ELSE 0)]],
             !.earned = [k \in DOMAIN @ \cup {key(a) : a \in DOMAIN b.vip} |->
                          At(b.earned, k, 0) +
                            (IF k[1] = Year(day) /\ k[2] \in DOMAIN b.vip
                             THEN Points(b.vip[k[2]].stake, elapsed) ELSE 0)]]

(* Points of a list of members, filed under a year.                        *)
File(filed, members, year) ==
  [k \in DOMAIN filed \cup {<<year, a>> : a \in DOMAIN members} |->
     IF k[1] = year /\ k[2] \in DOMAIN members THEN members[k[2]].points ELSE filed[k]]

(* Mutant: the new year starts with the points of the old one.             *)
ResetNothing(members) == members

Reset(members) == [a \in DOMAIN members |-> [members[a] EXCEPT !.points = 0]]

SaveYearInfo(b, year) ==
  [b EXCEPT !.vipPoints = File(@, b.vip, year), !.vippPoints = File(@, b.vipp, year),
            !.vip = Reset(b.vip), !.vipp = Reset(b.vipp)]

(* One day: points, and on the first day of a year the year before is filed. *)
OneDay(b, day) ==
  LET pointed == UpdatePoints(b, day)
  IN  IF DaysSinceNewYear(day) = 0 THEN SaveYearInfo(pointed, Year(day) - 1) ELSE pointed

Write(b) ==
  /\ vip' = b.vip /\ vipp' = b.vipp
  /\ vipPoints' = b.vipPoints /\ vippPoints' = b.vippPoints
  /\ earned' = b.earned
  /\ UNCHANGED <<rewards, funds, taken>>

(* History: whoever is a member when the date passes from one year to a     *)
(* later one is due the points of the first.                               *)
TurnOfYear(new) ==
  due' = IF Year(new) > Year(date) THEN due \cup {<<Year(date), a>> : a \in DOMAIN vip} ELSE due

Tick ==
  /\ clock < MaxDay
  /\ clock + 1 - lastEra <= MaxGap
  /\ clock' = clock + 1
  /\ UNCHANGED <<lastEra, date, memberVars, yearVars, earned, due>>

(* update_quarter_info: if the day of the year is another one, the points   *)
(* of that day are given, and none of the days between.                    *)
UpdateQuarterInfo ==
  /\ lastEra' = clock
  /\ UNCHANGED clock
  /\ IF DaysSinceNewYear(date) = DaysSinceNewYear(clock)
     THEN UNCHANGED <<date, memberVars, yearVars, earned, due>>
     ELSE /\ Write(OneDay(Books, clock))
          /\ TurnOfYear(clock)
          /\ date' = clock

(* update_time: day by day, with a limit, then the date is set. Root does   *)
(* not set dates of the future.                                            *)
UpdateTime(new) ==
  /\ new > date
  /\ LET days == Lesser(new - date, MaxUpdateDays)
         after[n \in 0 .. days] == IF n = 0 THEN Books ELSE OneDay(after[n - 1], date + n)
     IN  Write(after[days])
  /\ TurnOfYear(new)
  /\ date' = new
  /\ UNCHANGED <<clock, lastEra>>

-----------------------------------------------------------------------------
(* Members *)

(* become_vip_status of a validator or cooperator, whose new VIPP, if there *)
(* is one, replaces the entry of VippMembers.                              *)
BecomeVipStatus(a, stake, newVipp, threshold) ==
  /\ a \notin DOMAIN vip
  /\ vip' = Put(vip, a, [points |-> 0, stake |-> stake])
  /\ vipp' = IF newVipp THEN Put(vipp, a, [points |-> 0, threshold |-> threshold]) ELSE vipp
  /\ earned' = Put(earned, <<Year(date), a>>, 0)
  /\ UNCHANGED <<clock, lastEra, date, yearVars, due>>

(* do_exit_vip: the points of the year are lost.                           *)
DoExitVip(a) ==
  /\ a \in DOMAIN vip
  /\ vip' = Drop(vip, a)
  /\ vipp' = Drop(vipp, a)
  /\ earned' = Put(earned, <<Year(date), a>>, 0)
  /\ UNCHANGED <<clock, lastEra, date, yearVars, due>>

(* The hook update_active_stake, and kick_account_from_vip with no stake.   *)
UpdateActiveStake(a, stake) ==
  /\ a \in DOMAIN vip
  /\ vip' = [vip EXCEPT ![a].stake = stake]
  /\ UNCHANGED <<clock, lastEra, date, vipp, yearVars, earned, due>>

MintNewVippNft(a, threshold) ==
  /\ threshold + (IF a \in DOMAIN vipp THEN vipp[a].threshold ELSE 0) <= MaxThreshold
  /\ vipp' = IF a \in DOMAIN vipp THEN [vipp EXCEPT ![a].threshold = @ + threshold]
             ELSE Put(vipp, a, [points |-> 0, threshold |-> threshold])
  /\ UNCHANGED <<clock, lastEra, date, vip, yearVars, earned, due>>

(* The last threshold takes the entry, and its points, with it.             *)
BurnVippThreshold(a, threshold, last) ==
  /\ a \in DOMAIN vipp
  /\ threshold <= vipp[a].threshold
  /\ last => threshold = vipp[a].threshold
  /\ vipp' = IF last THEN Drop(vipp, a) ELSE [vipp EXCEPT ![a].threshold = @ - threshold]
  /\ UNCHANGED <<clock, lastEra, date, vip, yearVars, earned, due>>

-----------------------------------------------------------------------------
(* Root and rewards *)

(* force_set_vip_points: of this year for members only, of past years for    *)
(* any account, and no more when the rewards of the year are set.          *)
ForceSetVipPoints(year, a, points) ==
  /\ year <= Year(date) /\ year \notin DOMAIN rewards
  /\ IF year = Year(date)
     THEN /\ a \in DOMAIN vip
          /\ vip' = [vip EXCEPT ![a].points = points]
          /\ UNCHANGED vipPoints
     ELSE vipPoints' = Put(vipPoints, <<year, a>>, points) /\ UNCHANGED vip
  /\ earned' = Put(earned, <<year, a>>, points)
  /\ UNCHANGED <<clock, lastEra, date, vipp, vippPoints, rewards, funds, due, taken>>

ForceSetVippPoints(year, a, points) ==
  /\ year <= Year(date) /\ year \notin DOMAIN rewards
  /\ IF year = Year(date)
     THEN /\ a \in DOMAIN vipp
          /\ vipp' = [vipp EXCEPT ![a].points = points]
          /\ UNCHANGED vippPoints
     ELSE vippPoints' = Put(vippPoints, <<year, a>>, points) /\ UNCHANGED vipp
  /\ UNCHANGED <<clock, lastEra, date, vip, vipPoints, rewards, funds, earned, due, taken>>

TotalPoints(filed, year) ==
  SumFunctionOnSet(filed, {k \in DOMAIN filed : k[1] = year})

SetRewards(year, vipRewards, vippRewards) ==
  /\ year < Year(date) /\ year \notin DOMAIN rewards
  /\ rewards' = Put(rewards, year,
                    [vipPoints  |-> TotalPoints(vipPoints, year),  vip  |-> vipRewards,
                     vippPoints |-> TotalPoints(vippPoints, year), vipp |-> vippRewards])
  /\ UNCHANGED <<clock, lastEra, date, memberVars, vipPoints, vippPoints, funds, earned, due, taken>>

(* Perquintill::from_rational(part, whole) * sum: all if there is no whole, *)
(* or the part is larger.                                                  *)
Share(part, whole, sum) ==
  IF part >= whole THEN sum ELSE (2 * part * sum + whole - 1) \div (2 * whole)

(* Mutant: points are read and stay.                                       *)
ReadPoints(filed, k) == filed

TakePoints(filed, k) == Drop(filed, k)

(* claim_rewards: nothing without VIP points, though they be zero.         *)
ClaimRewards(year, a) ==
  LET k == <<year, a>>
      r == rewards[year]
      vipShare  == Share(vipPoints[k], r.vipPoints, r.vip)
      vippShare == IF k \in DOMAIN vippPoints THEN Share(vippPoints[k], r.vippPoints, r.vipp) ELSE 0
  IN  /\ year \in DOMAIN rewards
      /\ k \in DOMAIN vipPoints
      /\ vipShare + vippShare <= funds
      /\ vipPoints' = TakePoints(vipPoints, k)
      /\ vippPoints' = TakePoints(vippPoints, k)
      /\ funds' = funds - vipShare - vippShare
      /\ taken' = Put(taken, k, [vip  |-> At(taken, k, [vip |-> 0, vipp |-> 0]).vip + vipShare,
                                 vipp |-> At(taken, k, [vip |-> 0, vipp |-> 0]).vipp + vippShare])
      /\ UNCHANGED <<clock, lastEra, date, memberVars, rewards, earned, due>>

PrivilegesNext ==
  \/ Tick
  \/ UpdateQuarterInfo
  \/ \E new \in date + 1 .. clock : UpdateTime(new)
  \/ \E a \in Members :
       \/ \E stake \in Stakes, newVipp \in BOOLEAN, threshold \in Thresholds :
            BecomeVipStatus(a, stake, newVipp, threshold)
       \/ DoExitVip(a)
       \/ \E stake \in Stakes \cup {0} : UpdateActiveStake(a, stake)
       \/ \E threshold \in Thresholds : MintNewVippNft(a, threshold)
       \/ \E threshold \in Thresholds, last \in BOOLEAN : BurnVippThreshold(a, threshold, last)
       \/ \E year \in 0 .. Year(date) :
            \/ \E points \in ForcedPoints : ForceSetVipPoints(year, a, points)
            \/ \E points \in ForcedPoints : ForceSetVippPoints(year, a, points)
            \/ ClaimRewards(year, a)
  \/ \E year \in 0 .. Year(date), vipRewards, vippRewards \in RewardSums :
       SetRewards(year, vipRewards, vippRewards)

PrivilegesSpec == PrivilegesInit /\ [][PrivilegesNext]_privilegesVars

-----------------------------------------------------------------------------
(* Properties *)

(* Points belong to the year whose days they were earned in: a member has   *)
(* those of this year, what is filed under a year is what was earned in it  *)
(* (or what root set), and who was a member at the turn of a year has its   *)
(* points filed or was paid for them. It takes an era's end on the first    *)
(* day of every year.                                                      *)
YearsAreFiled ==
  /\ PrivilegesTypeOK
  /\ \A a \in DOMAIN vip : vip[a].points = At(earned, <<Year(date), a>>, 0)
  /\ \A k \in DOMAIN vipPoints : vipPoints[k] = At(earned, k, 0)
  /\ due \subseteq DOMAIN vipPoints \cup DOMAIN taken

Paid(year, kind) ==
  SumFunctionOnSet([k \in DOMAIN taken |-> taken[k][kind]], {k \in DOMAIN taken : k[1] = year})

(* Who has points in a year is paid once and in proportion, so that a year  *)
(* costs what was allocated for it, up to a unit of rounding for each       *)
(* member: as long as somebody has points at all.                          *)
RewardsAreShared ==
  \A year \in DOMAIN rewards :
    /\ rewards[year].vipPoints > 0 =>
         Paid(year, "vip") <= rewards[year].vip + Cardinality(Members)
    /\ rewards[year].vippPoints > 0 =>
         Paid(year, "vipp") <= rewards[year].vipp + Cardinality(Members)
================================================================================
