--------------------------- MODULE SlashingSpans ---------------------------
(***************************************************************************)
(* slashing.rs of pallet energy-generation, for one stash: what an offence *)
(* adds to its slashes, given the slashing spans its eras fall into.       *)
(*                                                                         *)
(* A slash is of reputation and of stake, an entity [rep, stake].  Shares  *)
(* are in percent.  `now` is the active era; the eras an offence can be    *)
(* charged to are those BondedEras keeps, see module Eras.                 *)
(***************************************************************************)
EXTENDS Integers, FiniteSetsExt, SequencesExt

CONSTANTS
  WindowLength,      \* T::BondingDuration, in eras
  RewardProportion,  \* SlashRewardFraction, percent
  Exposures,         \* what the stash may have exposed in an era
  Points,            \* reputation points it may have when it is reported
  Fractions,         \* slash fractions of offences, percent
  LastEra,           \* bound on the eras explored
  MaxReports         \* bound on the offences reported

SpansAssumption ==
  /\ WindowLength \in Nat
  /\ RewardProportion \in 0..100
  /\ Exposures \subseteq Nat /\ Points \subseteq Nat
  /\ Fractions \subseteq 0..100
  /\ LastEra \in Nat /\ MaxReports \in Nat

ASSUME SpansAssumed == SpansAssumption

VARIABLES
  now,        \* ActiveEra.index
  exposed,    \* exposure of the stash in every era, ErasStakers
  role,       \* what it was exposed as in every era
  spans,      \* SlashingSpans: [index, lastStart, prior], or NoSpans
  records,    \* SpanSlash: span index |-> [slashed, paidOut]
  eraLoss,    \* ValidatorSlashInEra: era |-> [rep, stake] in percent
  eraSlash,   \* CooperatorSlashInEra: era |-> [rep, stake]
  reports,    \* counts the offences
  taken,      \* history: span index |-> what was added to the slashes
  worst       \* history: span index |-> the largest slash found, by component

spansVars == <<now, exposed, role, spans, records, eraLoss, eraSlash, reports, taken, worst>>

NoSpans == [index |-> -1, lastStart |-> 0, prior |-> <<>>]
Zero    == [rep |-> 0, stake |-> 0]
Empty   == [i \in {} |-> Zero]

Eras == 0..LastEra

SaturatingSub(a, b) == IF a >= b THEN a - b ELSE 0

(* Perbill times an amount, rounded to the nearest, halves down.           *)
PercentOf(pct, amount) == (pct * amount + 49) \div 100

Each(a, b, op(_, _)) == [rep |-> op(a.rep, b.rep), stake |-> op(a.stake, b.stake)]
Plus(a, b)      == Each(a, b, LAMBDA x, y : x + y)
Excess(a, b)    == Each(a, b, SaturatingSub)
Larger(a, b)    == Each(a, b, LAMBDA x, y : Max({x, y}))
ShareOf(pct, a) == [rep |-> PercentOf(pct, a.rep), stake |-> PercentOf(pct, a.stake)]

(* from_rational, rounded down; of nothing it is one.                      *)
Parts(a, whole) == Each(a, whole, LAMBDA x, y : IF y = 0 THEN 100 ELSE (100 * x) \div y)

WindowStart == SaturatingSub(now, WindowLength)

GetOr(f, i, default) == IF i \in DOMAIN f THEN f[i] ELSE default
Insert(f, i, value)  == [j \in DOMAIN f \cup {i} |-> IF j = i THEN value ELSE f[j]]

-----------------------------------------------------------------------------
(***************************************************************************)
(* Spans.  Span 0 is the ongoing one, span k the k-th before it.           *)
(***************************************************************************)
StartOf(s, k) == s.lastStart - SumFunctionOnSet(s.prior, 1..k)

Covers(s, k, era) == StartOf(s, k) <= era /\ (k > 0 => era < StartOf(s, k - 1))

Covering(s, era) == {k \in 0..Len(s.prior) : Covers(s, k, era)}

SpanIndices(s) == (s.index - Len(s.prior))..s.index

(* Mutant: the era of the report is lost between the two spans.            *)
EndedShort(s, era) ==
  IF era + 1 <= s.lastStart THEN s
  ELSE [index |-> s.index + 1, lastStart |-> era + 1, prior |-> <<era - s.lastStart>> \o s.prior]

(* end_span: a new span starts in the era after `era`.                     *)
Ended(s, era) ==
  IF era + 1 <= s.lastStart THEN s
  ELSE [index |-> s.index + 1, lastStart |-> era + 1,
        prior |-> <<era + 1 - s.lastStart>> \o s.prior]

(* Mutant: takes a span that ends inside the window for an old one.        *)
OldSpansEager(s, window) == {k \in 1..Len(s.prior) : StartOf(s, k - 1) <= window + 1}

OldSpans(s, window) == {k \in 1..Len(s.prior) : StartOf(s, k - 1) <= window}

(* prune: forgets the spans that ended before the window.                  *)
Pruned(s, window) ==
  [s EXCEPT !.lastStart = Max({@, window}),
            !.prior = IF OldSpans(s, window) = {} THEN @
                      ELSE SubSeq(@, 1, Min(OldSpans(s, window)) - 1)]

(* fetch_spans starts a record at the window's start if there is none.     *)
Fetched ==
  IF spans = NoSpans THEN [index |-> 0, lastStart |-> WindowStart, prior |-> <<>>] ELSE spans

-----------------------------------------------------------------------------
(***************************************************************************)
(* Inspecting spans: compare_and_update_span_slash, then end_span if it is *)
(* the ongoing span, and Drop, which writes back only what is dirty.       *)
(***************************************************************************)

(* What a slash adds to the span: the difference, if larger in both.       *)
Added(slash, slashed) ==
  IF slash.rep > slashed.rep /\ slash.stake > slashed.stake THEN Excess(slash, slashed) ELSE Zero

(* Half of what the reward share of the slash leaves to pay (REWARD_F1),   *)
(* unless the span had a larger slash in both components.                  *)
Reward(slash, record) ==
  IF slash.rep < record.slashed.rep /\ slash.stake < record.slashed.stake THEN Zero
  ELSE ShareOf(50, Excess(ShareOf(RewardProportion, slash), record.paidOut))

KeptRecords(recs, before, after) ==
  [i \in DOMAIN recs \ (SpanIndices(before) \ SpanIndices(after)) |-> recs[i]]

(* Drop: the spans that go out of the window go with their records.        *)
Write(s, recs, dirty) ==
  IF dirty
  THEN LET pruned == Pruned(s, WindowStart)
       IN  spans' = pruned /\ records' = KeptRecords(recs, s, pruned)
  ELSE spans' = Fetched /\ records' = recs

Inspect(era, slash) ==
  LET s == Fetched
  IN  IF Covering(s, era) = {}
      THEN Write(s, records, FALSE) /\ UNCHANGED <<taken, worst>>
      ELSE LET k       == Min(Covering(s, era))
               i       == s.index - k
               record  == GetOr(records, i, [slashed |-> Zero, paidOut |-> Zero])
               added   == Added(slash, record.slashed)
               reward  == Reward(slash, record)
               changed == added # Zero \/ reward # Zero
               after   == IF k = 0 THEN Ended(s, now) ELSE s
           IN  /\ Write(after,
                        IF ~changed THEN records
                        ELSE Insert(records, i, [slashed |-> IF added # Zero THEN slash ELSE record.slashed,
                                                 paidOut |-> Plus(record.paidOut, reward)]),
                        changed \/ after # s)
               /\ taken' = Insert(taken, i, Plus(GetOr(taken, i, Zero), added))
               /\ worst' = Insert(worst, i, Larger(GetOr(worst, i, Zero), slash))

(* kick_out_if_recent, when there is nothing to slash.                     *)
KickOut(era) ==
  LET s     == Fetched
      after == IF 0 \in Covering(s, era) THEN Ended(s, now) ELSE s
  IN  /\ Write(after, records, after # s)
      /\ UNCHANGED <<taken, worst>>

-----------------------------------------------------------------------------
SpansInit ==
  /\ now = 0
  /\ exposed \in [Eras -> Exposures]
  /\ role \in [Eras -> {"validator", "cooperator"}]
  /\ spans = NoSpans
  /\ records = [i \in {} |-> [slashed |-> Zero, paidOut |-> Zero]]
  /\ eraLoss = Empty
  /\ eraSlash = Empty
  /\ reports = 0
  /\ taken = Empty
  /\ worst = Empty

Reporting == reports < MaxReports /\ reports' = reports + 1 /\ UNCHANGED <<now, exposed, role>>

(* compute_slash for the stash as the validator that offended in `era`.    *)
(* Of its points, max_slash_amount leaves it `kept`.                       *)
SlashValidator(era, fraction, points, kept) ==
  LET own  == ShareOf(fraction, [rep |-> SaturatingSub(points, kept), stake |-> exposed[era]])
      loss == Parts(own, [rep |-> points, stake |-> exposed[era]])
      last == GetOr(eraLoss, era, Zero)
  IN
  /\ role[era] = "validator"
  /\ Reporting
  /\ UNCHANGED eraSlash
  /\ IF own.rep = 0 \/ own.stake = 0
     THEN KickOut(era) /\ UNCHANGED eraLoss
     ELSE IF loss.rep > last.rep \/ loss.stake > last.stake
     THEN eraLoss' = Insert(eraLoss, era, loss) /\ Inspect(era, own)
     ELSE UNCHANGED <<spans, records, eraLoss, taken, worst>>

(* slash_cooperators for the stash, exposed to a validator whose loss in   *)
(* `era` grew from one share to another: what that adds to its slash of    *)
(* the era, over all the validators it cooperates with.                    *)
SlashCooperator(era, growth) ==
  LET slash == Plus(GetOr(eraSlash, era, Zero), growth)
  IN
  /\ role[era] = "cooperator"
  /\ Reporting
  /\ eraSlash' = Insert(eraSlash, era, slash)
  /\ Inspect(era, slash)
  /\ UNCHANGED eraLoss

(* start_era and clear_era_metadata.                                       *)
NextEra ==
  /\ now < LastEra
  /\ now' = now + 1
  /\ eraLoss' = [e \in {x \in DOMAIN eraLoss : x >= SaturatingSub(now + 1, WindowLength)} |-> eraLoss[e]]
  /\ eraSlash' = [e \in {x \in DOMAIN eraSlash : x >= SaturatingSub(now + 1, WindowLength)} |-> eraSlash[e]]
  /\ UNCHANGED <<exposed, role, spans, records, reports, taken, worst>>

(* clear_stash_metadata, from kill_stash: forgets the spans.               *)
ClearStash ==
  /\ spans # NoSpans
  /\ spans' = NoSpans
  /\ records' = [i \in DOMAIN records \ SpanIndices(spans) |-> records[i]]
  /\ taken' = Empty /\ worst' = Empty
  /\ UNCHANGED <<now, exposed, role, eraLoss, eraSlash, reports>>

SpansNext ==
  \/ \E era \in WindowStart..now, fraction \in Fractions, points \in Points, kept \in Points :
       SlashValidator(era, fraction, points, kept)
  \/ \E era \in WindowStart..now, rep \in Points, stake \in Exposures :
       SlashCooperator(era, [rep |-> rep, stake |-> stake])
  \/ NextEra
  \/ ClearStash

SpansSpec == SpansInit /\ [][SpansNext]_spansVars

-----------------------------------------------------------------------------
(***************************************************************************)
(* Properties.                                                             *)
(***************************************************************************)
SpansTypeOK ==
  /\ now \in Eras
  /\ exposed \in [Eras -> Nat]
  /\ spans = NoSpans \/ (spans.index \in Nat /\ spans.lastStart \in Nat)
  /\ \A k \in DOMAIN spans.prior : spans.prior[k] \in Nat \ {0}
  /\ \A i \in DOMAIN records :
       {records[i].slashed.rep, records[i].slashed.stake} \subseteq Nat
  /\ DOMAIN eraLoss \cup DOMAIN eraSlash \subseteq WindowStart..now

(* "we only slash participants for the maximum slash they receive in some  *)
(* time period, rather than the sum": within a span never more than that,  *)
(* and exactly what its record says.                                       *)
NeverOverslashed ==
  \A i \in DOMAIN taken :
    /\ Excess(taken[i], worst[i]) = Zero
    /\ i \in DOMAIN records => records[i].slashed = taken[i]

(* Every era an offence can be charged to lies in exactly one span, through *)
(* spans ended and pruned: no slash falls between two spans.               *)
WindowCovered ==
  spans # NoSpans => \A era \in WindowStart..now : Cardinality(Covering(spans, era)) = 1

(* A record belongs to a span that is kept: none is left behind by prune   *)
(* or by clear_stash_metadata, to be found by a later span of its index.   *)
NoRecordLeft ==
  DOMAIN records \subseteq IF spans = NoSpans THEN {} ELSE SpanIndices(spans)

SpansInv == SpansTypeOK /\ WindowCovered /\ NoRecordLeft

(* Reporters of one span are never owed more than the reward share of the  *)
(* largest slash in it.                                                    *)
RewardWithinShare ==
  \A i \in DOMAIN records :
    Excess(records[i].paidOut, ShareOf(RewardProportion, worst[i])) = Zero

(* All of this.                                                            *)
SpansHold == NeverOverslashed /\ SpansInv /\ RewardWithinShare

(* A closed span does not move: what its eras were slashed for stays with  *)
(* them for as long as the span is kept.                                   *)
ClosedSpansStay ==
  [][spans # NoSpans /\ spans' # NoSpans =>
       \A k \in 1..Len(spans.prior), j \in 1..Len(spans'.prior) :
         spans.index - k = spans'.index - j =>
           /\ StartOf(spans, k) = StartOf(spans', j)
           /\ StartOf(spans, k - 1) = StartOf(spans', j - 1)]_spansVars
=============================================================================
