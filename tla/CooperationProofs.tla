---------------------------- MODULE CooperationProofs ----------------------------
(***************************************************************************)
(* Roles are bonded, promises are backed and copies of stake are not short: *)
(* proofs about module Cooperation, for all stashes, stakes, levels, bonds  *)
(* and taxes.  At the end, proofs about the modules ParachainsDb and        *)
(* SlashingSpans, which share nothing with it.                             *)
(***************************************************************************)
EXTENDS Cooperation, ParachainsDb, SlashingSpans, RecursionTheorems

-----------------------------------------------------------------------------
(* Partial functions on the stashes *)

Partial(R) == UNION {[T -> R] : T \in SUBSET Stashes}

(* What a partial function is.                                             *)
LEMMA PartialIs ==
  ASSUME NEW R, NEW f
  PROVE  f \in Partial(R) <=> DOMAIN f \subseteq Stashes /\ f \in [DOMAIN f -> R]
BY DEF Partial

(* One entry more.                                                         *)
LEMMA PutIs ==
  ASSUME NEW R, NEW f \in Partial(R), NEW x \in Stashes, NEW value \in R
  PROVE  /\ Put(f, x, value) \in Partial(R) /\ DOMAIN Put(f, x, value) = DOMAIN f \cup {x}
         /\ Put(f, x, value)[x] = value
         /\ \A y \in DOMAIN f : y # x => Put(f, x, value)[y] = f[y]
<1> DEFINE g == Put(f, x, value)
<1>1. DOMAIN f \subseteq Stashes /\ f \in [DOMAIN f -> R]
  BY PartialIs
<1>2. g = [y \in DOMAIN f \cup {x} |-> IF y = x THEN value ELSE f[y]]
  BY DEF Put
<1>3. DOMAIN g = DOMAIN f \cup {x} /\ g[x] = value /\ \A y \in DOMAIN f : y # x => g[y] = f[y]
  BY <1>2
<1>4. g \in [DOMAIN f \cup {x} -> R] /\ DOMAIN f \cup {x} \subseteq Stashes
  BY <1>1, <1>2
<1> HIDE DEF g
<1>5. g \in Partial(R)
  BY <1>3, <1>4, PartialIs
<1> QED
  BY <1>3, <1>5 DEF g

(* One entry less.                                                         *)
LEMMA DropIs ==
  ASSUME NEW R, NEW f \in Partial(R), NEW x
  PROVE  /\ Drop(f, x) \in Partial(R) /\ DOMAIN Drop(f, x) = DOMAIN f \ {x}
         /\ \A y \in DOMAIN f : y # x => Drop(f, x)[y] = f[y]
<1> DEFINE g == Drop(f, x)
<1>1. DOMAIN f \subseteq Stashes /\ f \in [DOMAIN f -> R]
  BY PartialIs
<1>2. g = [y \in DOMAIN f \ {x} |-> f[y]]
  BY DEF Drop
<1>3. DOMAIN g = DOMAIN f \ {x} /\ \A y \in DOMAIN f : y # x => g[y] = f[y]
  BY <1>2
<1>4. g \in [DOMAIN f \ {x} -> R] /\ DOMAIN f \ {x} \subseteq Stashes
  BY <1>1, <1>2
<1> HIDE DEF g
<1>5. g \in Partial(R)
  BY <1>3, <1>4, PartialIs
<1> QED
  BY <1>3, <1>5 DEF g

(* No entries.                                                             *)
LEMMA NothingIs ==
  ASSUME NEW R
  PROVE  Nothing \in Partial(R) /\ DOMAIN Nothing = {}
<1>1. DOMAIN Nothing = {} /\ Nothing \in [{} -> R]
  BY DEF Nothing
<1> QED
  BY <1>1, PartialIs

Stakes == Partial(Nat)

(* Any stashes are finitely many.                                          *)
LEMMA StashesFinite ==
  ASSUME NEW S, S \subseteq Stashes
  PROVE  IsFiniteSet(S)
BY FS_Subset, CooperationAssumption

(* Fewer terms and smaller ones have a smaller sum.                        *)
LEMMA LessOnLess ==
  ASSUME NEW S, IsFiniteSet(S), NEW R \in SUBSET S, NEW f, NEW g,
         \A x \in S : f[x] \in Nat, \A x \in R : g[x] \in Nat /\ g[x] <= f[x]
  PROVE  SumFunctionOnSet(g, R) <= SumFunctionOnSet(f, S)
<1>1. IsFiniteSet(R)
  BY FS_Subset
<1>2. \A x \in R : f[x] \in Int /\ g[x] \in Int
  OBVIOUS
<1>3. IntegersOn(f, R) /\ IntegersOn(g, R)
  BY <1>2 DEF IntegersOn
<1>4. SumFunctionOnSet(g, R) <= SumFunctionOnSet(f, R)
  BY <1>1, <1>3, SumMonotone
<1>5. SumFunctionOnSet(f, R) <= SumFunctionOnSet(f, S)
  BY SumOfMore
<1>6. SumFunctionOnSet(f, R) \in Nat /\ SumFunctionOnSet(g, R) \in Nat /\ SumFunctionOnSet(f, S) \in Nat
  BY <1>1, SumOfNaturals
<1> QED
  BY <1>4, <1>5, <1>6

(* The total of some stakes.                                               *)
LEMMA TotalIs ==
  ASSUME NEW f \in Stakes
  PROVE  /\ Total(f) \in Nat /\ IsFiniteSet(DOMAIN f) /\ DOMAIN f \subseteq Stashes
         /\ \A v \in DOMAIN f : f[v] \in Nat /\ f[v] <= Total(f)
<1>1. DOMAIN f \subseteq Stashes /\ f \in [DOMAIN f -> Nat]
  BY PartialIs DEF Stakes
<1>2. IsFiniteSet(DOMAIN f) /\ \A v \in DOMAIN f : f[v] \in Nat
  BY <1>1, StashesFinite
<1>3. Total(f) \in Nat
  BY <1>2, SumOfNaturals DEF Total
<1>4. \A v \in DOMAIN f : f[v] <= Total(f)
  BY <1>2, SumCovers DEF Total
<1> QED
  BY <1>1, <1>2, <1>3, <1>4

(* Fewer stakes and smaller ones.                                          *)
Lessened(f, g) ==
  DOMAIN g \subseteq DOMAIN f /\ \A v \in DOMAIN g : g[v] <= f[v]

(* Their total.                                                            *)
LEMMA LessTotal ==
  ASSUME NEW f \in Stakes, NEW g \in Stakes, Lessened(f, g)
  PROVE  Total(g) <= Total(f)
<1>1. /\ IsFiniteSet(DOMAIN f) /\ \A v \in DOMAIN f : f[v] \in Nat
      /\ \A v \in DOMAIN g : g[v] \in Nat
  BY TotalIs
<1>2. DOMAIN g \in SUBSET DOMAIN f /\ \A v \in DOMAIN g : g[v] \in Nat /\ g[v] <= f[v]
  BY <1>1 DEF Lessened
<1> QED
  BY <1>1, <1>2, LessOnLess DEF Total

-----------------------------------------------------------------------------
(* The maps *)

MapsType ==
  [validators : Partial(BOOLEAN), cooperators : Partial(Stakes),
   collaborations : [Stashes -> SUBSET Stashes], vip : Partial(Nat)]

(* Nobody has both roles, and nobody promises or is credited with more than *)
(* it can have.                                                            *)
Sound ==
  {m \in MapsType :
     /\ DOMAIN m.validators \cap DOMAIN m.cooperators = {}
     /\ \A c \in DOMAIN m.cooperators : Total(m.cooperators[c]) <= MaxStake[c]
     /\ \A s \in DOMAIN m.vip : m.vip[s] <= MaxStake[s]}

Ledgers == {led \in Partial(Nat) : \A s \in DOMAIN led : led[s] <= MaxStake[s]}

(* What is in the maps.                                                    *)
LEMMA MapsAre ==
  ASSUME NEW m \in MapsType
  PROVE  /\ DOMAIN m.validators \subseteq Stashes /\ DOMAIN m.cooperators \subseteq Stashes
         /\ DOMAIN m.vip \subseteq Stashes
         /\ m.validators \in Partial(BOOLEAN) /\ m.cooperators \in Partial(Stakes) /\ m.vip \in Partial(Nat)
         /\ m.collaborations \in [Stashes -> SUBSET Stashes]
         /\ \A v \in DOMAIN m.validators : m.validators[v] \in BOOLEAN
         /\ \A c \in DOMAIN m.cooperators : m.cooperators[c] \in Stakes
         /\ \A s \in DOMAIN m.vip : m.vip[s] \in Nat
         /\ \A s : Targets(m, s) \in Stakes
<1>1. m.validators \in Partial(BOOLEAN) /\ m.cooperators \in Partial(Stakes) /\ m.vip \in Partial(Nat)
      /\ m.collaborations \in [Stashes -> SUBSET Stashes]
  BY DEF MapsType
<1>2. /\ DOMAIN m.validators \subseteq Stashes /\ m.validators \in [DOMAIN m.validators -> BOOLEAN]
      /\ DOMAIN m.cooperators \subseteq Stashes /\ m.cooperators \in [DOMAIN m.cooperators -> Stakes]
      /\ DOMAIN m.vip \subseteq Stashes /\ m.vip \in [DOMAIN m.vip -> Nat]
  BY <1>1, PartialIs
<1>3. \A c \in DOMAIN m.cooperators : m.cooperators[c] \in Stakes
  BY <1>2
<1>4. \A s : Targets(m, s) \in Stakes
  BY <1>3, NothingIs DEF Targets, At, Stakes
<1> QED
  BY <1>1, <1>2, <1>3, <1>4

(* What is in a ledger.                                                    *)
LEMMA LedgerIs ==
  ASSUME NEW led \in Ledgers, NEW s \in Stashes
  PROVE  /\ At(led, s, 0) \in Nat /\ At(led, s, 0) <= MaxStake[s] /\ MaxStake[s] \in Nat
         /\ DOMAIN led \subseteq Stashes /\ led \in [DOMAIN led -> Nat] /\ led \in Partial(Nat)
<1>1. led \in Partial(Nat) /\ \A x \in DOMAIN led : led[x] <= MaxStake[x]
  BY DEF Ledgers
<1>2. DOMAIN led \subseteq Stashes /\ led \in [DOMAIN led -> Nat]
  BY <1>1, PartialIs
<1>3. MaxStake[s] \in Nat
  BY CooperationAssumption
<1> QED
  BY <1>1, <1>2, <1>3 DEF At

(* The targets that list their cooperator.                                 *)
ListedTargets(m, s) == {v \in DOMAIN Targets(m, s) : s \in Listed(m, v)}

(* The active stake of a stash, and how it is found.                       *)
LEMMA ActiveStakeIs ==
  ASSUME NEW m \in MapsType, NEW led \in Ledgers, NEW s \in Stashes,
         s \in DOMAIN m.cooperators => Total(m.cooperators[s]) <= MaxStake[s]
  PROVE  /\ ActiveStake(m, led, s) \in Nat /\ ActiveStake(m, led, s) <= MaxStake[s]
         /\ s \in DOMAIN m.validators => ActiveStake(m, led, s) = At(led, s, 0)
         /\ s \notin DOMAIN m.validators =>
              ActiveStake(m, led, s) = SumFunctionOnSet(Targets(m, s), ListedTargets(m, s))
<1>1. CASE s \in DOMAIN m.validators
  BY <1>1, LedgerIs DEF ActiveStake
<1>2. CASE s \notin DOMAIN m.validators
  <2> DEFINE f == Targets(m, s)
             R == ListedTargets(m, s)
  <2>1. ActiveStake(m, led, s) = SumFunctionOnSet(f, R)
    BY <1>2 DEF ActiveStake, ListedTargets
  <2>2. f \in Stakes /\ R \in SUBSET DOMAIN f
    BY MapsAre DEF ListedTargets
  <2> HIDE DEF f, R
  <2>3. /\ IsFiniteSet(DOMAIN f) /\ \A v \in DOMAIN f : f[v] \in Nat
        /\ Total(f) \in Nat /\ IsFiniteSet(R) /\ \A v \in R : f[v] \in Nat
    BY <2>2, TotalIs, FS_Subset
  <2>4. SumFunctionOnSet(f, R) \in Nat /\ SumFunctionOnSet(f, R) <= Total(f)
    BY <2>2, <2>3, SumOfNaturals, SumOfMore DEF Total
  <2>5. Total(f) <= MaxStake[s] /\ MaxStake[s] \in Nat
    <3>1. MaxStake[s] \in Nat
      BY CooperationAssumption
    <3>2. CASE s \in DOMAIN m.cooperators
      BY <3>1, <3>2 DEF f, Targets, At
    <3>3. CASE s \notin DOMAIN m.cooperators
      <4>1. f = Nothing
        BY <3>3 DEF f, Targets, At
      <4>2. Total(f) = 0
        BY <4>1, NothingIs, SumEmpty DEF Total
      <4> QED
        BY <3>1, <4>2
    <3> QED
      BY <3>2, <3>3
  <2> QED
    BY <1>2, <2>1, <2>3, <2>4, <2>5 DEF f, R
<1> QED
  BY <1>1, <1>2

-----------------------------------------------------------------------------
(* Copies of the stake *)

CopyOK(m, led, s) == s \in DOMAIN m.vip => m.vip[s] >= ActiveStake(m, led, s)

(* What sound maps are.                                                    *)
LEMMA SoundIs ==
  ASSUME NEW m
  PROVE  m \in Sound <=>
           /\ m \in MapsType
           /\ DOMAIN m.validators \cap DOMAIN m.cooperators = {}
           /\ \A c \in DOMAIN m.cooperators : Total(m.cooperators[c]) <= MaxStake[c]
           /\ \A s \in DOMAIN m.vip : m.vip[s] <= MaxStake[s]
BY DEF Sound

(* A stash keeps its side, and has fewer targets or is on fewer lists.      *)
Weakens(m, n, s) ==
  /\ s \in DOMAIN n.validators <=> s \in DOMAIN m.validators
  /\ Lessened(Targets(m, s), Targets(n, s))
  /\ \A v \in Stashes : s \in Listed(n, v) => s \in Listed(m, v)

(* Its active stake.                                                       *)
LEMMA ActiveStakeLess ==
  ASSUME NEW m \in Sound, NEW n \in Sound, NEW led \in Ledgers, NEW s \in Stashes, Weakens(m, n, s)
  PROVE  ActiveStake(n, led, s) <= ActiveStake(m, led, s)
<1>1. /\ m \in MapsType /\ n \in MapsType
      /\ s \in DOMAIN m.cooperators => Total(m.cooperators[s]) <= MaxStake[s]
      /\ s \in DOMAIN n.cooperators => Total(n.cooperators[s]) <= MaxStake[s]
  BY SoundIs
<1>2. CASE s \in DOMAIN m.validators
  <2>1. s \in DOMAIN n.validators
    BY <1>2 DEF Weakens
  <2>2. ActiveStake(n, led, s) = At(led, s, 0) /\ ActiveStake(m, led, s) = At(led, s, 0)
    BY <1>1, <1>2, <2>1, ActiveStakeIs
  <2>3. At(led, s, 0) \in Nat
    BY LedgerIs
  <2> QED
    BY <2>2, <2>3
<1>3. CASE s \notin DOMAIN m.validators
  <2> DEFINE f == Targets(m, s)
             g == Targets(n, s)
             S == ListedTargets(m, s)
             R == ListedTargets(n, s)
  <2>1. s \notin DOMAIN n.validators
    BY <1>3 DEF Weakens
  <2>2. ActiveStake(n, led, s) = SumFunctionOnSet(g, R) /\ ActiveStake(m, led, s) = SumFunctionOnSet(f, S)
    BY <1>1, <1>3, <2>1, ActiveStakeIs
  <2>3. /\ f \in Stakes /\ g \in Stakes /\ S \in SUBSET DOMAIN f /\ R \in SUBSET DOMAIN g
        /\ Lessened(f, g)
    BY <1>1, MapsAre DEF ListedTargets, Weakens
  <2>4. /\ IsFiniteSet(DOMAIN f) /\ DOMAIN f \subseteq Stashes
        /\ \A v \in DOMAIN f : f[v] \in Nat
        /\ \A v \in DOMAIN g : g[v] \in Nat
    <3> HIDE DEF f, g
    <3> QED
      BY <2>3, TotalIs
  <2>5. R \in SUBSET S
    BY <2>3, <2>4 DEF ListedTargets, Weakens, Lessened
  <2> HIDE DEF f, g, R, S
  <2>6. IsFiniteSet(S) /\ \A v \in S : f[v] \in Nat
    BY <2>3, <2>4, FS_Subset
  <2>7. \A v \in R : g[v] \in Nat /\ g[v] <= f[v]
    BY <2>3, <2>4 DEF Lessened
  <2>8. SumFunctionOnSet(g, R) <= SumFunctionOnSet(f, S)
    BY <2>5, <2>6, <2>7, LessOnLess
  <2> QED
    BY <2>2, <2>8
<1> QED
  BY <1>2, <1>3

(* Nothing of a stash changes but that it may have less.                   *)
Spares(m, n, s) ==
  Weakens(m, n, s) /\ (s \in DOMAIN n.vip => s \in DOMAIN m.vip /\ n.vip[s] = m.vip[s])

(* Its copy is not short if it was not.                                    *)
LEMMA SparedCopy ==
  ASSUME NEW m \in Sound, NEW n \in Sound, NEW led \in Ledgers, NEW s \in Stashes, Spares(m, n, s),
         CopyOK(m, led, s)
  PROVE  CopyOK(n, led, s)
<1>1. ActiveStake(n, led, s) <= ActiveStake(m, led, s)
  BY ActiveStakeLess DEF Spares
<1>2. ActiveStake(n, led, s) \in Nat /\ ActiveStake(m, led, s) \in Nat
  BY SoundIs, ActiveStakeIs
<1>3. ASSUME s \in DOMAIN n.vip PROVE n.vip[s] >= ActiveStake(n, led, s)
  <2>1. n.vip[s] = m.vip[s] /\ m.vip[s] >= ActiveStake(m, led, s) /\ s \in DOMAIN m.vip
    BY <1>3 DEF Spares, CopyOK
  <2>2. m.vip[s] \in Nat
    BY <2>1, SoundIs, MapsAre
  <2> QED
    BY <1>1, <1>2, <2>1, <2>2
<1> QED
  BY <1>3 DEF CopyOK

(* The active stake is one of the three maps of roles.                     *)
LEMMA SameRoles ==
  ASSUME NEW m, NEW n, NEW led, NEW s, m.validators = n.validators, m.cooperators = n.cooperators,
         m.collaborations = n.collaborations
  PROVE  ActiveStake(m, led, s) = ActiveStake(n, led, s)
BY DEF ActiveStake, Targets, Listed

(* The copy of one stash is made anew, and nothing else is touched.         *)
Updated(m, n, led, s) ==
  /\ n \in Sound
  /\ n.validators = m.validators /\ n.cooperators = m.cooperators
  /\ n.collaborations = m.collaborations
  /\ DOMAIN n.vip = DOMAIN m.vip
  /\ \A x \in DOMAIN m.vip : x # s => n.vip[x] = m.vip[x]
  /\ CopyOK(n, led, s)
  /\ \A x \in Stashes : x # s /\ CopyOK(m, led, x) => CopyOK(n, led, x)

(* UpdateActiveStake, of maps that are sound.                              *)
LEMMA UpdateIs ==
  ASSUME NEW m \in Sound, NEW led \in Ledgers, NEW s \in Stashes
  PROVE  Updated(m, UpdateActiveStake(m, led, s), led, s)
<1> DEFINE n == UpdateActiveStake(m, led, s)
           new == ActiveStake(m, led, s)
<1>1. m \in MapsType /\ (s \in DOMAIN m.cooperators => Total(m.cooperators[s]) <= MaxStake[s])
  BY SoundIs
<1>2. new \in Nat /\ new <= MaxStake[s]
  BY <1>1, ActiveStakeIs
<1>3. m.vip \in [DOMAIN m.vip -> Nat] /\ DOMAIN m.vip \subseteq Stashes
  BY <1>1, MapsAre, PartialIs
<1>4. CASE s \notin DOMAIN m.vip
  BY <1>4 DEF UpdateActiveStake, Updated, CopyOK
<1>5. CASE s \in DOMAIN m.vip
  <2> HIDE DEF new
  <2>1. n = [m EXCEPT !.vip[s] = new]
    BY <1>5 DEF UpdateActiveStake, new
  <2>2. /\ n.validators = m.validators /\ n.cooperators = m.cooperators
        /\ n.collaborations = m.collaborations /\ n.vip = [m.vip EXCEPT ![s] = new]
        /\ n = [validators |-> n.validators, cooperators |-> n.cooperators,
                collaborations |-> n.collaborations, vip |-> n.vip]
    BY <1>1, <2>1 DEF MapsType
  <2> HIDE DEF n
  <2>3. /\ DOMAIN n.vip = DOMAIN m.vip /\ n.vip[s] = new
        /\ \A x \in DOMAIN m.vip : x # s => n.vip[x] = m.vip[x]
    BY <1>5, <2>2
  <2>4. n.vip \in [DOMAIN n.vip -> Nat]
    BY <1>2, <1>3, <2>2
  <2>5. n.vip \in Partial(Nat)
    BY <1>3, <2>3, <2>4, PartialIs
  <2>6. n \in MapsType
    BY <1>1, <2>2, <2>5 DEF MapsType
  <2>7. \A x \in DOMAIN n.vip : n.vip[x] <= MaxStake[x]
    BY <1>2, <2>3, SoundIs
  <2>8. n \in Sound
    BY <2>2, <2>6, <2>7, SoundIs
  <2>9. \A x : ActiveStake(n, led, x) = ActiveStake(m, led, x)
    BY <2>2, SameRoles
  <2>10. CopyOK(n, led, s)
    BY <1>2, <2>3, <2>9 DEF CopyOK, new
  <2>11. \A x \in Stashes : x # s /\ CopyOK(m, led, x) => CopyOK(n, led, x)
    BY <2>3, <2>9 DEF CopyOK
  <2> QED
    BY <2>2, <2>3, <2>8, <2>10, <2>11 DEF Updated, n
<1> QED
  BY <1>4, <1>5

-----------------------------------------------------------------------------
(* From maps to maps *)

(* No roles and no stake are added, but to the stashes of X.               *)
Within(m, n, X) ==
  /\ n \in Sound
  /\ DOMAIN n.validators \subseteq DOMAIN m.validators \cup X
  /\ DOMAIN n.cooperators \subseteq DOMAIN m.cooperators \cup X
  /\ \A c \in DOMAIN n.cooperators \ X : Total(n.cooperators[c]) <= Total(m.cooperators[c])
  /\ DOMAIN n.vip = DOMAIN m.vip

(* No copy is short that was not, but those of X.                          *)
Copies(m, n, led, X) == \A s \in Stashes \ X : CopyOK(m, led, s) => CopyOK(n, led, s)

Shrinks(m, n, led) == Within(m, n, {}) /\ Copies(m, n, led, {})

(* Roles, targets and lists are taken away; who loses its side is in X.     *)
Reduces(m, n, X) ==
  /\ n \in MapsType
  /\ DOMAIN n.validators \subseteq DOMAIN m.validators
  /\ DOMAIN m.validators \ X \subseteq DOMAIN n.validators
  /\ DOMAIN n.cooperators \subseteq DOMAIN m.cooperators
  /\ \A c \in DOMAIN n.cooperators : Lessened(m.cooperators[c], n.cooperators[c])
  /\ \A v \in Stashes : n.collaborations[v] \subseteq m.collaborations[v]
  /\ n.vip = m.vip

(* The totals of all stashes with targets are numbers.                     *)
LEMMA TotalsAre ==
  ASSUME NEW m \in Sound
  PROVE  \A c \in DOMAIN m.cooperators : m.cooperators[c] \in Stakes /\ Total(m.cooperators[c]) \in Nat
<1>1. \A c \in DOMAIN m.cooperators : m.cooperators[c] \in Stakes
  BY SoundIs, MapsAre
<1> QED
  BY <1>1, TotalIs

(* What is taken away leaves the maps sound, and no copy short.             *)
LEMMA ReducesIs ==
  ASSUME NEW m \in Sound, NEW n, NEW X, Reduces(m, n, X)
  PROVE  Within(m, n, {}) /\ \A led \in Ledgers : Copies(m, n, led, X)
<1>1. n \in MapsType /\ m \in MapsType
  BY SoundIs DEF Reduces
<1>2. \A c \in DOMAIN n.cooperators :
        /\ n.cooperators[c] \in Stakes /\ Total(n.cooperators[c]) \in Nat
        /\ c \in DOMAIN m.cooperators
        /\ m.cooperators[c] \in Stakes /\ Total(m.cooperators[c]) \in Nat
        /\ Total(n.cooperators[c]) <= Total(m.cooperators[c])
        /\ Total(m.cooperators[c]) <= MaxStake[c] /\ MaxStake[c] \in Nat
  <2> SUFFICES ASSUME NEW c \in DOMAIN n.cooperators
               PROVE  /\ n.cooperators[c] \in Stakes /\ Total(n.cooperators[c]) \in Nat
                      /\ c \in DOMAIN m.cooperators
                      /\ m.cooperators[c] \in Stakes /\ Total(m.cooperators[c]) \in Nat
                      /\ Total(n.cooperators[c]) <= Total(m.cooperators[c])
                      /\ Total(m.cooperators[c]) <= MaxStake[c] /\ MaxStake[c] \in Nat
    OBVIOUS
  <2>1. c \in DOMAIN m.cooperators /\ Lessened(m.cooperators[c], n.cooperators[c])
    BY DEF Reduces
  <2>2. n.cooperators[c] \in Stakes /\ m.cooperators[c] \in Stakes /\ c \in Stashes
    BY <1>1, <2>1, MapsAre
  <2>3. Total(n.cooperators[c]) <= Total(m.cooperators[c])
    BY <2>1, <2>2, LessTotal
  <2>4. Total(n.cooperators[c]) \in Nat /\ Total(m.cooperators[c]) \in Nat
    BY <2>2, TotalIs
  <2>5. Total(m.cooperators[c]) <= MaxStake[c] /\ MaxStake[c] \in Nat
    BY <2>1, <2>2, SoundIs, CooperationAssumption
  <2> QED
    BY <2>1, <2>2, <2>3, <2>4, <2>5
<1>3. n \in Sound
  <2>1. \A c \in DOMAIN n.cooperators : Total(n.cooperators[c]) <= MaxStake[c]
    BY <1>2
  <2>2. DOMAIN n.validators \cap DOMAIN n.cooperators = {}
    BY SoundIs DEF Reduces
  <2>3. \A s \in DOMAIN n.vip : n.vip[s] <= MaxStake[s]
    BY SoundIs DEF Reduces
  <2> QED
    BY <1>1, <2>1, <2>2, <2>3, SoundIs
<1>4. Within(m, n, {})
  BY <1>2, <1>3 DEF Within, Reduces
<1>5. ASSUME NEW led \in Ledgers, NEW s \in Stashes \ X, CopyOK(m, led, s)
      PROVE  CopyOK(n, led, s)
  <2>1. s \in DOMAIN n.validators <=> s \in DOMAIN m.validators
    BY DEF Reduces
  <2>2. Lessened(Targets(m, s), Targets(n, s))
    <3>1. CASE s \in DOMAIN n.cooperators
      BY <3>1 DEF Reduces, Targets, At
    <3>2. CASE s \notin DOMAIN n.cooperators
      BY <3>2, DOMAIN Nothing = {} DEF Targets, At, Lessened, Nothing
    <3> QED
      BY <3>1, <3>2
  <2>3. \A v \in Stashes : s \in Listed(n, v) => s \in Listed(m, v)
    BY DEF Reduces, Listed
  <2>4. Spares(m, n, s)
    BY <2>1, <2>2, <2>3 DEF Spares, Weakens, Reduces
  <2> QED
    BY <1>3, <1>5, <2>4, SparedCopy
<1> QED
  BY <1>4, <1>5 DEF Copies

(* One after the other.                                                    *)
LEMMA WithinMore ==
  ASSUME NEW m \in Sound, NEW n, NEW o, NEW X, Within(m, n, X), Within(n, o, X)
  PROVE  Within(m, o, X)
<1>1. n \in Sound /\ o \in Sound
  BY DEF Within
<1>2. \A c \in DOMAIN o.cooperators \ X : Total(o.cooperators[c]) <= Total(m.cooperators[c])
  <2> SUFFICES ASSUME NEW c \in DOMAIN o.cooperators \ X
               PROVE  Total(o.cooperators[c]) <= Total(m.cooperators[c])
    OBVIOUS
  <2>1. c \in DOMAIN n.cooperators /\ c \in DOMAIN m.cooperators
    BY DEF Within
  <2>2. /\ Total(o.cooperators[c]) \in Nat /\ Total(n.cooperators[c]) \in Nat
        /\ Total(m.cooperators[c]) \in Nat
    BY <1>1, <2>1, TotalsAre
  <2>3. /\ Total(o.cooperators[c]) <= Total(n.cooperators[c])
        /\ Total(n.cooperators[c]) <= Total(m.cooperators[c])
    BY <2>1 DEF Within
  <2> QED
    BY <2>2, <2>3
<1> QED
  BY <1>1, <1>2 DEF Within

(* Nothing is within itself.                                               *)
LEMMA WithinSelf ==
  ASSUME NEW m \in Sound, NEW X
  PROVE  Within(m, m, X)
<1>1. \A c \in DOMAIN m.cooperators : Total(m.cooperators[c]) \in Nat
  BY TotalsAre
<1> QED
  BY <1>1 DEF Within

(* More may be added.                                                      *)
LEMMA WithinWider ==
  ASSUME NEW m, NEW n, NEW X, NEW Y, X \subseteq Y, Within(m, n, X)
  PROVE  Within(m, n, Y)
BY DEF Within

(* Shrinking goes on.                                                      *)
LEMMA ShrinksMore ==
  ASSUME NEW m \in Sound, NEW n, NEW o, NEW led, Shrinks(m, n, led), Shrinks(n, o, led)
  PROVE  Shrinks(m, o, led)
BY WithinMore DEF Shrinks, Copies

(* Nothing shrinks.                                                        *)
LEMMA ShrinksNot ==
  ASSUME NEW m \in Sound, NEW led
  PROVE  Shrinks(m, m, led)
BY WithinSelf DEF Shrinks, Copies

(* What is taken away from everybody alike.                                *)
LEMMA ReducesShrinks ==
  ASSUME NEW m \in Sound, NEW n, NEW led \in Ledgers, Reduces(m, n, {})
  PROVE  Shrinks(m, n, led)
BY ReducesIs DEF Shrinks

(* After an update one stash less has its copy short.                      *)
LEMMA UpdatedIs ==
  ASSUME NEW m \in Sound, NEW n, NEW led, NEW s \in Stashes, Updated(m, n, led, s)
  PROVE  /\ Within(m, n, {})
         /\ \A o, X : Copies(o, m, led, X) => Copies(o, n, led, X \ {s})
         /\ Shrinks(m, n, led)
<1>1. \A c \in DOMAIN m.cooperators : Total(m.cooperators[c]) \in Nat
  BY TotalsAre
<1>2. Within(m, n, {})
  BY <1>1 DEF Within, Updated
<1>3. \A x \in Stashes : CopyOK(m, led, x) => CopyOK(n, led, x)
  BY DEF Updated
<1>4. CopyOK(n, led, s)
  BY DEF Updated
<1> QED
  BY <1>2, <1>3, <1>4 DEF Copies, Shrinks

-----------------------------------------------------------------------------
(* Roles that end *)

(* A validator that stops loses its cooperators, and its copy is of what it *)
(* has promised to others.                                                 *)
LEMMA RemoveValidatorIs ==
  ASSUME NEW m \in Sound, NEW led \in Ledgers, NEW s \in Stashes
  PROVE  /\ Shrinks(m, RemoveValidator(m, led, s), led)
         /\ DOMAIN RemoveValidator(m, led, s).validators = DOMAIN m.validators \ {s}
         /\ RemoveValidator(m, led, s).cooperators = m.cooperators
<1>1. CASE s \notin DOMAIN m.validators
  BY <1>1, ShrinksNot DEF RemoveValidator
<1>2. CASE s \in DOMAIN m.validators
  <2>1. PICK k : k = [m EXCEPT !.validators = Drop(@, s), !.collaborations[s] = {}]
    OBVIOUS
  <2>2. PICK n : n = UpdateActiveStake(k, led, s)
    OBVIOUS
  <2>3. RemoveValidator(m, led, s) = n
    BY <1>2, <2>1, <2>2 DEF RemoveValidator
  <2>4. m \in MapsType /\ m.validators \in Partial(BOOLEAN)
        /\ m.collaborations \in [Stashes -> SUBSET Stashes]
    BY SoundIs DEF MapsType
  <2>5. /\ k.validators = Drop(m.validators, s) /\ k.cooperators = m.cooperators /\ k.vip = m.vip
        /\ k.collaborations = [m.collaborations EXCEPT ![s] = {}]
        /\ k = [validators |-> k.validators, cooperators |-> k.cooperators,
                collaborations |-> k.collaborations, vip |-> k.vip]
    BY <2>1, <2>4 DEF MapsType
  <2>6. k.validators \in Partial(BOOLEAN) /\ DOMAIN k.validators = DOMAIN m.validators \ {s}
    <3>1. PICK R, f : R = BOOLEAN /\ f = m.validators /\ f \in Partial(R)
      BY <2>4, Zenon
    <3>2. Drop(f, s) \in Partial(R) /\ DOMAIN Drop(f, s) = DOMAIN f \ {s}
      BY <3>1, DropIs
    <3> QED
      BY <2>5, <3>1, <3>2, Zenon
  <2>7. k.collaborations \in [Stashes -> SUBSET Stashes]
        /\ \A v \in Stashes : k.collaborations[v] \subseteq m.collaborations[v]
    BY <2>4, <2>5
  <2>8. k \in MapsType
    BY <2>4, <2>5, <2>6, <2>7 DEF MapsType
  <2>9. \A c \in DOMAIN m.cooperators : Lessened(m.cooperators[c], k.cooperators[c])
    <3>1. \A c \in DOMAIN m.cooperators : m.cooperators[c] \in Stakes
      BY TotalsAre
    <3>2. \A c \in DOMAIN m.cooperators : \A v \in DOMAIN m.cooperators[c] : m.cooperators[c][v] \in Nat
      BY <3>1, TotalIs
    <3> QED
      BY <2>5, <3>2 DEF Lessened
  <2>10. Reduces(m, k, {s})
    BY <2>5, <2>6, <2>7, <2>8, <2>9 DEF Reduces
  <2>11. Within(m, k, {}) /\ Copies(m, k, led, {s})
    BY <2>10, ReducesIs
  <2>12. Updated(k, n, led, s) /\ k \in Sound
    BY <2>2, <2>11, UpdateIs DEF Within
  <2>13. Within(k, n, {}) /\ Copies(m, n, led, {s} \ {s})
    BY <2>11, <2>12, UpdatedIs
  <2>14. Within(m, n, {}) /\ Copies(m, n, led, {})
    BY <2>11, <2>13, WithinMore DEF Copies
  <2>15. n.validators = k.validators /\ n.cooperators = k.cooperators
    BY <2>12 DEF Updated
  <2> QED
    BY <2>3, <2>5, <2>6, <2>14, <2>15 DEF Shrinks
<1> QED
  BY <1>1, <1>2

(* Pointwise no more: of the same stakes.                                  *)
LEMMA LessenedSelf ==
  ASSUME NEW m \in Sound
  PROVE  \A c \in DOMAIN m.cooperators : Lessened(m.cooperators[c], m.cooperators[c])
<1>1. \A c \in DOMAIN m.cooperators : m.cooperators[c] \in Stakes
  BY TotalsAre
<1>2. \A c \in DOMAIN m.cooperators : \A v \in DOMAIN m.cooperators[c] : m.cooperators[c][v] \in Nat
  BY <1>1, TotalIs
<1> QED
  BY <1>2 DEF Lessened

(* A cooperator that stops is off the lists when its copy is made.          *)
LEMMA RemoveCooperatorIs ==
  ASSUME NEW m \in Sound, NEW led \in Ledgers, NEW s \in Stashes
  PROVE  /\ Shrinks(m, RemoveCooperator(m, led, s), led)
         /\ DOMAIN RemoveCooperator(m, led, s).cooperators = DOMAIN m.cooperators \ {s}
         /\ RemoveCooperator(m, led, s).validators = m.validators
<1>1. CASE s \notin DOMAIN m.cooperators
  BY <1>1, ShrinksNot DEF RemoveCooperator
<1>2. CASE s \in DOMAIN m.cooperators
  <2>1. PICK listed : listed = [v \in Stashes |->
                        IF v \in DOMAIN m.cooperators[s] THEN m.collaborations[v] \ {s}
                                                         ELSE m.collaborations[v]]
    OBVIOUS
  <2>2. PICK k : k = [m EXCEPT !.collaborations = listed]
    OBVIOUS
  <2>3. PICK n : n = UpdateActiveStake(k, led, s)
    OBVIOUS
  <2>4. PICK o : o = [n EXCEPT !.cooperators = Drop(@, s)]
    OBVIOUS
  <2>5. RemoveCooperator(m, led, s) = o
    BY <1>2, <2>1, <2>2, <2>3, <2>4 DEF RemoveCooperator
  <2>6. m \in MapsType /\ m.collaborations \in [Stashes -> SUBSET Stashes]
    BY SoundIs DEF MapsType
  <2>7. /\ k.validators = m.validators /\ k.cooperators = m.cooperators /\ k.vip = m.vip
        /\ k.collaborations = listed
        /\ k = [validators |-> k.validators, cooperators |-> k.cooperators,
                collaborations |-> k.collaborations, vip |-> k.vip]
    BY <2>2, <2>6 DEF MapsType
  <2>8. listed \in [Stashes -> SUBSET Stashes]
        /\ \A v \in Stashes : listed[v] \subseteq m.collaborations[v]
    BY <2>1, <2>6
  <2>9. k \in MapsType
    BY <2>6, <2>7, <2>8 DEF MapsType
  <2>10. Reduces(m, k, {})
    BY <2>7, <2>8, <2>9, LessenedSelf DEF Reduces
  <2>11. Shrinks(m, k, led) /\ k \in Sound
    BY <2>10, ReducesShrinks DEF Shrinks, Within
  <2>12. Updated(k, n, led, s)
    BY <2>3, <2>11, UpdateIs
  <2>13. Shrinks(k, n, led) /\ n \in Sound /\ n.cooperators = k.cooperators /\ n.validators = k.validators
    BY <2>11, <2>12, UpdatedIs DEF Updated
  <2>14. n \in MapsType /\ n.cooperators \in Partial(Stakes)
    BY <2>13, SoundIs DEF MapsType
  <2>15. /\ o.validators = n.validators /\ o.collaborations = n.collaborations /\ o.vip = n.vip
         /\ o.cooperators = Drop(n.cooperators, s)
         /\ o = [validators |-> o.validators, cooperators |-> o.cooperators,
                 collaborations |-> o.collaborations, vip |-> o.vip]
    BY <2>4, <2>14 DEF MapsType
  <2>16. /\ o.cooperators \in Partial(Stakes) /\ DOMAIN o.cooperators = DOMAIN n.cooperators \ {s}
         /\ \A c \in DOMAIN n.cooperators : c # s => o.cooperators[c] = n.cooperators[c]
    BY <2>14, <2>15, DropIs
  <2>17. o \in MapsType
    BY <2>14, <2>15, <2>16 DEF MapsType
  <2>18. Reduces(n, o, {})
    BY <2>13, <2>15, <2>16, <2>17, LessenedSelf DEF Reduces
  <2>19. Shrinks(n, o, led)
    BY <2>13, <2>18, ReducesShrinks
  <2>20. Shrinks(m, o, led)
    BY <2>11, <2>13, <2>19, ShrinksMore
  <2> QED
    BY <2>5, <2>7, <2>13, <2>15, <2>16, <2>20
<1> QED
  BY <1>1, <1>2

(* Both.                                                                   *)
LEMMA ChillStashIs ==
  ASSUME NEW m \in Sound, NEW led \in Ledgers, NEW s \in Stashes
  PROVE  /\ Shrinks(m, ChillStash(m, led, s), led)
         /\ DOMAIN ChillStash(m, led, s).validators = DOMAIN m.validators \ {s}
         /\ DOMAIN ChillStash(m, led, s).cooperators = DOMAIN m.cooperators \ {s}
<1>1. PICK n : n = RemoveValidator(m, led, s)
  OBVIOUS
<1>2. PICK o : o = RemoveCooperator(n, led, s)
  OBVIOUS
<1>3. ChillStash(m, led, s) = o
  BY <1>1, <1>2 DEF ChillStash
<1>4. /\ Shrinks(m, n, led) /\ n \in Sound
      /\ DOMAIN n.validators = DOMAIN m.validators \ {s} /\ n.cooperators = m.cooperators
  BY <1>1, RemoveValidatorIs DEF Shrinks, Within
<1>5. /\ Shrinks(n, o, led) /\ DOMAIN o.cooperators = DOMAIN n.cooperators \ {s}
      /\ o.validators = n.validators
  BY <1>2, <1>4, RemoveCooperatorIs
<1>6. Shrinks(m, o, led)
  BY <1>4, <1>5, ShrinksMore
<1> QED
  BY <1>3, <1>4, <1>5, <1>6

-----------------------------------------------------------------------------
(* Targets behind which there is less stake *)

(* Stakes scaled down, each rounded: so is their total.                     *)
LEMMA ScaledIs ==
  ASSUME NEW f \in Stakes, NEW k \in Nat, k < Accuracy,
         NEW g, g = [v \in DOMAIN f |-> (k * f[v]) \div Accuracy]
  PROVE  g \in Stakes /\ DOMAIN g = DOMAIN f /\ Lessened(f, g) /\ Accuracy * Total(g) <= k * Total(f)
<1>1. Accuracy \in Nat \ {0} /\ Accuracy \in Nat /\ Accuracy \in Int
  BY CooperationAssumption
<1>2. IsFiniteSet(DOMAIN f) /\ DOMAIN f \subseteq Stashes /\ \A v \in DOMAIN f : f[v] \in Nat
  BY TotalIs
<1>3. DOMAIN g = DOMAIN f
  OBVIOUS
<1>4. ASSUME NEW v \in DOMAIN f
      PROVE  g[v] \in Nat /\ Accuracy * g[v] <= k * f[v] /\ g[v] <= f[v]
             /\ k * f[v] \in Nat /\ Accuracy * g[v] \in Nat
  <2>1. PICK a \in Nat, b \in Nat : a = f[v] /\ b = k * a
    BY <1>2, ProductIs
  <2>2. g[v] = b \div Accuracy
    BY <2>1
  <2>3. g[v] \in Nat /\ Accuracy * g[v] <= b
    BY <1>1, <2>1, <2>2, DivIs
  <2>4. b = a * k /\ a * k <= a * Accuracy /\ a * Accuracy = Accuracy * a /\ Accuracy * a \in Nat
    BY <1>1, <2>1, ProductIs, ProductLess
  <2>5. PICK d \in Nat : d = g[v]
    BY <2>3
  <2>6. Accuracy * d \in Nat
    BY <1>1, <2>5, ProductIs
  <2>7. Accuracy * d <= Accuracy * a
    BY <2>1, <2>3, <2>4, <2>5, <2>6
  <2>8. d <= a
    BY <1>1, <2>1, <2>5, <2>7, CancelFactor
  <2> QED
    BY <2>1, <2>3, <2>5, <2>6, <2>8
<1>5. g \in [DOMAIN g -> Nat] /\ DOMAIN g \subseteq Stashes
  BY <1>2, <1>3, <1>4
<1>6. g \in Stakes
  BY <1>5, PartialIs DEF Stakes
<1>7. Lessened(f, g)
  BY <1>3, <1>4 DEF Lessened
<1> DEFINE S == DOMAIN f
           p == [v \in S |-> Accuracy * g[v]]
           q == [v \in S |-> k * f[v]]
<1>8. \A v \in S : p[v] = Accuracy * g[v] /\ q[v] = k * f[v]
  OBVIOUS
<1> HIDE DEF p, q
<1>9. IntegersOn(f, S) /\ IntegersOn(g, S) /\ IntegersOn(p, S) /\ IntegersOn(q, S)
  <2>1. ASSUME NEW v \in S PROVE f[v] \in Int /\ g[v] \in Int /\ p[v] \in Int /\ q[v] \in Int
    <3>1. f[v] \in Nat /\ g[v] \in Nat /\ p[v] \in Nat /\ q[v] \in Nat
      BY <1>2, <1>4, <1>8
    <3> QED
      BY <3>1
  <2> QED
    BY <2>1 DEF IntegersOn
<1>10. SumFunctionOnSet(p, S) <= SumFunctionOnSet(q, S)
  BY <1>2, <1>4, <1>8, <1>9, SumMonotone
<1>11. SumFunctionOnSet(p, S) = Accuracy * SumFunctionOnSet(g, S)
  BY <1>1, <1>2, <1>8, <1>9, SumTimes
<1>12. SumFunctionOnSet(q, S) = k * SumFunctionOnSet(f, S)
  <2>1. k \in Int
    OBVIOUS
  <2> QED
    BY <1>2, <1>8, <1>9, <2>1, SumTimes
<1> QED
  BY <1>3, <1>6, <1>7, <1>10, <1>11, <1>12 DEF Total

(* What a stash has promised, it has.                                      *)
Backed(m, led, s) == s \in DOMAIN m.cooperators => Total(m.cooperators[s]) <= At(led, s, 0)

(* Less is promised: it is backed still.                                   *)
LEMMA BackedStays ==
  ASSUME NEW m \in Sound, NEW n, NEW led \in Ledgers, NEW X, NEW s \in Stashes \ X,
         Within(m, n, X), Backed(m, led, s)
  PROVE  Backed(n, led, s)
<1> SUFFICES ASSUME s \in DOMAIN n.cooperators PROVE Total(n.cooperators[s]) <= At(led, s, 0)
  BY DEF Backed
<1>1. n \in Sound /\ s \in DOMAIN m.cooperators /\ Total(n.cooperators[s]) <= Total(m.cooperators[s])
  BY DEF Within
<1>2. Total(n.cooperators[s]) \in Nat /\ Total(m.cooperators[s]) \in Nat
  BY <1>1, TotalsAre
<1>3. Total(m.cooperators[s]) <= At(led, s, 0) /\ At(led, s, 0) \in Nat
  BY <1>1, LedgerIs DEF Backed
<1> QED
  BY <1>1, <1>2, <1>3

(* The targets of one stash replaced by smaller ones.                      *)
LEMMA RetargetedReduces ==
  ASSUME NEW m \in Sound, NEW s \in DOMAIN m.cooperators, NEW g \in Stakes,
         Lessened(m.cooperators[s], g)
  PROVE  /\ Reduces(m, [m EXCEPT !.cooperators[s] = g], {})
         /\ [m EXCEPT !.cooperators[s] = g].cooperators[s] = g
<1>1. m \in MapsType /\ m.cooperators \in Partial(Stakes)
  BY SoundIs DEF MapsType
<1>2. PICK n : n = [m EXCEPT !.cooperators[s] = g]
  OBVIOUS
<1>3. /\ n.validators = m.validators /\ n.collaborations = m.collaborations /\ n.vip = m.vip
      /\ n.cooperators = [m.cooperators EXCEPT ![s] = g]
      /\ n = [validators |-> n.validators, cooperators |-> n.cooperators,
              collaborations |-> n.collaborations, vip |-> n.vip]
  BY <1>1, <1>2 DEF MapsType
<1>4. m.cooperators \in [DOMAIN m.cooperators -> Stakes] /\ DOMAIN m.cooperators \subseteq Stashes
  BY <1>1, PartialIs
<1>5. /\ DOMAIN n.cooperators = DOMAIN m.cooperators /\ n.cooperators[s] = g
      /\ \A c \in DOMAIN m.cooperators : c # s => n.cooperators[c] = m.cooperators[c]
      /\ n.cooperators \in [DOMAIN n.cooperators -> Stakes]
  BY <1>3, <1>4
<1>6. n.cooperators \in Partial(Stakes)
  BY <1>4, <1>5, PartialIs
<1>7. n \in MapsType
  BY <1>1, <1>3, <1>6 DEF MapsType
<1>8. Reduces(m, n, {})
  BY <1>3, <1>5, <1>7, LessenedSelf DEF Reduces
<1> QED
  BY <1>2, <1>5, <1>8

(* When less is left than was promised, the promises become smaller.        *)
LEMMA AdjustTargetsIs ==
  ASSUME NEW m \in Sound, NEW led \in Ledgers, NEW s \in Stashes
  PROVE  /\ Shrinks(m, AdjustTargets(m, led, s), led)
         /\ Backed(AdjustTargets(m, led, s), led, s)
<1> DEFINE f == Targets(m, s)
           total == Total(f)
           own == At(led, s, 0)
           k == (own * Accuracy) \div total
           g == [v \in DOMAIN f |-> (k * f[v]) \div Accuracy]
<1>1. own \in Nat /\ Accuracy \in Nat \ {0} /\ Accuracy \in Nat
  BY LedgerIs, CooperationAssumption
<1>2. f \in Stakes /\ total \in Nat
  BY SoundIs, MapsAre, TotalIs
<1>3. AdjustTargets(m, led, s) =
        IF s \in DOMAIN m.cooperators /\ total > 0 /\ k < Accuracy
        THEN [m EXCEPT !.cooperators[s] = g] ELSE m
  BY DEF AdjustTargets
<1>4. s \in DOMAIN m.cooperators => m.cooperators[s] = f
  BY DEF Targets, At
<1> HIDE DEF f
<1>5. PICK p \in Nat : p = own * Accuracy
  BY <1>1, ProductIs
<1>6. CASE total > 0
  <2>1. total \in Nat \ {0}
    BY <1>2, <1>6
  <2>2. k \in Nat /\ total * k <= p /\ p < total * k + total
    BY <1>2, <1>5, <2>1, DivIs
  <2>3. CASE k < Accuracy
    <3>1. g \in Stakes /\ Lessened(f, g) /\ Accuracy * Total(g) <= k * total
      <4> HIDE DEF k
      <4> QED
        BY <1>2, <2>2, <2>3, ScaledIs
    <3> HIDE DEF k, g, total, own
    <3>2. Total(g) \in Nat
      BY <3>1, TotalIs
    <3>3. k * total = total * k /\ total * k \in Nat /\ Accuracy * own = p /\ Accuracy * Total(g) \in Nat
      BY <1>1, <1>2, <1>5, <2>2, <3>2, ProductIs
    <3>4. Accuracy * Total(g) <= Accuracy * own
      BY <1>5, <2>2, <3>1, <3>3
    <3>5. Total(g) <= own
      BY <1>1, <3>2, <3>4, CancelFactor
    <3>6. CASE s \in DOMAIN m.cooperators
      <4>1. PICK n : n = [m EXCEPT !.cooperators[s] = g]
        OBVIOUS
      <4>2. Reduces(m, n, {}) /\ n.cooperators[s] = g
        BY <1>4, <3>1, <3>6, <4>1, RetargetedReduces
      <4>3. Shrinks(m, n, led)
        BY <4>2, ReducesShrinks
      <4>4. Backed(n, led, s)
        BY <3>5, <4>2 DEF Backed, own
      <4>5. AdjustTargets(m, led, s) = n
        BY <1>3, <1>6, <2>3, <3>6, <4>1
      <4> QED
        BY <4>3, <4>4, <4>5
    <3>7. CASE s \notin DOMAIN m.cooperators
      BY <1>3, <3>7, ShrinksNot DEF Backed
    <3> QED
      BY <3>6, <3>7
  <2>4. CASE ~(k < Accuracy)
    <3>1. AdjustTargets(m, led, s) = m
      BY <1>3, <2>4
    <3> HIDE DEF k, total, own
    <3>2. Accuracy <= k
      BY <1>1, <2>2, <2>4
    <3>3. total * Accuracy <= total * k /\ total * Accuracy = Accuracy * total /\ Accuracy * own = p
          /\ total * k \in Nat /\ Accuracy * total \in Nat
      BY <1>1, <1>2, <1>5, <2>2, <3>2, ProductIs, ProductLess
    <3>4. Accuracy * total <= Accuracy * own
      BY <1>5, <2>2, <3>3
    <3>5. total <= own
      BY <1>1, <1>2, <3>4, CancelFactor
    <3> QED
      BY <1>4, <3>1, <3>5, ShrinksNot DEF Backed, total, own
  <2> QED
    BY <2>3, <2>4
<1>7. CASE ~(total > 0)
  <2>1. AdjustTargets(m, led, s) = m
    BY <1>3, <1>7
  <2> HIDE DEF total, own
  <2>2. total <= own
    BY <1>1, <1>2, <1>7
  <2> QED
    BY <1>4, <2>1, <2>2, ShrinksNot DEF Backed, total, own
<1> QED
  BY <1>6, <1>7

(* Targets and lists replaced by smaller ones.                             *)
LEMMA LoweredReduces ==
  ASSUME NEW m \in Sound, NEW h, NEW lists \in [Stashes -> SUBSET Stashes], NEW n,
         n = [validators |-> m.validators, cooperators |-> h, collaborations |-> lists, vip |-> m.vip],
         h = [c \in DOMAIN m.cooperators |-> h[c]],
         \A c \in DOMAIN m.cooperators : h[c] \in Stakes /\ Lessened(m.cooperators[c], h[c]),
         \A v \in Stashes : lists[v] \subseteq m.collaborations[v]
  PROVE  Reduces(m, n, {})
<1>1. m \in MapsType /\ m.cooperators \in Partial(Stakes)
  BY SoundIs DEF MapsType
<1>2. DOMAIN m.cooperators \subseteq Stashes
  BY <1>1, PartialIs
<1>3. PICK T : T = DOMAIN m.cooperators
  OBVIOUS
<1>4. DOMAIN h = T /\ h \in [T -> Stakes]
  BY <1>3
<1>5. h \in Partial(Stakes)
  BY <1>2, <1>3, <1>4, PartialIs
<1>6. n \in MapsType
  BY <1>1, <1>5 DEF MapsType
<1> QED
  BY <1>3, <1>4, <1>6 DEF Reduces

(* One target less.                                                        *)
LEMMA DropLess ==
  ASSUME NEW f \in Stakes, NEW v
  PROVE  Drop(f, v) \in Stakes /\ Lessened(f, Drop(f, v)) /\ Lessened(f, f)
<1>1. \A x \in DOMAIN f : f[x] \in Nat
  BY TotalIs
<1>2. Drop(f, v) \in Partial(Nat) /\ DOMAIN Drop(f, v) = DOMAIN f \ {v}
      /\ \A y \in DOMAIN f : y # v => Drop(f, v)[y] = f[y]
  BY DropIs DEF Stakes
<1> QED
  BY <1>1, <1>2 DEF Lessened, Stakes

(* do_remove_validator_from_cooperators_target takes away only.             *)
LEMMA RemoveFromTargetsIs ==
  ASSUME NEW m \in Sound, NEW led \in Ledgers, NEW s \in Stashes
  PROVE  Shrinks(m, RemoveFromTargets(m, s), led)
<1>1. PICK h : h = [c \in DOMAIN m.cooperators |-> IF c \in Listed(m, s) THEN Drop(m.cooperators[c], s)
                                                                       ELSE m.cooperators[c]]
  OBVIOUS
<1>2. PICK n : n = RemoveFromTargets(m, s)
  OBVIOUS
<1>3. m \in MapsType /\ m.collaborations \in [Stashes -> SUBSET Stashes]
  BY SoundIs DEF MapsType
<1>4. n = [validators |-> m.validators, cooperators |-> h, collaborations |-> m.collaborations,
           vip |-> m.vip]
  BY <1>1, <1>2, <1>3 DEF RemoveFromTargets, MapsType
<1>5. \A c \in DOMAIN m.cooperators : h[c] \in Stakes /\ Lessened(m.cooperators[c], h[c])
  BY <1>1, TotalsAre, DropLess
<1>6. h = [c \in DOMAIN m.cooperators |-> h[c]]
  BY <1>1
<1>7. Reduces(m, n, {})
  BY <1>3, <1>4, <1>5, <1>6, LoweredReduces
<1> QED
  BY <1>2, <1>7, ReducesShrinks

-----------------------------------------------------------------------------
(* Slashes *)

(* A copy made anew takes nothing away.                                    *)
LEMMA UpdateShrinks ==
  ASSUME NEW m \in Sound, NEW led \in Ledgers, NEW s \in Stashes
  PROVE  /\ Shrinks(m, UpdateActiveStake(m, led, s), led) /\ UpdateActiveStake(m, led, s) \in Sound
         /\ CopyOK(UpdateActiveStake(m, led, s), led, s)
<1>1. Updated(m, UpdateActiveStake(m, led, s), led, s)
  BY UpdateIs
<1> QED
  BY <1>1, UpdatedIs DEF Updated

(* do_slash of the stake, once it is taken: the promises are backed again.  *)
LEMMA SlashStakeIs ==
  ASSUME NEW m \in Sound, NEW led \in Ledgers, NEW s \in Stashes
  PROVE  /\ Shrinks(m, SlashStake(m, led, s), led)
         /\ Backed(SlashStake(m, led, s), led, s)
         /\ CopyOK(SlashStake(m, led, s), led, s)
<1>1. PICK n : n = UpdateActiveStake(m, led, s)
  OBVIOUS
<1>2. PICK o : o = AdjustTargets(n, led, s)
  OBVIOUS
<1>3. SlashStake(m, led, s) = o
  BY <1>1, <1>2 DEF SlashStake
<1>4. Shrinks(m, n, led) /\ n \in Sound /\ CopyOK(n, led, s)
  BY <1>1, UpdateShrinks
<1>5. Shrinks(n, o, led) /\ Backed(o, led, s)
  BY <1>2, <1>4, AdjustTargetsIs
<1>6. CopyOK(o, led, s)
  BY <1>4, <1>5 DEF Shrinks, Copies
<1> QED
  BY <1>3, <1>4, <1>5, <1>6, ShrinksMore

(* What apply_slash does to one of the slashed.                            *)
LEMMA ApplyToIs ==
  ASSUME NEW m \in Sound, NEW led \in Ledgers, NEW rep, NEW v, NEW stake \in Nat, NEW s \in Stashes
  PROVE  /\ Shrinks(m, ApplyTo(m, led, rep, v, stake, s), led)
         /\ stake > 0 => Backed(ApplyTo(m, led, rep, v, stake, s), led, s)
<1>1. PICK n : n = IF stake > 0 THEN SlashStake(m, led, s) ELSE m
  OBVIOUS
<1>2. PICK o : o = IF Unfit(n, rep, v, s) THEN ChillStash(n, led, s) ELSE n
  OBVIOUS
<1>3. ApplyTo(m, led, rep, v, stake, s) = o
  BY <1>1, <1>2 DEF ApplyTo
<1>4. Shrinks(m, n, led) /\ (stake > 0 => Backed(n, led, s))
  BY <1>1, SlashStakeIs, ShrinksNot
<1>5. n \in Sound
  BY <1>4 DEF Shrinks, Within
<1>6. Shrinks(n, o, led)
  BY <1>2, <1>5, ChillStashIs, ShrinksNot
<1>7. stake > 0 => Backed(o, led, s)
  BY <1>4, <1>5, <1>6, BackedStays DEF Shrinks
<1> QED
  BY <1>3, <1>4, <1>6, <1>7, ShrinksMore

(* Chilled one after the other, in any order.                              *)
LEMMA ChillAllIs ==
  ASSUME NEW m \in Sound, NEW led \in Ledgers, NEW set \in SUBSET Stashes
  PROVE  Shrinks(m, ChillAll(m, led, set), led)
<1> DEFINE Step(h, s) ==
             IF s = {} THEN m
             ELSE LET x == CHOOSE y \in s : TRUE IN ChillStash(h[s \ {x}], led, x)
           G == [p \in set \X Sound |-> ChillStash(p[2], led, p[1])]
           C == [s \in SUBSET set |-> CHOOSE y \in s : TRUE]
           h == CHOOSE h : h = [s \in SUBSET set |-> Step(h, s)]
<1>1. IsFiniteSet(set)
  BY StashesFinite
<1>2. ChillAll(m, led, set) = h[set]
  BY DEF ChillAll, FoldSet, MapThenFoldSet
<1>3. G \in [set \X Sound -> Sound]
  <2>1. \A p \in set \X Sound : ChillStash(p[2], led, p[1]) \in Sound
    <3> SUFFICES ASSUME NEW x \in set, NEW n \in Sound PROVE ChillStash(n, led, x) \in Sound
      OBVIOUS
    <3> QED
      BY ChillStashIs DEF Shrinks, Within
  <2> QED
    BY <2>1
<1>4. \A s \in SUBSET set : s # {} => C[s] \in s
  OBVIOUS
<1>5. \E g : g = [s \in SUBSET set |-> Step(g, s)]
  <2>1. \E g : IsFold(g, set, Sound, m, G, C)
    <3> HIDE DEF G, C
    <3> QED
      BY <1>1, <1>3, <1>4, FoldExists
  <2>2. PICK g : IsFold(g, set, Sound, m, G, C)
    BY <2>1
  <2>3. g \in [SUBSET set -> Sound]
    BY <2>2 DEF IsFold
  <2>4. ASSUME NEW s \in SUBSET set PROVE g[s] = Step(g, s)
    <3>1. CASE s = {}
      BY <2>2, <3>1 DEF IsFold
    <3>2. CASE s # {}
      <4>1. PICK x \in set : x = C[s] /\ x = CHOOSE y \in s : TRUE
        BY <1>4, <3>2
      <4>2. g[s] = G[<<x, g[s \ {x}]>>]
        <5> HIDE DEF G, C
        <5> QED
          BY <2>2, <3>2, <4>1 DEF IsFold
      <4>3. g[s \ {x}] \in Sound
        BY <2>3
      <4>4. G[<<x, g[s \ {x}]>>] = ChillStash(g[s \ {x}], led, x)
        BY <4>3
      <4> HIDE DEF G, C
      <4> QED
        BY <3>2, <4>1, <4>2, <4>4
    <3> QED
      BY <3>1, <3>2
  <2> HIDE DEF Step
  <2> QED
    BY <2>3, <2>4
<1>6. h = [s \in SUBSET set |-> Step(h, s)]
  <2> HIDE DEF Step
  <2> QED
    BY <1>5
<1>7. \A s \in SUBSET set : h[s] = Step(h, s)
  <2> HIDE DEF h, Step
  <2>1. \A s \in SUBSET set : [r \in SUBSET set |-> Step(h, r)][s] = Step(h, s)
    OBVIOUS
  <2> QED
    BY <1>6, <2>1
<1> HIDE DEF h, G, C
<1> DEFINE F == {s \in SUBSET set : Shrinks(m, h[s], led)}
<1>8. ASSUME NEW s \in SUBSET set, \A x \in s : s \ {x} \in F
      PROVE  s \in F
  <2>1. CASE s = {}
    <3>1. h[s] = m
      BY <1>7, <2>1
    <3> HIDE DEF Step
    <3> QED
      BY <3>1, ShrinksNot
  <2>2. CASE s # {}
    <3>1. PICK x \in s : x = CHOOSE y \in s : TRUE
      BY <2>2
    <3>2. PICK n : n = h[s \ {x}]
      OBVIOUS
    <3>3. h[s] = ChillStash(n, led, x)
      BY <1>7, <2>2, <3>1, <3>2
    <3>4. Shrinks(m, n, led) /\ n \in Sound /\ x \in Stashes
      BY <1>8, <3>2 DEF Shrinks, Within
    <3>5. Shrinks(n, ChillStash(n, led, x), led)
      BY <3>4, ChillStashIs
    <3>6. Shrinks(m, ChillStash(n, led, x), led)
      BY <3>4, <3>5, ShrinksMore
    <3> HIDE DEF Step
    <3> QED
      BY <3>3, <3>6
  <2> QED
    BY <2>1, <2>2
<1>9. \A s \in SUBSET set : s \in F
  <2> HIDE DEF F
  <2> QED
    BY <1>1, <1>8, SubsetInduction
<1> QED
  BY <1>2, <1>9

(* The slashed of an exposure, its validator first.                        *)
LEMMA ApplyToAllIs ==
  ASSUME NEW m \in Sound, NEW led \in Ledgers, NEW rep, NEW v \in Stashes, NEW stake \in Nat,
         NEW set \in SUBSET Stashes
  PROVE  /\ Shrinks(m, ApplyToAll(m, led, rep, v, stake, set), led)
         /\ stake > 0 => \A s \in set \cup {v} : Backed(ApplyToAll(m, led, rep, v, stake, set), led, s)
<1> DEFINE base == ApplyTo(m, led, rep, v, stake, v)
           Step(h, s) ==
             IF s = {} THEN base
             ELSE LET x == CHOOSE y \in s : TRUE IN ApplyTo(h[s \ {x}], led, rep, v, stake, x)
           G == [p \in set \X Sound |-> ApplyTo(p[2], led, rep, v, stake, p[1])]
           C == [s \in SUBSET set |-> CHOOSE y \in s : TRUE]
           h == CHOOSE h : h = [s \in SUBSET set |-> Step(h, s)]
<1>1. IsFiniteSet(set)
  BY StashesFinite
<1>2. ApplyToAll(m, led, rep, v, stake, set) = h[set]
  BY DEF ApplyToAll, FoldSet, MapThenFoldSet
<1>3. Shrinks(m, base, led) /\ base \in Sound /\ (stake > 0 => Backed(base, led, v))
  <2> HIDE DEF G, C, h
  <2>1. PICK b : b = ApplyTo(m, led, rep, v, stake, v)
    OBVIOUS
  <2>2. Shrinks(m, b, led) /\ (stake > 0 => Backed(b, led, v))
    BY <2>1, ApplyToIs
  <2>3. b \in Sound
    BY <2>2 DEF Shrinks, Within
  <2> QED
    BY <2>1, <2>2, <2>3
<1> HIDE DEF base
<1>4. G \in [set \X Sound -> Sound]
  <2>1. \A p \in set \X Sound : ApplyTo(p[2], led, rep, v, stake, p[1]) \in Sound
    <3> SUFFICES ASSUME NEW x \in set, NEW n \in Sound PROVE ApplyTo(n, led, rep, v, stake, x) \in Sound
      OBVIOUS
    <3> QED
      BY ApplyToIs DEF Shrinks, Within
  <2> QED
    BY <2>1
<1>5. \A s \in SUBSET set : s # {} => C[s] \in s
  OBVIOUS
<1>6. \E g : g = [s \in SUBSET set |-> Step(g, s)]
  <2>1. \E g : IsFold(g, set, Sound, base, G, C)
    <3> HIDE DEF G, C
    <3> QED
      BY <1>1, <1>3, <1>4, <1>5, FoldExists
  <2>2. PICK g : IsFold(g, set, Sound, base, G, C)
    BY <2>1
  <2>3. g \in [SUBSET set -> Sound]
    BY <2>2 DEF IsFold
  <2>4. ASSUME NEW s \in SUBSET set PROVE g[s] = Step(g, s)
    <3>1. CASE s = {}
      BY <2>2, <3>1 DEF IsFold
    <3>2. CASE s # {}
      <4>1. PICK x \in set : x = C[s] /\ x = CHOOSE y \in s : TRUE
        BY <1>5, <3>2
      <4>2. g[s] = G[<<x, g[s \ {x}]>>]
        <5> HIDE DEF G, C
        <5> QED
          BY <2>2, <3>2, <4>1 DEF IsFold
      <4>3. g[s \ {x}] \in Sound
        BY <2>3
      <4>4. G[<<x, g[s \ {x}]>>] = ApplyTo(g[s \ {x}], led, rep, v, stake, x)
        BY <4>3
      <4> HIDE DEF G, C
      <4> QED
        BY <3>2, <4>1, <4>2, <4>4
    <3> QED
      BY <3>1, <3>2
  <2> HIDE DEF Step
  <2> QED
    BY <2>3, <2>4
<1>7. h = [s \in SUBSET set |-> Step(h, s)]
  <2> HIDE DEF Step
  <2> QED
    BY <1>6
<1>8. \A s \in SUBSET set : h[s] = Step(h, s)
  <2> HIDE DEF h, Step
  <2>1. \A s \in SUBSET set : [r \in SUBSET set |-> Step(h, r)][s] = Step(h, s)
    OBVIOUS
  <2> QED
    BY <1>7, <2>1
<1> HIDE DEF h, G, C
<1> DEFINE Good(n, s) == Shrinks(m, n, led) /\ (stake > 0 => \A x \in s \cup {v} : Backed(n, led, x))
           F == {s \in SUBSET set : Good(h[s], s)}
<1>9. ASSUME NEW s \in SUBSET set, \A x \in s : s \ {x} \in F
      PROVE  s \in F
  <2>1. CASE s = {}
    <3>1. h[s] = base
      BY <1>8, <2>1
    <3>2. Good(base, s)
      BY <1>3, <2>1
    <3> HIDE DEF Step, Good
    <3> QED
      BY <3>1, <3>2
  <2>2. CASE s # {}
    <3>1. PICK x \in s : x = CHOOSE y \in s : TRUE
      BY <2>2
    <3>2. PICK n : n = h[s \ {x}]
      OBVIOUS
    <3>3. PICK o : o = ApplyTo(n, led, rep, v, stake, x)
      OBVIOUS
    <3>4. h[s] = o
      BY <1>8, <2>2, <3>1, <3>2, <3>3
    <3>5. Good(n, s \ {x})
      BY <1>9, <3>2
    <3>6. Shrinks(m, n, led) /\ n \in Sound /\ x \in Stashes
      BY <3>5 DEF Shrinks, Within
    <3>7. Shrinks(n, o, led) /\ (stake > 0 => Backed(o, led, x))
      BY <3>3, <3>6, ApplyToIs
    <3>8. Shrinks(m, o, led)
      BY <3>6, <3>7, ShrinksMore
    <3>9. ASSUME stake > 0, NEW y \in s \cup {v} PROVE Backed(o, led, y)
      <4>1. CASE y = x
        BY <3>7, <3>9, <4>1
      <4>2. CASE y # x
        <5>1. Backed(n, led, y) /\ y \in Stashes
          BY <3>5, <3>9, <4>2
        <5> QED
          BY <3>6, <3>7, <5>1, BackedStays DEF Shrinks
      <4> QED
        BY <4>1, <4>2
    <3>10. Good(o, s)
      BY <3>8, <3>9
    <3> HIDE DEF Step, Good
    <3> QED
      BY <3>4, <3>10
  <2> QED
    BY <2>1, <2>2
<1>10. \A s \in SUBSET set : s \in F
  <2> HIDE DEF F
  <2> QED
    BY <1>1, <1>9, SubsetInduction
<1> QED
  BY <1>2, <1>10

-----------------------------------------------------------------------------
(* Maps and ledger together *)

RolesBonded(m, led) == DOMAIN m.validators \cup DOMAIN m.cooperators \subseteq DOMAIN led

(* Roles are bonded, promises are backed, and no copy is short.            *)
Safe(m, led) ==
  /\ m \in Sound /\ led \in Ledgers
  /\ RolesBonded(m, led)
  /\ \A s \in Stashes : Backed(m, led, s)
  /\ \A s \in Stashes : CopyOK(m, led, s)

(* With a smaller ledger no active stake grows.                            *)
LEMMA LedgerLess ==
  ASSUME NEW m \in Sound, NEW led \in Ledgers, NEW less \in Ledgers, NEW s \in Stashes,
         At(less, s, 0) <= At(led, s, 0), CopyOK(m, led, s)
  PROVE  CopyOK(m, less, s)
<1>1. /\ m \in MapsType
      /\ s \in DOMAIN m.cooperators => Total(m.cooperators[s]) <= MaxStake[s]
      /\ s \in DOMAIN m.vip => m.vip[s] \in Nat
  BY SoundIs, MapsAre
<1>2. ActiveStake(m, led, s) \in Nat /\ ActiveStake(m, less, s) \in Nat
  BY <1>1, ActiveStakeIs
<1>3. ActiveStake(m, less, s) <= ActiveStake(m, led, s)
  <2>1. CASE s \in DOMAIN m.validators
    BY <1>1, <2>1, ActiveStakeIs
  <2>2. CASE s \notin DOMAIN m.validators
    <3>1. ActiveStake(m, less, s) = ActiveStake(m, led, s)
      BY <1>1, <2>2, ActiveStakeIs
    <3> QED
      BY <1>2, <3>1
  <2> QED
    BY <2>1, <2>2
<1> QED
  BY <1>1, <1>2, <1>3 DEF CopyOK

(* What shrinks stays safe.                                                *)
LEMMA ShrinksSafe ==
  ASSUME NEW m, NEW n, NEW led, Safe(m, led), Shrinks(m, n, led)
  PROVE  Safe(n, led)
<1>1. m \in Sound /\ led \in Ledgers /\ n \in Sound /\ Within(m, n, {}) /\ Copies(m, n, led, {})
  BY DEF Safe, Shrinks, Within
<1>2. \A s \in Stashes : Backed(n, led, s)
  <2> SUFFICES ASSUME NEW s \in Stashes PROVE Backed(n, led, s)
    OBVIOUS
  <2>1. PICK X : X = {}
    OBVIOUS
  <2>2. Within(m, n, X) /\ Backed(m, led, s) /\ s \in Stashes \ X
    BY <1>1, <2>1 DEF Safe
  <2> QED
    BY <1>1, <2>2, BackedStays
<1>3. \A s \in Stashes : CopyOK(n, led, s)
  BY <1>1 DEF Safe, Copies
<1>4. RolesBonded(n, led)
  BY <1>1 DEF Safe, RolesBonded, Within
<1> QED
  BY <1>1, <1>2, <1>3, <1>4 DEF Safe

(* A smaller ledger: safe where the roles still have their bonds and what   *)
(* is promised of the smaller stakes is backed.                            *)
LEMMA LessSafe ==
  ASSUME NEW m, NEW n, NEW led, NEW less \in Ledgers, Safe(m, led),
         \A s \in Stashes : At(less, s, 0) <= At(led, s, 0),
         Shrinks(m, n, less), RolesBonded(n, less),
         \A s \in Stashes : At(less, s, 0) = At(led, s, 0) \/ Backed(n, less, s)
  PROVE  Safe(n, less)
<1>1. m \in Sound /\ led \in Ledgers /\ n \in Sound /\ Within(m, n, {}) /\ Copies(m, n, less, {})
  BY DEF Safe, Shrinks, Within
<1>2. ASSUME NEW s \in Stashes PROVE Backed(n, less, s)
  <2>1. CASE At(less, s, 0) = At(led, s, 0)
    <3>1. PICK X : X = {}
      OBVIOUS
    <3>2. Within(m, n, X) /\ Backed(m, less, s) /\ s \in Stashes \ X
      BY <1>1, <2>1, <3>1 DEF Safe, Backed
    <3> QED
      BY <1>1, <3>2, BackedStays
  <2> QED
    BY <2>1
<1>3. ASSUME NEW s \in Stashes PROVE CopyOK(n, less, s)
  <2>1. CopyOK(m, less, s)
    BY <1>1, LedgerLess DEF Safe
  <2> QED
    BY <1>1, <2>1 DEF Copies
<1> QED
  BY <1>1, <1>2, <1>3 DEF Safe

(* Leaving the VIP members changes nothing else.                           *)
LEMMA DropVipSafe ==
  ASSUME NEW m, NEW led, NEW s, Safe(m, led)
  PROVE  Safe([m EXCEPT !.vip = Drop(@, s)], led)
<1>1. m \in MapsType /\ m.vip \in Partial(Nat)
  BY DEF Safe, Sound, MapsType
<1>2. PICK n : n = [m EXCEPT !.vip = Drop(@, s)]
  OBVIOUS
<1>3. /\ n.validators = m.validators /\ n.cooperators = m.cooperators
      /\ n.collaborations = m.collaborations /\ n.vip = Drop(m.vip, s)
      /\ n = [validators |-> n.validators, cooperators |-> n.cooperators,
              collaborations |-> n.collaborations, vip |-> n.vip]
  BY <1>1, <1>2 DEF MapsType
<1>4. /\ n.vip \in Partial(Nat) /\ DOMAIN n.vip = DOMAIN m.vip \ {s}
      /\ \A y \in DOMAIN m.vip : y # s => n.vip[y] = m.vip[y]
  <2>1. PICK f \in Partial(Nat) : f = m.vip
    BY <1>1
  <2>2. PICK g : g = Drop(f, s)
    OBVIOUS
  <2>3. g \in Partial(Nat) /\ DOMAIN g = DOMAIN f \ {s} /\ \A y \in DOMAIN f : y # s => g[y] = f[y]
    BY <2>2, DropIs
  <2>4. n.vip = g
    BY <1>3, <2>1, <2>2
  <2> QED
    BY <2>1, <2>3, <2>4
<1>5. n \in MapsType
  BY <1>1, <1>3, <1>4 DEF MapsType
<1>6. n \in Sound
  BY <1>3, <1>4, <1>5, SoundIs DEF Safe
<1>7. \A x : ActiveStake(n, led, x) = ActiveStake(m, led, x)
  BY <1>3, SameRoles
<1>8. \A x \in Stashes : CopyOK(n, led, x)
  BY <1>4, <1>7 DEF Safe, CopyOK
<1>9. RolesBonded(n, led) /\ \A x \in Stashes : Backed(n, led, x)
  BY <1>3 DEF Safe, RolesBonded, Backed
<1> QED
  BY <1>2, <1>6, <1>8, <1>9 DEF Safe

(* Becoming one copies the stake as it is.                                 *)
LEMMA PutVipSafe ==
  ASSUME NEW m, NEW led, NEW s \in Stashes, Safe(m, led)
  PROVE  Safe([m EXCEPT !.vip = Put(@, s, ActiveStake(m, led, s))], led)
<1>1. m \in MapsType /\ m.vip \in Partial(Nat) /\ m \in Sound
  BY DEF Safe, Sound, MapsType
<1>2. PICK new : new = ActiveStake(m, led, s)
  OBVIOUS
<1>3. new \in Nat /\ new <= MaxStake[s]
  <2>1. s \in DOMAIN m.cooperators => Total(m.cooperators[s]) <= MaxStake[s]
    BY <1>1, SoundIs
  <2> QED
    BY <1>1, <1>2, <2>1, ActiveStakeIs DEF Safe
<1>4. PICK n : n = [m EXCEPT !.vip = Put(@, s, new)]
  OBVIOUS
<1>5. /\ n.validators = m.validators /\ n.cooperators = m.cooperators
      /\ n.collaborations = m.collaborations /\ n.vip = Put(m.vip, s, new)
      /\ n = [validators |-> n.validators, cooperators |-> n.cooperators,
              collaborations |-> n.collaborations, vip |-> n.vip]
  BY <1>1, <1>4 DEF MapsType
<1>6. /\ n.vip \in Partial(Nat) /\ DOMAIN n.vip = DOMAIN m.vip \cup {s} /\ n.vip[s] = new
      /\ \A y \in DOMAIN m.vip : y # s => n.vip[y] = m.vip[y]
  <2>1. PICK f \in Partial(Nat) : f = m.vip
    BY <1>1
  <2>2. PICK g : g = Put(f, s, new)
    OBVIOUS
  <2>3. /\ g \in Partial(Nat) /\ DOMAIN g = DOMAIN f \cup {s} /\ g[s] = new
        /\ \A y \in DOMAIN f : y # s => g[y] = f[y]
    <3>1. PICK R : R = Nat
      OBVIOUS
    <3>2. f \in Partial(R) /\ new \in R
      BY <1>3, <3>1
    <3>3. /\ Put(f, s, new) \in Partial(R) /\ DOMAIN Put(f, s, new) = DOMAIN f \cup {s}
          /\ Put(f, s, new)[s] = new
          /\ \A y \in DOMAIN f : y # s => Put(f, s, new)[y] = f[y]
      BY <3>2, PutIs
    <3> QED
      BY <2>2, <3>1, <3>3
  <2>4. n.vip = g
    BY <1>5, <2>1, <2>2
  <2> QED
    BY <2>1, <2>3, <2>4
<1>7. n \in MapsType
  BY <1>1, <1>5, <1>6 DEF MapsType
<1>8. n \in Sound
  BY <1>1, <1>3, <1>5, <1>6, <1>7, SoundIs
<1>9. \A x : ActiveStake(n, led, x) = ActiveStake(m, led, x)
  BY <1>5, SameRoles
<1>10. \A x \in Stashes : CopyOK(n, led, x)
  BY <1>2, <1>3, <1>6, <1>9 DEF Safe, CopyOK
<1>11. RolesBonded(n, led) /\ \A x \in Stashes : Backed(n, led, x)
  BY <1>5 DEF Safe, RolesBonded, Backed
<1> QED
  BY <1>2, <1>4, <1>8, <1>10, <1>11 DEF Safe

-----------------------------------------------------------------------------
(* Roles that begin *)

(* A cooperator with new targets: others stay on their lists, and keep theirs. *)
LEMMA AddCooperatorIs ==
  ASSUME NEW m \in Sound, NEW s \in Stashes, s \notin DOMAIN m.validators,
         NEW targets \in Stakes, Total(targets) <= MaxStake[s],
         NEW n, n = AddCooperator(m, s, targets)
  PROVE  /\ Within(m, n, {s}) /\ \A led \in Ledgers : Copies(m, n, led, {s})
         /\ n.cooperators[s] = targets
<1>1. m \in MapsType /\ m.cooperators \in Partial(Stakes) /\ m.collaborations \in [Stashes -> SUBSET Stashes]
  BY SoundIs DEF MapsType
<1>2. PICK lists : lists = [v \in Stashes |-> IF v \in DOMAIN targets THEN m.collaborations[v] \cup {s}
                                                                     ELSE m.collaborations[v]]
  OBVIOUS
<1>3. /\ n.validators = m.validators /\ n.vip = m.vip /\ n.collaborations = lists
      /\ n.cooperators = Put(m.cooperators, s, targets)
      /\ n = [validators |-> n.validators, cooperators |-> n.cooperators,
              collaborations |-> n.collaborations, vip |-> n.vip]
  BY <1>1, <1>2 DEF MapsType, AddCooperator
<1>4. /\ n.cooperators \in Partial(Stakes) /\ DOMAIN n.cooperators = DOMAIN m.cooperators \cup {s}
      /\ n.cooperators[s] = targets
      /\ \A y \in DOMAIN m.cooperators : y # s => n.cooperators[y] = m.cooperators[y]
  <2>1. PICK f \in Partial(Stakes) : f = m.cooperators
    BY <1>1
  <2>2. /\ Put(f, s, targets) \in Partial(Stakes) /\ DOMAIN Put(f, s, targets) = DOMAIN f \cup {s}
        /\ Put(f, s, targets)[s] = targets
        /\ \A y \in DOMAIN f : y # s => Put(f, s, targets)[y] = f[y]
    BY PutIs
  <2> QED
    BY <1>3, <2>1, <2>2
<1>5. lists \in [Stashes -> SUBSET Stashes]
      /\ \A v \in Stashes : \A x : x # s => (x \in lists[v] <=> x \in m.collaborations[v])
  BY <1>1, <1>2
<1>6. n \in MapsType
  BY <1>1, <1>3, <1>4, <1>5 DEF MapsType
<1>7. n \in Sound
  <2>1. \A c \in DOMAIN n.cooperators : Total(n.cooperators[c]) <= MaxStake[c]
    BY <1>4, SoundIs
  <2>2. DOMAIN n.validators \cap DOMAIN n.cooperators = {}
    BY <1>3, <1>4, SoundIs
  <2>3. \A x \in DOMAIN n.vip : n.vip[x] <= MaxStake[x]
    BY <1>3, SoundIs
  <2> QED
    BY <1>6, <2>1, <2>2, <2>3, SoundIs
<1>8. \A c \in DOMAIN m.cooperators : Total(m.cooperators[c]) \in Nat
  BY TotalsAre
<1>9. Within(m, n, {s})
  BY <1>3, <1>4, <1>7, <1>8 DEF Within
<1>10. ASSUME NEW led \in Ledgers, NEW x \in Stashes \ {s}, CopyOK(m, led, x)
       PROVE  CopyOK(n, led, x)
  <2>1. Targets(n, x) = Targets(m, x)
    BY <1>4 DEF Targets, At
  <2>2. Lessened(Targets(m, x), Targets(n, x))
    <3>1. Targets(m, x) \in Stakes
      BY <1>1, MapsAre
    <3>2. \A v \in DOMAIN Targets(m, x) : Targets(m, x)[v] \in Nat
      BY <3>1, TotalIs
    <3> QED
      BY <2>1, <3>2 DEF Lessened
  <2>3. Spares(m, n, x)
    BY <1>3, <1>5, <2>2 DEF Spares, Weakens, Listed
  <2> QED
    BY <1>7, <1>10, <2>3, SparedCopy
<1> QED
  BY <1>4, <1>9, <1>10 DEF Copies

(* What began, ends with a copy made anew.                                 *)
LEMMA BeginsSafe ==
  ASSUME NEW m, NEW k, NEW n, NEW led, NEW s \in DOMAIN led, Safe(m, led),
         Within(m, k, {s}), Copies(m, k, led, {s}), Backed(k, led, s), Updated(k, n, led, s)
  PROVE  Safe(n, led)
<1>1. m \in Sound /\ led \in Ledgers /\ k \in Sound /\ n \in Sound
  BY DEF Safe, Within, Updated
<1>2. s \in Stashes
  BY <1>1, PartialIs DEF Ledgers
<1>3. ASSUME NEW x \in Stashes PROVE Backed(k, led, x)
  <2>1. CASE x = s
    BY <2>1
  <2>2. CASE x # s
    <3>1. PICK X : X = {s}
      OBVIOUS
    <3>2. Within(m, k, X) /\ Backed(m, led, x) /\ x \in Stashes \ X
      BY <2>2, <3>1 DEF Safe
    <3> QED
      BY <1>1, <3>2, BackedStays
  <2> QED
    BY <2>1, <2>2
<1>4. \A x \in Stashes : Backed(n, led, x)
  BY <1>3 DEF Updated, Backed
<1>5. \A x \in Stashes : CopyOK(n, led, x)
  <2>1. \A x \in Stashes \ {s} : CopyOK(k, led, x)
    BY DEF Safe, Copies
  <2> QED
    BY <2>1 DEF Updated
<1>6. RolesBonded(n, led)
  BY DEF Updated, Within, Safe, RolesBonded
<1> QED
  BY <1>1, <1>4, <1>5, <1>6 DEF Safe

(* The end of cooperate.                                                   *)
LEMMA MakeCooperatorSafe ==
  ASSUME NEW m, NEW led, NEW s \in DOMAIN led, Safe(m, led), NEW targets \in Stakes,
         Total(targets) <= led[s]
  PROVE  Safe(MakeCooperator(m, led, s, targets), led)
<1>1. m \in Sound /\ led \in Ledgers
  BY DEF Safe
<1>2. s \in Stashes
  BY <1>1, PartialIs DEF Ledgers
<1>3. Total(targets) <= MaxStake[s] /\ At(led, s, 0) = led[s]
  <2>1. At(led, s, 0) = led[s]
    BY DEF At
  <2> QED
    BY <1>1, <1>2, <2>1, LedgerIs, TotalIs
<1>4. PICK k : k = RemoveValidator(m, led, s)
  OBVIOUS
<1>5. PICK n : n = AddCooperator(k, s, targets)
  OBVIOUS
<1>6. PICK o : o = UpdateActiveStake(n, led, s)
  OBVIOUS
<1>7. MakeCooperator(m, led, s, targets) = o
  BY <1>4, <1>5, <1>6 DEF MakeCooperator
<1>8. Shrinks(m, k, led) /\ s \notin DOMAIN k.validators /\ k \in Sound
  BY <1>1, <1>2, <1>4, RemoveValidatorIs DEF Shrinks, Within
<1>9. Within(k, n, {s}) /\ Copies(k, n, led, {s}) /\ n.cooperators[s] = targets
  <2>1. /\ Within(k, n, {s}) /\ \A any \in Ledgers : Copies(k, n, any, {s})
        /\ n.cooperators[s] = targets
    BY <1>2, <1>3, <1>5, <1>8, AddCooperatorIs
  <2> QED
    BY <1>1, <2>1
<1>10. Safe(k, led)
  BY <1>8, ShrinksSafe
<1>11. Backed(n, led, s)
  BY <1>3, <1>9 DEF Backed
<1>12. Updated(n, o, led, s)
  BY <1>1, <1>2, <1>6, <1>9, UpdateIs DEF Within
<1> QED
  BY <1>7, <1>9, <1>10, <1>11, <1>12, BeginsSafe

(* One entry more, of any kind.                                            *)
LEMMA PutAny ==
  \A R : \A f \in Partial(R) : \A x \in Stashes : \A value \in R :
    Put(f, x, value) \in Partial(R) /\ DOMAIN Put(f, x, value) = DOMAIN f \cup {x}
<1> SUFFICES ASSUME NEW R, NEW f \in Partial(R), NEW x \in Stashes, NEW value \in R
             PROVE  Put(f, x, value) \in Partial(R) /\ DOMAIN Put(f, x, value) = DOMAIN f \cup {x}
  OBVIOUS
<1> QED
  BY PutIs

(* A role more.                                                            *)
LEMMA PutRole ==
  ASSUME NEW f \in Partial(BOOLEAN), NEW x \in Stashes, NEW value \in BOOLEAN
  PROVE  Put(f, x, value) \in Partial(BOOLEAN) /\ DOMAIN Put(f, x, value) = DOMAIN f \cup {x}
<1>1. PICK R : R = BOOLEAN
  OBVIOUS
<1>2. \A g \in Partial(R) : \A y \in Stashes : \A c \in R :
        Put(g, y, c) \in Partial(R) /\ DOMAIN Put(g, y, c) = DOMAIN g \cup {y}
  BY PutAny, Zenon
<1> QED
  BY <1>1, <1>2, Zenon

(* The end of validate.                                                    *)
LEMMA MakeValidatorSafe ==
  ASSUME NEW m, NEW led, NEW s \in DOMAIN led, Safe(m, led), NEW collaborative \in BOOLEAN
  PROVE  Safe(MakeValidator(m, led, s, collaborative), led)
<1>1. m \in Sound /\ led \in Ledgers
  BY DEF Safe
<1>2. s \in Stashes
  BY <1>1, PartialIs DEF Ledgers
<1>3. PICK k : k = RemoveCooperator(m, led, s)
  OBVIOUS
<1>4. PICK n : n = [k EXCEPT !.validators = Put(@, s, collaborative)]
  OBVIOUS
<1>5. PICK o : o = UpdateActiveStake(n, led, s)
  OBVIOUS
<1>6. MakeValidator(m, led, s, collaborative) = o
  BY <1>3, <1>4, <1>5 DEF MakeValidator
<1>7. Shrinks(m, k, led) /\ s \notin DOMAIN k.cooperators /\ k \in Sound
  BY <1>1, <1>2, <1>3, RemoveCooperatorIs DEF Shrinks, Within
<1>8. k \in MapsType /\ k.validators \in Partial(BOOLEAN)
  BY <1>7, SoundIs DEF MapsType
<1>9. /\ n.cooperators = k.cooperators /\ n.collaborations = k.collaborations /\ n.vip = k.vip
      /\ n.validators = Put(k.validators, s, collaborative)
      /\ n = [validators |-> n.validators, cooperators |-> n.cooperators,
              collaborations |-> n.collaborations, vip |-> n.vip]
  BY <1>4, <1>8 DEF MapsType
<1>10. n.validators \in Partial(BOOLEAN) /\ DOMAIN n.validators = DOMAIN k.validators \cup {s}
  <2>1. PICK f : f = k.validators /\ f \in Partial(BOOLEAN)
    BY <1>8, Zenon
  <2>2. Put(f, s, collaborative) \in Partial(BOOLEAN) /\ DOMAIN Put(f, s, collaborative) = DOMAIN f \cup {s}
    <3>1. s \in Stashes /\ f \in Partial(BOOLEAN) /\ collaborative \in BOOLEAN
      BY <1>2, <2>1
    <3> QED
      BY <3>1, PutRole, Zenon
  <2> QED
    BY <1>9, <2>1, <2>2, Zenon
<1>11. n \in MapsType
  BY <1>8, <1>9, <1>10 DEF MapsType
<1>12. n \in Sound
  BY <1>7, <1>9, <1>10, <1>11, SoundIs
<1>13. \A c \in DOMAIN k.cooperators : Total(k.cooperators[c]) \in Nat
  BY <1>7, TotalsAre
<1>14. Within(k, n, {s})
  BY <1>9, <1>10, <1>12, <1>13 DEF Within
<1>15. ASSUME NEW x \in Stashes \ {s}, CopyOK(k, led, x) PROVE CopyOK(n, led, x)
  <2>1. Targets(n, x) = Targets(k, x)
    BY <1>9 DEF Targets
  <2>2. \A v \in DOMAIN Targets(k, x) : Targets(k, x)[v] \in Nat
    <3>1. Targets(k, x) \in Stakes
      BY <1>8, MapsAre
    <3> QED
      BY <3>1, TotalIs
  <2>3. Spares(k, n, x)
    BY <1>9, <1>10, <2>1, <2>2 DEF Spares, Weakens, Listed, Lessened
  <2> QED
    BY <1>1, <1>7, <1>12, <1>15, <2>3, SparedCopy
<1>16. Copies(k, n, led, {s})
  BY <1>15 DEF Copies
<1>17. Safe(k, led)
  BY <1>7, ShrinksSafe
<1>18. Backed(n, led, s)
  BY <1>7, <1>9 DEF Backed
<1>19. Updated(n, o, led, s)
  BY <1>1, <1>2, <1>5, <1>12, UpdateIs
<1> QED
  BY <1>6, <1>14, <1>16, <1>17, <1>18, <1>19, BeginsSafe

-----------------------------------------------------------------------------
(* Every action *)

(* What a ledger is made of.                                               *)
LEMMA IsLedger ==
  ASSUME NEW T \in SUBSET Stashes, NEW led, led = [s \in T |-> led[s]],
         \A s \in T : led[s] \in Nat /\ led[s] <= MaxStake[s]
  PROVE  led \in Ledgers /\ DOMAIN led = T
<1>1. DOMAIN led = T /\ led \in [T -> Nat]
  OBVIOUS
<1>2. led \in Partial(Nat)
  BY <1>1, PartialIs
<1> QED
  BY <1>1, <1>2 DEF Ledgers

(* A bond that grows: the copy is made anew, of the stake as it is then.    *)
LEMMA BondSafe ==
  ASSUME Safe(maps, active), NEW s \in Stashes, NEW extra \in Nat, Bond(s, extra)
  PROVE  Safe(maps', active')
<1>1. maps \in Sound /\ active \in Ledgers /\ active \in Partial(Nat) /\ DOMAIN active \subseteq Stashes
  BY LedgerIs DEF Safe
<1>2. PICK new \in Nat : new = At(active, s, 0) + extra /\ new <= MaxStake[s] /\ At(active, s, 0) <= new
  BY <1>1, LedgerIs DEF Bond
<1>3. PICK T \in SUBSET Stashes : T = DOMAIN active \cup {s}
  BY <1>1
<1>4. active' = [y \in T |-> IF y = s THEN new ELSE active[y]]
  BY <1>2, <1>3 DEF Bond, Put
<1>5. \A y \in T : active'[y] \in Nat /\ active'[y] <= MaxStake[y]
  <2>1. \A y \in DOMAIN active : active[y] \in Nat /\ active[y] <= MaxStake[y]
    BY <1>1, PartialIs DEF Ledgers
  <2> QED
    BY <1>2, <1>3, <1>4, <2>1
<1>6. active' \in Ledgers /\ DOMAIN active' = T
  <2>1. active' = [y \in T |-> active'[y]]
    BY <1>4
  <2>2. PICK led : led = active'
    OBVIOUS
  <2> QED
    BY <1>5, <2>1, <2>2, IsLedger
<1>7. At(active', s, 0) = new /\ \A x \in Stashes : x # s => At(active', x, 0) = At(active, x, 0)
  BY <1>3, <1>4 DEF At
<1>8. ASSUME NEW x \in Stashes PROVE Backed(maps, active', x)
  <2>1. CASE x # s
    BY <1>7, <2>1 DEF Safe, Backed
  <2>2. CASE x = s
    <3> SUFFICES ASSUME s \in DOMAIN maps.cooperators PROVE Total(maps.cooperators[s]) <= At(active', s, 0)
      BY <2>2 DEF Backed
    <3>1. Total(maps.cooperators[s]) \in Nat
      BY <1>1, TotalsAre
    <3>2. At(active, s, 0) \in Nat
      BY <1>1, LedgerIs
    <3>3. Total(maps.cooperators[s]) <= At(active, s, 0)
      BY DEF Safe, Backed
    <3> QED
      BY <1>2, <1>7, <3>1, <3>2, <3>3
  <2> QED
    BY <2>1, <2>2
<1>9. Updated(maps, maps', active', s)
  BY <1>1, <1>6, UpdateIs DEF Bond
<1>10. ASSUME NEW x \in Stashes PROVE CopyOK(maps', active', x)
  <2>1. CASE x = s
    BY <1>9, <2>1 DEF Updated
  <2>2. CASE x # s
    <3>1. At(active', x, 0) = At(active, x, 0) /\ At(active, x, 0) \in Nat
      BY <1>1, <1>7, <2>2, LedgerIs
    <3>2. CopyOK(maps, active', x)
      BY <1>1, <1>6, <3>1, LedgerLess DEF Safe
    <3> QED
      BY <1>9, <2>2, <3>2 DEF Updated
  <2> QED
    BY <2>1, <2>2
<1>11. RolesBonded(maps', active')
  BY <1>3, <1>6, <1>9 DEF Safe, RolesBonded, Updated
<1>12. \A x \in Stashes : Backed(maps', active', x)
  BY <1>8, <1>9 DEF Updated, Backed
<1> QED
  BY <1>6, <1>9, <1>10, <1>11, <1>12 DEF Safe, Updated

(* A bond that shrinks takes the promises of a cooperator with it.          *)
LEMMA UnbondSafe ==
  ASSUME Safe(maps, active), NEW s \in Stashes, NEW value \in Nat, Unbond(s, value)
  PROVE  Safe(maps', active')
<1>1. maps \in Sound /\ active \in Ledgers /\ active \in Partial(Nat) /\ DOMAIN active \subseteq Stashes
  BY LedgerIs DEF Safe
<1>2. PICK T \in SUBSET Stashes : T = DOMAIN active
  BY <1>1
<1>3. \A y \in T : active[y] \in Nat /\ active[y] <= MaxStake[y] /\ MaxStake[y] \in Nat
  BY <1>1, <1>2, PartialIs, LedgerIs DEF Ledgers
<1>4. s \in T /\ active[s] >= value /\ active' = [active EXCEPT ![s] = @ - value]
  BY <1>2 DEF Unbond, Bonded
<1>5. active' = [y \in T |-> IF y = s THEN active[s] - value ELSE active[y]]
  <2>1. active \in [T -> Nat]
    BY <1>1, <1>2, PartialIs
  <2> QED
    BY <1>4, <2>1
<1>6. \A y \in T : active'[y] \in Nat /\ active'[y] <= MaxStake[y] /\ active'[y] <= active[y]
  BY <1>3, <1>4, <1>5
<1>7. active' \in Ledgers /\ DOMAIN active' = T
  <2>1. active' = [y \in T |-> active'[y]]
    BY <1>5
  <2>2. PICK led : led = active'
    OBVIOUS
  <2> QED
    BY <1>6, <2>1, <2>2, IsLedger
<1>8. /\ \A x \in Stashes : At(active', x, 0) <= At(active, x, 0)
      /\ \A x \in Stashes : x # s => At(active', x, 0) = At(active, x, 0)
  BY <1>2, <1>5, <1>6, <1>7 DEF At
<1>9. PICK n : n = UpdateActiveStake(maps, active', s)
  OBVIOUS
<1>10. maps' = AdjustTargets(n, active', s)
  BY <1>9 DEF Unbond
<1>11. Shrinks(maps, n, active') /\ n \in Sound
  BY <1>1, <1>7, <1>9, UpdateShrinks
<1>12. Shrinks(n, maps', active') /\ Backed(maps', active', s)
  BY <1>7, <1>10, <1>11, AdjustTargetsIs
<1>13. Shrinks(maps, maps', active')
  BY <1>1, <1>11, <1>12, ShrinksMore
<1>14. RolesBonded(maps', active')
  BY <1>2, <1>7, <1>13 DEF Safe, RolesBonded, Shrinks, Within
<1> QED
  BY <1>7, <1>8, <1>12, <1>13, <1>14, LessSafe

(* A stash is killed with its roles.                                       *)
LEMMA KillSafe ==
  ASSUME Safe(maps, active), NEW s \in Stashes, KillStash(s)
  PROVE  Safe(maps', active')
<1>1. maps \in Sound /\ active \in Ledgers /\ active \in Partial(Nat) /\ DOMAIN active \subseteq Stashes
  BY LedgerIs DEF Safe
<1>2. /\ active' \in Partial(Nat) /\ DOMAIN active' = DOMAIN active \ {s}
      /\ \A y \in DOMAIN active : y # s => active'[y] = active[y]
  <2>1. PICK f \in Partial(Nat) : f = active
    BY <1>1
  <2>2. PICK g : g = Drop(f, s)
    OBVIOUS
  <2>3. g \in Partial(Nat) /\ DOMAIN g = DOMAIN f \ {s} /\ \A y \in DOMAIN f : y # s => g[y] = f[y]
    BY <2>2, DropIs
  <2> QED
    BY <2>1, <2>2, <2>3 DEF KillStash
<1>3. active' \in Ledgers
  BY <1>1, <1>2 DEF Ledgers
<1>4. \A x \in Stashes : At(active', x, 0) = At(active, x, 0) /\ At(active, x, 0) \in Nat
  <2>1. s \in DOMAIN active /\ active[s] = 0
    BY DEF KillStash, Bonded
  <2>2. \A x \in Stashes : At(active, x, 0) \in Nat
    BY <1>1, LedgerIs
  <2> QED
    BY <1>2, <2>1, <2>2 DEF At
<1>5. maps' = ChillStash(maps, active', s)
  BY DEF KillStash, ChillStash
<1>6. /\ Shrinks(maps, maps', active')
      /\ DOMAIN maps'.validators = DOMAIN maps.validators \ {s}
      /\ DOMAIN maps'.cooperators = DOMAIN maps.cooperators \ {s}
  BY <1>1, <1>3, <1>5, ChillStashIs
<1>7. RolesBonded(maps', active')
  BY <1>2, <1>6 DEF Safe, RolesBonded
<1>8. \A x \in Stashes : At(active', x, 0) <= At(active, x, 0)
  BY <1>4
<1> QED
  BY <1>3, <1>4, <1>6, <1>7, <1>8, LessSafe

(* Validate.                                                               *)
LEMMA ValidateSafe ==
  ASSUME Safe(maps, active), NEW s \in Stashes, NEW collaborative \in BOOLEAN, Validate(s, collaborative)
  PROVE  Safe(maps', active')
<1>1. s \in DOMAIN active /\ active' = active /\ maps' = MakeValidator(maps, active, s, collaborative)
  BY DEF Validate, Bonded
<1>2. PICK m, led : m = maps /\ led = active
  OBVIOUS
<1>3. Safe(MakeValidator(m, led, s, collaborative), led)
  BY <1>1, <1>2, MakeValidatorSafe
<1> QED
  BY <1>1, <1>2, <1>3

(* What may be asked for as targets.                                       *)
LEMMA ChoicesAre ==
  ASSUME NEW s \in Stashes, NEW targets \in TargetChoices(s)
  PROVE  targets \in Stakes
<1>1. PICK T \in SUBSET Stashes : targets \in [T -> 1 .. MaxStake[s]]
  BY DEF TargetChoices
<1>2. MaxStake[s] \in Nat
  BY CooperationAssumption
<1>3. DOMAIN targets = T /\ targets \in [T -> Nat]
  BY <1>1, <1>2
<1> QED
  BY <1>3, PartialIs DEF Stakes

(* Cooperate.                                                              *)
LEMMA CooperateSafe ==
  ASSUME Safe(maps, active), NEW s \in Stashes, NEW targets \in TargetChoices(s), Cooperate(s, targets)
  PROVE  Safe(maps', active')
<1>1. s \in DOMAIN active /\ active' = active /\ maps' = MakeCooperator(maps, active, s, targets)
  BY DEF Cooperate, Bonded
<1>2. Total(targets) <= active[s] /\ targets \in Stakes
  <2>1. targets \in Stakes /\ Total(targets) \in Nat /\ active \in Ledgers
    BY ChoicesAre, TotalIs DEF Safe
  <2>2. active[s] \in Nat
    BY <1>1, <2>1, LedgerIs
  <2> QED
    BY <2>1, <2>2 DEF Cooperate
<1>3. Safe(MakeCooperator(maps, active, s, targets), active)
  BY <1>1, <1>2, MakeCooperatorSafe
<1> QED
  BY <1>1, <1>3

(* Chill, by whomever: targets are dropped before, or kept.                 *)
LEMMA ChillSafe ==
  ASSUME Safe(maps, active), NEW s \in Stashes, Chill(s) \/ ChillOther(s) \/ ChillOffender(s)
  PROVE  Safe(maps', active')
<1>1. maps \in Sound /\ active \in Ledgers
  BY DEF Safe
<1>2. active' = active
  BY DEF Chill, ChillOther, ChillOffender
<1>3. PICK n : /\ Shrinks(maps, n, active)
               /\ maps' = ChillStash(n, active, s)
  <2>1. CASE Chill(s) \/ ChillOther(s)
    <3>1. Shrinks(maps, RemoveFromTargets(maps, s), active)
      BY <1>1, RemoveFromTargetsIs
    <3> QED
      BY <2>1, <3>1 DEF Chill, ChillOther
  <2>2. CASE ChillOffender(s)
    <3>1. Shrinks(maps, maps, active)
      BY <1>1, ShrinksNot
    <3> QED
      BY <2>2, <3>1 DEF ChillOffender
  <2> QED
    BY <2>1, <2>2
<1>4. n \in Sound
  BY <1>3 DEF Shrinks, Within
<1>5. Shrinks(n, maps', active)
  BY <1>1, <1>3, <1>4, ChillStashIs
<1>6. Shrinks(maps, maps', active)
  BY <1>1, <1>3, <1>5, ShrinksMore
<1> QED
  BY <1>2, <1>6, ShrinksSafe

(* Kick: both copies are made anew.                                        *)
LEMMA KickSafe ==
  ASSUME Safe(maps, active), NEW s \in Stashes, NEW c \in Stashes, Kick(s, c)
  PROVE  Safe(maps', active')
<1>1. maps \in Sound /\ active \in Ledgers /\ active' = active
  BY DEF Safe, Kick
<1>2. maps \in MapsType /\ maps.collaborations \in [Stashes -> SUBSET Stashes]
  BY <1>1, SoundIs DEF MapsType
<1>3. PICK h : h = [d \in DOMAIN maps.cooperators |-> IF d = c THEN Drop(maps.cooperators[d], s)
                                                           ELSE maps.cooperators[d]]
  OBVIOUS
<1>4. PICK lists : lists = [maps.collaborations EXCEPT ![s] = @ \ {c}]
  OBVIOUS
<1>5. PICK n : n = [validators |-> maps.validators, cooperators |-> h, collaborations |-> lists,
                    vip |-> maps.vip]
  OBVIOUS
<1>6. maps' = UpdateActiveStake(UpdateActiveStake(n, active, c), active, s)
  <2>1. n = [maps EXCEPT
               !.collaborations[s] = @ \ {c},
               !.cooperators = [d \in DOMAIN @ |-> IF d = c THEN Drop(@[d], s) ELSE @[d]]]
    <3>1. PICK k : k = [maps EXCEPT !.collaborations = lists, !.cooperators = h]
      OBVIOUS
    <3>2. k = n
      <4>1. /\ k.validators = maps.validators /\ k.cooperators = h /\ k.collaborations = lists
            /\ k.vip = maps.vip
            /\ k = [validators |-> k.validators, cooperators |-> k.cooperators,
                    collaborations |-> k.collaborations, vip |-> k.vip]
        BY <1>2, <3>1 DEF MapsType
      <4> QED
        BY <1>5, <4>1
    <3>3. k = [maps EXCEPT
                 !.collaborations[s] = @ \ {c},
                 !.cooperators = [d \in DOMAIN @ |-> IF d = c THEN Drop(@[d], s) ELSE @[d]]]
      BY <1>2, <1>3, <1>4, <3>1
    <3> QED
      BY <3>2, <3>3
  <2> QED
    BY <2>1 DEF Kick
<1>7. lists \in [Stashes -> SUBSET Stashes] /\ \A v \in Stashes : lists[v] \subseteq maps.collaborations[v]
  BY <1>2, <1>4
<1>8. \A d \in DOMAIN maps.cooperators : h[d] \in Stakes /\ Lessened(maps.cooperators[d], h[d])
  BY <1>1, <1>3, TotalsAre, DropLess
<1>9. h = [d \in DOMAIN maps.cooperators |-> h[d]]
  BY <1>3
<1>10. Reduces(maps, n, {})
  BY <1>1, <1>5, <1>7, <1>8, <1>9, LoweredReduces
<1>11. Shrinks(maps, n, active)
  BY <1>1, <1>10, ReducesShrinks
<1>12. PICK o : o = UpdateActiveStake(n, active, c)
  OBVIOUS
<1>13. n \in Sound
  BY <1>11 DEF Shrinks, Within
<1>14. Shrinks(n, o, active) /\ o \in Sound
  BY <1>1, <1>12, <1>13, UpdateShrinks
<1>15. Shrinks(o, maps', active)
  <2>1. maps' = UpdateActiveStake(o, active, s)
    BY <1>6, <1>12
  <2> QED
    BY <1>1, <1>14, <2>1, UpdateShrinks
<1>16. Shrinks(maps, maps', active)
  BY <1>1, <1>11, <1>14, <1>15, ShrinksMore
<1> QED
  BY <1>1, <1>16, ShrinksSafe

(* Which functions tell the roles of validators.                           *)
LEMMA IsRoles ==
  ASSUME NEW f, DOMAIN f \subseteq Stashes, f \in [DOMAIN f -> BOOLEAN]
  PROVE  f \in Partial(BOOLEAN)
BY Zenon DEF Partial

(* Validators that become collaborative or stop being it, and lists that    *)
(* become shorter.                                                         *)
LEMMA OtherwiseReduces ==
  ASSUME NEW m \in Sound, NEW roles, NEW lists \in [Stashes -> SUBSET Stashes],
         roles \in [DOMAIN m.validators -> BOOLEAN],
         \A v \in Stashes : lists[v] \subseteq m.collaborations[v],
         NEW n, n = [validators |-> roles, cooperators |-> m.cooperators, collaborations |-> lists,
                     vip |-> m.vip]
  PROVE  Reduces(m, n, {})
<1>1. m \in MapsType
  BY SoundIs
<1>2. DOMAIN m.validators \subseteq Stashes /\ m.cooperators \in Partial(Stakes) /\ m.vip \in Partial(Nat)
  BY <1>1, MapsAre
<1>3. DOMAIN roles = DOMAIN m.validators
  OBVIOUS
<1>4. roles \in Partial(BOOLEAN)
  BY <1>2, <1>3, IsRoles, Zenon
<1>5. n \in MapsType
  BY <1>2, <1>4, Zenon DEF MapsType
<1> QED
  BY <1>3, <1>5, LessenedSelf DEF Reduces

(* A validator becomes collaborative.                                      *)
LEMMA MakeCollaborativeSafe ==
  ASSUME Safe(maps, active), NEW s \in Stashes, MakeCollaborative(s)
  PROVE  Safe(maps', active')
<1>1. maps \in Sound /\ active \in Ledgers /\ active' = active
  BY DEF Safe, MakeCollaborative
<1>2. maps \in MapsType /\ maps.collaborations \in [Stashes -> SUBSET Stashes]
      /\ \A v \in DOMAIN maps.validators : maps.validators[v] \in BOOLEAN
  BY <1>1, SoundIs, MapsAre
<1>3. PICK roles : roles = [v \in DOMAIN maps.validators |-> IF v = s THEN TRUE ELSE maps.validators[v]]
  OBVIOUS
<1>4. roles \in [DOMAIN maps.validators -> BOOLEAN]
  BY <1>2, <1>3
<1>5. maps' = [validators |-> roles, cooperators |-> maps.cooperators,
               collaborations |-> maps.collaborations, vip |-> maps.vip]
  <2>1. PICK k : k = [maps EXCEPT !.validators[s] = TRUE]
    OBVIOUS
  <2>2. /\ k.validators = [maps.validators EXCEPT ![s] = TRUE] /\ k.cooperators = maps.cooperators
        /\ k.collaborations = maps.collaborations /\ k.vip = maps.vip
        /\ k = [validators |-> k.validators, cooperators |-> k.cooperators,
                collaborations |-> k.collaborations, vip |-> k.vip]
    BY <1>2, <2>1 DEF MapsType
  <2>3. maps.validators \in [DOMAIN maps.validators -> BOOLEAN]
    <3>1. PICK R : R = BOOLEAN
      OBVIOUS
    <3>2. maps.validators \in Partial(R)
      BY <1>2, <3>1, MapsAre, Zenon
    <3> QED
      BY <3>1, <3>2, PartialIs, Zenon
  <2>4. k.validators = roles
    BY <1>3, <2>2, <2>3
  <2> QED
    BY <2>1, <2>2, <2>4 DEF MakeCollaborative
<1>6. \A v \in Stashes : maps.collaborations[v] \subseteq maps.collaborations[v]
  OBVIOUS
<1>7. PICK lists \in [Stashes -> SUBSET Stashes] : lists = maps.collaborations
  BY <1>2
<1>8. Reduces(maps, maps', {})
  BY <1>1, <1>4, <1>5, <1>6, <1>7, OtherwiseReduces
<1> QED
  BY <1>1, <1>8, ReducesShrinks, ShrinksSafe

(* ellect_validators.                                                      *)
LEMMA EllectSafe ==
  ASSUME Safe(maps, active), Ellect
  PROVE  Safe(maps', active')
<1>1. maps \in Sound /\ active \in Ledgers /\ active' = active
  BY DEF Safe, Ellect
<1>2. PICK set : set = {s \in DOMAIN maps.validators : ~LegitForValidator(s)}
  OBVIOUS
<1>3. set \in SUBSET Stashes
  BY <1>1, <1>2, SoundIs, MapsAre
<1>4. PICK n : n = ChillAll(maps, active, set)
  OBVIOUS
<1>5. Shrinks(maps, n, active) /\ n \in Sound
  <2>1. Shrinks(maps, n, active)
    BY <1>1, <1>3, <1>4, ChillAllIs
  <2> QED
    BY <2>1 DEF Shrinks, Within
<1>6. PICK alone : alone = {s \in DOMAIN n.validators : ~LegitForCollab(s)}
  OBVIOUS
<1>7. PICK lists : lists = [v \in Stashes |-> IF v \in alone THEN {} ELSE n.collaborations[v]]
  OBVIOUS
<1>8. PICK roles : roles = [s \in DOMAIN n.validators |-> n.validators[s] /\ s \notin alone]
  OBVIOUS
<1>9. n \in MapsType /\ n.collaborations \in [Stashes -> SUBSET Stashes]
  BY <1>5, SoundIs, MapsAre
<1>10. lists \in [Stashes -> SUBSET Stashes] /\ \A v \in Stashes : lists[v] \subseteq n.collaborations[v]
  BY <1>7, <1>9
<1>11. roles \in [DOMAIN n.validators -> BOOLEAN]
  BY <1>8, Zenon
<1>12. maps' = [validators |-> roles, cooperators |-> n.cooperators, collaborations |-> lists, vip |-> n.vip]
  <2>1. PICK k : k = [n EXCEPT !.validators = roles, !.collaborations = lists]
    OBVIOUS
  <2>2. maps' = k
    <3>1. maps' = Ellected(maps, active)
      BY DEF Ellect
    <3>2. Ellected(maps, active) =
            [n EXCEPT !.validators = [s \in DOMAIN n.validators |-> n.validators[s] /\ s \notin alone],
                      !.collaborations = [v \in Stashes |-> IF v \in alone THEN {} ELSE n.collaborations[v]]]
      BY <1>2, <1>4, <1>6 DEF Ellected
    <3> QED
      BY <1>7, <1>8, <2>1, <3>1, <3>2, Zenon
  <2>3. /\ k.validators = roles /\ k.cooperators = n.cooperators
        /\ k.collaborations = lists /\ k.vip = n.vip
        /\ k = [validators |-> k.validators, cooperators |-> k.cooperators,
                collaborations |-> k.collaborations, vip |-> k.vip]
    BY <1>9, <2>1 DEF MapsType
  <2> QED
    BY <2>2, <2>3
<1>13. Reduces(n, maps', {})
  BY <1>5, <1>10, <1>11, <1>12, OtherwiseReduces
<1>14. Shrinks(n, maps', active)
  BY <1>1, <1>5, <1>13, ReducesShrinks
<1>15. Shrinks(maps, maps', active)
  BY <1>1, <1>5, <1>14, ShrinksMore
<1> QED
  BY <1>1, <1>15, ShrinksSafe

(* Less of a number is a number.                                           *)
LEMMA MonusIs ==
  ASSUME NEW a \in Nat, NEW b \in Nat
  PROVE  Monus(a, b) \in Nat /\ Monus(a, b) <= a
BY DEF Monus

(* apply_slash: each of the slashed is backed again, or was not slashed.    *)
LEMMA ApplySlashSafe ==
  ASSUME Safe(maps, active), NEW v \in Stashes, NEW others \in SUBSET (Stashes \ {v}),
         NEW stake \in Nat, NEW points \in Nat, ApplySlash(v, others, stake, points)
  PROVE  Safe(maps', active')
<1>1. maps \in Sound /\ active \in Ledgers /\ active \in Partial(Nat) /\ DOMAIN active \subseteq Stashes
  BY LedgerIs DEF Safe
<1>2. PICK T \in SUBSET Stashes : T = DOMAIN active
  BY <1>1
<1>3. \A y \in T : active[y] \in Nat /\ active[y] <= MaxStake[y] /\ MaxStake[y] \in Nat
  BY <1>1, <1>2, PartialIs, LedgerIs DEF Ledgers
<1>4. active' = [s \in T |-> IF s \in others \cup {v} THEN Monus(active[s], stake) ELSE active[s]]
  BY <1>2 DEF ApplySlash
<1>5. \A y \in T : active'[y] \in Nat /\ active'[y] <= active[y] /\ active'[y] <= MaxStake[y]
  <2>1. \A y \in T : Monus(active[y], stake) \in Nat /\ Monus(active[y], stake) <= active[y]
    BY <1>3, MonusIs
  <2> QED
    BY <1>3, <1>4, <2>1
<1>6. active' \in Ledgers /\ DOMAIN active' = T
  <2>1. active' = [y \in T |-> active'[y]]
    BY <1>4
  <2>2. PICK led : led = active'
    OBVIOUS
  <2> QED
    BY <1>5, <2>1, <2>2, IsLedger
<1>7. /\ \A x \in Stashes : At(active', x, 0) <= At(active, x, 0)
      /\ \A x \in Stashes : x \notin others \cup {v} => At(active', x, 0) = At(active, x, 0)
  BY <1>2, <1>4, <1>5, <1>6 DEF At
<1>8. /\ Shrinks(maps, maps', active')
      /\ stake > 0 => \A s \in others \cup {v} : Backed(maps', active', s)
  <2>1. PICK n, rep, less, set : n = maps' /\ rep = reputation' /\ less = active' /\ set = others
    OBVIOUS
  <2>2. n = ApplyToAll(maps, less, rep, v, stake, set)
    BY <2>1 DEF ApplySlash
  <2>3. set \in SUBSET Stashes /\ less \in Ledgers
    BY <1>6, <2>1
  <2>4. /\ Shrinks(maps, n, less)
        /\ stake > 0 => \A s \in set \cup {v} : Backed(n, less, s)
    BY <1>1, <2>2, <2>3, ApplyToAllIs
  <2> QED
    BY <2>1, <2>4
<1>9. stake = 0 => \A x \in Stashes : At(active', x, 0) = At(active, x, 0)
  BY <1>2, <1>3, <1>4, <1>6 DEF At, Monus
<1>10. \A x \in Stashes : At(active', x, 0) = At(active, x, 0) \/ Backed(maps', active', x)
  BY <1>7, <1>8, <1>9
<1>11. RolesBonded(maps', active')
  BY <1>2, <1>6, <1>8 DEF Safe, RolesBonded, Shrinks, Within
<1> QED
  BY <1>6, <1>7, <1>8, <1>10, <1>11, LessSafe

(* Becoming a VIP member.                                                  *)
LEMMA BecomeVipSafe ==
  ASSUME Safe(maps, active), NEW s \in Stashes, BecomeVip(s)
  PROVE  Safe(maps', active')
BY PutVipSafe DEF BecomeVip

(* Leaving for free.                                                       *)
LEMMA ExitVipFreelySafe ==
  ASSUME Safe(maps, active), NEW s \in Stashes, ExitVipFreely(s)
  PROVE  Safe(maps', active')
BY DropVipSafe DEF ExitVipFreely

(* A percentage, rounded, is part of the whole.                            *)
LEMMA PercentIs ==
  ASSUME NEW a \in Nat
  PROVE  Percent(TaxPercent, a) \in Nat /\ Percent(TaxPercent, a) <= a
<1>1. TaxPercent \in Nat /\ TaxPercent <= 100
  BY CooperationAssumption
<1>2. PICK p \in Nat : p = TaxPercent * a
  BY <1>1, ProductIs
<1>3. p <= a * 100
  BY <1>1, <1>2, ProductIs, ProductLess
<1>4. PICK q : q = (p + 49) \div 100
  OBVIOUS
<1>5. q \in Nat /\ 100 * q <= p + 49
  <2>1. PICK b \in Nat : b = p + 49
    OBVIOUS
  <2> QED
    BY <1>4, <2>1, DivIs
<1>6. q <= a
  BY <1>2, <1>3, <1>5
<1>7. Percent(TaxPercent, a) = q
  BY <1>2, <1>4 DEF Percent
<1> QED
  BY <1>5, <1>6, <1>7

(* Of a cooperator that is taxed: what is left and what is taken were       *)
(* together no more than it had promised.                                  *)
LEMMA TaxIs ==
  ASSUME NEW m \in Sound, NEW s \in DOMAIN m.cooperators,
         NEW taxes, taxes = [v \in ListedTargets(m, s) |-> Percent(TaxPercent, Targets(m, s)[v])]
  PROVE  /\ Taxed(m, s) \in Stakes /\ Lessened(m.cooperators[s], Taxed(m, s))
         /\ DOMAIN Taxed(m, s) \subseteq ListedTargets(m, s)
         /\ Total(taxes) \in Nat /\ Total(Taxed(m, s)) + Total(taxes) <= Total(m.cooperators[s])
<1>1. PICK t \in Stakes : t = m.cooperators[s] /\ t = Targets(m, s)
  BY TotalsAre DEF Targets, At
<1>2. /\ IsFiniteSet(DOMAIN t) /\ DOMAIN t \subseteq Stashes /\ Total(t) \in Nat
      /\ \A v \in DOMAIN t : t[v] \in Nat
  BY TotalIs
<1>3. PICK R \in SUBSET DOMAIN t : R = ListedTargets(m, s)
  BY <1>1 DEF ListedTargets
<1>4. PICK left : left = [v \in DOMAIN t |-> t[v] - Percent(TaxPercent, t[v])]
  OBVIOUS
<1>5. \A v \in DOMAIN t : /\ Percent(TaxPercent, t[v]) \in Nat /\ Percent(TaxPercent, t[v]) <= t[v]
                          /\ left[v] \in Nat /\ left[v] <= t[v]
                          /\ t[v] = left[v] + Percent(TaxPercent, t[v])
  <2> SUFFICES ASSUME NEW v \in DOMAIN t
               PROVE  /\ Percent(TaxPercent, t[v]) \in Nat /\ Percent(TaxPercent, t[v]) <= t[v]
                      /\ left[v] \in Nat /\ left[v] <= t[v]
                      /\ t[v] = left[v] + Percent(TaxPercent, t[v])
    OBVIOUS
  <2>1. PICK a \in Nat : a = t[v]
    BY <1>2
  <2>2. Percent(TaxPercent, a) \in Nat /\ Percent(TaxPercent, a) <= a
    BY PercentIs
  <2>3. left[v] = a - Percent(TaxPercent, a)
    BY <1>4, <2>1
  <2> QED
    BY <2>1, <2>2, <2>3
<1>6. PICK g : g = [v \in {v \in R : left[v] >= MinCooperatorBond} |-> left[v]]
  OBVIOUS
<1>7. Taxed(m, s) = g
  BY <1>1, <1>3, <1>4, <1>6 DEF Taxed, ListedTargets
<1>8. DOMAIN g \in SUBSET R /\ \A v \in DOMAIN g : g[v] = left[v]
  BY <1>6
<1>9. g \in Stakes
  <2>1. DOMAIN g \subseteq Stashes /\ g \in [DOMAIN g -> Nat]
    BY <1>2, <1>5, <1>6, <1>8
  <2> QED
    BY <2>1, PartialIs DEF Stakes
<1>10. Lessened(t, g)
  BY <1>5, <1>8 DEF Lessened
<1>11. DOMAIN taxes = R /\ \A v \in R : taxes[v] = Percent(TaxPercent, t[v])
  BY <1>1, <1>3
<1>12. IsFiniteSet(R)
  BY <1>2, FS_Subset
<1>13. ASSUME NEW v \in R PROVE taxes[v] \in Nat /\ left[v] \in Nat /\ t[v] = left[v] + taxes[v]
  BY <1>5, <1>11
<1>14. IntegersOn(taxes, R) /\ IntegersOn(left, R)
  <2>1. \A v \in R : taxes[v] \in Int /\ left[v] \in Int
    BY <1>13
  <2> QED
    BY <2>1 DEF IntegersOn
<1>15. SumFunctionOnSet(t, R) = SumFunctionOnSet(left, R) + SumFunctionOnSet(taxes, R)
  BY <1>12, <1>13, <1>14, SumPlus
<1>16. SumFunctionOnSet(g, DOMAIN g) <= SumFunctionOnSet(left, R)
  <2>1. PICK S \in SUBSET R : S = DOMAIN g
    BY <1>8
  <2>2. ASSUME NEW v \in S PROVE g[v] \in Nat /\ g[v] <= left[v]
    <3>1. g[v] = left[v] /\ left[v] \in Nat
      BY <1>8, <1>13, <2>1
    <3> QED
      BY <3>1
  <2> QED
    BY <1>12, <1>13, <2>1, <2>2, LessOnLess
<1>17. SumFunctionOnSet(t, R) <= SumFunctionOnSet(t, DOMAIN t)
  BY <1>2, SumOfMore
<1>18. /\ SumFunctionOnSet(left, R) \in Nat /\ SumFunctionOnSet(taxes, R) \in Nat
       /\ SumFunctionOnSet(t, R) \in Nat /\ SumFunctionOnSet(t, DOMAIN t) \in Nat
       /\ Total(g) \in Nat
  BY <1>2, <1>9, <1>12, <1>13, SumOfNaturals, TotalIs
<1>19. Total(taxes) \in Nat /\ Total(g) + Total(taxes) <= Total(t)
  BY <1>11, <1>15, <1>16, <1>17, <1>18 DEF Total
<1> QED
  BY <1>1, <1>3, <1>7, <1>8, <1>9, <1>10, <1>19

(* slash_vip_account: the tax on a cooperator is no more than it had, and  *)
(* what is left to it, it still has.                                       *)
LEMMA ExitVipSafe ==
  ASSUME Safe(maps, active), NEW s \in Stashes, ExitVip(s)
  PROVE  Safe(maps', active')
<1> DEFINE coops == s \in DOMAIN maps.cooperators /\ s \notin DOMAIN maps.validators
           taxes == [v \in ListedTargets(maps, s) |-> Percent(TaxPercent, Targets(maps, s)[v])]
           tax == IF coops THEN Total(taxes) ELSE Percent(TaxPercent, active[s])
           chills == s \in DOMAIN maps.validators /\ active[s] - tax < MinValidatorBond
           m == IF coops THEN AddCooperator(maps, s, Taxed(maps, s))
                ELSE IF chills THEN ChillStash(maps, active, s)
                ELSE maps
<1>1. maps \in Sound /\ active \in Ledgers /\ active \in Partial(Nat) /\ DOMAIN active \subseteq Stashes
  BY LedgerIs DEF Safe
<1>2. PICK T \in SUBSET Stashes : T = DOMAIN active
  BY <1>1
<1>3. \A y \in T : active[y] \in Nat /\ active[y] <= MaxStake[y] /\ MaxStake[y] \in Nat
  BY <1>1, <1>2, PartialIs, LedgerIs DEF Ledgers
<1>4. /\ s \in T /\ active' = [active EXCEPT ![s] = Monus(@, tax)]
      /\ maps' = [m EXCEPT !.vip = Drop(@, s)]
  BY <1>2 DEF ExitVip, Bonded, ListedTargets
<1>5. At(active, s, 0) = active[s] /\ (coops => Total(maps.cooperators[s]) <= active[s])
  BY <1>2, <1>4 DEF At, Safe, Backed
<1>6. coops => /\ Taxed(maps, s) \in Stakes /\ Lessened(maps.cooperators[s], Taxed(maps, s))
               /\ DOMAIN Taxed(maps, s) \subseteq ListedTargets(maps, s)
               /\ Total(taxes) \in Nat
               /\ Total(Taxed(maps, s)) + Total(taxes) <= Total(maps.cooperators[s])
               /\ Total(Taxed(maps, s)) \in Nat /\ Total(maps.cooperators[s]) \in Nat
  <2> SUFFICES ASSUME coops
               PROVE  /\ Taxed(maps, s) \in Stakes /\ Lessened(maps.cooperators[s], Taxed(maps, s))
                      /\ DOMAIN Taxed(maps, s) \subseteq ListedTargets(maps, s)
                      /\ Total(taxes) \in Nat
                      /\ Total(Taxed(maps, s)) + Total(taxes) <= Total(maps.cooperators[s])
                      /\ Total(Taxed(maps, s)) \in Nat /\ Total(maps.cooperators[s]) \in Nat
    OBVIOUS
  <2>1. PICK f : f = taxes
    OBVIOUS
  <2>2. /\ Taxed(maps, s) \in Stakes /\ Lessened(maps.cooperators[s], Taxed(maps, s))
        /\ DOMAIN Taxed(maps, s) \subseteq ListedTargets(maps, s)
        /\ Total(f) \in Nat /\ Total(Taxed(maps, s)) + Total(f) <= Total(maps.cooperators[s])
    BY <1>1, <2>1, TaxIs
  <2>3. Total(Taxed(maps, s)) \in Nat /\ Total(maps.cooperators[s]) \in Nat
    BY <1>1, <2>2, TotalIs, TotalsAre
  <2> QED
    BY <2>1, <2>2, <2>3
<1> HIDE DEF taxes
<1>7. tax \in Nat
  BY <1>3, <1>4, <1>6, PercentIs
<1>8. Safe(m, active) /\ (coops => m.cooperators[s] = Taxed(maps, s))
  <2>1. CASE coops
    <3>1. PICK g \in Stakes : g = Taxed(maps, s) /\ Lessened(maps.cooperators[s], g)
      BY <1>6, <2>1
    <3>2. \A v \in DOMAIN g : s \in maps.collaborations[v]
      BY <1>6, <2>1, <3>1 DEF ListedTargets, Listed
    <3>3. PICK n : n = AddCooperator(maps, s, g)
      OBVIOUS
    <3>4. maps \in MapsType /\ maps.cooperators \in Partial(Stakes)
          /\ maps.collaborations \in [Stashes -> SUBSET Stashes]
      BY <1>1, SoundIs, MapsAre
    <3>5. PICK h : h = Put(maps.cooperators, s, g)
      OBVIOUS
    <3>6. PICK lists : lists = [v \in Stashes |-> IF v \in DOMAIN g THEN maps.collaborations[v] \cup {s}
                                                                    ELSE maps.collaborations[v]]
      OBVIOUS
    <3>7. n = [validators |-> maps.validators, cooperators |-> h, collaborations |-> lists,
               vip |-> maps.vip]
      BY <3>3, <3>4, <3>5, <3>6 DEF MapsType, AddCooperator
    <3>8. lists \in [Stashes -> SUBSET Stashes] /\ \A v \in Stashes : lists[v] \subseteq maps.collaborations[v]
      BY <1>1, <1>2, <1>4, <3>2, <3>4, <3>6
    <3>9. h = [c \in DOMAIN maps.cooperators |-> IF c = s THEN g ELSE maps.cooperators[c]]
      BY <2>1, <3>5 DEF Put
    <3>10. h = [c \in DOMAIN maps.cooperators |-> h[c]]
      BY <3>9
    <3>11. \A c \in DOMAIN maps.cooperators : h[c] \in Stakes /\ Lessened(maps.cooperators[c], h[c])
      BY <1>1, <3>1, <3>9, TotalsAre, LessenedSelf
    <3>12. Reduces(maps, n, {})
      BY <1>1, <3>7, <3>8, <3>10, <3>11, LoweredReduces
    <3>13. Safe(n, active)
      BY <1>1, <3>12, ReducesShrinks, ShrinksSafe
    <3>14. n.cooperators[s] = g
      BY <2>1, <3>7, <3>9
    <3> QED
      BY <2>1, <3>1, <3>3, <3>13, <3>14
  <2>2. CASE ~coops
    <3>1. Safe(ChillStash(maps, active, s), active)
      BY <1>1, ChillStashIs, ShrinksSafe
    <3> QED
      BY <2>2, <3>1
  <2> QED
    BY <2>1, <2>2
<1>9. ~coops => s \notin DOMAIN m.cooperators
  <2> SUFFICES ASSUME ~coops PROVE s \notin DOMAIN m.cooperators
    OBVIOUS
  <2>1. s \notin DOMAIN maps.cooperators
    BY <1>1, SoundIs
  <2>2. s \notin DOMAIN ChillStash(maps, active, s).cooperators
    BY <1>1, ChillStashIs
  <2> QED
    BY <2>1, <2>2
<1> HIDE DEF m, tax
<1>10. active' = [y \in T |-> IF y = s THEN Monus(active[s], tax) ELSE active[y]]
  <2>1. active \in [T -> Nat]
    BY <1>1, <1>2, PartialIs
  <2> QED
    BY <1>4, <2>1
<1>11. Monus(active[s], tax) \in Nat /\ Monus(active[s], tax) <= active[s]
  BY <1>3, <1>4, <1>7, MonusIs
<1>12. \A y \in T : active'[y] \in Nat /\ active'[y] <= MaxStake[y] /\ active'[y] <= active[y]
  BY <1>3, <1>10, <1>11
<1>13. active' \in Ledgers /\ DOMAIN active' = T
  <2>1. active' = [y \in T |-> active'[y]]
    BY <1>10
  <2>2. PICK led : led = active'
    OBVIOUS
  <2> QED
    BY <1>12, <2>1, <2>2, IsLedger
<1>14. /\ \A x \in Stashes : At(active', x, 0) <= At(active, x, 0)
       /\ \A x \in Stashes : x # s => At(active', x, 0) = At(active, x, 0)
       /\ At(active', s, 0) = Monus(active[s], tax)
  BY <1>2, <1>4, <1>10, <1>12, <1>13 DEF At
<1>15. Backed(m, active', s)
  <2>1. CASE coops
    <3>1. tax = Total(taxes)
      BY <2>1 DEF tax
    <3>2. Total(Taxed(maps, s)) <= Monus(active[s], tax)
      BY <1>3, <1>4, <1>5, <1>6, <2>1, <3>1 DEF Monus
    <3> QED
      BY <1>8, <1>14, <2>1, <3>2 DEF Backed
  <2>2. CASE ~coops
    BY <1>9, <2>2 DEF Backed
  <2> QED
    BY <2>1, <2>2
<1>16. Shrinks(m, m, active') /\ RolesBonded(m, active')
  <2>1. m \in Sound /\ RolesBonded(m, active)
    BY <1>8 DEF Safe
  <2> QED
    BY <1>2, <1>13, <2>1, ShrinksNot DEF RolesBonded
<1>17. Safe(m, active')
  <2>1. \A x \in Stashes : At(active', x, 0) = At(active, x, 0) \/ Backed(m, active', x)
    BY <1>14, <1>15
  <2> QED
    BY <1>8, <1>13, <1>14, <1>16, <2>1, LessSafe
<1> QED
  BY <1>4, <1>17, DropVipSafe

-----------------------------------------------------------------------------
(* The invariant *)

Levels == {rep \in [Stashes -> Nat] : \A s \in Stashes : rep[s] <= MaxLevel[s]}

Inv == Safe(maps, active) /\ reputation \in Levels

(* Nobody is bonded at the beginning.                                      *)
LEMMA InvInit == Init => Inv
<1> SUFFICES ASSUME Init PROVE Inv
  OBVIOUS
<1>1. DOMAIN Nothing = {} /\ Nothing \in Partial(Stakes) /\ Nothing \in Partial(Nat)
  BY NothingIs
<1>2. Nothing \in Partial(BOOLEAN)
  <2>1. Nothing \in [DOMAIN Nothing -> BOOLEAN]
    BY <1>1 DEF Nothing
  <2> QED
    BY <1>1, <2>1, IsRoles, Zenon
<1>3. PICK lists : lists = [s \in Stashes |-> {}]
  OBVIOUS
<1>4. lists \in [Stashes -> SUBSET Stashes]
  BY <1>3
<1>5. maps = [validators |-> Nothing, cooperators |-> Nothing, collaborations |-> lists, vip |-> Nothing]
      /\ active = Nothing
  BY <1>3 DEF Init
<1>6. maps \in MapsType
  BY <1>1, <1>2, <1>4, <1>5, Zenon DEF MapsType
<1>7. maps \in Sound
  BY <1>1, <1>5, <1>6, SoundIs
<1>8. active \in Ledgers
  BY <1>1, <1>5 DEF Ledgers
<1>9. RolesBonded(maps, active) /\ \A s \in Stashes : Backed(maps, active, s) /\ CopyOK(maps, active, s)
  BY <1>1, <1>5 DEF RolesBonded, Backed, CopyOK
<1>10. reputation \in Levels
  <2>1. MaxLevel \in [Stashes -> Nat]
    BY CooperationAssumption
  <2> QED
    BY <2>1 DEF Init, Levels
<1> QED
  BY <1>7, <1>8, <1>9, <1>10 DEF Inv, Safe

(* Levels stay in their range.                                             *)
LEMMA LevelsStay ==
  ASSUME reputation \in Levels, Next
  PROVE  reputation' \in Levels
<1>1. \A s \in Stashes : reputation[s] \in Nat /\ reputation[s] <= MaxLevel[s] /\ MaxLevel[s] \in Nat
  BY CooperationAssumption DEF Levels
<1>2. CASE reputation' = reputation
  BY <1>2
<1>3. ASSUME NEW s \in Stashes, Gain(s) PROVE reputation' \in Levels
  <2>1. reputation' = [reputation EXCEPT ![s] = @ + 1] /\ reputation[s] < MaxLevel[s]
    BY <1>3 DEF Gain
  <2>2. reputation' \in [Stashes -> Nat] /\ \A x \in Stashes : reputation'[x] <= MaxLevel[x]
    BY <1>1, <2>1 DEF Levels
  <2> QED
    BY <2>2 DEF Levels
<1>4. ASSUME NEW s \in Stashes, NEW others, NEW stake, NEW points \in 0 .. 1,
             ApplySlash(s, others, stake, points)
      PROVE  reputation' \in Levels
  <2>1. \A x \in Stashes : Monus(reputation[x], points) \in Nat /\ Monus(reputation[x], points) <= reputation[x]
    BY <1>1, MonusIs
  <2>2. reputation' = [x \in Stashes |-> IF x \in others \cup {s} THEN Monus(reputation[x], points)
                                                                 ELSE reputation[x]]
    BY <1>4 DEF ApplySlash
  <2>3. reputation' \in [Stashes -> Nat] /\ \A x \in Stashes : reputation'[x] <= MaxLevel[x]
    BY <1>1, <2>1, <2>2
  <2> QED
    BY <2>3 DEF Levels
<1> QED
  BY <1>2, <1>3, <1>4 DEF Next, Ellect, KillStash, Chill, ChillOther, ChillOffender, MakeCollaborative,
     Bond, Unbond, Kick, Validate, Cooperate, BecomeVip, ExitVip, ExitVipFreely

(* Every step keeps the invariant.                                         *)
LEMMA InvNext == Inv /\ [Next]_vars => Inv'
<1> SUFFICES ASSUME Inv, [Next]_vars PROVE Inv'
  OBVIOUS
<1> USE DEF Inv
<1>1. CASE UNCHANGED vars
  BY <1>1 DEF vars, Safe, Sound, Ledgers, Levels, RolesBonded, Backed, CopyOK, ActiveStake, Targets, Listed
<1>2. CASE Next
  <2>1. Safe(maps, active) /\ reputation' \in Levels
    BY <1>2, LevelsStay
  <2>2. Candidates \subseteq Stashes /\ Joiners \subseteq Stashes /\ Vips \subseteq Stashes
        /\ \A s \in Stashes : 1 .. MaxStake[s] \subseteq Nat
    BY CooperationAssumption
  <2>3. Safe(maps', active')
    <3>1. CASE Ellect
      BY <2>1, <3>1, EllectSafe
    <3>2. ASSUME NEW s \in Stashes,
                 KillStash(s) \/ Chill(s) \/ ChillOther(s) \/ ChillOffender(s) \/ MakeCollaborative(s)
          PROVE  Safe(maps', active')
      BY <2>1, <3>2, KillSafe, ChillSafe, MakeCollaborativeSafe
    <3>3. ASSUME NEW s \in Stashes, Gain(s) PROVE Safe(maps', active')
      BY <2>1, <3>3 DEF Gain
    <3>4. ASSUME NEW s \in Stashes, NEW value \in 1 .. MaxStake[s], Bond(s, value) \/ Unbond(s, value)
          PROVE  Safe(maps', active')
      <4>1. value \in Nat
        OBVIOUS
      <4> QED
        BY <2>1, <3>4, <4>1, BondSafe, UnbondSafe
    <3>5. ASSUME NEW s \in Stashes, NEW c \in Stashes, Kick(s, c) PROVE Safe(maps', active')
      BY <2>1, <3>5, KickSafe
    <3>6. ASSUME NEW s \in Stashes, NEW others \in SUBSET (Stashes \ {s}), NEW stake \in 0 .. 1,
                 NEW points \in 0 .. 1, ApplySlash(s, others, stake, points)
          PROVE  Safe(maps', active')
      <4>1. stake \in Nat /\ points \in Nat
        OBVIOUS
      <4> QED
        BY <2>1, <3>6, <4>1, ApplySlashSafe
    <3>7. ASSUME NEW s \in Stashes, NEW collaborative \in BOOLEAN, Validate(s, collaborative)
          PROVE  Safe(maps', active')
      BY <2>1, <3>7, ValidateSafe
    <3>8. ASSUME NEW s \in Stashes, NEW targets \in TargetChoices(s), Cooperate(s, targets)
          PROVE  Safe(maps', active')
      BY <2>1, <3>8, CooperateSafe
    <3>9. ASSUME NEW s \in Stashes, BecomeVip(s) \/ ExitVip(s) \/ ExitVipFreely(s)
          PROVE  Safe(maps', active')
      BY <2>1, <3>9, BecomeVipSafe, ExitVipSafe, ExitVipFreelySafe
    <3> QED
      BY <1>2, <2>2, <3>1, <3>2, <3>3, <3>4, <3>5, <3>6, <3>7, <3>8, <3>9 DEF Next
  <2> QED
    BY <2>1, <2>3
<1> QED
  BY <1>1, <1>2

(* It always holds.                                                        *)
LEMMA InvHolds == Spec => []Inv
BY InvInit, InvNext, PTL DEF Spec

-----------------------------------------------------------------------------
(* What it gives *)

(* A killed stash stays behind in no role: KillStash takes both away, and  *)
(* no other call begins a role without a bond.                             *)
THEOREM RolesBondedAlways == Spec => []RolesAreBonded
<1>1. Inv => RolesAreBonded
  <2> SUFFICES ASSUME Inv PROVE RolesAreBonded
    OBVIOUS
  <2>1. maps \in Sound /\ active \in Ledgers /\ reputation \in Levels /\ RolesBonded(maps, active)
    BY DEF Inv, Safe
  <2>2. /\ DOMAIN active \subseteq Stashes
        /\ \A s \in DOMAIN active : active[s] \in Nat /\ active[s] <= MaxStake[s]
    BY <2>1, PartialIs DEF Ledgers
  <2>3. /\ DOMAIN reputation = Stashes
        /\ \A s \in Stashes : reputation[s] \in Nat /\ reputation[s] <= MaxLevel[s]
    BY <2>1 DEF Levels
  <2>4. /\ DOMAIN maps.validators \subseteq Stashes
        /\ \A s \in DOMAIN maps.validators : maps.validators[s] \in BOOLEAN
        /\ DOMAIN maps.cooperators \subseteq Stashes /\ DOMAIN maps.vip \subseteq Stashes
        /\ maps.collaborations \in [Stashes -> SUBSET Stashes]
        /\ \A s \in DOMAIN maps.vip : maps.vip[s] \in Nat /\ maps.vip[s] <= MaxStake[s]
    BY <2>1, SoundIs, MapsAre
  <2>5. ASSUME NEW c \in DOMAIN maps.cooperators, NEW v \in DOMAIN maps.cooperators[c]
        PROVE  v \in Stashes /\ maps.cooperators[c][v] \in Nat /\ maps.cooperators[c][v] <= MaxStake[c]
    <3>1. PICK f \in Stakes : f = maps.cooperators[c]
      BY <2>1, TotalsAre
    <3>2. Total(f) \in Nat /\ v \in Stashes /\ f[v] \in Nat /\ f[v] <= Total(f)
      BY <3>1, TotalIs
    <3>3. Total(f) <= MaxStake[c] /\ MaxStake[c] \in Nat
      BY <2>1, <2>4, <3>1, SoundIs, CooperationAssumption
    <3> QED
      BY <3>1, <3>2, <3>3
  <2>6. MaxStake \in [Stashes -> Nat] /\ MaxLevel \in [Stashes -> Nat]
    BY CooperationAssumption
  <2>7. \A s \in DOMAIN active : active[s] \in 0 .. MaxStake[s]
    BY <2>2, <2>6
  <2>8. \A s \in Stashes : reputation[s] \in 0 .. MaxLevel[s]
    BY <2>3, <2>6
  <2>9. \A s \in DOMAIN maps.vip : maps.vip[s] \in 0 .. MaxStake[s]
    BY <2>4, <2>6
  <2>10. \A c \in DOMAIN maps.cooperators : \A v \in DOMAIN maps.cooperators[c] :
           v \in Stashes /\ maps.cooperators[c][v] \in 0 .. MaxStake[c]
    BY <2>4, <2>5, <2>6
  <2>11. TypeOK
    BY <2>2, <2>3, <2>4, <2>7, <2>8, <2>9, <2>10, Zenon DEF TypeOK
  <2> QED
    BY <2>1, <2>11 DEF RolesAreBonded, RolesBonded
<1> QED
  BY <1>1, InvHolds, PTL

(* A bonus is never negative.                                              *)
LEMMA BonusAdds ==
  ASSUME reputation \in Levels, NEW s \in Stashes, NEW stake \in Nat
  PROVE  WithBonus(s, stake) \in Nat /\ stake <= WithBonus(s, stake)
<1>1. reputation[s] \in 0 .. MaxLevel[s]
  BY CooperationAssumption DEF Levels
<1>2. PICK bonus \in Nat : bonus = BonusPart[reputation[s]]
  BY <1>1, CooperationAssumption
<1>3. PICK more \in Nat : more = stake * bonus
  BY <1>2
<1>4. stake * (100 + bonus) = 100 * stake + more
  BY <1>2, <1>3, Z3
<1> QED
  BY <1>2, <1>4 DEF WithBonus

(* What the validators that list a cooperator expose of its stake is stake *)
(* it has, and with what a validator is exposed with itself it is no more  *)
(* than its stake with the bonus of its reputation: through slashes, taxes, *)
(* unbonding and changes of sides, whatever the bonuses.                   *)
THEOREM NobodyIsOverexposed == Spec => []NobodyOverexposed
<1>1. Inv => NobodyOverexposed
  <2> SUFFICES ASSUME Inv, NEW s \in Stashes
               PROVE  /\ WithOthers(s) <= At(active, s, 0)
                      /\ Own(s) + WithOthers(s) <= WithBonus(s, At(active, s, 0))
    BY DEF NobodyOverexposed
  <2>1. maps \in Sound /\ active \in Ledgers /\ reputation \in Levels
    BY DEF Inv, Safe
  <2>2. PICK S : S = DOMAIN maps.validators
    OBVIOUS
  <2>3. S \subseteq Stashes /\ IsFiniteSet(S) /\ At(active, s, 0) \in Nat
    BY <2>1, <2>2, SoundIs, MapsAre, StashesFinite, LedgerIs
  <2>4. /\ WithBonus(s, At(active, s, 0)) \in Nat
        /\ At(active, s, 0) <= WithBonus(s, At(active, s, 0))
    BY <2>1, <2>3, BonusAdds
  <2>5. PICK e : e = [v \in S |-> At(Exposed(maps, v), s, 0)]
    OBVIOUS
  <2>6. WithOthers(s) = SumFunctionOnSet(e, S)
    BY <2>2, <2>5 DEF WithOthers, Total
  <2>7. \A v \in S : IF s \in DOMAIN Exposed(maps, v)
                     THEN v \in DOMAIN Targets(maps, s) /\ e[v] = maps.cooperators[s][v]
                     ELSE e[v] = 0
    BY <2>5 DEF Exposed, At
  <2>8. CASE s \notin DOMAIN maps.cooperators
    <3>1. DOMAIN Targets(maps, s) = {}
      BY <2>8, NothingIs DEF Targets, At
    <3>2. \A v \in S : e[v] = 0
      BY <2>7, <3>1
    <3>3. WithOthers(s) = 0
      BY <2>3, <2>6, <3>2, SumOfZeros
    <3> QED
      BY <2>3, <2>4, <3>3 DEF Own
  <2>9. CASE s \in DOMAIN maps.cooperators
    <3>1. Own(s) = 0
      BY <2>1, <2>9, SoundIs DEF Own
    <3>2. PICK t \in Stakes : t = maps.cooperators[s] /\ t = Targets(maps, s)
      BY <2>1, <2>9, TotalsAre DEF Targets, At
    <3>3. IsFiniteSet(DOMAIN t) /\ Total(t) \in Nat /\ \A v \in DOMAIN t : t[v] \in Nat
      BY TotalIs
    <3>4. PICK R : R = {v \in S : s \in DOMAIN Exposed(maps, v)}
      OBVIOUS
    <3>5. /\ R \in SUBSET S /\ R \in SUBSET DOMAIN t
          /\ \A v \in S : e[v] = IF v \in R THEN t[v] ELSE 0
      BY <2>7, <3>2, <3>4
    <3>6. IntegersOn(t, R)
      <4>1. \A v \in DOMAIN t : t[v] \in Int
        BY <3>3
      <4> QED
        BY <3>5, <4>1 DEF IntegersOn
    <3>7. SumFunctionOnSet(e, S) = SumFunctionOnSet(t, R)
      BY <2>3, <3>5, <3>6, SumOfPart
    <3>8. SumFunctionOnSet(t, R) <= Total(t) /\ SumFunctionOnSet(t, R) \in Nat
      <4>1. IsFiniteSet(R) /\ \A v \in R : t[v] \in Nat
        BY <3>3, <3>5, FS_Subset
      <4> QED
        BY <3>3, <3>5, <4>1, SumOfMore, SumOfNaturals DEF Total
    <3>9. Total(t) <= At(active, s, 0)
      BY <2>9, <3>2 DEF Inv, Safe, Backed
    <3> QED
      BY <2>3, <2>6, <2>4, <3>1, <3>3, <3>7, <3>8, <3>9
  <2> QED
    BY <2>8, <2>9
<1> QED
  BY <1>1, InvHolds, PTL

(* The copy that privileges keeps of a VIP member's stake is never short:   *)
(* what makes an active stake grow makes the copy anew.                     *)
THEOREM CopiesAreNeverShort == Spec => []CopyNeverShort
<1>1. Inv => CopyNeverShort
  <2> SUFFICES ASSUME Inv, NEW s \in DOMAIN maps.vip PROVE maps.vip[s] >= ActiveStake(maps, active, s)
    BY DEF CopyNeverShort
  <2>1. s \in Stashes
    BY SoundIs, MapsAre DEF Inv, Safe
  <2> QED
    BY <2>1 DEF Inv, Safe, CopyOK
<1> QED
  BY <1>1, InvHolds, PTL

-----------------------------------------------------------------------------
(* The database of a node *)

Versions == 0 .. FutureVersion

(* The version file never promises more than was done: when it names the    *)
(* current version, or is about to, the approval data is converted. Only a  *)
(* database that is not there yet, or one of ParityDB, is without a file.   *)
UpgradeInv ==
  /\ file \in Versions \cup {NoFile, Torn}
  /\ columns = <<>> => approval = 3 /\ file \in {NoFile, Torn, CURRENT_VERSION}
  /\ file = NoFile => columns = <<>> \/ kind = "ParityDB"
  /\ file = CURRENT_VERSION => approval = 3
  /\ phase = "migrate" => found \in 0 .. 4 /\ file # CURRENT_VERSION /\ columns # <<>>
  /\ phase = "write" =>
       /\ found \in 0 .. CURRENT_VERSION
       /\ columns = <<>> => found = CURRENT_VERSION
       /\ NextVersion(found) = CURRENT_VERSION => approval = 3
  /\ phase \in {"open", "ready"} => file = CURRENT_VERSION
  /\ phase = "ready" => columns = V3

(* No version has a database without columns.                              *)
LEMMA ColumnsExist == \A version : ColumnsOf(version) # <<>>
<1>1. V0 # <<>> /\ V1 # <<>> /\ V2 # <<>> /\ V3 # <<>>
  BY DEF V0, V1, V2, V3
<1> QED
  BY <1>1 DEF ColumnsOf

(* Whatever the node before left behind satisfies it.                       *)
LEMMA UpgradeInitInv == DatabaseInit => UpgradeInv
<1>1. V0 # <<>> /\ V1 # <<>>
  BY DEF V0, V1
<1> QED
  BY <1>1, ColumnsExist
     DEF DatabaseInit, UpgradeInv, Versions, FutureVersion, CURRENT_VERSION, NoFile, Torn,
         ApprovalOf, Kinds

(* So does every step.                                                     *)
LEMMA UpgradeNextInv ==
  ASSUME UpgradeInv, [DatabaseNext]_databaseVars
  PROVE  UpgradeInv'
<1> USE DEF Versions, FutureVersion, CURRENT_VERSION, NoFile, Torn
<1>1. CASE Start
  BY <1>1 DEF UpgradeInv, Start
<1>2. CASE Check
  <2>1. CASE IsEmpty
    BY <1>2, <2>1 DEF UpgradeInv, Check, VersionFound, NextVersion, IsEmpty
  <2>2. CASE ~IsEmpty /\ file = NoFile
    BY <1>2, <2>2 DEF UpgradeInv, Check, VersionFound, NextVersion, IsEmpty
  <2>3. CASE ~IsEmpty /\ file # NoFile
    BY <1>2, <2>3 DEF UpgradeInv, Check, VersionFound, NextVersion, IsEmpty
  <2> QED
    BY <2>1, <2>2, <2>3
<1>3. CASE Migrate
  <2>1. columns' # <<>>
    BY <1>3, ColumnsExist DEF Migrate
  <2>2. NextVersion(found) = CURRENT_VERSION => approval' = 3
    BY <1>3 DEF Migrate, UpgradeInv, NextVersion, ApprovalAfter, ApprovalOf
  <2>3. file = NoFile => kind = "ParityDB"
    BY <1>3 DEF UpgradeInv, Migrate
  <2> QED
    BY <1>3, <2>1, <2>2, <2>3 DEF UpgradeInv, Migrate
<1>4. CASE AddFirstColumn
  <2>1. columns' # <<>>
    <3>1. V0 \o <<"chain selection data">> # <<>>
      BY DEF V0
    <3> QED
      BY <1>4, <3>1 DEF AddFirstColumn
  <2> QED
    BY <1>4, <2>1 DEF UpgradeInv, AddFirstColumn
<1>5. CASE MigrateFails \/ Retry
  BY <1>5 DEF UpgradeInv, MigrateFails, Retry
<1>6. CASE WriteVersion
  BY <1>6 DEF UpgradeInv, WriteVersion, NextVersion
<1>7. CASE Open
  BY <1>7 DEF UpgradeInv, Open
<1>8. CASE Crash
  BY <1>8 DEF UpgradeInv, Crash
<1>9. CASE UNCHANGED databaseVars
  BY <1>9 DEF UpgradeInv, databaseVars
<1> QED
  BY <1>1, <1>2, <1>3, <1>4, <1>5, <1>6, <1>7, <1>8, <1>9 DEF DatabaseNext, Advance

(* RunsOnCurrent, for any number of crashes: a node that runs has a          *)
(* database of the current version, however often its upgrade was cut short. *)
THEOREM NodeRunsOnCurrent == DatabaseSpec => []RunsOnCurrent
<1>1. UpgradeInv => RunsOnCurrent
  BY DEF UpgradeInv, RunsOnCurrent
<1> QED
  BY <1>1, UpgradeInitInv, UpgradeNextInv, PTL DEF DatabaseSpec

-----------------------------------------------------------------------------
(***************************************************************************)
(* Module SlashingSpans: the spans of a stash reach back from the active   *)
(* era to the start of its window, and agree with their records.           *)
(***************************************************************************)

(* Amounts of reputation and of stake, records of spans, and spans.        *)
Entities == [rep : Nat, stake : Nat]
SpanRecords == [slashed : Entities, paidOut : Entities]
Lines == [index : Nat, lastStart : Nat, prior : Seq(Nat \ {0})]

AtMost(x, y) == x.rep <= y.rep /\ x.stake <= y.stake

(* The spans reach from the era after n back to w.                         *)
Reaches(s, n, w) == s \in Lines /\ s.lastStart <= n + 1 /\ StartOf(s, Len(s.prior)) <= w

(* What is on record for a span, and what was, agree.                      *)
Agrees(recs, added, largest, i) ==
  /\ added[i] \in Entities /\ largest[i] \in Entities /\ AtMost(added[i], largest[i])
  /\ i \in DOMAIN recs =>
       /\ recs[i] \in SpanRecords
       /\ recs[i].slashed = added[i]
       /\ AtMost(recs[i].paidOut, ShareOf(RewardProportion, largest[i]))

(* Spans without a record were not slashed; there are none after the last. *)
Settled(s, recs, added, largest) ==
  /\ DOMAIN recs \subseteq SpanIndices(s) /\ DOMAIN recs \subseteq DOMAIN added
  /\ DOMAIN largest = DOMAIN added
  /\ \A i \in DOMAIN added :
       /\ i \in Int /\ i <= s.index
       /\ Agrees(recs, added, largest, i)
       /\ i \in SpanIndices(s) \ DOMAIN recs => added[i] = Zero

OthersTyped ==
  /\ now \in Eras
  /\ exposed \in [Eras -> Exposures]
  /\ DOMAIN eraLoss \cup DOMAIN eraSlash \subseteq WindowStart..now
  /\ \A e \in DOMAIN eraSlash : eraSlash[e] \in Entities

Unslashed == DOMAIN records = {} /\ DOMAIN taken = {} /\ DOMAIN worst = {}

SpansHeld ==
  IF spans = NoSpans THEN Unslashed
  ELSE Reaches(spans, now, WindowStart) /\ Settled(spans, records, taken, worst)

SpansIInv == OthersTyped /\ SpansHeld

-----------------------------------------------------------------------------
(* Where spans start *)

LEMMA SumOfPrefix ==
  ASSUME NEW q \in Seq(Nat \ {0})
  PROVE  /\ Len(q) \in Nat /\ DOMAIN q = 1..Len(q) /\ \A k \in 1..Len(q) : q[k] \in Nat \ {0}
         /\ SumFunctionOnSet(q, 1..0) = 0
         /\ \A k \in 0..Len(q) : SumFunctionOnSet(q, 1..k) \in Nat
         /\ \A k \in 1..Len(q) : SumFunctionOnSet(q, 1..k) = SumFunctionOnSet(q, 1..(k - 1)) + q[k]
<1>1. Len(q) \in Nat /\ DOMAIN q = 1..Len(q) /\ \A k \in 1..Len(q) : q[k] \in Nat \ {0}
  OBVIOUS
<1>2. PICK n \in Nat : n = Len(q)
  BY <1>1
<1>3. SumFunctionOnSet(q, 1..0) = 0
  <2>1. 1..0 = {}
    OBVIOUS
  <2> QED
    BY <2>1, SumEmpty
<1>4. ASSUME NEW k \in 0..n PROVE SumFunctionOnSet(q, 1..k) \in Nat
  <2>1. IsFiniteSet(1..k)
    BY FS_Interval
  <2>2. \A i \in 1..k : q[i] \in Nat
    BY <1>1, <1>2
  <2> QED
    BY <2>1, <2>2, SumOfNaturals
<1>5. ASSUME NEW k \in 1..n
      PROVE  SumFunctionOnSet(q, 1..k) = SumFunctionOnSet(q, 1..(k - 1)) + q[k]
  <2>1. PICK r : r = 1..(k - 1)
    OBVIOUS
  <2>2. IsFiniteSet(r)
    BY <2>1, FS_Interval
  <2>3. k \notin r /\ r \cup {k} = 1..k
    BY <2>1
  <2>4. IntegersOn(q, r \cup {k})
    BY <1>1, <1>2, <2>3 DEF IntegersOn
  <2>5. SumFunctionOnSet(q, r \cup {k}) = SumFunctionOnSet(q, r) + q[k]
    BY <2>2, <2>3, <2>4, SumAdd
  <2> QED
    BY <2>1, <2>3, <2>5
<1> QED
  BY <1>1, <1>2, <1>3, <1>4, <1>5

LEMMA StartIs ==
  ASSUME NEW s \in Lines
  PROVE  /\ s.index \in Nat /\ s.lastStart \in Nat /\ Len(s.prior) \in Nat
         /\ StartOf(s, 0) = s.lastStart
         /\ \A k \in 0..Len(s.prior) : StartOf(s, k) \in Int
         /\ \A k \in 1..Len(s.prior) :
              s.prior[k] \in Nat \ {0} /\ StartOf(s, k) = StartOf(s, k - 1) - s.prior[k]
<1>1. PICK q \in Seq(Nat \ {0}) : q = s.prior
  BY DEF Lines
<1>2. PICK a \in Nat : a = s.lastStart
  BY DEF Lines
<1>3. s.index \in Nat
  BY DEF Lines
<1>4. \A k \in Nat : StartOf(s, k) = a - SumFunctionOnSet(q, 1..k)
  BY <1>1, <1>2 DEF StartOf
<1>5. PICK n \in Nat : n = Len(q)
  BY <1>1, SumOfPrefix
<1>6. StartOf(s, 0) = a
  BY <1>2, <1>4, SumOfPrefix
<1>7. \A k \in 0..n : StartOf(s, k) \in Int
  BY <1>4, <1>5, SumOfPrefix
<1>8. ASSUME NEW k \in 1..n
      PROVE  q[k] \in Nat \ {0} /\ StartOf(s, k) = StartOf(s, k - 1) - q[k]
  <2>1. /\ q[k] \in Nat \ {0} /\ SumFunctionOnSet(q, 1..k) = SumFunctionOnSet(q, 1..(k - 1)) + q[k]
        /\ SumFunctionOnSet(q, 1..(k - 1)) \in Nat
    <3>1. k - 1 \in 0..n
      OBVIOUS
    <3> QED
      BY <1>5, <3>1, SumOfPrefix
  <2>2. StartOf(s, k) = a - SumFunctionOnSet(q, 1..k) /\ StartOf(s, k - 1) = a - SumFunctionOnSet(q, 1..(k - 1))
    BY <1>4
  <2> QED
    BY <2>1, <2>2
<1> QED
  BY <1>1, <1>2, <1>3, <1>5, <1>6, <1>7, <1>8

(* Spans further back start earlier.                                       *)
LEMMA StartsFall ==
  ASSUME NEW s \in Lines, NEW j \in 0..Len(s.prior), NEW k \in 0..Len(s.prior), j < k
  PROVE  StartOf(s, k) < StartOf(s, j)
<1>1. PICK n \in Nat : n = Len(s.prior)
  BY StartIs
<1> DEFINE K == {d \in Nat : j + d + 1 <= n => StartOf(s, j + d + 1) < StartOf(s, j)}
<1>2. j \in 0..n /\ StartOf(s, j) \in Int
  BY <1>1, StartIs
<1>3. ASSUME NEW i \in 1..n
      PROVE  StartOf(s, i) < StartOf(s, i - 1) /\ StartOf(s, i) \in Int /\ StartOf(s, i - 1) \in Int
  <2>1. i \in 0..n /\ i - 1 \in 0..n
    OBVIOUS
  <2> QED
    BY <1>1, <2>1, StartIs
<1>4. 0 \in K
  <2> SUFFICES ASSUME j + 1 <= n PROVE StartOf(s, j + 1) < StartOf(s, j)
    OBVIOUS
  <2>1. j + 1 \in 1..n /\ (j + 1) - 1 = j
    BY <1>2
  <2> QED
    BY <1>3, <2>1
<1>5. ASSUME NEW d \in Nat, d \in K PROVE d + 1 \in K
  <2> SUFFICES ASSUME j + (d + 1) + 1 <= n PROVE StartOf(s, j + (d + 1) + 1) < StartOf(s, j)
    OBVIOUS
  <2>1. j + d + 1 <= n /\ j + (d + 1) + 1 \in 1..n /\ (j + (d + 1) + 1) - 1 = j + d + 1
    BY <1>2
  <2>2. StartOf(s, j + d + 1) < StartOf(s, j)
    BY <1>5, <2>1
  <2> QED
    BY <1>2, <1>3, <2>1, <2>2
<1>6. Nat \subseteq K
  <2> HIDE DEF K
  <2> QED
    BY <1>4, <1>5, NatSetInduction
<1>7. k - j - 1 \in Nat /\ j + (k - j - 1) + 1 = k /\ k <= n
  BY <1>1
<1> QED
  BY <1>6, <1>7

(* Spans with the same lengths behind the same start are the same.         *)
SameLengths(s, t, m, n) == \A k \in 1..n : t.prior[m + k] = s.prior[k]

LEMMA StartsAgree ==
  ASSUME NEW s \in Lines, NEW t \in Lines, NEW m \in Nat, NEW n \in Nat,
         n <= Len(s.prior), m + n <= Len(t.prior), StartOf(t, m) = StartOf(s, 0),
         SameLengths(s, t, m, n)
  PROVE  \A k \in 0..n : StartOf(t, m + k) = StartOf(s, k)
<1> DEFINE K == {k \in Nat : k <= n => StartOf(t, m + k) = StartOf(s, k)}
<1>1. 0 \in K
  OBVIOUS
<1>2. ASSUME NEW k \in Nat, k \in K PROVE k + 1 \in K
  <2> SUFFICES ASSUME k + 1 <= n PROVE StartOf(t, m + (k + 1)) = StartOf(s, k + 1)
    OBVIOUS
  <2>1. PICK len \in Nat : len = Len(s.prior)
    BY StartIs
  <2>2. PICK more \in Nat : more = Len(t.prior)
    BY StartIs
  <2>3. k + 1 \in 1..len /\ (k + 1) - 1 = k /\ m + (k + 1) \in 1..more /\ (m + (k + 1)) - 1 = m + k /\ k + 1 \in 1..n
    BY <2>1, <2>2
  <2>4. StartOf(s, k + 1) = StartOf(s, k) - s.prior[k + 1]
    BY <2>1, <2>3, StartIs
  <2>5. StartOf(t, m + (k + 1)) = StartOf(t, m + k) - t.prior[m + (k + 1)]
    BY <2>2, <2>3, StartIs
  <2>6. t.prior[m + (k + 1)] = s.prior[k + 1]
    BY <2>3 DEF SameLengths
  <2>7. StartOf(t, m + k) = StartOf(s, k)
    BY <1>2
  <2> QED
    BY <2>4, <2>5, <2>6, <2>7
<1>3. Nat \subseteq K
  <2> HIDE DEF K
  <2> QED
    BY <1>1, <1>2, NatSetInduction
<1> QED
  BY <1>3
(* The spans of t are those of s, d of them new, the oldest dropped.       *)
Follows(s, t, d) ==
  /\ t.index = s.index + d
  /\ Len(t.prior) <= Len(s.prior) + d
  /\ \A j \in 1..Len(t.prior) :
       j > d => StartOf(t, j) = StartOf(s, j - d) /\ StartOf(t, j - 1) = StartOf(s, j - d - 1)

LEMMA FollowsSelf ==
  ASSUME NEW s \in Lines
  PROVE  Follows(s, s, 0)
BY StartIs DEF Follows

LEMMA FollowsTwice ==
  ASSUME NEW s \in Lines, NEW t \in Lines, NEW u \in Lines, NEW d \in Nat,
         Follows(s, t, d), Follows(t, u, 0)
  PROVE  Follows(s, u, d)
<1>1. PICK a \in Nat, b \in Nat, c \in Nat : a = Len(s.prior) /\ b = Len(t.prior) /\ c = Len(u.prior)
  BY StartIs
<1>2. /\ t.index = s.index + d /\ b <= a + d
      /\ \A j \in 1..b :
           j > d => StartOf(t, j) = StartOf(s, j - d) /\ StartOf(t, j - 1) = StartOf(s, j - d - 1)
  BY <1>1 DEF Follows
<1>3. /\ u.index = t.index + 0 /\ c <= b + 0
      /\ \A j \in 1..c :
           j > 0 => StartOf(u, j) = StartOf(t, j - 0) /\ StartOf(u, j - 1) = StartOf(t, j - 0 - 1)
  BY <1>1 DEF Follows
<1>4. s.index \in Nat /\ t.index \in Nat /\ u.index \in Nat
  BY StartIs
<1>5. u.index = s.index + d /\ c <= a + d
  BY <1>2, <1>3, <1>4
<1>6. ASSUME NEW j \in 1..c, j > d
      PROVE  StartOf(u, j) = StartOf(s, j - d) /\ StartOf(u, j - 1) = StartOf(s, j - d - 1)
  <2>1. j \in 1..b /\ j > 0 /\ j - 0 = j /\ j - 0 - 1 = j - 1
    BY <1>3
  <2>2. StartOf(u, j) = StartOf(t, j) /\ StartOf(u, j - 1) = StartOf(t, j - 1)
    BY <1>3, <2>1
  <2> QED
    BY <1>2, <1>6, <2>1, <2>2
<1> QED
  BY <1>1, <1>5, <1>6 DEF Follows

(* end_span: a span more, those before it where they were.                 *)
LEMMA EndedIs ==
  ASSUME NEW s \in Lines, NEW era \in Nat, s.lastStart <= era
  PROVE  /\ Ended(s, era) \in Lines /\ Ended(s, era).lastStart = era + 1
         /\ Len(Ended(s, era).prior) = Len(s.prior) + 1
         /\ Follows(s, Ended(s, era), 1)
         /\ StartOf(Ended(s, era), Len(s.prior) + 1) = StartOf(s, Len(s.prior))
<1>1. PICK a \in Nat, i \in Nat, q \in Seq(Nat \ {0}) : a = s.lastStart /\ i = s.index /\ q = s.prior
  BY DEF Lines
<1>2. PICK n \in Nat : n = Len(q)
  BY SumOfPrefix
<1>3. PICK p : p = <<era + 1 - a>> \o q
  OBVIOUS
<1>4. PICK t : t = [index |-> i + 1, lastStart |-> era + 1, prior |-> p]
  OBVIOUS
<1>5. a <= era /\ era + 1 - a \in Nat \ {0}
  BY <1>1
<1>6. Ended(s, era) = t
  BY <1>1, <1>3, <1>4, <1>5 DEF Ended
<1>7. p \in Seq(Nat \ {0}) /\ Len(p) = n + 1 /\ p[1] = era + 1 - a /\ \A k \in 1..n : p[1 + k] = q[k]
  BY <1>2, <1>3, <1>5
<1>8. t \in Lines /\ t.lastStart = era + 1 /\ t.index = i + 1 /\ t.prior = p
  BY <1>4, <1>7 DEF Lines
<1>9. StartOf(t, 1) = StartOf(s, 0)
  <2>1. 1 \in 1..Len(t.prior)
    BY <1>2, <1>7, <1>8
  <2>2. StartOf(t, 1) = StartOf(t, 1 - 1) - p[1]
    BY <1>8, <2>1, StartIs
  <2>3. StartOf(t, 1 - 1) = era + 1
    BY <1>8, StartIs
  <2>4. StartOf(s, 0) = a
    BY <1>1, StartIs
  <2> QED
    BY <1>5, <1>7, <2>2, <2>3, <2>4
<1>10. \A k \in 0..n : StartOf(t, 1 + k) = StartOf(s, k)
  <2>1. n <= Len(s.prior) /\ 1 + n <= Len(t.prior)
    BY <1>1, <1>2, <1>7, <1>8
  <2>2. SameLengths(s, t, 1, n)
    BY <1>1, <1>7, <1>8 DEF SameLengths
  <2> QED
    BY <1>8, <1>9, <2>1, <2>2, StartsAgree
<1>11. ASSUME NEW j \in 1..(n + 1), j > 1
       PROVE  StartOf(t, j) = StartOf(s, j - 1) /\ StartOf(t, j - 1) = StartOf(s, j - 1 - 1)
  <2>1. j - 1 \in 0..n /\ 1 + (j - 1) = j /\ j - 1 - 1 \in 0..n /\ 1 + (j - 1 - 1) = j - 1
    BY <1>11
  <2> QED
    BY <1>10, <2>1
<1>12. Follows(s, t, 1)
  <2>1. t.index = s.index + 1 /\ Len(t.prior) = n + 1 /\ Len(s.prior) = n
    BY <1>1, <1>2, <1>7, <1>8
  <2> QED
    BY <1>11, <2>1 DEF Follows
<1>13. StartOf(t, n + 1) = StartOf(s, n)
  <2>1. n \in 0..n /\ 1 + n = n + 1
    OBVIOUS
  <2> QED
    BY <1>10, <2>1
<1> QED
  BY <1>1, <1>2, <1>6, <1>7, <1>8, <1>12, <1>13

(* A prefix of a queue of lengths.                                         *)
LEMMA PrefixIs ==
  ASSUME NEW q \in Seq(Nat \ {0}), NEW n \in Nat, n <= Len(q)
  PROVE  /\ SubSeq(q, 1, n) \in Seq(Nat \ {0}) /\ Len(SubSeq(q, 1, n)) = n
         /\ \A k \in 1..n : SubSeq(q, 1, n)[k] = q[k]
OBVIOUS

(* Spans cut off behind the first n: the others stay where they were.      *)
LEMMA CutIs ==
  ASSUME NEW s \in Lines, NEW n \in Nat, n <= Len(s.prior)
  PROVE  \E t \in Lines :
           /\ t = [s EXCEPT !.prior = SubSeq(s.prior, 1, n)]
           /\ t.lastStart = s.lastStart /\ Len(t.prior) = n
           /\ Follows(s, t, 0) /\ StartOf(t, n) = StartOf(s, n)
<1>1. PICK a \in Nat, i \in Nat, q \in Seq(Nat \ {0}) :
        s = [index |-> i, lastStart |-> a, prior |-> q]
  BY DEF Lines
<1>2. PICK p \in Seq(Nat \ {0}) : p = SubSeq(q, 1, n) /\ Len(p) = n /\ \A k \in 1..n : p[k] = q[k]
  BY <1>1, PrefixIs
<1>3. PICK t : t = [index |-> i, lastStart |-> a, prior |-> p]
  OBVIOUS
<1>4. t \in Lines /\ t = [s EXCEPT !.prior = SubSeq(s.prior, 1, n)]
  <2>1. s.prior = q /\ [s EXCEPT !.prior = p] = t
    BY <1>1, <1>3
  <2>2. t \in Lines
    BY <1>3 DEF Lines
  <2> QED
    BY <1>2, <2>1, <2>2
<1>5. StartOf(t, 0) = StartOf(s, 0)
  BY <1>1, <1>3, <1>4, StartIs
<1>6. PICK len \in Nat : len = Len(s.prior)
  BY StartIs
<1>7. PICK m \in Nat : m = 0
  OBVIOUS
<1>8. \A k \in 0..n : StartOf(t, k) = StartOf(s, k)
  <2>1. n <= Len(s.prior) /\ m + n <= Len(t.prior) /\ StartOf(t, m) = StartOf(s, 0)
    BY <1>1, <1>2, <1>3, <1>5, <1>7
  <2>2. SameLengths(s, t, m, n)
    BY <1>1, <1>2, <1>3, <1>7 DEF SameLengths
  <2>3. \A k \in 0..n : StartOf(t, m + k) = StartOf(s, k)
    <3>1. t \in Lines
      BY <1>4
    <3> QED
      BY <3>1, <2>1, <2>2, StartsAgree
  <2> QED
    BY <1>7, <2>3
<1>9. t.index = s.index + 0 /\ Len(t.prior) <= Len(s.prior) + 0 /\ Len(t.prior) = n
  BY <1>1, <1>2, <1>3, <1>6
<1>10. ASSUME NEW j \in 1..n, j > 0
       PROVE  StartOf(t, j) = StartOf(s, j - 0) /\ StartOf(t, j - 1) = StartOf(s, j - 0 - 1)
  <2>1. j \in 0..n /\ j - 1 \in 0..n /\ j - 0 = j /\ j - 0 - 1 = j - 1
    OBVIOUS
  <2> QED
    BY <1>8, <2>1
<1>11. Follows(s, t, 0)
  BY <1>9, <1>10 DEF Follows
<1>12. t.lastStart = s.lastStart
  BY <1>1, <1>3
<1>13. StartOf(t, n) = StartOf(s, n)
  BY <1>8
<1> QED
  BY <1>4, <1>13, <1>9, <1>11, <1>12

LEMMA EqualQueues ==
  ASSUME NEW p \in Seq(Nat \ {0}), NEW q \in Seq(Nat \ {0}), Len(p) = Len(q),
         \A k \in 1..Len(q) : p[k] = q[k]
  PROVE  p = q
<1>1. p \in [1..Len(p) -> Nat \ {0}] /\ q \in [1..Len(q) -> Nat \ {0}]
  OBVIOUS
<1> QED
  BY <1>1

LEMMA WholeQueue ==
  ASSUME NEW q \in Seq(Nat \ {0})
  PROVE  SubSeq(q, 1, Len(q)) = q /\ (Len(q) = 0 => q = <<>>)
<1>1. Len(q) \in Nat /\ Len(q) <= Len(q)
  OBVIOUS
<1>2. /\ SubSeq(q, 1, Len(q)) \in Seq(Nat \ {0}) /\ Len(SubSeq(q, 1, Len(q))) = Len(q)
      /\ \A k \in 1..Len(q) : SubSeq(q, 1, Len(q))[k] = q[k]
  BY <1>1, PrefixIs
<1>3. Len(q) = 0 => q = <<>>
  <2>1. <<>> \in Seq(Nat \ {0}) /\ Len(<<>>) = 0
    OBVIOUS
  <2> QED
    BY <2>1, EqualQueues
<1> QED
  BY <1>2, <1>3, EqualQueues

(* Spans that begin in the window, and so begin at it.                     *)
LEMMA PrunedToOngoing ==
  ASSUME NEW s \in Lines, NEW w \in Nat, s.lastStart <= w
  PROVE  Pruned(s, w) = [index |-> s.index, lastStart |-> w, prior |-> <<>>]
<1>1. PICK a \in Nat, i \in Nat, q \in Seq(Nat \ {0}) : s = [index |-> i, lastStart |-> a, prior |-> q]
  BY DEF Lines
<1>2. PICK n \in Nat : n = Len(q) /\ n = Len(s.prior)
  BY <1>1
<1>3. Max({a, w}) = w
  <2>1. s.lastStart = a
    BY <1>1
  <2>2. w \in {a, w} /\ {a, w} \subseteq Int /\ \A x \in {a, w} : x <= w
    BY <2>1
  <2> QED
    BY <2>2, MaxIs
<1>4. n > 0 => 1 \in OldSpans(s, w)
  <2>1. StartOf(s, 1 - 1) <= w
    BY StartIs
  <2> QED
    BY <1>2, <2>1 DEF OldSpans
<1>5. OldSpans(s, w) \subseteq 1..n
  BY <1>2 DEF OldSpans
<1>6. CASE n = 0
  <2>1. OldSpans(s, w) = {} /\ q = <<>>
    <3>1. 1..n = {}
      BY <1>6
    <3>2. q = <<>>
      BY <1>2, <1>6, WholeQueue
    <3> QED
      BY <1>5, <3>1, <3>2
  <2>2. Pruned(s, w) = [s EXCEPT !.lastStart = Max({@, w}), !.prior = @]
    BY <2>1 DEF Pruned
  <2> QED
    BY <1>1, <1>3, <2>1, <2>2
<1>7. CASE n > 0
  <2>1. Min(OldSpans(s, w)) = 1
    <3>1. 1 \in OldSpans(s, w) /\ OldSpans(s, w) \subseteq Int /\ \A x \in OldSpans(s, w) : 1 <= x
      BY <1>4, <1>5, <1>7
    <3> QED
      BY <3>1, MinIs
  <2>2. OldSpans(s, w) # {}
    BY <1>4, <1>7
  <2>3. Pruned(s, w) = [s EXCEPT !.lastStart = Max({@, w}), !.prior = SubSeq(@, 1, 1 - 1)]
    BY <2>1, <2>2 DEF Pruned
  <2>4. SubSeq(q, 1, 1 - 1) = <<>>
    OBVIOUS
  <2> QED
    BY <1>1, <1>3, <2>3, <2>4
<1> QED
  BY <1>2, <1>6, <1>7

(* The ongoing span begins later: of those before it, some go.             *)
LEMMA PrunedToCut ==
  ASSUME NEW s \in Lines, NEW w \in Nat, s.lastStart > w, StartOf(s, Len(s.prior)) <= w
  PROVE  \E m \in Nat : /\ m <= Len(s.prior) /\ StartOf(s, m) <= w
                        /\ Pruned(s, w) = [s EXCEPT !.prior = SubSeq(s.prior, 1, m)]
<1>1. PICK a \in Nat, i \in Nat, q \in Seq(Nat \ {0}) : s = [index |-> i, lastStart |-> a, prior |-> q]
  BY DEF Lines
<1>2. PICK n \in Nat : n = Len(q) /\ n = Len(s.prior)
  BY <1>1
<1>3. Max({a, w}) = a
  <2>1. s.lastStart = a
    BY <1>1
  <2>2. a \in {a, w} /\ {a, w} \subseteq Int /\ \A x \in {a, w} : x <= a
    BY <2>1
  <2> QED
    BY <2>2, MaxIs
<1>4. OldSpans(s, w) \subseteq 1..n /\ \A k \in OldSpans(s, w) : StartOf(s, k - 1) <= w
  BY <1>2 DEF OldSpans
<1>5. CASE OldSpans(s, w) = {}
  <2>1. Pruned(s, w) = [s EXCEPT !.lastStart = Max({@, w}), !.prior = @]
    BY <1>5 DEF Pruned
  <2>2. SubSeq(q, 1, n) = q
    BY <1>2, WholeQueue
  <2>3. Pruned(s, w) = s
    BY <1>1, <1>3, <2>1
  <2>4. [s EXCEPT !.prior = SubSeq(s.prior, 1, n)] = s
    BY <1>1, <2>2
  <2> QED
    BY <1>2, <2>3, <2>4
<1>6. CASE OldSpans(s, w) # {}
  <2>1. PICK k \in OldSpans(s, w) : \A x \in OldSpans(s, w) : k <= x
    <3>1. OldSpans(s, w) \subseteq Nat
      BY <1>4
    <3> QED
      BY <1>6, <3>1, LeastNatural
  <2>2. Min(OldSpans(s, w)) = k
    <3>1. OldSpans(s, w) \subseteq Int
      BY <1>4
    <3> QED
      BY <2>1, <3>1, MinIs
  <2>3. k - 1 \in Nat /\ k - 1 <= n /\ StartOf(s, k - 1) <= w
    BY <1>4
  <2>4. Pruned(s, w) = [s EXCEPT !.lastStart = Max({@, w}), !.prior = SubSeq(@, 1, k - 1)]
    BY <1>6, <2>2 DEF Pruned
  <2>5. PICK p, c : p = SubSeq(s.prior, 1, k - 1) /\ c = Max({s.lastStart, w})
    OBVIOUS
  <2>6. s.lastStart = a /\ c = a
    BY <1>1, <1>3, <2>5
  <2>7. [s EXCEPT !.lastStart = c, !.prior = p] = [s EXCEPT !.prior = p]
    BY <1>1, <2>6
  <2>8. Pruned(s, w) = [s EXCEPT !.prior = SubSeq(s.prior, 1, k - 1)]
    BY <2>4, <2>5, <2>7
  <2> QED
    BY <1>2, <2>3, <2>8
<1> QED
  BY <1>5, <1>6

(* prune: a span goes if the one after it began by the window's start.     *)
LEMMA PrunedIs ==
  ASSUME NEW s, NEW n \in Nat, NEW w \in Nat, w <= n + 1, Reaches(s, n, w)
  PROVE  Reaches(Pruned(s, w), n, w) /\ Follows(s, Pruned(s, w), 0)
<1>1. s \in Lines /\ s.lastStart <= n + 1 /\ StartOf(s, Len(s.prior)) <= w
  BY DEF Reaches
<1>2. s.lastStart \in Nat /\ s.index \in Nat
  BY <1>1, StartIs
<1>3. CASE s.lastStart <= w
  <2>1. PICK t : t = Pruned(s, w)
    OBVIOUS
  <2>2. t = [index |-> s.index, lastStart |-> w, prior |-> <<>>]
    BY <1>1, <1>3, <2>1, PrunedToOngoing
  <2>3. t \in Lines /\ t.index = s.index /\ t.lastStart = w /\ Len(t.prior) = 0
    BY <1>2, <2>2 DEF Lines
  <2>4. StartOf(t, Len(t.prior)) = w
    BY <2>3, StartIs
  <2>5. Reaches(t, n, w)
    BY <2>3, <2>4 DEF Reaches
  <2>6. Follows(s, t, 0)
    <3>1. Len(s.prior) \in Nat
      BY <1>1, StartIs
    <3>2. t.index = s.index + 0 /\ Len(t.prior) <= Len(s.prior) + 0 /\ 1..Len(t.prior) = {}
      BY <1>2, <2>3, <3>1
    <3> QED
      BY <3>2 DEF Follows
  <2> QED
    BY <2>1, <2>5, <2>6
<1>4. CASE s.lastStart > w
  <2>1. PICK m \in Nat : /\ m <= Len(s.prior) /\ StartOf(s, m) <= w
                         /\ Pruned(s, w) = [s EXCEPT !.prior = SubSeq(s.prior, 1, m)]
    BY <1>1, <1>4, PrunedToCut
  <2>2. PICK t \in Lines :
          /\ t = [s EXCEPT !.prior = SubSeq(s.prior, 1, m)]
          /\ t.lastStart = s.lastStart /\ Len(t.prior) = m
          /\ Follows(s, t, 0) /\ StartOf(t, m) = StartOf(s, m)
    <3>1. m <= Len(s.prior) /\ s \in Lines
      BY <1>1, <2>1
    <3> QED
      BY <3>1, CutIs
  <2>3. Pruned(s, w) = t
    BY <2>1, <2>2
  <2>4. Reaches(t, n, w)
    BY <1>1, <2>1, <2>2 DEF Reaches
  <2> QED
    BY <2>2, <2>3, <2>4
<1> QED
  BY <1>2, <1>3, <1>4

(* Every era from w on lies in one span.                                   *)
LEMMA CoveringIs ==
  ASSUME NEW s \in Lines, NEW w \in Int, StartOf(s, Len(s.prior)) <= w, NEW era \in Int, w <= era
  PROVE  \E m \in 0..Len(s.prior) : Covering(s, era) = {m} /\ Min(Covering(s, era)) = m
<1>1. PICK n \in Nat : n = Len(s.prior)
  BY StartIs
<1>2. \A k \in 0..n : StartOf(s, k) \in Int
  BY <1>1, StartIs
<1> DEFINE T == {k \in 0..n : StartOf(s, k) <= era}
<1>3. PICK m \in T : \A k \in T : m <= k
  <2>1. n \in 0..n /\ StartOf(s, n) <= era
    BY <1>1, <1>2
  <2>2. T \subseteq Nat /\ T # {}
    BY <2>1
  <2> HIDE DEF T
  <2> QED
    BY <2>2, LeastNatural
<1>4. m \in 0..n /\ StartOf(s, m) <= era /\ \A k \in 0..n : StartOf(s, k) <= era => m <= k
  BY <1>3
<1>5. m > 0 => era < StartOf(s, m - 1)
  <2> SUFFICES ASSUME m > 0 PROVE era < StartOf(s, m - 1)
    OBVIOUS
  <2>1. m - 1 \in 0..n /\ ~(m <= m - 1)
    BY <1>4
  <2>2. ~(StartOf(s, m - 1) <= era) /\ StartOf(s, m - 1) \in Int
    BY <1>2, <1>4, <2>1
  <2> QED
    BY <2>2
<1>6. ASSUME NEW k \in 0..n, Covers(s, k, era) PROVE k = m
  <2>1. StartOf(s, k) <= era /\ (k > 0 => era < StartOf(s, k - 1))
    BY <1>6 DEF Covers
  <2>2. ASSUME m < k PROVE FALSE
    <3>1. k - 1 \in 0..n /\ m <= k - 1 /\ k > 0
      BY <1>4, <2>2
    <3>2. StartOf(s, k - 1) <= StartOf(s, m)
      <4>1. CASE m = k - 1
        BY <1>2, <1>4, <4>1
      <4>2. CASE m < k - 1
        <5>1. m \in 0..Len(s.prior) /\ k - 1 \in 0..Len(s.prior)
          BY <1>1, <1>4, <3>1
        <5>2. StartOf(s, k - 1) < StartOf(s, m)
          BY <4>2, <5>1, StartsFall
        <5> QED
          BY <1>2, <1>4, <3>1, <5>2
      <4> QED
        BY <1>4, <3>1, <4>1, <4>2
    <3> QED
      BY <1>2, <1>4, <2>1, <3>1, <3>2
  <2> QED
    BY <1>4, <2>1, <2>2
<1>7. Covers(s, m, era)
  BY <1>4, <1>5 DEF Covers
<1>8. Covering(s, era) = {m}
  BY <1>1, <1>4, <1>6, <1>7 DEF Covering
<1> HIDE DEF T
<1>9. Min({m}) = m
  <2>1. PICK r : r = {m}
    OBVIOUS
  <2>2. m \in r /\ r \subseteq Int /\ \A x \in r : m <= x
    BY <1>4, <2>1
  <2>3. Min(r) = m
    BY <2>2, MinIs
  <2> QED
    BY <2>1, <2>3
<1> QED
  BY <1>1, <1>4, <1>8, <1>9

(* What goes of the spans and what comes; those in both stay.              *)
LEMMA FollowsIndices ==
  ASSUME NEW s \in Lines, NEW t \in Lines, NEW d \in {0, 1}, Follows(s, t, d)
  PROVE  /\ t.index = s.index + d /\ t.index \in Nat /\ s.index \in Nat
         /\ \A i \in SpanIndices(t) : i \in SpanIndices(s) \/ (d = 1 /\ i = t.index)
         /\ SpanIndices(t) \subseteq Int /\ \A i \in SpanIndices(t) : i <= t.index
<1>1. PICK a \in Nat, b \in Nat : a = Len(s.prior) /\ b = Len(t.prior)
  BY StartIs
<1>2. PICK i \in Nat, j \in Nat : i = s.index /\ j = t.index
  BY StartIs
<1>3. j = i + d /\ b <= a + d
  BY <1>1, <1>2 DEF Follows
<1>4. SpanIndices(s) = (i - a)..i /\ SpanIndices(t) = (j - b)..j
  BY <1>1, <1>2 DEF SpanIndices
<1>5. \A x \in (j - b)..j : x \in (i - a)..i \/ (d = 1 /\ x = j)
  BY <1>3
<1> QED
  BY <1>2, <1>3, <1>4, <1>5

Stays(s, t) ==
  \A k \in 1..Len(s.prior), j \in 1..Len(t.prior) :
    s.index - k = t.index - j =>
      StartOf(s, k) = StartOf(t, j) /\ StartOf(s, k - 1) = StartOf(t, j - 1)

LEMMA FollowsStays ==
  ASSUME NEW s \in Lines, NEW t \in Lines, NEW d \in {0, 1}, Follows(s, t, d)
  PROVE  Stays(s, t)
<1>1. PICK a \in Nat, b \in Nat : a = Len(s.prior) /\ b = Len(t.prior)
  BY StartIs
<1>2. s.index \in Nat /\ t.index = s.index + d
  BY StartIs DEF Follows
<1>3. ASSUME NEW k \in 1..a, NEW j \in 1..b, s.index - k = t.index - j
      PROVE  StartOf(s, k) = StartOf(t, j) /\ StartOf(s, k - 1) = StartOf(t, j - 1)
  <2>1. j = k + d
    BY <1>2, <1>3
  <2>2. j > d /\ j - d = k /\ j - d - 1 = k - 1
    BY <2>1
  <2>3. StartOf(t, j) = StartOf(s, j - d) /\ StartOf(t, j - 1) = StartOf(s, j - d - 1)
    BY <1>1, <2>2 DEF Follows
  <2> QED
    BY <2>2, <2>3
<1> QED
  BY <1>1, <1>3 DEF Stays

-----------------------------------------------------------------------------
(* Slashes and rewards *)

LEMMA PercentOfIs ==
  ASSUME NEW p \in 0..100, NEW x \in Nat, NEW y \in Nat
  PROVE  /\ PercentOf(p, x) \in Nat
         /\ x <= y => PercentOf(p, x) <= PercentOf(p, y)
         /\ PercentOf(50, x) \in Nat /\ PercentOf(50, x) <= x
<1>1. p * x \in Nat /\ p * y \in Nat
  OBVIOUS
<1>2. x <= y => p * x <= p * y
  <2> SUFFICES ASSUME x <= y PROVE p * x <= p * y
    OBVIOUS
  <2>1. PICK z \in Nat : y = x + z
    <3>1. y - x \in Nat /\ y = x + (y - x)
      OBVIOUS
    <3> QED
      BY <3>1
  <2>2. p * y = p * x + p * z /\ p * z \in Nat
    BY <2>1
  <2> QED
    BY <1>1, <2>2
<1>3. PICK a \in Nat, b \in Nat : a = p * x /\ b = p * y
  BY <1>1
<1>4. (a + 49) \div 100 \in Nat /\ (a <= b => (a + 49) \div 100 <= (b + 49) \div 100)
  OBVIOUS
<1>5. (50 * x + 49) \div 100 \in Nat /\ (50 * x + 49) \div 100 <= x
  OBVIOUS
<1> QED
  BY <1>2, <1>3, <1>4, <1>5 DEF PercentOf

LEMMA LargerIs ==
  ASSUME NEW x \in Entities, NEW y \in Entities
  PROVE  Larger(x, y) \in Entities /\ AtMost(x, Larger(x, y)) /\ AtMost(y, Larger(x, y))
<1>1. PICK a \in Nat, b \in Nat : x = [rep |-> a, stake |-> b]
  BY DEF Entities
<1>2. PICK c \in Nat, d \in Nat : y = [rep |-> c, stake |-> d]
  BY DEF Entities
<1>3. Max({a, c}) \in Nat /\ a <= Max({a, c}) /\ c <= Max({a, c})
  BY MaxOfTwo
<1>4. Max({b, d}) \in Nat /\ b <= Max({b, d}) /\ d <= Max({b, d})
  BY MaxOfTwo
<1>5. PICK m, n : m = Max({a, c}) /\ n = Max({b, d})
  OBVIOUS
<1>6. Larger(x, y) = [rep |-> m, stake |-> n]
  BY <1>1, <1>2, <1>5 DEF Larger, Each
<1>7. m \in Nat /\ a <= m /\ c <= m /\ n \in Nat /\ b <= n /\ d <= n
  BY <1>3, <1>4, <1>5
<1> QED
  BY <1>1, <1>2, <1>6, <1>7 DEF Entities, AtMost

LEMMA ShareIs ==
  ASSUME NEW p \in 0..100, NEW x \in Entities, NEW y \in Entities
  PROVE  /\ ShareOf(p, x) \in Entities
         /\ AtMost(x, y) => AtMost(ShareOf(p, x), ShareOf(p, y))
<1>1. PICK a \in Nat, b \in Nat : x = [rep |-> a, stake |-> b]
  BY DEF Entities
<1>2. PICK c \in Nat, d \in Nat : y = [rep |-> c, stake |-> d]
  BY DEF Entities
<1>3. /\ PercentOf(p, a) \in Nat /\ (a <= c => PercentOf(p, a) <= PercentOf(p, c))
      /\ PercentOf(p, b) \in Nat /\ (b <= d => PercentOf(p, b) <= PercentOf(p, d))
  BY PercentOfIs
<1>4. ShareOf(p, x) = [rep |-> PercentOf(p, a), stake |-> PercentOf(p, b)]
  BY <1>1 DEF ShareOf
<1>5. ShareOf(p, y) = [rep |-> PercentOf(p, c), stake |-> PercentOf(p, d)]
  BY <1>2 DEF ShareOf
<1> QED
  BY <1>1, <1>2, <1>3, <1>4, <1>5 DEF Entities, AtMost

(* A slash that is larger in both is added in full to what was slashed.    *)
LEMMA AddedIs ==
  ASSUME NEW x \in Entities, NEW y \in Entities
  PROVE  /\ Zero \in Entities /\ Plus(y, Zero) = y /\ AtMost(Zero, y)
         /\ Added(x, y) # Zero => Plus(y, Added(x, y)) = x
<1>1. PICK a \in Nat, b \in Nat : x = [rep |-> a, stake |-> b]
  BY DEF Entities
<1>2. PICK c \in Nat, d \in Nat : y = [rep |-> c, stake |-> d]
  BY DEF Entities
<1>3. Zero \in Entities /\ Plus(y, Zero) = y /\ AtMost(Zero, y)
  BY <1>2 DEF Zero, Entities, Plus, Each, AtMost
<1>4. ASSUME Added(x, y) # Zero PROVE Plus(y, Added(x, y)) = x
  <2>1. a > c /\ b > d /\ Added(x, y) = Excess(x, y)
    BY <1>1, <1>2, <1>4 DEF Added
  <2>2. Excess(x, y) = [rep |-> a - c, stake |-> b - d]
    BY <1>1, <1>2, <2>1 DEF Excess, Each, SaturatingSub
  <2>3. Plus(y, [rep |-> a - c, stake |-> b - d]) = [rep |-> c + (a - c), stake |-> d + (b - d)]
    BY <1>2 DEF Plus, Each
  <2> QED
    BY <1>1, <2>1, <2>2, <2>3
<1> QED
  BY <1>3, <1>4

(* Half of what is left of a share stays within the share.                 *)
LEMMA HalfOfRest ==
  ASSUME NEW paid \in Nat, NEW share \in Nat
  PROVE  /\ PercentOf(50, SaturatingSub(share, paid)) \in Nat
         /\ paid + PercentOf(50, SaturatingSub(share, paid)) <= share \/ PercentOf(50, SaturatingSub(share, paid)) = 0
<1>1. CASE share >= paid
  <2>1. SaturatingSub(share, paid) = share - paid /\ share - paid \in Nat
    BY <1>1 DEF SaturatingSub
  <2>2. PercentOf(50, share - paid) \in Nat /\ PercentOf(50, share - paid) <= share - paid
    BY <2>1, PercentOfIs
  <2> QED
    BY <2>1, <2>2
<1>2. CASE ~(share >= paid)
  <2>1. SaturatingSub(share, paid) = 0
    BY <1>2 DEF SaturatingSub
  <2>2. PercentOf(50, 0) \in Nat /\ PercentOf(50, 0) <= 0
    BY PercentOfIs
  <2> QED
    BY <2>1, <2>2
<1> QED
  BY <1>1, <1>2

(* compare_and_update_span_slash: reporters stay within their share.       *)
LEMMA RewardIs ==
  ASSUME SpansAssumption, NEW slash \in Entities, NEW record \in SpanRecords, NEW largest \in Entities,
         AtMost(record.paidOut, ShareOf(RewardProportion, largest))
  PROVE  /\ Reward(slash, record) \in Entities
         /\ Plus(record.paidOut, Reward(slash, record)) \in Entities
         /\ AtMost(Plus(record.paidOut, Reward(slash, record)),
                   ShareOf(RewardProportion, Larger(largest, slash)))
<1>1. PICK more \in Entities : more = Larger(largest, slash) /\ AtMost(largest, more) /\ AtMost(slash, more)
  BY LargerIs
<1>2. PICK a \in Nat, b \in Nat : ShareOf(RewardProportion, slash) = [rep |-> a, stake |-> b]
  <2>1. ShareOf(RewardProportion, slash) \in Entities
    BY ShareIs DEF SpansAssumption
  <2> QED
    BY <2>1 DEF Entities
<1>3. PICK c \in Nat, d \in Nat : ShareOf(RewardProportion, more) = [rep |-> c, stake |-> d]
  <2>1. ShareOf(RewardProportion, more) \in Entities
    BY ShareIs DEF SpansAssumption
  <2> QED
    BY <2>1 DEF Entities
<1>4. PICK p \in Nat, q \in Nat : record.paidOut = [rep |-> p, stake |-> q]
  BY DEF SpanRecords, Entities
<1>5. p <= c /\ q <= d /\ a <= c /\ b <= d
  <2>1. AtMost(ShareOf(RewardProportion, largest), ShareOf(RewardProportion, more))
    BY <1>1, ShareIs DEF SpansAssumption
  <2>2. AtMost(ShareOf(RewardProportion, slash), ShareOf(RewardProportion, more))
    BY <1>1, ShareIs DEF SpansAssumption
  <2>3. PICK e \in Nat, f \in Nat : ShareOf(RewardProportion, largest) = [rep |-> e, stake |-> f]
    <3>1. ShareOf(RewardProportion, largest) \in Entities
      BY ShareIs DEF SpansAssumption
    <3> QED
      BY <3>1 DEF Entities
  <2>4. e <= c /\ f <= d /\ a <= c /\ b <= d
    BY <1>2, <1>3, <2>1, <2>2, <2>3 DEF AtMost
  <2>5. p <= e /\ q <= f
    BY <1>4, <2>3 DEF AtMost
  <2> QED
    BY <2>4, <2>5
<1>6. PICK m \in Nat, n \in Nat : Reward(slash, record) = [rep |-> m, stake |-> n] /\ p + m <= c /\ q + n <= d
  <2>1. CASE slash.rep < record.slashed.rep /\ slash.stake < record.slashed.stake
    <3>1. Reward(slash, record) = [rep |-> 0, stake |-> 0]
      BY <2>1 DEF Reward, Zero
    <3> QED
      BY <1>5, <3>1
  <2>2. CASE ~(slash.rep < record.slashed.rep /\ slash.stake < record.slashed.stake)
    <3>1. Reward(slash, record) = ShareOf(50, Excess([rep |-> a, stake |-> b], [rep |-> p, stake |-> q]))
      BY <1>2, <1>4, <2>2 DEF Reward
    <3>2. Excess([rep |-> a, stake |-> b], [rep |-> p, stake |-> q]) = [rep |-> SaturatingSub(a, p), stake |-> SaturatingSub(b, q)]
      BY DEF Excess, Each
    <3>3. Reward(slash, record) = [rep |-> PercentOf(50, SaturatingSub(a, p)), stake |-> PercentOf(50, SaturatingSub(b, q))]
      BY <3>1, <3>2 DEF ShareOf
    <3>4. PICK m \in Nat, n \in Nat : /\ m = PercentOf(50, SaturatingSub(a, p)) /\ n = PercentOf(50, SaturatingSub(b, q))
                                      /\ p + m <= a \/ m = 0
                                      /\ q + n <= b \/ n = 0
      BY HalfOfRest
    <3> QED
      BY <1>5, <3>3, <3>4
  <2> QED
    BY <2>1, <2>2
<1>7. Plus(record.paidOut, Reward(slash, record)) = [rep |-> p + m, stake |-> q + n]
  BY <1>4, <1>6 DEF Plus, Each
<1> QED
  BY <1>1, <1>3, <1>6, <1>7 DEF Entities, AtMost

NoRecord == [slashed |-> Zero, paidOut |-> Zero]

(* What is on record for a span, which may be nothing.                     *)
LEMMA RecordIs ==
  ASSUME SpansAssumption, NEW s \in Lines, NEW recs, NEW added, NEW largest,
         Settled(s, recs, added, largest), NEW i \in SpanIndices(s)
  PROVE  /\ GetOr(recs, i, NoRecord) \in SpanRecords
         /\ GetOr(added, i, Zero) = GetOr(recs, i, NoRecord).slashed
         /\ GetOr(largest, i, Zero) \in Entities
         /\ AtMost(GetOr(added, i, Zero), GetOr(largest, i, Zero))
         /\ AtMost(GetOr(recs, i, NoRecord).paidOut, ShareOf(RewardProportion, GetOr(largest, i, Zero)))
<1>1. Zero \in Entities /\ AtMost(Zero, Zero) /\ NoRecord \in SpanRecords
      /\ NoRecord.slashed = Zero /\ NoRecord.paidOut = Zero
  <2>1. Zero \in Entities /\ AtMost(Zero, Zero)
    BY DEF Zero, Entities, AtMost
  <2> QED
    BY <2>1 DEF NoRecord, SpanRecords
<1>2. \A x \in Entities : AtMost(Zero, ShareOf(RewardProportion, x))
  <2> SUFFICES ASSUME NEW x \in Entities PROVE AtMost(Zero, ShareOf(RewardProportion, x))
    OBVIOUS
  <2>1. ShareOf(RewardProportion, x) \in Entities
    BY ShareIs DEF SpansAssumption
  <2> QED
    BY <2>1 DEF Entities, AtMost, Zero
<1>3. CASE i \in DOMAIN added
  <2>1. Agrees(recs, added, largest, i) /\ i \in DOMAIN largest /\ (i \notin DOMAIN recs => added[i] = Zero)
    BY <1>3 DEF Settled
  <2>2. GetOr(added, i, Zero) = added[i] /\ GetOr(largest, i, Zero) = largest[i]
    BY <1>3, <2>1 DEF GetOr
  <2>3. CASE i \in DOMAIN recs
    <3>1. GetOr(recs, i, NoRecord) = recs[i]
      BY <2>3 DEF GetOr
    <3> QED
      BY <2>1, <2>2, <2>3, <3>1 DEF Agrees
  <2>4. CASE i \notin DOMAIN recs
    <3>1. GetOr(recs, i, NoRecord) = NoRecord
      BY <2>4 DEF GetOr
    <3> QED
      BY <1>1, <1>2, <2>1, <2>2, <2>4, <3>1 DEF Agrees
  <2> QED
    BY <2>3, <2>4
<1>4. CASE i \notin DOMAIN added
  <2>1. i \notin DOMAIN recs /\ i \notin DOMAIN largest
    BY <1>4 DEF Settled
  <2>2. /\ GetOr(added, i, Zero) = Zero /\ GetOr(largest, i, Zero) = Zero
        /\ GetOr(recs, i, NoRecord) = NoRecord
    BY <1>4, <2>1 DEF GetOr
  <2> QED
    BY <1>1, <1>2, <2>2
<1> QED
  BY <1>3, <1>4

(* What an offence leaves on record of the span it falls into.             *)
Found(recs, i, slash) ==
  LET record == GetOr(recs, i, NoRecord)
      more   == Added(slash, record.slashed)
      reward == Reward(slash, record)
  IN  IF more = Zero /\ reward = Zero THEN recs
      ELSE Insert(recs, i, [slashed |-> IF more # Zero THEN slash ELSE record.slashed,
                            paidOut |-> Plus(record.paidOut, reward)])

LEMMA AtMostAll ==
  ASSUME NEW x \in Entities, NEW y \in Entities, NEW z \in Entities, AtMost(x, y), AtMost(y, z)
  PROVE  AtMost(x, z)
BY DEF AtMost, Entities

LEMMA FoundAgrees ==
  ASSUME SpansAssumption, NEW s \in Lines, NEW recs, NEW added, NEW largest,
         Settled(s, recs, added, largest), NEW i \in SpanIndices(s), NEW slash \in Entities,
         NEW sum, sum = Plus(GetOr(added, i, Zero), Added(slash, GetOr(recs, i, NoRecord).slashed)),
         NEW most, most = Larger(GetOr(largest, i, Zero), slash)
  PROVE  /\ Agrees(Found(recs, i, slash), Insert(added, i, sum), Insert(largest, i, most), i)
         /\ i \notin DOMAIN Found(recs, i, slash) => sum = Zero
         /\ DOMAIN Found(recs, i, slash) \in {DOMAIN recs, DOMAIN recs \cup {i}}
         /\ \A j \in DOMAIN recs : j # i => Found(recs, i, slash)[j] = recs[j]
<1>1. PICK record \in SpanRecords, old \in Entities :
        /\ record = GetOr(recs, i, NoRecord) /\ old = GetOr(largest, i, Zero)
        /\ GetOr(added, i, Zero) = record.slashed
        /\ AtMost(record.slashed, old)
        /\ AtMost(record.paidOut, ShareOf(RewardProportion, old))
  BY RecordIs
<1>2. PICK more, reward : more = Added(slash, record.slashed) /\ reward = Reward(slash, record)
  OBVIOUS
<1>3. record.slashed \in Entities /\ record.paidOut \in Entities
  BY DEF SpanRecords
<1>4. most \in Entities /\ AtMost(old, most) /\ AtMost(slash, most)
  BY <1>1, LargerIs
<1>5. /\ reward \in Entities /\ Plus(record.paidOut, reward) \in Entities
      /\ AtMost(Plus(record.paidOut, reward), ShareOf(RewardProportion, most))
  BY <1>1, <1>2, RewardIs
<1>6. sum = IF more # Zero THEN slash ELSE record.slashed
  <2>1. sum = Plus(record.slashed, more)
    BY <1>1, <1>2
  <2>2. Plus(record.slashed, Zero) = record.slashed
    BY <1>3, AddedIs
  <2>3. more # Zero => Plus(record.slashed, more) = slash
    BY <1>2, <1>3, AddedIs
  <2> QED
    BY <2>1, <2>2, <2>3
<1>7. sum \in Entities /\ AtMost(sum, most)
  <2>1. AtMost(record.slashed, most)
    BY <1>1, <1>3, <1>4, AtMostAll
  <2> QED
    BY <1>3, <1>4, <1>6, <2>1
<1>8. PICK a, l : a = Insert(added, i, sum) /\ l = Insert(largest, i, most)
  OBVIOUS
<1>9. a[i] = sum /\ l[i] = most
  <2>1. \A f, value : Insert(f, i, value)[i] = value
    BY DEF Insert
  <2> QED
    BY <1>8, <2>1
<1>10. CASE more = Zero /\ reward = Zero
  <2>1. Found(recs, i, slash) = recs
    BY <1>1, <1>2, <1>10 DEF Found
  <2>2. Plus(record.paidOut, reward) = record.paidOut
    BY <1>3, <1>10, AddedIs
  <2>3. i \in DOMAIN recs => recs[i] = record
    BY <1>1 DEF GetOr
  <2>4. i \notin DOMAIN recs => record.slashed = Zero
    BY <1>1 DEF GetOr, NoRecord
  <2>5. sum = record.slashed /\ AtMost(record.paidOut, ShareOf(RewardProportion, most))
    BY <1>5, <1>6, <1>10, <2>2
  <2>6. Agrees(recs, a, l, i)
    BY <1>4, <1>7, <1>9, <2>3, <2>5 DEF Agrees
  <2> QED
    BY <1>8, <2>1, <2>4, <2>5, <2>6
<1>11. CASE ~(more = Zero /\ reward = Zero)
  <2>1. PICK new : new = [slashed |-> sum, paidOut |-> Plus(record.paidOut, reward)]
    OBVIOUS
  <2>2. Found(recs, i, slash) = Insert(recs, i, new)
    BY <1>1, <1>2, <1>6, <1>11, <2>1 DEF Found
  <2>3. PICK after : after = Insert(recs, i, new)
    OBVIOUS
  <2>4. DOMAIN after = DOMAIN recs \cup {i} /\ after[i] = new /\ \A j \in DOMAIN recs : j # i => after[j] = recs[j]
    BY <2>3 DEF Insert
  <2>5. new \in SpanRecords /\ new.slashed = sum /\ new.paidOut = Plus(record.paidOut, reward)
    BY <1>5, <1>7, <2>1 DEF SpanRecords
  <2>6. Agrees(after, a, l, i)
    BY <1>4, <1>5, <1>7, <1>9, <2>4, <2>5 DEF Agrees
  <2> QED
    BY <1>8, <2>2, <2>3, <2>4, <2>6
<1> QED
  BY <1>10, <1>11

LEMMA FoundSettles ==
  ASSUME SpansAssumption, NEW s \in Lines, NEW recs, NEW added, NEW largest,
         Settled(s, recs, added, largest), NEW i \in SpanIndices(s), NEW slash \in Entities,
         NEW sum, sum = Plus(GetOr(added, i, Zero), Added(slash, GetOr(recs, i, NoRecord).slashed)),
         NEW most, most = Larger(GetOr(largest, i, Zero), slash)
  PROVE  Settled(s, Found(recs, i, slash), Insert(added, i, sum), Insert(largest, i, most))
<1>1. PICK r, a, l : r = Found(recs, i, slash) /\ a = Insert(added, i, sum) /\ l = Insert(largest, i, most)
  OBVIOUS
<1>2. /\ Agrees(r, a, l, i) /\ (i \notin DOMAIN r => sum = Zero)
      /\ DOMAIN r \in {DOMAIN recs, DOMAIN recs \cup {i}}
      /\ \A j \in DOMAIN recs : j # i => r[j] = recs[j]
  BY <1>1, FoundAgrees
<1>3. /\ DOMAIN a = DOMAIN added \cup {i} /\ a[i] = sum /\ \A j \in DOMAIN added : j # i => a[j] = added[j]
      /\ DOMAIN l = DOMAIN largest \cup {i} /\ \A j \in DOMAIN largest : j # i => l[j] = largest[j]
  BY <1>1 DEF Insert
<1>4. /\ DOMAIN recs \subseteq SpanIndices(s) /\ DOMAIN recs \subseteq DOMAIN added
      /\ DOMAIN largest = DOMAIN added
  BY DEF Settled
<1>5. i \in Int /\ i <= s.index
  BY StartIs DEF SpanIndices
<1>6. ASSUME NEW j \in DOMAIN a
      PROVE  j \in Int /\ j <= s.index /\ Agrees(r, a, l, j) /\ (j \in SpanIndices(s) \ DOMAIN r => a[j] = Zero)
  <2>1. CASE j = i
    BY <1>2, <1>3, <1>5, <2>1
  <2>2. CASE j # i
    <3>1. j \in DOMAIN added /\ j \in DOMAIN largest /\ a[j] = added[j] /\ l[j] = largest[j]
      BY <1>3, <1>4, <2>2
    <3>2. /\ j \in Int /\ j <= s.index /\ Agrees(recs, added, largest, j)
          /\ (j \in SpanIndices(s) \ DOMAIN recs => added[j] = Zero)
      BY <3>1 DEF Settled
    <3>3. (j \in DOMAIN r <=> j \in DOMAIN recs) /\ (j \in DOMAIN recs => r[j] = recs[j])
      BY <1>2, <2>2
    <3>4. Agrees(r, a, l, j)
      BY <3>1, <3>2, <3>3 DEF Agrees
    <3> QED
      BY <3>1, <3>2, <3>3, <3>4
  <2> QED
    BY <2>1, <2>2
<1>7. DOMAIN r \subseteq SpanIndices(s) /\ DOMAIN r \subseteq DOMAIN a /\ DOMAIN l = DOMAIN a
  BY <1>2, <1>3, <1>4
<1>8. Settled(s, r, a, l)
  BY <1>6, <1>7 DEF Settled
<1> QED
  BY <1>1, <1>8

(* A span that is ended leaves its record; the new one has none.           *)
LEMMA EndedSettles ==
  ASSUME NEW s \in Lines, NEW t \in Lines, Len(t.prior) = Len(s.prior) + 1, Follows(s, t, 1),
         NEW recs, NEW added, NEW largest, Settled(s, recs, added, largest)
  PROVE  Settled(t, recs, added, largest)
<1>1. /\ t.index = s.index + 1 /\ t.index \in Nat /\ s.index \in Nat
      /\ \A i \in SpanIndices(t) : i \in SpanIndices(s) \/ (1 = 1 /\ i = t.index)
  BY FollowsIndices
<1>2. SpanIndices(s) \subseteq SpanIndices(t)
  <2>1. PICK a \in Nat, b \in Nat : a = Len(s.prior) /\ b = Len(t.prior)
    BY StartIs
  <2>2. b = a + 1
    BY <2>1
  <2>3. SpanIndices(s) = (s.index - a)..s.index /\ SpanIndices(t) = (t.index - b)..t.index
    BY <2>1 DEF SpanIndices
  <2> QED
    BY <1>1, <2>2, <2>3
<1>3. ASSUME NEW i \in DOMAIN added
      PROVE  /\ i \in Int /\ i <= t.index /\ Agrees(recs, added, largest, i)
             /\ (i \in SpanIndices(t) \ DOMAIN recs => added[i] = Zero)
  <2>1. /\ i \in Int /\ i <= s.index /\ Agrees(recs, added, largest, i)
        /\ (i \in SpanIndices(s) \ DOMAIN recs => added[i] = Zero)
    BY DEF Settled
  <2>2. i <= t.index /\ i # t.index
    BY <1>1, <2>1
  <2> QED
    BY <1>1, <2>1, <2>2
<1>4. /\ DOMAIN recs \subseteq SpanIndices(s) /\ DOMAIN recs \subseteq DOMAIN added
      /\ DOMAIN largest = DOMAIN added
  BY DEF Settled
<1> QED
  BY <1>2, <1>3, <1>4 DEF Settled

LEMMA EndedKeeps ==
  ASSUME NEW s, NEW n \in Nat, NEW w \in Nat, Reaches(s, n, w), NEW t, t = Ended(s, n),
         NEW recs, NEW added, NEW largest, Settled(s, recs, added, largest)
  PROVE  \E d \in {0, 1} : Reaches(t, n, w) /\ Follows(s, t, d) /\ Settled(t, recs, added, largest)
<1>1. s \in Lines /\ s.lastStart <= n + 1 /\ StartOf(s, Len(s.prior)) <= w
  BY DEF Reaches
<1>2. s.lastStart \in Nat
  BY <1>1, StartIs
<1>3. CASE s.lastStart <= n
  <2>1. /\ t \in Lines /\ t.lastStart = n + 1 /\ Len(t.prior) = Len(s.prior) + 1
        /\ Follows(s, t, 1) /\ StartOf(t, Len(s.prior) + 1) = StartOf(s, Len(s.prior))
    BY <1>1, <1>3, EndedIs
  <2>2. Reaches(t, n, w)
    BY <1>1, <2>1 DEF Reaches
  <2>3. Settled(t, recs, added, largest)
    BY <1>1, <2>1, EndedSettles
  <2> QED
    BY <2>1, <2>2, <2>3
<1>4. CASE s.lastStart > n
  <2>1. t = s
    BY <1>2, <1>4 DEF Ended
  <2>2. Follows(s, s, 0)
    BY <1>1, FollowsSelf
  <2> QED
    BY <2>1, <2>2
<1> QED
  BY <1>2, <1>3, <1>4

(* Records go with their spans.                                            *)
LEMMA PrunedSettles ==
  ASSUME NEW s \in Lines, NEW t \in Lines, Follows(s, t, 0),
         NEW recs, NEW added, NEW largest, Settled(s, recs, added, largest)
  PROVE  Settled(t, KeptRecords(recs, s, t), added, largest)
<1>1. PICK r : r = KeptRecords(recs, s, t)
  OBVIOUS
<1>2. /\ DOMAIN recs \subseteq SpanIndices(s) /\ DOMAIN recs \subseteq DOMAIN added
      /\ DOMAIN largest = DOMAIN added
  BY DEF Settled
<1>3. DOMAIN r = DOMAIN recs \ (SpanIndices(s) \ SpanIndices(t)) /\ \A i \in DOMAIN r : r[i] = recs[i]
  BY <1>1 DEF KeptRecords
<1>4. DOMAIN r = DOMAIN recs \cap SpanIndices(t)
  BY <1>2, <1>3
<1>5. t.index = s.index + 0 /\ s.index \in Nat /\ SpanIndices(t) \subseteq SpanIndices(s)
  <2>1. 0 \in {0, 1} /\ ~(0 = 1)
    OBVIOUS
  <2> QED
    BY <2>1, FollowsIndices
<1>6. ASSUME NEW i \in DOMAIN added
      PROVE  /\ i \in Int /\ i <= t.index /\ Agrees(r, added, largest, i)
             /\ (i \in SpanIndices(t) \ DOMAIN r => added[i] = Zero)
  <2>1. /\ i \in Int /\ i <= s.index /\ Agrees(recs, added, largest, i)
        /\ (i \in SpanIndices(s) \ DOMAIN recs => added[i] = Zero)
    BY DEF Settled
  <2>2. i <= t.index
    BY <1>5, <2>1
  <2>3. Agrees(r, added, largest, i)
    BY <1>3, <2>1 DEF Agrees
  <2>4. i \in SpanIndices(t) \ DOMAIN r => i \in SpanIndices(s) \ DOMAIN recs
    BY <1>4, <1>5
  <2> QED
    BY <2>1, <2>2, <2>3, <2>4
<1>7. Settled(t, r, added, largest)
  BY <1>2, <1>4, <1>6 DEF Settled
<1> QED
  BY <1>1, <1>7

-----------------------------------------------------------------------------
(* The steps *)

LEMMA WindowIs ==
  ASSUME SpansAssumption, NEW n \in Nat
  PROVE  SaturatingSub(n, WindowLength) \in Nat /\ SaturatingSub(n, WindowLength) <= n
BY DEF SpansAssumption, SaturatingSub

(* What is there before an offence, whether or not there were spans.       *)
LEMMA FetchedIs ==
  ASSUME SpansAssumption, SpansIInv
  PROVE  /\ now \in Nat /\ WindowStart \in Nat /\ WindowStart <= now
         /\ Reaches(Fetched, now, WindowStart)
         /\ Settled(Fetched, records, taken, worst)
         /\ spans # NoSpans => Fetched = spans
<1>1. now \in Nat
  BY DEF SpansIInv, OthersTyped, Eras, SpansAssumption
<1>2. WindowStart \in Nat /\ WindowStart <= now
  BY <1>1, WindowIs DEF WindowStart
<1>3. CASE spans = NoSpans
  <2>1. Unslashed
    BY <1>3 DEF SpansIInv, SpansHeld
  <2>2. PICK s : s = Fetched
    OBVIOUS
  <2>3. s = [index |-> 0, lastStart |-> WindowStart, prior |-> <<>>]
    BY <1>3, <2>2 DEF Fetched
  <2>4. s \in Lines /\ s.lastStart = WindowStart /\ Len(s.prior) = 0
    BY <1>2, <2>3 DEF Lines
  <2>5. StartOf(s, Len(s.prior)) = WindowStart
    BY <2>4, StartIs
  <2>6. Reaches(s, now, WindowStart)
    BY <1>1, <1>2, <2>4, <2>5 DEF Reaches
  <2>7. Settled(s, records, taken, worst)
    BY <2>1 DEF Unslashed, Settled
  <2> QED
    BY <1>1, <1>2, <1>3, <2>2, <2>6, <2>7
<1>4. CASE spans # NoSpans
  <2>1. Fetched = spans
    BY <1>4 DEF Fetched
  <2> QED
    BY <1>1, <1>2, <1>4, <2>1 DEF SpansIInv, SpansHeld
<1> QED
  BY <1>3, <1>4

LEMMA LinesAreSpans ==
  ASSUME NEW s \in Lines
  PROVE  s # NoSpans
<1>1. s.index \in Nat /\ NoSpans.index = -1
  BY DEF Lines, NoSpans
<1> QED
  BY <1>1

(* Drop: written or not, spans reach back and agree with their records.    *)
LEMMA WriteKeeps ==
  ASSUME NEW n \in Nat, NEW w \in Nat, w <= n, w = WindowStart, NEW s \in Lines, NEW t,
         Reaches(t, n, w), NEW d \in {0, 1}, Follows(s, t, d),
         NEW recs, NEW added, NEW largest, Settled(t, recs, added, largest),
         NEW dirty \in BOOLEAN, Write(t, recs, dirty), ~dirty => t = Fetched
  PROVE  Reaches(spans', n, w) /\ Settled(spans', records', added, largest) /\ Stays(s, spans')
<1>1. t \in Lines
  BY DEF Reaches
<1>2. CASE dirty
  <2>1. PICK u : u = Pruned(t, w)
    OBVIOUS
  <2>2. spans' = u /\ records' = KeptRecords(recs, t, u)
    BY <1>2, <2>1 DEF Write
  <2>3. Reaches(u, n, w) /\ Follows(t, u, 0)
    BY <2>1, PrunedIs
  <2>4. u \in Lines
    BY <2>3 DEF Reaches
  <2>5. Settled(u, KeptRecords(recs, t, u), added, largest)
    BY <1>1, <2>3, <2>4, PrunedSettles
  <2>6. Follows(s, u, d)
    <3>1. d \in Nat
      OBVIOUS
    <3> QED
      BY <1>1, <2>3, <2>4, <3>1, FollowsTwice
  <2>7. Stays(s, u)
    BY <2>4, <2>6, FollowsStays
  <2> QED
    BY <2>2, <2>3, <2>5, <2>7
<1>3. CASE ~dirty
  <2>1. spans' = t /\ records' = recs
    BY <1>3 DEF Write
  <2>2. Stays(s, t)
    BY <1>1, FollowsStays
  <2> QED
    BY <2>1, <2>2
<1> QED
  BY <1>2, <1>3

(* What the inspection of an offence leaves.                               *)
Left ==
  /\ Reaches(spans', now, WindowStart)
  /\ Settled(spans', records', taken', worst')
  /\ spans # NoSpans => Stays(spans, spans')

LEMMA InspectLeaves ==
  ASSUME SpansAssumption, SpansIInv, NEW era \in WindowStart..now, NEW slash \in Entities,
         Inspect(era, slash)
  PROVE  Left
<1>1. PICK s, n, w : s = Fetched /\ n = now /\ w = WindowStart
  OBVIOUS
<1>2. n \in Nat /\ w \in Nat /\ w <= n /\ Reaches(s, n, w) /\ Settled(s, records, taken, worst)
  BY <1>1, FetchedIs
<1>3. s \in Lines /\ StartOf(s, Len(s.prior)) <= w /\ s.lastStart <= n + 1
  BY <1>2 DEF Reaches
<1>4. PICK k \in 0..Len(s.prior) : Covering(s, era) = {k} /\ Min(Covering(s, era)) = k
  <2>1. w \in Int /\ era \in Int /\ w <= era
    BY <1>1, <1>2
  <2> QED
    BY <1>3, <2>1, CoveringIs
<1>5. PICK i : i = s.index - k
  OBVIOUS
<1>6. i \in SpanIndices(s)
  <2>1. Len(s.prior) \in Nat /\ s.index \in Nat
    BY <1>3, StartIs
  <2> QED
    BY <1>5, <2>1 DEF SpanIndices
<1>7. PICK t : t = IF k = 0 THEN Ended(s, n) ELSE s
  OBVIOUS
<1>8. PICK sum, most : /\ sum = Plus(GetOr(taken, i, Zero), Added(slash, GetOr(records, i, NoRecord).slashed))
                       /\ most = Larger(GetOr(worst, i, Zero), slash)
  OBVIOUS
<1>9. PICK added, largest : added = Insert(taken, i, sum) /\ largest = Insert(worst, i, most)
  OBVIOUS
<1>10. PICK dirty \in BOOLEAN :
         /\ Write(t, Found(records, i, slash), dirty) /\ (~dirty => t = s)
         /\ taken' = added /\ worst' = largest
  <2>1. Covering(s, era) # {}
    BY <1>4
  <2> QED
    BY <1>1, <1>4, <1>5, <1>7, <1>8, <1>9, <2>1 DEF Inspect, Found, NoRecord
<1>11. Settled(s, Found(records, i, slash), added, largest)
  BY <1>2, <1>3, <1>6, <1>8, <1>9, FoundSettles
<1>12. PICK d \in {0, 1} : Reaches(t, n, w) /\ Follows(s, t, d) /\ Settled(t, Found(records, i, slash), added, largest)
  <2>1. CASE k = 0
    <3>1. t = Ended(s, n)
      BY <1>7, <2>1
    <3> QED
      BY <1>2, <1>11, <3>1, EndedKeeps
  <2>2. CASE k # 0
    <3>1. t = s /\ Follows(s, s, 0)
      BY <1>3, <1>7, <2>2, FollowsSelf
    <3> QED
      BY <1>2, <1>11, <3>1
  <2> QED
    BY <2>1, <2>2
<1>13. Reaches(spans', n, w) /\ Settled(spans', records', added, largest) /\ Stays(s, spans')
  BY <1>1, <1>2, <1>3, <1>10, <1>12, WriteKeeps
<1> QED
  BY <1>1, <1>10, <1>13, FetchedIs DEF Left

LEMMA KickOutLeaves ==
  ASSUME SpansAssumption, SpansIInv, NEW era, KickOut(era)
  PROVE  Left
<1>1. PICK s, n, w : s = Fetched /\ n = now /\ w = WindowStart
  OBVIOUS
<1>2. n \in Nat /\ w \in Nat /\ w <= n /\ Reaches(s, n, w) /\ Settled(s, records, taken, worst)
  BY <1>1, FetchedIs
<1>3. s \in Lines
  BY <1>2 DEF Reaches
<1>4. PICK t : t = IF 0 \in Covering(s, era) THEN Ended(s, n) ELSE s
  OBVIOUS
<1>5. PICK dirty \in BOOLEAN :
        Write(t, records, dirty) /\ (~dirty => t = s) /\ taken' = taken /\ worst' = worst
  BY <1>1, <1>4 DEF KickOut
<1>6. PICK d \in {0, 1} : Reaches(t, n, w) /\ Follows(s, t, d) /\ Settled(t, records, taken, worst)
  <2>1. CASE t = Ended(s, n)
    BY <1>2, <2>1, EndedKeeps
  <2>2. CASE t = s
    <3>1. Follows(s, s, 0)
      BY <1>3, FollowsSelf
    <3> QED
      BY <1>2, <2>2, <3>1
  <2> QED
    BY <1>4, <2>1, <2>2
<1>7. Reaches(spans', n, w) /\ Settled(spans', records', taken, worst) /\ Stays(s, spans')
  BY <1>1, <1>2, <1>3, <1>5, <1>6, WriteKeeps
<1> QED
  BY <1>1, <1>5, <1>7, FetchedIs DEF Left

LEMMA LeftHeld ==
  ASSUME SpansAssumption, Left, now' = now
  PROVE  SpansHeld'
<1>1. WindowStart' = WindowStart
  BY DEF WindowStart
<1>2. spans' \in Lines
  BY DEF Left, Reaches
<1>3. spans' # NoSpans
  BY <1>2, LinesAreSpans
<1>4. Reaches(spans', now', WindowStart') /\ Settled(spans', records', taken', worst')
  BY <1>1 DEF Left
<1> QED
  BY <1>3, <1>4 DEF SpansHeld

(* What an offence may be charged with.                                    *)
LEMMA OwnIs ==
  ASSUME SpansAssumption, SpansIInv, NEW fraction \in Fractions, NEW points \in Points, NEW kept \in Points,
         NEW era \in WindowStart..now
  PROVE  ShareOf(fraction, [rep |-> SaturatingSub(points, kept), stake |-> exposed[era]]) \in Entities
<1>1. now \in Nat /\ now <= LastEra /\ WindowStart \in Nat /\ exposed \in [Eras -> Exposures]
  BY FetchedIs DEF SpansIInv, OthersTyped, Eras
<1>2. era \in Eras
  BY <1>1 DEF Eras, SpansAssumption
<1>3. exposed[era] \in Nat /\ SaturatingSub(points, kept) \in Nat /\ fraction \in 0..100
  <2>1. exposed[era] \in Nat
    BY <1>1, <1>2 DEF SpansAssumption
  <2>2. PICK x \in Nat, y \in Nat : x = points /\ y = kept
    BY DEF SpansAssumption
  <2>3. SaturatingSub(x, y) \in Nat
    BY DEF SaturatingSub
  <2>4. fraction \in 0..100
    BY DEF SpansAssumption
  <2> QED
    BY <2>1, <2>2, <2>3, <2>4
<1>4. [rep |-> SaturatingSub(points, kept), stake |-> exposed[era]] \in Entities
  BY <1>3 DEF Entities
<1> QED
  BY <1>3, <1>4, ShareIs

LEMMA InsertKeys ==
  ASSUME NEW f, NEW i, NEW value
  PROVE  DOMAIN Insert(f, i, value) = DOMAIN f \cup {i}
BY DEF Insert

LEMMA SlashValidatorKeeps ==
  ASSUME SpansAssumption, SpansIInv, NEW era \in WindowStart..now, NEW fraction \in Fractions,
         NEW points \in Points, NEW kept \in Points, SlashValidator(era, fraction, points, kept)
  PROVE  SpansIInv' /\ (Left \/ UNCHANGED <<spans, records, taken, worst>>)
<1>1. PICK own \in Entities : own = ShareOf(fraction, [rep |-> SaturatingSub(points, kept), stake |-> exposed[era]])
  BY OwnIs
<1>2. UNCHANGED <<now, exposed, role, eraSlash>>
  BY DEF SlashValidator, Reporting
<1>3. /\ \/ KickOut(era)
         \/ Inspect(era, own)
         \/ UNCHANGED <<spans, records, taken, worst>>
      /\ \/ UNCHANGED eraLoss
         \/ \E loss : eraLoss' = Insert(eraLoss, era, loss)
  BY <1>1 DEF SlashValidator
<1>4. Left \/ UNCHANGED <<spans, records, taken, worst>>
  BY <1>3, KickOutLeaves, InspectLeaves
<1>5. WindowStart' = WindowStart
  BY <1>2 DEF WindowStart
<1>6. SpansHeld'
  <2>1. CASE Left
    BY <1>2, <2>1, LeftHeld
  <2>2. CASE UNCHANGED <<spans, records, taken, worst>>
    BY <1>2, <1>5, <2>2 DEF SpansIInv, SpansHeld, Unslashed
  <2> QED
    BY <1>4, <2>1, <2>2
<1>7. DOMAIN eraLoss' \subseteq DOMAIN eraLoss \cup {era}
  <2>1. CASE UNCHANGED eraLoss
    BY <2>1
  <2>2. CASE ~UNCHANGED eraLoss
    <3>1. PICK loss : eraLoss' = Insert(eraLoss, era, loss)
      BY <1>3, <2>2
    <3>2. DOMAIN Insert(eraLoss, era, loss) = DOMAIN eraLoss \cup {era}
      BY InsertKeys
    <3> QED
      BY <3>1, <3>2
  <2> QED
    BY <2>1, <2>2
<1>8. OthersTyped'
  BY <1>2, <1>5, <1>7 DEF SpansIInv, OthersTyped
<1> QED
  BY <1>4, <1>6, <1>8 DEF SpansIInv

LEMMA SlashCooperatorKeeps ==
  ASSUME SpansAssumption, SpansIInv, NEW era \in WindowStart..now, NEW growth \in Entities,
         SlashCooperator(era, growth)
  PROVE  SpansIInv' /\ Left
<1>1. PICK slash : slash = Plus(GetOr(eraSlash, era, Zero), growth)
  OBVIOUS
<1>2. slash \in Entities
  <2>1. GetOr(eraSlash, era, Zero) \in Entities
    BY DEF GetOr, SpansIInv, OthersTyped, Zero, Entities
  <2> QED
    BY <1>1, <2>1 DEF Plus, Each, Entities
<1>3. /\ UNCHANGED <<now, exposed, role, eraLoss>> /\ Inspect(era, slash)
      /\ eraSlash' = Insert(eraSlash, era, slash)
  BY <1>1 DEF SlashCooperator, Reporting
<1>4. Left
  BY <1>2, <1>3, InspectLeaves
<1>5. WindowStart' = WindowStart
  BY <1>3 DEF WindowStart
<1>6. /\ DOMAIN eraSlash' = DOMAIN eraSlash \cup {era}
      /\ \A e \in DOMAIN eraSlash' : eraSlash'[e] \in Entities
  BY <1>2, <1>3 DEF Insert, SpansIInv, OthersTyped
<1>7. OthersTyped'
  BY <1>3, <1>5, <1>6 DEF SpansIInv, OthersTyped
<1>8. SpansHeld'
  BY <1>3, <1>4, LeftHeld
<1> QED
  BY <1>4, <1>7, <1>8 DEF SpansIInv

LEMMA NextEraKeeps ==
  ASSUME SpansAssumption, SpansIInv, NextEra
  PROVE  SpansIInv'
<1>1. /\ now' = now + 1 /\ now < LastEra
      /\ eraLoss' = [e \in {x \in DOMAIN eraLoss : x >= SaturatingSub(now + 1, WindowLength)} |-> eraLoss[e]]
      /\ eraSlash' = [e \in {x \in DOMAIN eraSlash : x >= SaturatingSub(now + 1, WindowLength)} |-> eraSlash[e]]
      /\ UNCHANGED <<exposed, role, spans, records, reports, taken, worst>>
  BY DEF NextEra
<1>2. now \in Nat /\ WindowStart \in Nat /\ WindowStart <= now
  BY FetchedIs
<1>3. PICK w \in Nat : w = SaturatingSub(now + 1, WindowLength) /\ w = WindowStart' /\ WindowStart <= w
  <2>1. PICK n \in Nat, b \in Nat : n = now /\ b = WindowLength
    BY <1>2 DEF SpansAssumption
  <2>2. SaturatingSub(n + 1, b) \in Nat /\ SaturatingSub(n, b) <= SaturatingSub(n + 1, b)
    BY DEF SaturatingSub
  <2>3. WindowStart = SaturatingSub(n, b) /\ WindowStart' = SaturatingSub(n + 1, b)
    BY <1>1, <2>1 DEF WindowStart
  <2> QED
    BY <2>1, <2>2, <2>3
<1>4. DOMAIN eraLoss' \cup DOMAIN eraSlash' \subseteq WindowStart'..now'
  BY <1>1, <1>2, <1>3 DEF SpansIInv, OthersTyped
<1>5. \A e \in DOMAIN eraSlash' : eraSlash'[e] \in Entities
  BY <1>1 DEF SpansIInv, OthersTyped
<1>6. now' \in Eras
  BY <1>1, <1>2 DEF Eras, SpansAssumption
<1>7. OthersTyped'
  BY <1>1, <1>4, <1>5, <1>6 DEF SpansIInv, OthersTyped
<1>8. SpansHeld'
  <2>1. CASE spans = NoSpans
    BY <1>1, <2>1 DEF SpansIInv, SpansHeld, Unslashed
  <2>2. CASE spans # NoSpans
    <3>1. Reaches(spans, now, WindowStart) /\ Settled(spans, records, taken, worst)
      BY <2>2 DEF SpansIInv, SpansHeld
    <3>2. PICK s \in Lines : s = spans /\ s.lastStart <= now + 1 /\ StartOf(s, Len(s.prior)) <= WindowStart
      BY <3>1 DEF Reaches
    <3>3. s.lastStart \in Nat /\ StartOf(s, Len(s.prior)) \in Int
      BY StartIs
    <3>4. s.lastStart <= (now + 1) + 1 /\ StartOf(s, Len(s.prior)) <= w
      BY <1>2, <1>3, <3>2, <3>3
    <3>5. Reaches(spans', now', WindowStart')
      BY <1>1, <1>3, <3>2, <3>4 DEF Reaches
    <3> QED
      BY <1>1, <2>2, <3>1, <3>5 DEF SpansHeld
  <2> QED
    BY <2>1, <2>2
<1> QED
  BY <1>7, <1>8 DEF SpansIInv

LEMMA ClearStashKeeps ==
  ASSUME SpansAssumption, SpansIInv, ClearStash
  PROVE  SpansIInv' /\ spans' = NoSpans
<1>1. /\ spans # NoSpans /\ spans' = NoSpans
      /\ records' = [i \in DOMAIN records \ SpanIndices(spans) |-> records[i]]
      /\ taken' = Empty /\ worst' = Empty
      /\ UNCHANGED <<now, exposed, role, eraLoss, eraSlash, reports>>
  BY DEF ClearStash
<1>2. DOMAIN records \subseteq SpanIndices(spans)
  BY <1>1 DEF SpansIInv, SpansHeld, Settled
<1>3. SpansHeld'
  BY <1>1, <1>2 DEF SpansHeld, Unslashed, Empty
<1>4. OthersTyped'
  BY <1>1 DEF SpansIInv, OthersTyped, WindowStart
<1> QED
  BY <1>1, <1>3, <1>4 DEF SpansIInv

LEMMA SpansStart ==
  ASSUME SpansAssumption, SpansInit
  PROVE  SpansIInv
<1>1. /\ now = 0 /\ exposed \in [Eras -> Exposures] /\ spans = NoSpans
      /\ records = [i \in {} |-> [slashed |-> Zero, paidOut |-> Zero]]
      /\ eraLoss = Empty /\ eraSlash = Empty /\ taken = Empty /\ worst = Empty
  BY DEF SpansInit
<1>2. now \in Eras
  BY <1>1 DEF Eras, SpansAssumption
<1>3. OthersTyped
  BY <1>1, <1>2 DEF OthersTyped, Empty
<1>4. SpansHeld
  BY <1>1 DEF SpansHeld, Unslashed, Empty
<1> QED
  BY <1>3, <1>4 DEF SpansIInv

LEMMA SpansStep ==
  ASSUME SpansAssumption, SpansIInv, [SpansNext]_spansVars
  PROVE  SpansIInv' /\ (spans # NoSpans /\ spans' # NoSpans => Stays(spans, spans'))
<1>1. spans' = spans /\ spans # NoSpans => Stays(spans, spans')
  <2>1. SUFFICES ASSUME spans' = spans, spans # NoSpans
                 PROVE  Stays(spans, spans')
    OBVIOUS
  <2>2. spans \in Lines
    BY <2>1 DEF SpansIInv, SpansHeld, Reaches
  <2>3. Follows(spans, spans, 0) /\ 0 \in {0, 1}
    BY <2>2, FollowsSelf
  <2>4. Stays(spans, spans)
    BY <2>2, <2>3, FollowsStays
  <2> QED
    BY <2>1, <2>4
<1>2. ASSUME NEW era \in WindowStart..now, NEW fraction \in Fractions, NEW points \in Points,
             NEW kept \in Points, SlashValidator(era, fraction, points, kept)
      PROVE  SpansIInv' /\ (Left \/ spans' = spans)
  BY <1>2, SlashValidatorKeeps
<1>3. ASSUME NEW era \in WindowStart..now, NEW rep \in Points, NEW stake \in Exposures,
             SlashCooperator(era, [rep |-> rep, stake |-> stake])
      PROVE  SpansIInv' /\ Left
  <2>1. PICK growth \in Entities : growth = [rep |-> rep, stake |-> stake]
    BY DEF Entities, SpansAssumption
  <2> QED
    BY <1>3, <2>1, SlashCooperatorKeeps
<1>4. CASE NextEra
  <2>1. spans' = spans
    BY <1>4 DEF NextEra
  <2> QED
    BY <1>1, <1>4, <2>1, NextEraKeeps
<1>5. CASE ClearStash
  BY <1>5, ClearStashKeeps
<1>6. CASE UNCHANGED spansVars
  <2>1. UNCHANGED <<now, exposed, spans, records, eraLoss, eraSlash, taken, worst>>
    BY <1>6 DEF spansVars
  <2>2. OthersTyped' /\ SpansHeld'
    BY <2>1 DEF SpansIInv, OthersTyped, SpansHeld, Unslashed, WindowStart
  <2> QED
    BY <1>1, <2>1, <2>2 DEF SpansIInv
<1>7. Left => (spans # NoSpans => Stays(spans, spans'))
  BY DEF Left
<1> QED
  BY <1>1, <1>2, <1>3, <1>4, <1>5, <1>6, <1>7 DEF SpansNext

(* What the invariant says of a stash with spans.                          *)
LEMMA SettledHolds ==
  ASSUME SpansAssumption, SpansIInv, spans # NoSpans
  PROVE  NeverOverslashed /\ RewardWithinShare /\ NoRecordLeft
<1>1. Settled(spans, records, taken, worst)
  BY DEF SpansIInv, SpansHeld
<1>2. ASSUME NEW a \in Entities, NEW b \in Entities, AtMost(a, b)
      PROVE  Excess(a, b) = Zero
  BY <1>2 DEF AtMost, Excess, Each, SaturatingSub, Zero, Entities
<1>3. ASSUME NEW i \in DOMAIN taken
      PROVE  Excess(taken[i], worst[i]) = Zero /\ (i \in DOMAIN records => records[i].slashed = taken[i])
  BY <1>1, <1>2 DEF Settled, Agrees
<1>4. ASSUME NEW i \in DOMAIN records
      PROVE  Excess(records[i].paidOut, ShareOf(RewardProportion, worst[i])) = Zero
  <2>1. i \in DOMAIN taken
    BY <1>1 DEF Settled
  <2>2. Agrees(records, taken, worst, i)
    BY <1>1, <2>1 DEF Settled
  <2>3. /\ worst[i] \in Entities /\ records[i] \in SpanRecords
        /\ AtMost(records[i].paidOut, ShareOf(RewardProportion, worst[i]))
    BY <2>2 DEF Agrees
  <2>4. records[i].paidOut \in Entities
    BY <2>3 DEF SpanRecords
  <2>5. RewardProportion \in 0..100
    BY DEF SpansAssumption
  <2>6. ShareOf(RewardProportion, worst[i]) \in Entities
    BY <2>3, <2>5, ShareIs
  <2> QED
    BY <1>2, <2>3, <2>4, <2>6
<1>5. NoRecordLeft
  BY <1>1 DEF NoRecordLeft, Settled
<1> QED
  BY <1>3, <1>4, <1>5 DEF NeverOverslashed, RewardWithinShare

LEMMA SpansCover ==
  ASSUME SpansAssumption, SpansIInv
  PROVE  WindowCovered
<1>1. SUFFICES ASSUME spans # NoSpans, NEW era \in WindowStart..now
               PROVE  Cardinality(Covering(spans, era)) = 1
  BY DEF WindowCovered
<1>2. now \in Nat /\ WindowStart \in Nat
  BY FetchedIs
<1>3. PICK s \in Lines : s = spans /\ StartOf(s, Len(s.prior)) <= WindowStart
  BY <1>1 DEF SpansIInv, SpansHeld, Reaches
<1>4. WindowStart \in Int /\ era \in Int /\ WindowStart <= era
  BY <1>2
<1>5. PICK m : Covering(s, era) = {m}
  BY <1>3, <1>4, CoveringIs
<1>6. Cardinality({m}) = 1
  BY FS_Singleton
<1> QED
  BY <1>3, <1>5, <1>6

LEMMA SpansAreTyped ==
  ASSUME SpansAssumption, SpansIInv
  PROVE  SpansTypeOK
<1>1. /\ now \in Eras /\ DOMAIN eraLoss \cup DOMAIN eraSlash \subseteq WindowStart..now
      /\ exposed \in [Eras -> Exposures]
  BY DEF SpansIInv, OthersTyped
<1>2. exposed \in [Eras -> Nat]
  BY <1>1 DEF SpansAssumption
<1>3. CASE spans = NoSpans
  <2>1. DOMAIN spans.prior = {}
    BY <1>3 DEF NoSpans
  <2>2. DOMAIN records = {}
    BY <1>3 DEF SpansIInv, SpansHeld, Unslashed
  <2> QED
    BY <1>1, <1>2, <1>3, <2>1, <2>2 DEF SpansTypeOK
<1>4. CASE spans # NoSpans
  <2>1. PICK s \in Lines : s = spans /\ Settled(s, records, taken, worst)
    BY <1>4 DEF SpansIInv, SpansHeld, Reaches
  <2>2. s.index \in Nat /\ s.lastStart \in Nat /\ \A k \in 1..Len(s.prior) : s.prior[k] \in Nat \ {0}
    BY StartIs
  <2>3. DOMAIN s.prior = 1..Len(s.prior)
    BY DEF Lines
  <2>4. ASSUME NEW i \in DOMAIN records
        PROVE  {records[i].slashed.rep, records[i].slashed.stake} \subseteq Nat
    <3>1. i \in DOMAIN taken
      BY <2>1 DEF Settled
    <3>2. Agrees(records, taken, worst, i)
      BY <2>1, <3>1 DEF Settled
    <3>3. records[i].slashed \in Entities
      BY <3>2 DEF Agrees, SpanRecords
    <3> QED
      BY <3>3 DEF Entities
  <2> QED
    BY <1>1, <1>2, <2>1, <2>2, <2>3, <2>4 DEF SpansTypeOK
<1> QED
  BY <1>3, <1>4

LEMMA SpansIInvHolds ==
  ASSUME SpansAssumption, SpansIInv
  PROVE  SpansHold
<1>1. NeverOverslashed /\ RewardWithinShare /\ NoRecordLeft
  <2>1. CASE spans = NoSpans
    BY <2>1 DEF SpansIInv, SpansHeld, Unslashed, NeverOverslashed, RewardWithinShare, NoRecordLeft
  <2>2. CASE spans # NoSpans
    BY <2>2, SettledHolds
  <2> QED
    BY <2>1, <2>2
<1> QED
  BY <1>1, SpansCover, SpansAreTyped DEF SpansHold, SpansInv

(* The spans of a stash reach back over the whole window without a gap,    *)
(* and a span's record, if it has one, says what was taken in it.          *)
THEOREM SpansInvariant == SpansSpec => []SpansIInv
<1>1. SpansInit => SpansIInv
  BY SpansAssumed, SpansStart
<1>2. SpansIInv /\ [SpansNext]_spansVars => SpansIInv'
  BY SpansAssumed, SpansStep
<1> QED
  BY <1>1, <1>2, PTL DEF SpansSpec

(* In a span the stash pays the largest slash found in it at most, not the *)
(* sum, and reporters get their share of that at most; every era an        *)
(* offence can be charged to is in one span, and no record outlives its    *)
(* span: compare_and_update_span_slash, end_span and prune, in any order   *)
(* of offences and eras.                                                   *)
THEOREM SpansAlwaysHold == SpansSpec => []SpansHold
<1>1. SpansIInv => SpansHold
  BY SpansAssumed, SpansIInvHolds
<1>2. SpansSpec => []SpansIInv
  BY SpansInvariant
<1> QED
  BY <1>1, <1>2, PTL

(* No step moves a span that is closed: neither end_span, which opens      *)
(* another, nor prune, which shortens the list.                            *)
THEOREM ClosedSpansNeverMove == SpansSpec => ClosedSpansStay
<1>1. SpansIInv /\ [SpansNext]_spansVars =>
        [spans # NoSpans /\ spans' # NoSpans =>
           \A k \in 1..Len(spans.prior), j \in 1..Len(spans'.prior) :
             spans.index - k = spans'.index - j =>
               /\ StartOf(spans, k) = StartOf(spans', j)
               /\ StartOf(spans, k - 1) = StartOf(spans', j - 1)]_spansVars
  BY SpansAssumed, SpansStep DEF Stays
<1>2. SpansSpec => []SpansIInv
  BY SpansInvariant
<1> QED
  BY <1>1, <1>2, PTL DEF SpansSpec, ClosedSpansStay
=============================================================================
