----------------------------- MODULE MembershipProofs -----------------------------
(***************************************************************************)
(* Theorems about Membership and Privileges, which share no state: for      *)
(* every finite set of accounts, every order of the hashes, every set of    *)
(* claims and any amounts, and for every length of a year.                  *)
(*                                                                         *)
(* What a call writes is a book, and only the entries of one account of it: *)
(* the lemmas say of each operator of module Nac which entries those are    *)
(* and what becomes of the claims and VIPPs there. The two loops of the     *)
(* pallet that burn VIPPs are recursive functions of the round.             *)
(*                                                                         *)
(* The second half is about the years: dates first, then the books that a   *)
(* day of privileges changes, then the invariant, step by step.             *)
(***************************************************************************)
EXTENDS Membership, Privileges, RecursionTheorems

-----------------------------------------------------------------------------
(* The invariant *)

Attributes == Nat \cup {NoAttribute}
NacRecords == [level : Attributes, claim : Attributes, inactive : BOOLEAN]

IsNacs(nacs) == DOMAIN nacs \subseteq Blocks /\ \A i \in DOMAIN nacs : nacs[i] \in NacRecords
IsVipps(vipps) == DOMAIN vipps \subseteq Blocks /\ \A i \in DOMAIN vipps : vipps[i] \in Nat

IsBook(b) ==
  /\ DOMAIN b = {"nacs", "vipps", "users", "thresholds", "known"}
  /\ DOMAIN b.nacs = Accounts /\ DOMAIN b.vipps = Accounts /\ DOMAIN b.users = Accounts
  /\ \A x \in Accounts : IsNacs(b.nacs[x]) /\ IsVipps(b.vipps[x])
  /\ b.known \subseteq Accounts

(* VIPPs stand for claims; the level on record is that of the item.        *)
Covered(b, x) == GetActiveVippAmount(b, x) <= ClaimsIn(b.nacs[x])
Recorded(b, x) ==
  b.users[x] # <<>> =>
    /\ b.users[x][1] \in DOMAIN b.nacs[x]
    /\ b.users[x][2] = LevelOf(b.nacs[x][b.users[x][1]])

IsSingle(nacs) == \A i, j \in DOMAIN nacs : i = j

(* Only an account that died can get a second NAC: while it lives, one     *)
(* that has a NAC has a reputation record too.                             *)
Lives(x) ==
  /\ x \notin reborn => IsSingle(book.nacs[x]) /\ (HasNac(book, x) => x \in book.known)
  /\ total[x] > 0 /\ ~HasNac(book, x) => x \in foreseen

ClaimsTyped ==
  /\ IsFiniteSet(DOMAIN claims) /\ \A c \in DOMAIN claims : claims[c] \in Nat
  /\ \A c \in DOMAIN claimData : claimData[c] \in Items
  /\ {assigned, paid, funded} \subseteq Nat

AccountsHold == \A x \in Accounts : Covered(book, x) /\ Recorded(book, x) /\ Lives(x)

(* TypeOK without the book.                                                *)
OtherTypes ==
  /\ block \in Blocks /\ vips \subseteq Accounts
  /\ total \in [Accounts -> 0 .. MaxBalance]
  /\ DOMAIN claims \subseteq Claimants /\ DOMAIN claimData \subseteq Claimants
  /\ vesting \subseteq Claimants /\ vested \subseteq Accounts
  /\ pot \in Nat /\ collected \subseteq Items
  /\ paying \in Accounts \cup {Nobody}

(* ClaimsAddUp in two parts.                                               *)
Ledger ==
  /\ assigned = paid + SumFunctionOnSet(claims, DOMAIN claims)
  /\ pot = funded - paid

ClaimSum(b) == SumFunctionOnSet([x \in Accounts |-> ClaimsIn(b.nacs[x])], Accounts)

MembershipInv ==
  /\ OtherTypes /\ ClaimsTyped /\ Ledger
  /\ IsBook(book) /\ ClaimSum(book) <= paid /\ AccountsHold
  /\ VippsAreBacked
-----------------------------------------------------------------------------
(* Sums over the items of an account *)

LEMMA BlocksAreFinite ==
  ASSUME NEW S, S \subseteq Blocks
  PROVE  IsFiniteSet(S) /\ Cardinality(S) \in Nat
<1>1. IsFiniteSet(Blocks)
  BY NacAssumption, FS_Interval DEF Blocks
<1> QED
  BY <1>1, FS_Subset, FS_CardinalityType

(* What an item adds to the claims.                                        *)
ClaimTerms(nacs) == [i \in DOMAIN nacs |-> Monus(nacs[i].claim, 0)]

LEMMA ClaimTerm ==
  ASSUME NEW nacs, IsNacs(nacs), NEW i \in DOMAIN nacs
  PROVE  /\ nacs[i].claim \in Attributes /\ nacs[i].level \in Attributes
         /\ ClaimTerms(nacs)[i] = (IF nacs[i].claim = NoAttribute THEN 0 ELSE nacs[i].claim)
         /\ ClaimTerms(nacs)[i] \in Nat
<1>1. nacs[i].claim \in Attributes /\ nacs[i].level \in Attributes
  BY DEF IsNacs, NacRecords
<1>2. ClaimTerms(nacs)[i] = Monus(nacs[i].claim, 0)
  BY DEF ClaimTerms
<1> QED
  BY <1>1, <1>2 DEF Monus, Attributes, NoAttribute

LEMMA ClaimsAreTerms ==
  ASSUME NEW nacs
  PROVE  ClaimsIn(nacs) = SumFunctionOnSet(ClaimTerms(nacs), DOMAIN nacs)
BY DEF ClaimsIn, ClaimTerms

LEMMA ClaimsType ==
  ASSUME NEW nacs, IsNacs(nacs)
  PROVE  /\ ClaimsIn(nacs) \in Nat /\ IsFiniteSet(DOMAIN nacs)
         /\ IntegersOn(ClaimTerms(nacs), DOMAIN nacs)
<1>1. IsFiniteSet(DOMAIN nacs)
  BY BlocksAreFinite DEF IsNacs
<1>2. \A i \in DOMAIN nacs : ClaimTerms(nacs)[i] \in Nat
  BY ClaimTerm
<1> QED
  BY <1>1, <1>2, SumOfNaturals, ClaimsAreTerms DEF IntegersOn

(* Claims depend on nothing but the claim attributes.                      *)
LEMMA ClaimsSame ==
  ASSUME NEW nacs, IsNacs(nacs), NEW after, DOMAIN after = DOMAIN nacs,
         \A i \in DOMAIN nacs : after[i].claim = nacs[i].claim
  PROVE  ClaimsIn(after) = ClaimsIn(nacs)
<1>1. ClaimTerms(after) = ClaimTerms(nacs)
  BY DEF ClaimTerms
<1> QED
  BY <1>1, ClaimsAreTerms

(* One claim attribute written.                                            *)
LEMMA ClaimsMove ==
  ASSUME NEW nacs, IsNacs(nacs), NEW after, IsNacs(after), DOMAIN after = DOMAIN nacs,
         NEW i \in DOMAIN nacs, \A j \in DOMAIN nacs : j # i => after[j].claim = nacs[j].claim
  PROVE  ClaimsIn(after) = ClaimsIn(nacs) + ClaimTerms(after)[i] - ClaimTerms(nacs)[i]
<1>1. \A j \in DOMAIN nacs : j # i => ClaimTerms(after)[j] = ClaimTerms(nacs)[j]
  BY DEF ClaimTerms
<1>2. IsFiniteSet(DOMAIN nacs) /\ IntegersOn(ClaimTerms(nacs), DOMAIN nacs)
  BY ClaimsType
<1>3. IntegersOn(ClaimTerms(after), DOMAIN nacs)
  BY ClaimsType
<1>4. SumFunctionOnSet(ClaimTerms(after), DOMAIN nacs)
        = SumFunctionOnSet(ClaimTerms(nacs), DOMAIN nacs) + ClaimTerms(after)[i] - ClaimTerms(nacs)[i]
  BY <1>1, <1>2, <1>3, SumUpdate
<1> QED
  BY <1>4, ClaimsAreTerms

(* A claim is part of the claims, and all of them if there is one item.    *)
LEMMA ClaimsCover ==
  ASSUME NEW nacs, IsNacs(nacs), NEW i \in DOMAIN nacs
  PROVE  /\ ClaimTerms(nacs)[i] <= ClaimsIn(nacs)
         /\ IsSingle(nacs) => ClaimsIn(nacs) = ClaimTerms(nacs)[i]
<1>1. IsFiniteSet(DOMAIN nacs) /\ IntegersOn(ClaimTerms(nacs), DOMAIN nacs)
  BY ClaimsType
<1>2. \A j \in DOMAIN nacs : ClaimTerms(nacs)[j] \in Nat
  BY ClaimTerm
<1>3. ClaimTerms(nacs)[i] <= ClaimsIn(nacs)
  BY <1>1, <1>2, SumCovers, ClaimsAreTerms
<1>4. ASSUME IsSingle(nacs) PROVE ClaimsIn(nacs) = ClaimTerms(nacs)[i]
  <2>1. DOMAIN nacs \ {i} = {}
    BY <1>4 DEF IsSingle
  <2>2. SumFunctionOnSet(ClaimTerms(nacs), DOMAIN nacs)
          = ClaimTerms(nacs)[i] + SumFunctionOnSet(ClaimTerms(nacs), {})
    BY <1>1, <2>1, SumRemove
  <2> QED
    BY <1>2, <2>2, SumEmpty, ClaimsAreTerms
<1> QED
  BY <1>3, <1>4

(* Without items there is nothing to claim.                                *)
LEMMA ClaimsOfNone ==
  ASSUME NEW nacs, DOMAIN nacs = {}
  PROVE  ClaimsIn(nacs) = 0
BY SumEmpty, ClaimsAreTerms

(* A function with one entry more, or one replaced.                        *)
LEMMA SumPut ==
  ASSUME NEW f, IsFiniteSet(DOMAIN f), \A y \in DOMAIN f : f[y] \in Nat, NEW x, NEW value \in Nat
  PROVE  /\ DOMAIN Put(f, x, value) = DOMAIN f \cup {x}
         /\ \A y \in DOMAIN f \cup {x} : Put(f, x, value)[y] \in Nat
         /\ SumFunctionOnSet(Put(f, x, value), DOMAIN Put(f, x, value))
              = SumFunctionOnSet(f, DOMAIN f) + value - (IF x \in DOMAIN f THEN f[x] ELSE 0)
<1> DEFINE g == Put(f, x, value)
<1>1. DOMAIN g = DOMAIN f \cup {x} /\ g[x] = value /\ \A y \in DOMAIN f : y # x => g[y] = f[y]
  BY DEF Put
<1>2. \A y \in DOMAIN f \cup {x} : g[y] \in Nat
  BY <1>1
<1>3. IntegersOn(f, DOMAIN f) /\ IntegersOn(g, DOMAIN f \cup {x}) /\ IntegersOn(g, DOMAIN f)
  BY <1>2 DEF IntegersOn
<1> HIDE DEF g
<1>4. SumFunctionOnSet(f, DOMAIN f) \in Int
  BY <1>3, SumType
<1>5. CASE x \in DOMAIN f
  <2>1. SumFunctionOnSet(g, DOMAIN f) = SumFunctionOnSet(f, DOMAIN f) + g[x] - f[x]
    BY <1>1, <1>3, <1>5, SumUpdate
  <2>2. DOMAIN g = DOMAIN f
    BY <1>1, <1>5
  <2> QED
    BY <1>1, <1>2, <1>5, <2>1, <2>2 DEF g
<1>6. CASE x \notin DOMAIN f
  <2>1. SumFunctionOnSet(g, DOMAIN f \cup {x}) = SumFunctionOnSet(g, DOMAIN f) + g[x]
    BY <1>3, <1>6, SumAdd
  <2>2. SumFunctionOnSet(g, DOMAIN f) = SumFunctionOnSet(f, DOMAIN f)
    BY <1>1, <1>3, <1>6, SumCongruence
  <2> QED
    BY <1>1, <1>2, <1>4, <1>6, <2>1, <2>2 DEF g
<1> QED
  BY <1>5, <1>6

(* And with one entry less.                                                *)
LEMMA SumDrop ==
  ASSUME NEW f, IsFiniteSet(DOMAIN f), \A y \in DOMAIN f : f[y] \in Nat, NEW x \in DOMAIN f
  PROVE  /\ DOMAIN Drop(f, x) = DOMAIN f \ {x}
         /\ \A y \in DOMAIN f \ {x} : Drop(f, x)[y] \in Nat
         /\ SumFunctionOnSet(Drop(f, x), DOMAIN Drop(f, x)) = SumFunctionOnSet(f, DOMAIN f) - f[x]
<1> DEFINE g == Drop(f, x)
<1>1. DOMAIN g = DOMAIN f \ {x} /\ \A y \in DOMAIN f \ {x} : g[y] = f[y]
  BY DEF Drop
<1>2. \A y \in DOMAIN f \ {x} : g[y] \in Nat
  BY <1>1
<1>3. IntegersOn(f, DOMAIN f) /\ IntegersOn(g, DOMAIN f \ {x}) /\ IntegersOn(f, DOMAIN f \ {x})
  BY <1>2 DEF IntegersOn
<1>4. IsFiniteSet(DOMAIN f \ {x})
  BY FS_Subset
<1> HIDE DEF g
<1>5. SumFunctionOnSet(f, DOMAIN f) = f[x] + SumFunctionOnSet(f, DOMAIN f \ {x})
  BY <1>3, SumRemove
<1>6. SumFunctionOnSet(g, DOMAIN f \ {x}) = SumFunctionOnSet(f, DOMAIN f \ {x})
  BY <1>1, <1>3, <1>4, SumCongruence
<1>7. SumFunctionOnSet(f, DOMAIN f \ {x}) \in Int
  BY <1>3, <1>4, SumType
<1> QED
  BY <1>1, <1>2, <1>5, <1>6, <1>7 DEF g

LEMMA VippsType ==
  ASSUME NEW vipps, IsVipps(vipps)
  PROVE  /\ IsFiniteSet(DOMAIN vipps) /\ Cardinality(DOMAIN vipps) \in Nat
         /\ SumFunctionOnSet(vipps, DOMAIN vipps) \in Nat
BY BlocksAreFinite, SumOfNaturals DEF IsVipps

-----------------------------------------------------------------------------
(* Choices *)

(* Items have a first in the order of the hashes.                          *)
LEMMA EarliestExists ==
  ASSUME NEW S, S \subseteq Blocks, S # {}
  PROVE  \E i \in S : \A j \in S : HashOrder[i] <= HashOrder[j]
<1> DEFINE T == {HashOrder[i] : i \in S}
<1>1. \A i \in S : HashOrder[i] \in Nat
  BY NacAssumption
<1>2. T \subseteq Nat /\ T # {}
  BY <1>1
<1>3. PICK t \in T : \A u \in T : t <= u
  BY <1>2, LeastNatural
<1>4. PICK i \in S : HashOrder[i] = t
  BY <1>3
<1> QED
  BY <1>3, <1>4

LEMMA FirstIsItem ==
  ASSUME NEW nacs, DOMAIN nacs \subseteq Blocks, DOMAIN nacs # {}
  PROVE  First(nacs) \in DOMAIN nacs
<1>1. \E i \in DOMAIN nacs : \A j \in DOMAIN nacs : HashOrder[i] <= HashOrder[j]
  BY EarliestExists
<1> QED
  BY <1>1 DEF First

(* Among amounts there is one that no other comes before, in the order of  *)
(* their encodings: of those with the least last byte the least.           *)
LEMMA LowestExists ==
  ASSUME NEW S, S # {}, NEW f, \A i \in S : f[i] \in Nat
  PROVE  \E i \in S : \A j \in S : ~Lower(f[j], f[i])
<1>1. \A i \in S : f[i] % Byte \in Nat /\ f[i] \div Byte \in Nat
  BY NacAssumption
<1> DEFINE T == {f[i] % Byte : i \in S}
<1>2. T \subseteq Nat /\ T # {}
  BY <1>1
<1>3. PICK t \in T : \A u \in T : t <= u
  BY <1>2, LeastNatural
<1> DEFINE R == {i \in S : f[i] % Byte = t}
           Q == {f[i] \div Byte : i \in R}
<1>4. Q \subseteq Nat /\ Q # {}
  BY <1>1, <1>3
<1>5. PICK q \in Q : \A u \in Q : q <= u
  BY <1>4, LeastNatural
<1>6. PICK i \in R : f[i] \div Byte = q
  BY <1>5
<1>7. ASSUME NEW j \in S PROVE ~Lower(f[j], f[i])
  <2>1. t <= f[j] % Byte
    BY <1>3
  <2>2. f[i] % Byte = t
    BY <1>6
  <2>3. CASE f[j] % Byte = t
    <3>1. q <= f[j] \div Byte
      BY <1>5, <2>3
    <3> QED
      BY <1>1, <1>6, <2>2, <2>3, <3>1 DEF Lower
  <2>4. CASE f[j] % Byte # t
    BY <1>1, <2>1, <2>2, <2>4 DEF Lower
  <2> QED
    BY <2>3, <2>4
<1> QED
  BY <1>6, <1>7

LEMMA LowestIsItem ==
  ASSUME NEW b, NEW a, IsVipps(b.vipps[a]), DOMAIN b.vipps[a] # {}
  PROVE  LowestVipp(b, a) \in DOMAIN b.vipps[a]
<1> DEFINE lowest == {i \in DOMAIN b.vipps[a] :
                        \A j \in DOMAIN b.vipps[a] : ~Lower(b.vipps[a][j], b.vipps[a][i])}
<1>1. \A i \in DOMAIN b.vipps[a] : b.vipps[a][i] \in Nat
  BY DEF IsVipps
<1>2. lowest # {} /\ lowest \subseteq Blocks
  BY <1>1, LowestExists DEF IsVipps
<1>3. \E i \in lowest : \A j \in lowest : HashOrder[i] <= HashOrder[j]
  <2> HIDE DEF lowest
  <2> QED
    BY <1>2, EarliestExists
<1>4. LowestVipp(b, a) = CHOOSE i \in lowest : \A j \in lowest : HashOrder[i] <= HashOrder[j]
  BY DEF LowestVipp
<1>5. LowestVipp(b, a) \in lowest
  <2> HIDE DEF lowest
  <2> QED
    BY <1>3, <1>4
<1> QED
  BY <1>5

-----------------------------------------------------------------------------
(* What a call may change in the book *)

(* Only entries of account x, and well.                                    *)
OnlyAt(b, c, x) ==
  /\ IsBook(c)
  /\ \A y \in Accounts : y # x =>
       c.nacs[y] = b.nacs[y] /\ c.vipps[y] = b.vipps[y] /\ c.users[y] = b.users[y]

(* The same NACs with the same levels.                                     *)
SameNacs(nacs, after) ==
  DOMAIN after = DOMAIN nacs /\ \A i \in DOMAIN nacs : after[i].level = nacs[i].level

(* Only claims and VIPPs of account x.                                     *)
Kept(b, c, x) ==
  /\ OnlyAt(b, c, x)
  /\ c.known = b.known /\ c.users[x] = b.users[x]
  /\ SameNacs(b.nacs[x], c.nacs[x])

LEMMA KeptReflexive ==
  ASSUME NEW b, IsBook(b), NEW x \in Accounts
  PROVE  Kept(b, b, x)
BY DEF Kept, OnlyAt, SameNacs

LEMMA KeptTransitive ==
  ASSUME NEW b, NEW c, NEW d, NEW x \in Accounts, Kept(b, c, x), Kept(c, d, x)
  PROVE  Kept(b, d, x)
<1>1. IsBook(d)
  BY DEF Kept, OnlyAt
<1>2. \A y \in Accounts : y # x =>
        d.nacs[y] = b.nacs[y] /\ d.vipps[y] = b.vipps[y] /\ d.users[y] = b.users[y]
  BY DEF Kept, OnlyAt
<1>3. SameNacs(b.nacs[x], d.nacs[x])
  BY DEF Kept, SameNacs
<1> QED
  BY <1>1, <1>2, <1>3 DEF Kept, OnlyAt

(* What remains true of the NACs of the account then.                      *)
LEMMA KeptMeans ==
  ASSUME NEW b, NEW c, NEW x \in Accounts, Kept(b, c, x)
  PROVE  /\ HasNac(c, x) <=> HasNac(b, x)
         /\ IsSingle(c.nacs[x]) <=> IsSingle(b.nacs[x])
         /\ Recorded(b, x) => Recorded(c, x)
<1>1. DOMAIN c.nacs[x] = DOMAIN b.nacs[x] /\ c.users[x] = b.users[x]
  BY DEF Kept, SameNacs
<1>2. \A i \in DOMAIN b.nacs[x] : c.nacs[x][i].level = b.nacs[x][i].level
  BY DEF Kept, SameNacs
<1>3. \A i \in DOMAIN b.nacs[x] : LevelOf(c.nacs[x][i]) = LevelOf(b.nacs[x][i])
  BY <1>2 DEF LevelOf
<1> QED
  BY <1>1, <1>3 DEF HasNac, IsSingle, Recorded

(* One entry of one account written, whichever.                            *)
LEMMA NacsWritten ==
  ASSUME NEW b, IsBook(b), NEW x \in Accounts, NEW c, NEW nacs, IsNacs(nacs),
         DOMAIN c = DOMAIN b, c.nacs = [b.nacs EXCEPT ![x] = nacs],
         c.vipps = b.vipps, c.users = b.users, c.known = b.known
  PROVE  OnlyAt(b, c, x) /\ c.nacs[x] = nacs /\ c.vipps[x] = b.vipps[x]
<1>1. DOMAIN c.nacs = Accounts /\ c.nacs[x] = nacs /\ \A y \in Accounts : y # x => c.nacs[y] = b.nacs[y]
  BY DEF IsBook
<1>2. \A y \in Accounts : IsNacs(c.nacs[y])
  BY <1>1 DEF IsBook
<1>3. IsBook(c)
  BY <1>1, <1>2 DEF IsBook
<1> QED
  BY <1>1, <1>3 DEF OnlyAt

LEMMA VippsWritten ==
  ASSUME NEW b, IsBook(b), NEW x \in Accounts, NEW c, NEW vipps, IsVipps(vipps),
         DOMAIN c = DOMAIN b, c.vipps = [b.vipps EXCEPT ![x] = vipps],
         c.nacs = b.nacs, c.users = b.users, c.known = b.known
  PROVE  Kept(b, c, x) /\ c.vipps[x] = vipps /\ c.nacs[x] = b.nacs[x]
<1>1. DOMAIN c.vipps = Accounts /\ c.vipps[x] = vipps
      /\ \A y \in Accounts : y # x => c.vipps[y] = b.vipps[y]
  BY DEF IsBook
<1>2. \A y \in Accounts : IsVipps(c.vipps[y])
  BY <1>1 DEF IsBook
<1>3. IsBook(c)
  BY <1>1, <1>2 DEF IsBook
<1> QED
  BY <1>1, <1>3 DEF OnlyAt, Kept, SameNacs

(* Nothing but thresholds.                                                 *)
Untouched(b, c) ==
  DOMAIN c = DOMAIN b /\ c.nacs = b.nacs /\ c.vipps = b.vipps /\ c.users = b.users /\ c.known = b.known

LEMMA UntouchedKept ==
  ASSUME NEW b, IsBook(b), NEW x \in Accounts, NEW c, Untouched(b, c)
  PROVE  Kept(b, c, x)
<1>1. IsBook(c)
  BY DEF Untouched, IsBook
<1> QED
  BY <1>1 DEF Untouched, Kept, OnlyAt, SameNacs

LEMMA ThresholdsUntouched ==
  ASSUME NEW b, IsBook(b), NEW x \in Accounts, NEW value
  PROVE  Untouched(b, [b EXCEPT !.thresholds[x] = value])
BY DEF Untouched, IsBook

(* The claim attribute of the first NAC written.                           *)
LEMMA SetClaimKeeps ==
  ASSUME NEW b, IsBook(b), NEW x \in Accounts, HasNac(b, x), NEW amount \in Nat
  PROVE  /\ Kept(b, SetClaim(b, x, amount), x)
         /\ FirstNac(SetClaim(b, x, amount), x) = FirstNac(b, x)
         /\ SetClaim(b, x, amount).vipps[x] = b.vipps[x]
         /\ GetClaimBalance(SetClaim(b, x, amount), x) = amount
         /\ ClaimsIn(SetClaim(b, x, amount).nacs[x])
              = ClaimsIn(b.nacs[x]) + amount - Monus(GetClaimBalance(b, x), 0)
<1> DEFINE i == FirstNac(b, x)
           nacs == [b.nacs[x] EXCEPT ![i].claim = amount]
           c == SetClaim(b, x, amount)
<1>1. IsNacs(b.nacs[x])
  BY DEF IsBook
<1>2. i \in DOMAIN b.nacs[x]
  BY <1>1, FirstIsItem DEF HasNac, FirstNac, IsNacs
<1> HIDE DEF i
<1>3. DOMAIN nacs = DOMAIN b.nacs[x]
      /\ \A j \in DOMAIN b.nacs[x] :
           nacs[j] = IF j = i THEN [b.nacs[x][i] EXCEPT !.claim = amount] ELSE b.nacs[x][j]
  BY <1>2
<1>4. amount \in Attributes /\ amount # NoAttribute
  BY DEF Attributes, NoAttribute
<1>5. \A j \in DOMAIN b.nacs[x] :
        /\ nacs[j] \in NacRecords /\ nacs[j].level = b.nacs[x][j].level
        /\ nacs[j].claim = IF j = i THEN amount ELSE b.nacs[x][j].claim
  BY <1>1, <1>3, <1>4 DEF IsNacs, NacRecords
<1>6. IsNacs(nacs) /\ SameNacs(b.nacs[x], nacs)
  BY <1>1, <1>3, <1>5 DEF IsNacs, SameNacs
<1>7. /\ DOMAIN c = DOMAIN b /\ c.nacs = [b.nacs EXCEPT ![x] = nacs]
      /\ c.vipps = b.vipps /\ c.users = b.users /\ c.known = b.known
  BY DEF SetClaim, IsBook, i
<1> HIDE DEF c, nacs
<1>8. OnlyAt(b, c, x) /\ c.nacs[x] = nacs /\ c.vipps[x] = b.vipps[x]
  BY <1>6, <1>7, NacsWritten
<1>9. Kept(b, c, x)
  BY <1>6, <1>7, <1>8 DEF Kept
<1>10. First(nacs) = i
  <2>1. First(nacs) = First(b.nacs[x])
    BY <1>3 DEF First
  <2> QED
    BY <2>1 DEF i, FirstNac
<1>11. HasNac(c, x) /\ FirstNac(c, x) = i
  BY <1>2, <1>3, <1>8, <1>10 DEF HasNac, FirstNac
<1>12. GetClaimBalance(c, x) = amount
  BY <1>2, <1>5, <1>8, <1>11 DEF GetClaimBalance
<1>13. ClaimsIn(nacs) = ClaimsIn(b.nacs[x]) + ClaimTerms(nacs)[i] - ClaimTerms(b.nacs[x])[i]
  BY <1>1, <1>2, <1>3, <1>5, <1>6, ClaimsMove
<1>14. ClaimTerms(nacs)[i] = amount
  BY <1>2, <1>3, <1>4, <1>5, <1>6, ClaimTerm
<1>15. ClaimTerms(b.nacs[x])[i] = Monus(GetClaimBalance(b, x), 0)
  BY <1>2 DEF ClaimTerms, GetClaimBalance, i
<1> QED
  BY <1>8, <1>9, <1>11, <1>12, <1>13, <1>14, <1>15 DEF c, i

-----------------------------------------------------------------------------
(* Burning VIPPs *)

LEMMA ClaimBalanceType ==
  ASSUME NEW b, IsBook(b), NEW x \in Accounts
  PROVE  /\ GetClaimBalance(b, x) \in Attributes
         /\ GetClaimBalance(b, x) # NoAttribute => HasNac(b, x)
         /\ Monus(GetClaimBalance(b, x), 0) <= ClaimsIn(b.nacs[x])
         /\ ClaimsIn(b.nacs[x]) \in Nat
         /\ IsSingle(b.nacs[x]) => ClaimsIn(b.nacs[x]) = Monus(GetClaimBalance(b, x), 0)
<1>1. IsNacs(b.nacs[x])
  BY DEF IsBook
<1>2. ClaimsIn(b.nacs[x]) \in Nat
  BY <1>1, ClaimsType
<1>3. CASE HasNac(b, x)
  <2> DEFINE i == FirstNac(b, x)
  <2>1. i \in DOMAIN b.nacs[x]
    BY <1>1, <1>3, FirstIsItem DEF HasNac, FirstNac, IsNacs
  <2>2. GetClaimBalance(b, x) = b.nacs[x][i].claim
    BY <1>3 DEF GetClaimBalance
  <2>3. ClaimTerms(b.nacs[x])[i] = Monus(GetClaimBalance(b, x), 0)
    BY <2>1, <2>2 DEF ClaimTerms
  <2> HIDE DEF i
  <2>4. GetClaimBalance(b, x) \in Attributes
    BY <1>1, <2>1, <2>2, ClaimTerm
  <2>5. /\ ClaimTerms(b.nacs[x])[i] <= ClaimsIn(b.nacs[x])
        /\ IsSingle(b.nacs[x]) => ClaimsIn(b.nacs[x]) = ClaimTerms(b.nacs[x])[i]
    BY <1>1, <2>1, ClaimsCover
  <2> QED
    BY <1>2, <1>3, <2>3, <2>4, <2>5
<1>4. CASE ~HasNac(b, x)
  <2>1. GetClaimBalance(b, x) = NoAttribute
    BY <1>4 DEF GetClaimBalance
  <2>2. ClaimsIn(b.nacs[x]) = 0
    BY <1>4, ClaimsOfNone DEF HasNac
  <2>3. Monus(NoAttribute, 0) = 0 /\ NoAttribute \in Attributes
    BY DEF Monus, NoAttribute, Attributes
  <2> QED
    BY <2>1, <2>2, <2>3
<1> QED
  BY <1>3, <1>4

LEMMA VippAmountType ==
  ASSUME NEW b, IsBook(b), NEW x \in Accounts
  PROVE  /\ IsVipps(b.vipps[x]) /\ GetActiveVippAmount(b, x) \in Nat
         /\ \A i \in DOMAIN b.vipps[x] : b.vipps[x][i] \in Nat
         /\ IsFiniteSet(DOMAIN b.vipps[x]) /\ Cardinality(DOMAIN b.vipps[x]) \in Nat
<1>1. IsVipps(b.vipps[x])
  BY DEF IsBook
<1> QED
  BY <1>1, VippsType DEF GetActiveVippAmount, IsVipps

(* decrease_thrsehold takes from the claims at most the amount.            *)
LEMMA DecreaseKeeps ==
  ASSUME NEW b, IsBook(b), NEW x \in Accounts, NEW amount \in Nat
  PROVE  /\ Kept(b, DecreaseThreshold(b, x, amount), x)
         /\ DecreaseThreshold(b, x, amount).vipps[x] = b.vipps[x]
         /\ ClaimsIn(DecreaseThreshold(b, x, amount).nacs[x]) <= ClaimsIn(b.nacs[x])
         /\ ClaimsIn(b.nacs[x]) <= ClaimsIn(DecreaseThreshold(b, x, amount).nacs[x]) + amount
<1>1. CASE HasNac(b, x)
  <2>1. PICK claim \in Attributes : claim = GetClaimBalance(b, x)
    BY ClaimBalanceType
  <2>2. Monus(claim, amount) \in Nat /\ Monus(claim, amount) <= Monus(claim, 0)
        /\ Monus(claim, 0) <= Monus(claim, amount) + amount /\ Monus(claim, 0) \in Nat
    BY DEF Monus, Attributes, NoAttribute
  <2>3. PICK rest \in Nat : rest = Monus(claim, amount)
    BY <2>2
  <2>4. DecreaseThreshold(b, x, amount) = SetClaim(b, x, rest)
    BY <1>1, <2>1, <2>3 DEF DecreaseThreshold
  <2>5. /\ Kept(b, SetClaim(b, x, rest), x)
        /\ SetClaim(b, x, rest).vipps[x] = b.vipps[x]
        /\ ClaimsIn(SetClaim(b, x, rest).nacs[x]) = ClaimsIn(b.nacs[x]) + rest - Monus(claim, 0)
    BY <1>1, <2>1, SetClaimKeeps
  <2>6. ClaimsIn(b.nacs[x]) \in Nat
    BY ClaimBalanceType
  <2> QED
    BY <2>2, <2>3, <2>4, <2>5, <2>6
<1>2. CASE ~HasNac(b, x)
  <2>1. DecreaseThreshold(b, x, amount) = b
    BY <1>2 DEF DecreaseThreshold
  <2>2. ClaimsIn(b.nacs[x]) \in Nat
    BY ClaimBalanceType
  <2> QED
    BY <2>1, <2>2, KeptReflexive
<1> QED
  BY <1>1, <1>2

(* Without VIPPs the NAC is marked, and no claim changes.                  *)
LEMMA InactiveKeeps ==
  ASSUME NEW b, IsBook(b), NEW x \in Accounts
  PROVE  /\ Kept(b, SetInactiveAttributeVipp(b, x), x)
         /\ SetInactiveAttributeVipp(b, x).vipps[x] = b.vipps[x]
         /\ ClaimsIn(SetInactiveAttributeVipp(b, x).nacs[x]) = ClaimsIn(b.nacs[x])
<1>1. CASE ~HasNac(b, x)
  BY <1>1, KeptReflexive DEF SetInactiveAttributeVipp
<1>2. CASE HasNac(b, x)
  <2> DEFINE i == FirstNac(b, x)
             nacs == [b.nacs[x] EXCEPT ![i].inactive = TRUE]
             c == SetInactiveAttributeVipp(b, x)
  <2>1. IsNacs(b.nacs[x])
    BY DEF IsBook
  <2>2. i \in DOMAIN b.nacs[x]
    BY <1>2, <2>1, FirstIsItem DEF HasNac, FirstNac, IsNacs
  <2> HIDE DEF i
  <2>3. DOMAIN nacs = DOMAIN b.nacs[x]
        /\ \A j \in DOMAIN b.nacs[x] :
             nacs[j] = IF j = i THEN [b.nacs[x][i] EXCEPT !.inactive = TRUE] ELSE b.nacs[x][j]
    BY <2>2
  <2>4. \A j \in DOMAIN b.nacs[x] :
          /\ nacs[j] \in NacRecords /\ nacs[j].level = b.nacs[x][j].level
          /\ nacs[j].claim = b.nacs[x][j].claim
    BY <2>1, <2>3 DEF IsNacs, NacRecords
  <2>5. IsNacs(nacs) /\ SameNacs(b.nacs[x], nacs)
    BY <2>1, <2>3, <2>4 DEF IsNacs, SameNacs
  <2>6. /\ DOMAIN c = DOMAIN b /\ c.nacs = [b.nacs EXCEPT ![x] = nacs]
        /\ c.vipps = b.vipps /\ c.users = b.users /\ c.known = b.known
    BY <1>2 DEF SetInactiveAttributeVipp, IsBook, i
  <2> HIDE DEF c, nacs
  <2>7. OnlyAt(b, c, x) /\ c.nacs[x] = nacs /\ c.vipps[x] = b.vipps[x]
    BY <2>5, <2>6, NacsWritten
  <2>8. Kept(b, c, x)
    BY <2>5, <2>6, <2>7 DEF Kept
  <2>9. ClaimsIn(nacs) = ClaimsIn(b.nacs[x])
    BY <2>1, <2>3, <2>4, ClaimsSame
  <2> QED
    BY <2>7, <2>8, <2>9 DEF c
<1> QED
  BY <1>1, <1>2

(* What burning does, once or many times.                                  *)
Burnt(b, c, x) ==
  /\ Kept(b, c, x)
  /\ ClaimsIn(c.nacs[x]) <= ClaimsIn(b.nacs[x])
  /\ Covered(b, x) => Covered(c, x)

LEMMA BurntReflexive ==
  ASSUME NEW b, IsBook(b), NEW x \in Accounts
  PROVE  Burnt(b, b, x)
<1>1. ClaimsIn(b.nacs[x]) \in Nat
  BY ClaimBalanceType
<1> QED
  BY <1>1, KeptReflexive DEF Burnt

LEMMA BurntTransitive ==
  ASSUME NEW b, IsBook(b), NEW c, NEW d, NEW x \in Accounts, Burnt(b, c, x), Burnt(c, d, x)
  PROVE  Burnt(b, d, x)
<1>1. IsBook(c) /\ IsBook(d)
  BY DEF Burnt, Kept, OnlyAt
<1>2. ClaimsIn(b.nacs[x]) \in Nat /\ ClaimsIn(c.nacs[x]) \in Nat /\ ClaimsIn(d.nacs[x]) \in Nat
  BY <1>1, ClaimBalanceType
<1>3. Kept(b, d, x)
  BY KeptTransitive DEF Burnt
<1>4. ClaimsIn(d.nacs[x]) <= ClaimsIn(b.nacs[x])
  BY <1>2 DEF Burnt
<1> QED
  BY <1>3, <1>4 DEF Burnt

(* burn_vipp_nft takes one VIPP, if there is any, and of the claims no more *)
(* than it stood for.                                                      *)
LEMMA BurnOne ==
  ASSUME NEW b, IsBook(b), NEW x \in Accounts
  PROVE  /\ Burnt(b, BurnVippNft(b, x), x)
         /\ DOMAIN b.vipps[x] = {} => DOMAIN BurnVippNft(b, x).vipps[x] = {}
         /\ DOMAIN b.vipps[x] # {} =>
              Cardinality(DOMAIN BurnVippNft(b, x).vipps[x]) = Cardinality(DOMAIN b.vipps[x]) - 1
<1>1. CASE DOMAIN b.vipps[x] = {}
  <2>1. BurnVippNft(b, x) = SetInactiveAttributeVipp(b, x)
    BY <1>1 DEF BurnVippNft
  <2>2. PICK c : c = SetInactiveAttributeVipp(b, x)
    OBVIOUS
  <2>3. Kept(b, c, x) /\ c.vipps[x] = b.vipps[x] /\ ClaimsIn(c.nacs[x]) = ClaimsIn(b.nacs[x])
    BY <2>2, InactiveKeeps
  <2>4. Covered(b, x) => Covered(c, x)
    BY <2>3 DEF Covered, GetActiveVippAmount
  <2>5. ClaimsIn(b.nacs[x]) \in Nat
    BY ClaimBalanceType
  <2> QED
    BY <1>1, <2>1, <2>2, <2>3, <2>4, <2>5 DEF Burnt
<1>2. CASE DOMAIN b.vipps[x] # {}
  <2>1. PICK item : item = LowestVipp(b, x)
    OBVIOUS
  <2>2. item \in DOMAIN b.vipps[x]
    BY <1>2, <2>1, VippAmountType, LowestIsItem
  <2>3. PICK amount \in Nat : amount = b.vipps[x][item]
    BY <2>2, VippAmountType
  <2>4. PICK vipps : vipps = Drop(b.vipps[x], item)
    OBVIOUS
  <2>5. /\ DOMAIN vipps = DOMAIN b.vipps[x] \ {item}
        /\ \A i \in DOMAIN b.vipps[x] \ {item} : vipps[i] \in Nat
        /\ SumFunctionOnSet(vipps, DOMAIN vipps) = GetActiveVippAmount(b, x) - amount
    BY <2>2, <2>3, <2>4, VippAmountType, SumDrop DEF GetActiveVippAmount
  <2>6. IsVipps(vipps)
    BY <2>5, VippAmountType DEF IsVipps
  <2>7. PICK burnt : burnt = [b EXCEPT !.vipps[x] = vipps]
    OBVIOUS
  <2>8. /\ DOMAIN burnt = DOMAIN b /\ burnt.vipps = [b.vipps EXCEPT ![x] = vipps]
        /\ burnt.nacs = b.nacs /\ burnt.users = b.users /\ burnt.known = b.known
    BY <2>7 DEF IsBook
  <2>9. Kept(b, burnt, x) /\ burnt.vipps[x] = vipps /\ burnt.nacs[x] = b.nacs[x]
    BY <2>6, <2>8, VippsWritten
  <2>10. IsBook(burnt)
    BY <2>9 DEF Kept, OnlyAt
  <2>11. PICK c : c = BurnThreshold(burnt, x, item)
    OBVIOUS
  <2>12. Untouched(burnt, c)
    BY <2>10, <2>11, ThresholdsUntouched DEF BurnThreshold
  <2>13. Kept(burnt, c, x) /\ c.vipps[x] = vipps /\ c.nacs[x] = b.nacs[x]
    BY <2>9, <2>10, <2>12, UntouchedKept DEF Untouched
  <2>14. IsBook(c)
    BY <2>13 DEF Kept, OnlyAt
  <2>15. PICK d : d = DecreaseThreshold(c, x, amount)
    OBVIOUS
  <2>16. /\ Kept(c, d, x) /\ d.vipps[x] = vipps
         /\ ClaimsIn(d.nacs[x]) <= ClaimsIn(b.nacs[x])
         /\ ClaimsIn(b.nacs[x]) <= ClaimsIn(d.nacs[x]) + amount
    BY <2>13, <2>14, <2>15, DecreaseKeeps
  <2>17. BurnVippNft(b, x) = d
    BY <1>2, <2>1, <2>3, <2>4, <2>7, <2>11, <2>15 DEF BurnVippNft
  <2>18. Kept(b, d, x)
    BY <2>9, <2>13, <2>16, KeptTransitive
  <2>19. IsBook(d)
    BY <2>18 DEF Kept, OnlyAt
  <2>20. Covered(b, x) => Covered(d, x)
    <3>1. ClaimsIn(b.nacs[x]) \in Nat /\ ClaimsIn(d.nacs[x]) \in Nat
      BY <2>19, ClaimBalanceType
    <3>2. GetActiveVippAmount(b, x) \in Nat
      BY VippAmountType
    <3>3. GetActiveVippAmount(d, x) = GetActiveVippAmount(b, x) - amount
      BY <2>5, <2>16 DEF GetActiveVippAmount
    <3> QED
      BY <2>16, <3>1, <3>2, <3>3 DEF Covered
  <2>21. Cardinality(DOMAIN vipps) = Cardinality(DOMAIN b.vipps[x]) - 1
    <3>1. PICK items : items = DOMAIN b.vipps[x]
      OBVIOUS
    <3>2. IsFiniteSet(items) /\ item \in items /\ DOMAIN vipps = items \ {item}
      BY <2>2, <2>5, <3>1, VippAmountType
    <3> QED
      BY <3>1, <3>2, FS_RemoveElement
  <2> QED
    BY <1>2, <2>16, <2>17, <2>18, <2>20, <2>21 DEF Burnt
<1> QED
  BY <1>1, <1>2

-----------------------------------------------------------------------------
(* The loops: check_account_threshold burns while the account is poor,      *)
(* do_exit_vip burns all.                                                  *)

LoopStep(c, x, money, all) == IF all \/ Poor(c, x, money) THEN BurnVippNft(c, x) ELSE c

IsLoop(after, rounds, b, x, money, all) ==
  after = [n \in 0 .. rounds |-> IF n = 0 THEN b ELSE LoopStep(after[n - 1], x, money, all)]

LEMMA LoopExists ==
  ASSUME NEW b, NEW x, NEW money, NEW all \in BOOLEAN, NEW rounds \in Nat
  PROVE  \E after : IsLoop(after, rounds, b, x, money, all)
<1> DEFINE K == {n \in Nat : \E after : IsLoop(after, n, b, x, money, all)}
<1>1. 0 \in K
  <2>1. PICK f : f = [n \in 0 .. 0 |-> b]
    OBVIOUS
  <2>2. f = [n \in 0 .. 0 |-> IF n = 0 THEN b ELSE LoopStep(f[n - 1], x, money, all)]
    BY <2>1
  <2> QED
    BY <2>2 DEF IsLoop
<1>2. ASSUME NEW n \in Nat, n \in K PROVE n + 1 \in K
  <2>1. PICK f : IsLoop(f, n, b, x, money, all)
    BY <1>2
  <2>2. \A k \in 0 .. n : f[k] = IF k = 0 THEN b ELSE LoopStep(f[k - 1], x, money, all)
    <3> DEFINE h == [k \in 0 .. n |-> IF k = 0 THEN b ELSE LoopStep(f[k - 1], x, money, all)]
    <3>1. \A k \in 0 .. n : h[k] = IF k = 0 THEN b ELSE LoopStep(f[k - 1], x, money, all)
      OBVIOUS
    <3>2. f = h
      BY <2>1 DEF IsLoop
    <3> HIDE DEF h
    <3> QED
      BY <3>1, <3>2
  <2>3. PICK last : last = LoopStep(f[n], x, money, all)
    OBVIOUS
  <2>4. PICK g : g = [k \in 0 .. n + 1 |-> IF k = n + 1 THEN last ELSE f[k]]
    OBVIOUS
  <2>5. \A k \in 0 .. n + 1 : g[k] = IF k = 0 THEN b ELSE LoopStep(g[k - 1], x, money, all)
    <3> SUFFICES ASSUME NEW k \in 0 .. n + 1
                 PROVE  g[k] = IF k = 0 THEN b ELSE LoopStep(g[k - 1], x, money, all)
      OBVIOUS
    <3>1. CASE k = n + 1
      <4>1. g[k] = last /\ g[k - 1] = f[n] /\ k # 0
        BY <2>4, <3>1
      <4> QED
        BY <2>3, <4>1
    <3>2. CASE k # n + 1
      <4>1. k \in 0 .. n /\ g[k] = f[k]
        BY <2>4, <3>2
      <4>2. k # 0 => g[k - 1] = f[k - 1]
        BY <2>4, <4>1
      <4> QED
        BY <2>2, <4>1, <4>2
    <3> QED
      BY <3>1, <3>2
  <2>6. g = [k \in 0 .. n + 1 |-> IF k = 0 THEN b ELSE LoopStep(g[k - 1], x, money, all)]
    <3>1. PICK h : h = [k \in 0 .. n + 1 |-> IF k = 0 THEN b ELSE LoopStep(g[k - 1], x, money, all)]
      OBVIOUS
    <3>2. \A k \in 0 .. n + 1 : h[k] = g[k]
      BY <2>5, <3>1
    <3>3. h = [k \in 0 .. n + 1 |-> h[k]] /\ g = [k \in 0 .. n + 1 |-> g[k]]
      BY <2>4, <3>1
    <3>4. h = g
      BY <3>2, <3>3
    <3> QED
      BY <3>1, <3>4
  <2> QED
    BY <2>6 DEF IsLoop
<1>3. Nat \subseteq K
  <2> HIDE DEF K
  <2> QED
    BY <1>1, <1>2, NatSetInduction
<1> QED
  BY <1>3

(* After one round more than there are VIPPs, all are burnt or the account  *)
(* is not poor.                                                            *)
LEMMA LoopBurns ==
  ASSUME NEW b, IsBook(b), NEW x \in Accounts, NEW money, NEW all \in BOOLEAN,
         NEW rounds, rounds = 1 + Cardinality(DOMAIN b.vipps[x]),
         NEW after, IsLoop(after, rounds, b, x, money, all)
  PROVE  /\ Burnt(b, after[rounds], x)
         /\ DOMAIN after[rounds].vipps[x] = {} \/ (~all /\ ~Poor(after[rounds], x, money))
<1>1. rounds \in Nat
  BY VippAmountType
<1>2. \A n \in 0 .. rounds : after[n] = IF n = 0 THEN b ELSE LoopStep(after[n - 1], x, money, all)
  <2>1. PICK h : h = [n \in 0 .. rounds |-> IF n = 0 THEN b ELSE LoopStep(after[n - 1], x, money, all)]
    OBVIOUS
  <2>2. \A n \in 0 .. rounds : h[n] = IF n = 0 THEN b ELSE LoopStep(after[n - 1], x, money, all)
    BY <2>1
  <2>3. after = h
    BY <2>1 DEF IsLoop
  <2> QED
    BY <2>2, <2>3
<1> DEFINE Left(n) == Cardinality(DOMAIN after[n].vipps[x])
           Done(n) == DOMAIN after[n].vipps[x] = {} \/ (~all /\ ~Poor(after[n], x, money))
           K == {n \in Nat : n <= rounds => Burnt(b, after[n], x) /\ (Done(n) \/ Left(n) + n < rounds)}
<1>3. 0 \in K
  <2>1. after[0] = b
    BY <1>1, <1>2
  <2>2. Burnt(b, after[0], x)
    BY <2>1, BurntReflexive
  <2>3. Left(0) + 0 < rounds
    BY <2>1, VippAmountType
  <2> QED
    BY <2>2, <2>3
<1>4. ASSUME NEW n \in Nat, n \in K PROVE n + 1 \in K
  <2> SUFFICES ASSUME n + 1 <= rounds
               PROVE  Burnt(b, after[n + 1], x) /\ (Done(n + 1) \/ Left(n + 1) + (n + 1) < rounds)
    OBVIOUS
  <2>1. Burnt(b, after[n], x) /\ (Done(n) \/ Left(n) + n < rounds)
    BY <1>1, <1>4
  <2>2. PICK c : c = after[n]
    OBVIOUS
  <2>3. IsBook(c) /\ Burnt(b, c, x)
    BY <2>1, <2>2 DEF Burnt, Kept, OnlyAt
  <2>4. n + 1 \in 0 .. rounds /\ (n + 1) - 1 = n /\ n + 1 # 0
    BY <1>1
  <2>5. after[n + 1] = LoopStep(c, x, money, all)
    BY <1>2, <2>2, <2>4
  <2>6. CASE all \/ Poor(c, x, money)
    <3>1. PICK d : d = BurnVippNft(c, x)
      OBVIOUS
    <3>2. after[n + 1] = d
      BY <2>5, <2>6, <3>1 DEF LoopStep
    <3>3. /\ Burnt(c, d, x)
          /\ DOMAIN c.vipps[x] = {} => DOMAIN d.vipps[x] = {}
          /\ DOMAIN c.vipps[x] # {} =>
               Cardinality(DOMAIN d.vipps[x]) = Cardinality(DOMAIN c.vipps[x]) - 1
      BY <2>3, <3>1, BurnOne
    <3>4. Burnt(b, d, x)
      BY <2>3, <3>3, BurntTransitive
    <3>5. CASE DOMAIN c.vipps[x] = {}
      BY <3>2, <3>3, <3>4, <3>5
    <3>6. CASE DOMAIN c.vipps[x] # {}
      <4>1. Cardinality(DOMAIN c.vipps[x]) + n < rounds
        BY <2>1, <2>2, <2>6, <3>6
      <4>2. Cardinality(DOMAIN c.vipps[x]) \in Nat
        BY <2>3, VippAmountType
      <4>3. Cardinality(DOMAIN d.vipps[x]) + (n + 1) < rounds
        BY <1>1, <3>3, <3>6, <4>1, <4>2
      <4> QED
        BY <3>2, <3>4, <4>3
    <3> QED
      BY <3>5, <3>6
  <2>7. CASE ~(all \/ Poor(c, x, money))
    <3>1. after[n + 1] = c
      BY <2>5, <2>7 DEF LoopStep
    <3> QED
      BY <2>3, <2>7, <3>1
  <2> QED
    BY <2>6, <2>7
<1>5. Nat \subseteq K
  <2> HIDE DEF K
  <2> QED
    BY <1>3, <1>4, NatSetInduction
<1>6. Burnt(b, after[rounds], x) /\ (Done(rounds) \/ Left(rounds) + rounds < rounds)
  BY <1>1, <1>5
<1>7. Left(rounds) \in Nat
  <2>1. IsBook(after[rounds])
    BY <1>6 DEF Burnt, Kept, OnlyAt
  <2> QED
    BY <2>1, VippAmountType
<1>8. ~(Left(rounds) + rounds < rounds)
  <2> HIDE DEF Left
  <2> QED
    BY <1>1, <1>7
<1> QED
  BY <1>6, <1>8

LEMMA CheckBurns ==
  ASSUME NEW b, IsBook(b), NEW x \in Accounts, NEW money
  PROVE  /\ Burnt(b, CheckAccountThreshold(b, x, money), x)
         /\ \/ DOMAIN CheckAccountThreshold(b, x, money).vipps[x] = {}
            \/ ~Poor(CheckAccountThreshold(b, x, money), x, money)
<1> DEFINE rounds == 1 + Cardinality(DOMAIN b.vipps[x])
           after == CHOOSE f : f = [n \in 0 .. rounds |->
                      IF n = 0 THEN b
                      ELSE IF Poor(f[n - 1], x, money) THEN BurnVippNft(f[n - 1], x) ELSE f[n - 1]]
<1>1. CheckAccountThreshold(b, x, money) = after[rounds]
  BY DEF CheckAccountThreshold
<1>2. rounds \in Nat
  BY VippAmountType
<1>3. PICK f : IsLoop(f, rounds, b, x, money, FALSE)
  BY <1>2, LoopExists
<1>4. f = [n \in 0 .. rounds |->
            IF n = 0 THEN b
            ELSE IF Poor(f[n - 1], x, money) THEN BurnVippNft(f[n - 1], x) ELSE f[n - 1]]
  BY <1>3 DEF IsLoop, LoopStep
<1>5. IsLoop(after, rounds, b, x, money, FALSE)
  BY <1>4 DEF IsLoop, LoopStep
<1> HIDE DEF after
<1> QED
  BY <1>1, <1>5, LoopBurns

LEMMA BurnAllBurns ==
  ASSUME NEW b, IsBook(b), NEW x \in Accounts
  PROVE  /\ Burnt(b, BurnAllVipps(b, x), x)
         /\ DOMAIN BurnAllVipps(b, x).vipps[x] = {}
<1> DEFINE rounds == 1 + Cardinality(DOMAIN b.vipps[x])
           after == CHOOSE f : f = [n \in 0 .. rounds |-> IF n = 0 THEN b ELSE BurnVippNft(f[n - 1], x)]
<1>1. BurnAllVipps(b, x) = after[rounds]
  BY DEF BurnAllVipps
<1>2. rounds \in Nat
  BY VippAmountType
<1>3. PICK f : IsLoop(f, rounds, b, x, 0, TRUE)
  BY <1>2, LoopExists
<1>4. f = [n \in 0 .. rounds |-> IF n = 0 THEN b ELSE BurnVippNft(f[n - 1], x)]
  BY <1>3 DEF IsLoop, LoopStep
<1>5. IsLoop(after, rounds, b, x, 0, TRUE)
  BY <1>4 DEF IsLoop, LoopStep
<1> HIDE DEF after
<1> QED
  BY <1>1, <1>5, LoopBurns

(* Who is not poor then, and has one NAC, has VIPPs for what its balance    *)
(* covers only.                                                            *)
LEMMA CheckBacks ==
  ASSUME NEW b, IsBook(b), NEW x \in Accounts, NEW money \in Nat, Covered(b, x), IsSingle(b.nacs[x]),
         DOMAIN b.vipps[x] = {} \/ ~Poor(b, x, money), GetActiveVippAmount(b, x) > 0
  PROVE  money > Perbill95(GetActiveVippAmount(b, x))
<1>1. PICK sum \in Nat : sum = GetActiveVippAmount(b, x)
  BY VippAmountType
<1>2. PICK claim \in Attributes : claim = GetClaimBalance(b, x)
  BY ClaimBalanceType
<1>3. sum <= Monus(claim, 0)
  BY <1>1, <1>2, ClaimBalanceType DEF Covered
<1>4. claim \in Nat /\ claim # NoAttribute /\ sum <= claim
  BY <1>1, <1>3 DEF Monus, Attributes, NoAttribute
<1>5. DOMAIN b.vipps[x] # {}
  <2>1. ASSUME DOMAIN b.vipps[x] = {} PROVE FALSE
    <3>1. GetActiveVippAmount(b, x) = 0
      BY <2>1, SumEmpty DEF GetActiveVippAmount
    <3> QED
      BY <3>1
  <2> QED
    BY <2>1
<1>6. money > Perbill95(claim)
  BY <1>2, <1>4, <1>5 DEF Poor, MeetsVippRequirements
<1>7. Perbill95(sum) <= Perbill95(claim) /\ Perbill95(sum) \in Int /\ Perbill95(claim) \in Int
  BY <1>4 DEF Perbill95
<1> QED
  BY <1>1, <1>6, <1>7

-----------------------------------------------------------------------------
(* Minting VIPPs *)

(* A new VIPP is for what no other stands for; the NACs stay.              *)
Raised(b, c, x) ==
  /\ Kept(b, c, x)
  /\ c.nacs[x] = b.nacs[x]
  /\ Covered(b, x) => Covered(c, x)

LEMMA MintVippRaises ==
  ASSUME NEW b, IsBook(b), NEW x \in Accounts, NEW money, NEW item \in Blocks
  PROVE  Raised(b, MintVippNft(b, x, money, item).b, x)
<1> DEFINE claim == GetClaimBalance(b, x)
           Fits == claim # NoAttribute /\ MeetsVippRequirements(money, claim) /\ Uncovered(b, x) >= 0
<1>1. CASE ~Fits
  <2>1. MintVippNft(b, x, money, item).b = b
    BY <1>1 DEF MintVippNft
  <2> QED
    BY <2>1, KeptReflexive DEF Raised
<1>2. CASE Fits
  <2>1. PICK sum \in Nat : sum = GetActiveVippAmount(b, x)
    BY VippAmountType
  <2>2. PICK claimed \in Nat : claimed = claim
    BY <1>2, ClaimBalanceType DEF Attributes
  <2>3. Uncovered(b, x) = claimed - sum
    BY <2>1, <2>2 DEF Uncovered
  <2>4. PICK rest \in Nat : rest = claimed - sum
    BY <1>2, <2>3
  <2>5. PICK vipps : vipps = Put(b.vipps[x], item, rest)
    OBVIOUS
  <2>6. PICK old \in Nat : old = IF item \in DOMAIN b.vipps[x] THEN b.vipps[x][item] ELSE 0
    BY VippAmountType
  <2>7. /\ DOMAIN vipps = DOMAIN b.vipps[x] \cup {item}
        /\ \A i \in DOMAIN b.vipps[x] \cup {item} : vipps[i] \in Nat
        /\ SumFunctionOnSet(vipps, DOMAIN vipps) = sum + rest - old
    <3>1. PICK f : f = b.vipps[x]
      OBVIOUS
    <3>2. IsFiniteSet(DOMAIN f) /\ \A i \in DOMAIN f : f[i] \in Nat
      BY <3>1, VippAmountType
    <3>3. /\ DOMAIN Put(f, item, rest) = DOMAIN f \cup {item}
          /\ \A i \in DOMAIN f \cup {item} : Put(f, item, rest)[i] \in Nat
          /\ SumFunctionOnSet(Put(f, item, rest), DOMAIN Put(f, item, rest))
               = SumFunctionOnSet(f, DOMAIN f) + rest - (IF item \in DOMAIN f THEN f[item] ELSE 0)
      BY <3>2, SumPut
    <3> QED
      BY <2>1, <2>5, <2>6, <3>1, <3>3 DEF GetActiveVippAmount
  <2>8. IsVipps(vipps)
    BY <2>7, VippAmountType DEF IsVipps
  <2>9. PICK c : c = [b EXCEPT !.vipps[x] = vipps]
    OBVIOUS
  <2>10. /\ DOMAIN c = DOMAIN b /\ c.vipps = [b.vipps EXCEPT ![x] = vipps]
         /\ c.nacs = b.nacs /\ c.users = b.users /\ c.known = b.known
    BY <2>9 DEF IsBook
  <2>11. Kept(b, c, x) /\ c.vipps[x] = vipps /\ c.nacs[x] = b.nacs[x]
    BY <2>8, <2>10, VippsWritten
  <2>12. c = [b EXCEPT !.vipps[x] = Put(@, item, rest)]
    BY <2>5, <2>9 DEF IsBook
  <2>13. MintVippNft(b, x, money, item).b = c
    BY <1>2, <2>3, <2>4, <2>12 DEF MintVippNft
  <2>14. Covered(c, x)
    <3>1. GetActiveVippAmount(c, x) <= claimed
      BY <2>4, <2>7, <2>11 DEF GetActiveVippAmount
    <3>2. claimed <= ClaimsIn(b.nacs[x])
      BY <2>2, ClaimBalanceType DEF Monus
    <3>3. GetActiveVippAmount(c, x) \in Nat /\ ClaimsIn(b.nacs[x]) \in Nat
      BY <2>11, VippAmountType, ClaimBalanceType DEF Kept, OnlyAt
    <3> QED
      BY <2>11, <3>1, <3>2, <3>3 DEF Covered
  <2> QED
    BY <2>11, <2>13, <2>14 DEF Raised
<1> QED
  BY <1>1, <1>2

LEMMA CanMintRaises ==
  ASSUME NEW b, IsBook(b), NEW x \in Accounts, NEW money, NEW item \in Blocks
  PROVE  Raised(b, CanMintVipp(b, x, money, item).b, x)
<1>1. CASE HasNac(b, x) /\ ~b.nacs[x][FirstNac(b, x)].inactive
  BY <1>1, MintVippRaises DEF CanMintVipp
<1>2. CASE ~(HasNac(b, x) /\ ~b.nacs[x][FirstNac(b, x)].inactive)
  <2>1. CanMintVipp(b, x, money, item).b = b
    BY <1>2 DEF CanMintVipp
  <2> QED
    BY <2>1, KeptReflexive DEF Raised
<1> QED
  BY <1>1, <1>2

(* And the entry of its threshold.                                         *)
LEMMA RaisedUntouched ==
  ASSUME NEW b, NEW c, NEW x \in Accounts, Raised(b, c, x), NEW d, Untouched(c, d)
  PROVE  Raised(b, d, x)
<1>1. Kept(c, d, x)
  BY UntouchedKept DEF Raised, Kept, OnlyAt
<1>2. Kept(b, d, x)
  BY <1>1, KeptTransitive DEF Raised
<1> QED
  BY <1>2 DEF Raised, Untouched, Covered, GetActiveVippAmount

(* A claim that is paid is added to the claims, whatever VIPP it makes.     *)
LEMMA ClaimAdds ==
  ASSUME NEW b, IsBook(b), NEW x \in Accounts, HasNac(b, x), NEW amount \in Nat, NEW money,
         NEW item \in Blocks
  PROVE  /\ Kept(b, OnClaim(b, x, amount, money, item), x)
         /\ ClaimsIn(OnClaim(b, x, amount, money, item).nacs[x]) = ClaimsIn(b.nacs[x]) + amount
         /\ Covered(b, x) => Covered(OnClaim(b, x, amount, money, item), x)
<1>1. PICK claim \in Attributes : claim = GetClaimBalance(b, x)
  BY ClaimBalanceType
<1>2. PICK before \in Nat : before = Monus(claim, 0)
  BY DEF Monus, Attributes, NoAttribute
<1>3. PICK total1 \in Nat : total1 = before + amount
  OBVIOUS
<1>4. PICK recorded : recorded = SetClaim(b, x, total1)
  OBVIOUS
<1>5. /\ Kept(b, recorded, x) /\ recorded.vipps[x] = b.vipps[x]
      /\ ClaimsIn(recorded.nacs[x]) = ClaimsIn(b.nacs[x]) + amount
  <2>1. /\ Kept(b, recorded, x) /\ recorded.vipps[x] = b.vipps[x]
        /\ ClaimsIn(recorded.nacs[x]) = ClaimsIn(b.nacs[x]) + total1 - Monus(claim, 0)
    BY <1>1, <1>4, SetClaimKeeps
  <2>2. ClaimsIn(b.nacs[x]) \in Nat
    BY ClaimBalanceType
  <2> QED
    BY <1>2, <1>3, <2>1, <2>2
<1>6. IsBook(recorded)
  BY <1>5 DEF Kept, OnlyAt
<1>7. Covered(b, x) => Covered(recorded, x)
  <2>1. ClaimsIn(b.nacs[x]) \in Nat /\ GetActiveVippAmount(b, x) \in Nat
    BY ClaimBalanceType, VippAmountType
  <2>2. GetActiveVippAmount(recorded, x) = GetActiveVippAmount(b, x)
    BY <1>5 DEF GetActiveVippAmount
  <2> QED
    BY <1>5, <2>1, <2>2 DEF Covered
<1>8. PICK result : result = MintVippNft(recorded, x, money, item)
  OBVIOUS
<1>9. Raised(recorded, result.b, x)
  BY <1>6, <1>8, MintVippRaises
<1>10. PICK d : d = OnClaim(b, x, amount, money, item)
  OBVIOUS
<1>11. d = IF before = 0 THEN recorded
           ELSE IF result.minted THEN MintNewVipp(result.b, x, result.amount, result.item)
           ELSE result.b
  BY <1>1, <1>2, <1>3, <1>4, <1>8, <1>10 DEF OnClaim
<1>12. Raised(recorded, d, x)
  <2>1. CASE before = 0
    BY <1>6, <1>11, <2>1, KeptReflexive DEF Raised
  <2>2. CASE before # 0 /\ ~result.minted
    BY <1>9, <1>11, <2>2
  <2>3. CASE before # 0 /\ result.minted
    <3>1. PICK c : c = result.b
      OBVIOUS
    <3>2. IsBook(c)
      BY <1>9, <3>1 DEF Raised, Kept, OnlyAt
    <3>3. d = MintNewVipp(c, x, result.amount, result.item)
      BY <1>11, <2>3, <3>1
    <3>4. d = [c EXCEPT !.thresholds[x] = Append(c.thresholds[x], <<result.item, result.amount>>)]
      BY <3>2, <3>3 DEF MintNewVipp, IsBook
    <3>5. Untouched(c, d)
      BY <3>2, <3>4, ThresholdsUntouched
    <3> QED
      BY <1>9, <3>1, <3>5, RaisedUntouched
  <2> QED
    BY <2>1, <2>2, <2>3
<1>13. Kept(b, d, x)
  BY <1>5, <1>12, KeptTransitive DEF Raised
<1> QED
  BY <1>5, <1>7, <1>10, <1>12, <1>13 DEF Raised

-----------------------------------------------------------------------------
(* NACs *)

(* An entry of nacs, of users and of known written, claims unchanged.      *)
Named(b, c, x) ==
  /\ OnlyAt(b, c, x)
  /\ c.vipps[x] = b.vipps[x]
  /\ ClaimsIn(c.nacs[x]) = ClaimsIn(b.nacs[x])
  /\ b.known \subseteq c.known
  /\ c.known \subseteq b.known \cup {x}
  /\ Recorded(b, x) => Recorded(c, x)

LEMMA NamedReflexive ==
  ASSUME NEW b, IsBook(b), NEW x \in Accounts
  PROVE  Named(b, b, x)
BY DEF Named, OnlyAt

LEMMA NamedTransitive ==
  ASSUME NEW b, NEW c, NEW d, NEW x \in Accounts, Named(b, c, x), Named(c, d, x)
  PROVE  Named(b, d, x)
<1>1. OnlyAt(b, d, x)
  BY DEF Named, OnlyAt
<1> QED
  BY <1>1 DEF Named

LEMMA NamedCovered ==
  ASSUME NEW b, NEW c, NEW x \in Accounts, Named(b, c, x)
  PROVE  Covered(b, x) => Covered(c, x)
BY DEF Named, Covered, GetActiveVippAmount

NacsAndUser(b, c, x, nacs) ==
  /\ DOMAIN c = DOMAIN b /\ c.nacs = [b.nacs EXCEPT ![x] = nacs] /\ c.vipps = b.vipps
  /\ DOMAIN c.users = Accounts /\ \A y \in Accounts : y # x => c.users[y] = b.users[y]
  /\ c.known \subseteq Accounts

LEMMA NacsAndUserWritten ==
  ASSUME NEW b, IsBook(b), NEW x \in Accounts, NEW c, NEW nacs, IsNacs(nacs),
         NacsAndUser(b, c, x, nacs)
  PROVE  OnlyAt(b, c, x) /\ c.nacs[x] = nacs /\ c.vipps[x] = b.vipps[x]
<1>1. /\ DOMAIN c.nacs = Accounts /\ c.nacs[x] = nacs
      /\ \A y \in Accounts : y # x => c.nacs[y] = b.nacs[y]
  BY DEF IsBook, NacsAndUser
<1>2. \A y \in Accounts : IsNacs(c.nacs[y])
  BY <1>1 DEF IsBook
<1>3. IsBook(c)
  BY <1>1, <1>2 DEF IsBook, NacsAndUser
<1> QED
  BY <1>1, <1>3 DEF OnlyAt, NacsAndUser

(* A level written, and the entry of UsersNft with it.                     *)
LEMMA UpdateNames ==
  ASSUME NEW b, IsBook(b), NEW x \in Accounts, NEW item \in DOMAIN b.nacs[x], NEW level \in Nat
  PROVE  /\ Named(b, UpdateNftInfo(b, x, item, level), x)
         /\ DOMAIN UpdateNftInfo(b, x, item, level).nacs[x] = DOMAIN b.nacs[x]
         /\ UpdateNftInfo(b, x, item, level).known = b.known
<1> DEFINE nacs == [b.nacs[x] EXCEPT ![item].level = level]
           c == UpdateNftInfo(b, x, item, level)
<1>1. IsNacs(b.nacs[x])
  BY DEF IsBook
<1>2. DOMAIN nacs = DOMAIN b.nacs[x]
      /\ \A j \in DOMAIN b.nacs[x] :
           nacs[j] = IF j = item THEN [b.nacs[x][item] EXCEPT !.level = level] ELSE b.nacs[x][j]
  OBVIOUS
<1>3. level \in Attributes /\ level # NoAttribute
  BY DEF Attributes, NoAttribute
<1>4. \A j \in DOMAIN b.nacs[x] :
        /\ nacs[j] \in NacRecords /\ nacs[j].claim = b.nacs[x][j].claim
        /\ j = item => nacs[j].level = level
  BY <1>1, <1>2, <1>3 DEF IsNacs, NacRecords
<1>5. IsNacs(nacs)
  BY <1>1, <1>2, <1>4 DEF IsNacs
<1>6. /\ DOMAIN c = DOMAIN b /\ c.nacs = [b.nacs EXCEPT ![x] = nacs]
      /\ c.vipps = b.vipps /\ c.known = b.known
      /\ DOMAIN c.users = Accounts /\ c.users[x] = <<item, level>>
      /\ \A y \in Accounts : y # x => c.users[y] = b.users[y]
  BY DEF UpdateNftInfo, IsBook
<1> HIDE DEF c, nacs
<1>7. OnlyAt(b, c, x) /\ c.nacs[x] = nacs /\ c.vipps[x] = b.vipps[x] /\ c.users[x] = <<item, level>>
  <2>1. NacsAndUser(b, c, x, nacs)
    BY <1>6 DEF IsBook, NacsAndUser
  <2>2. OnlyAt(b, c, x) /\ c.nacs[x] = nacs /\ c.vipps[x] = b.vipps[x]
    BY <1>5, <2>1, NacsAndUserWritten
  <2> QED
    BY <1>6, <2>2
<1>8. ClaimsIn(nacs) = ClaimsIn(b.nacs[x])
  BY <1>1, <1>2, <1>4, ClaimsSame
<1>9. Recorded(c, x)
  <2>1. LevelOf(nacs[item]) = level
    BY <1>3, <1>4 DEF LevelOf
  <2>2. item \in DOMAIN nacs
    BY <1>2
  <2> QED
    BY <1>7, <2>1, <2>2 DEF Recorded
<1> QED
  BY <1>2, <1>6, <1>7, <1>8, <1>9 DEF Named, c

LEMMA BareIsNac == BareNac \in NacRecords
BY DEF BareNac, NacRecords, Attributes, NoAttribute

(* A bare NAC with an id that is new.                                      *)
LEMMA PutBare ==
  ASSUME NEW nacs, IsNacs(nacs), NEW item \in Blocks, item \notin DOMAIN nacs
  PROVE  /\ IsNacs(Put(nacs, item, BareNac))
         /\ DOMAIN Put(nacs, item, BareNac) = DOMAIN nacs \cup {item}
         /\ \A i \in DOMAIN nacs : Put(nacs, item, BareNac)[i] = nacs[i]
         /\ Put(nacs, item, BareNac)[item] = BareNac
         /\ ClaimsIn(Put(nacs, item, BareNac)) = ClaimsIn(nacs)
<1> DEFINE after == Put(nacs, item, BareNac)
<1>1. /\ DOMAIN after = DOMAIN nacs \cup {item} /\ after[item] = BareNac
      /\ \A i \in DOMAIN nacs : after[i] = nacs[i]
  BY DEF Put
<1> HIDE DEF after
<1>2. IsNacs(after)
  BY <1>1, BareIsNac DEF IsNacs
<1>3. ClaimTerms(after)[item] = 0
  <2>1. ClaimTerms(after)[item] = Monus(BareNac.claim, 0)
    BY <1>1 DEF ClaimTerms
  <2> QED
    BY <2>1 DEF BareNac, Monus, NoAttribute
<1>4. \A i \in DOMAIN nacs : ClaimTerms(after)[i] = ClaimTerms(nacs)[i]
  BY <1>1 DEF ClaimTerms
<1>5. IsFiniteSet(DOMAIN nacs) /\ IntegersOn(ClaimTerms(nacs), DOMAIN nacs) /\ ClaimsIn(nacs) \in Nat
  BY ClaimsType
<1>6. IntegersOn(ClaimTerms(after), DOMAIN nacs \cup {item})
  BY <1>1, <1>2, ClaimsType
<1>7. SumFunctionOnSet(ClaimTerms(after), DOMAIN nacs \cup {item})
        = SumFunctionOnSet(ClaimTerms(after), DOMAIN nacs) + ClaimTerms(after)[item]
  BY <1>5, <1>6, SumAdd
<1>8. SumFunctionOnSet(ClaimTerms(after), DOMAIN nacs) = ClaimsIn(nacs)
  BY <1>4, <1>5, SumCongruence, ClaimsAreTerms
<1> QED
  BY <1>1, <1>2, <1>3, <1>5, <1>7, <1>8, ClaimsAreTerms DEF after

LEMMA MintNames ==
  ASSUME NEW b, IsBook(b), NEW x \in Accounts, NEW item \in Blocks, CanMint(b, x, item)
  PROVE  /\ Named(b, DoMint(b, x, item), x)
         /\ DOMAIN DoMint(b, x, item).nacs[x] = DOMAIN b.nacs[x] \cup {item}
         /\ DoMint(b, x, item).nacs[x][item] = BareNac
         /\ DoMint(b, x, item).known = b.known \cup {x}
         /\ DoMint(b, x, item).users = b.users
<1> DEFINE nacs == Put(b.nacs[x], item, BareNac)
           c == DoMint(b, x, item)
<1>1. IsNacs(b.nacs[x]) /\ item \notin DOMAIN b.nacs[x]
  BY DEF IsBook, CanMint
<1>2. /\ IsNacs(nacs) /\ DOMAIN nacs = DOMAIN b.nacs[x] \cup {item} /\ nacs[item] = BareNac
      /\ \A i \in DOMAIN b.nacs[x] : nacs[i] = b.nacs[x][i]
      /\ ClaimsIn(nacs) = ClaimsIn(b.nacs[x])
  BY <1>1, PutBare
<1>3. /\ DOMAIN c = DOMAIN b /\ c.nacs = [b.nacs EXCEPT ![x] = nacs]
      /\ c.vipps = b.vipps /\ c.users = b.users /\ c.known = b.known \cup {x}
  BY DEF DoMint, IsBook
<1> HIDE DEF c, nacs
<1>4. NacsAndUser(b, c, x, nacs)
  BY <1>3 DEF IsBook, NacsAndUser
<1>5. OnlyAt(b, c, x) /\ c.nacs[x] = nacs /\ c.vipps[x] = b.vipps[x] /\ c.users[x] = b.users[x]
  <2>1. IsNacs(nacs)
    BY <1>2
  <2>2. OnlyAt(b, c, x) /\ c.nacs[x] = nacs /\ c.vipps[x] = b.vipps[x]
    BY <1>4, <2>1, NacsAndUserWritten
  <2> QED
    BY <1>3, <2>2
<1>6. Recorded(b, x) => Recorded(c, x)
  BY <1>2, <1>5 DEF Recorded
<1> QED
  BY <1>2, <1>3, <1>5, <1>6 DEF Named, c

(* The hook of a birth. An account without record gets a NAC, or has one.  *)
LEMMA NewAccountNames ==
  ASSUME NEW b, IsBook(b), NEW x \in Accounts, NEW item \in Blocks
  PROVE  /\ Named(b, OnNewAccount(b, x, item), x)
         /\ x \in OnNewAccount(b, x, item).known
         /\ x \in b.known => OnNewAccount(b, x, item) = b
         /\ x \notin b.known => HasNac(OnNewAccount(b, x, item), x)
         /\ HasNac(b, x) => HasNac(OnNewAccount(b, x, item), x)
         /\ ~HasNac(b, x) => IsSingle(OnNewAccount(b, x, item).nacs[x])
<1>1. CASE x \in b.known
  <2>1. OnNewAccount(b, x, item) = b
    BY <1>1 DEF OnNewAccount
  <2> QED
    BY <1>1, <2>1, NamedReflexive DEF HasNac, IsSingle
<1>2. CASE x \notin b.known
  <2>1. PICK r : r = [b EXCEPT !.known = @ \cup {x}]
    OBVIOUS
  <2>2. /\ DOMAIN r = DOMAIN b /\ r.nacs = b.nacs /\ r.vipps = b.vipps /\ r.users = b.users
        /\ r.known = b.known \cup {x}
    BY <2>1 DEF IsBook
  <2>3. IsBook(r)
    BY <2>2 DEF IsBook
  <2>4. Named(b, r, x)
    BY <2>2, <2>3 DEF Named, OnlyAt, Recorded
  <2>5. CASE ~CanMint(r, x, item)
    <3>1. OnNewAccount(b, x, item) = r
      BY <1>2, <2>1, <2>5 DEF OnNewAccount, CanMint, IsBook
    <3>2. HasNac(b, x) /\ HasNac(r, x)
      BY <2>2, <2>5 DEF CanMint, HasNac
    <3> QED
      BY <1>2, <2>2, <2>4, <3>1, <3>2
  <2>6. CASE CanMint(r, x, item)
    <3>1. PICK m : m = DoMint(r, x, item)
      OBVIOUS
    <3>2. /\ Named(r, m, x) /\ DOMAIN m.nacs[x] = DOMAIN r.nacs[x] \cup {item}
          /\ m.nacs[x][item] = BareNac /\ m.known = r.known \cup {x} /\ m.users = r.users
      BY <2>3, <2>6, <3>1, MintNames
    <3>3. IsBook(m)
      BY <3>2 DEF Named, OnlyAt
    <3>4. PICK c : c = [m EXCEPT !.users[x] = <<item, DefaultNacLevel>>]
      OBVIOUS
    <3>5. OnNewAccount(b, x, item) = c
      BY <1>2, <2>1, <2>6, <3>1, <3>4 DEF OnNewAccount, CanMint, IsBook
    <3>6. /\ DOMAIN c = DOMAIN m /\ c.nacs = m.nacs /\ c.vipps = m.vipps /\ c.known = m.known
          /\ DOMAIN c.users = Accounts /\ c.users[x] = <<item, DefaultNacLevel>>
          /\ \A y \in Accounts : y # x => c.users[y] = m.users[y]
      BY <3>3, <3>4 DEF IsBook
    <3>7. IsBook(c)
      BY <3>3, <3>6 DEF IsBook
    <3>8. Recorded(c, x)
      <4>1. LevelOf(BareNac) = DefaultNacLevel
        BY DEF LevelOf, BareNac
      <4> QED
        BY <3>2, <3>6, <4>1 DEF Recorded
    <3>9. Named(m, c, x)
      BY <3>6, <3>7, <3>8 DEF Named, OnlyAt
    <3>10. Named(b, c, x)
      BY <2>4, <3>2, <3>9, NamedTransitive
    <3>11. HasNac(c, x) /\ x \in c.known
      BY <3>2, <3>6 DEF HasNac
    <3>12. ~HasNac(b, x) => IsSingle(c.nacs[x])
      <4>1. ~HasNac(b, x) => DOMAIN c.nacs[x] = {item}
        BY <2>2, <3>2, <3>6 DEF HasNac
      <4> QED
        BY <4>1 DEF IsSingle
    <3> QED
      BY <1>2, <3>5, <3>10, <3>11, <3>12
  <2> QED
    BY <2>5, <2>6
<1> QED
  BY <1>1, <1>2

-----------------------------------------------------------------------------
(* Steps *)

(* Only one account's claims move.                                         *)
LEMMA ClaimSumMoves ==
  ASSUME NEW b, IsBook(b), NEW c, NEW x \in Accounts, OnlyAt(b, c, x)
  PROVE  /\ ClaimSum(b) \in Nat /\ ClaimSum(c) \in Nat
         /\ ClaimSum(c) = ClaimSum(b) + ClaimsIn(c.nacs[x]) - ClaimsIn(b.nacs[x])
<1> DEFINE f == [y \in Accounts |-> ClaimsIn(b.nacs[y])]
           g == [y \in Accounts |-> ClaimsIn(c.nacs[y])]
<1>1. IsBook(c)
  BY DEF OnlyAt
<1>2. \A y \in Accounts : f[y] \in Nat /\ g[y] \in Nat
  BY <1>1, ClaimBalanceType
<1>3. \A y \in Accounts : y # x => g[y] = f[y]
  BY DEF OnlyAt
<1>4. f[x] = ClaimsIn(b.nacs[x]) /\ g[x] = ClaimsIn(c.nacs[x])
  OBVIOUS
<1>5. ClaimSum(b) = SumFunctionOnSet(f, Accounts) /\ ClaimSum(c) = SumFunctionOnSet(g, Accounts)
  BY DEF ClaimSum
<1> HIDE DEF f, g
<1>6. IntegersOn(f, Accounts) /\ IntegersOn(g, Accounts) /\ IsFiniteSet(Accounts)
  BY <1>2, NacAssumption DEF IntegersOn
<1>7. SumFunctionOnSet(f, Accounts) \in Nat /\ SumFunctionOnSet(g, Accounts) \in Nat
  BY <1>2, <1>6, SumOfNaturals
<1>8. SumFunctionOnSet(g, Accounts) = SumFunctionOnSet(f, Accounts) + g[x] - f[x]
  BY <1>3, <1>6, SumUpdate
<1> QED
  BY <1>4, <1>5, <1>7, <1>8

(* The claims stay as they are.                                            *)
LEMMA ClaimsUnchanged ==
  ASSUME ClaimsTyped, Ledger, UNCHANGED claimVars
  PROVE  ClaimsTyped' /\ Ledger' /\ paid' = paid
BY DEF claimVars, ClaimsTyped, Ledger

(* A step that changes the entries of one account keeps the invariant, if   *)
(* it keeps what the invariant says of that account and of the rest.       *)
OthersLive(x) ==
  \A y \in Accounts : y # x =>
    /\ total'[y] = total[y]
    /\ y \in book.known => y \in book'.known
    /\ y \in reborn => y \in reborn'
    /\ y \in foreseen => y \in foreseen'

LEMMA AccountStep ==
  ASSUME MembershipInv, NEW x \in Accounts, OnlyAt(book, book', x), OthersLive(x),
         OtherTypes', ClaimsTyped', Ledger', VippsAreBacked',
         ClaimsIn(book'.nacs[x]) - ClaimsIn(book.nacs[x]) <= paid' - paid,
         Covered(book', x), Recorded(book', x), Lives(x)'
  PROVE  MembershipInv'
<1>1. IsBook(book) /\ IsBook(book') /\ ClaimSum(book) <= paid /\ AccountsHold /\ ClaimsTyped
  BY DEF OnlyAt, MembershipInv
<1>2. ClaimSum(book') <= paid'
  <2>1. /\ ClaimSum(book) \in Nat /\ ClaimSum(book') \in Nat
        /\ ClaimSum(book') = ClaimSum(book) + ClaimsIn(book'.nacs[x]) - ClaimsIn(book.nacs[x])
    BY <1>1, ClaimSumMoves
  <2>2. paid \in Int /\ paid' \in Int
    BY <1>1 DEF ClaimsTyped
  <2>3. ClaimsIn(book'.nacs[x]) \in Nat /\ ClaimsIn(book.nacs[x]) \in Nat
    BY <1>1, ClaimBalanceType
  <2> QED
    BY <1>1, <2>1, <2>2, <2>3
<1>3. ASSUME NEW y \in Accounts, y # x
      PROVE  Covered(book', y) /\ Recorded(book', y) /\ Lives(y)'
  <2>1. Covered(book, y) /\ Recorded(book, y) /\ Lives(y)
    BY <1>1 DEF AccountsHold
  <2>2. book'.nacs[y] = book.nacs[y] /\ book'.vipps[y] = book.vipps[y] /\ book'.users[y] = book.users[y]
    BY <1>3 DEF OnlyAt
  <2>3. /\ total'[y] = total[y] /\ (y \in book.known => y \in book'.known)
        /\ (y \in reborn => y \in reborn') /\ (y \in foreseen => y \in foreseen')
    BY <1>3 DEF OthersLive
  <2>4. Covered(book', y) /\ Recorded(book', y)
    BY <2>1, <2>2 DEF Covered, Recorded, GetActiveVippAmount
  <2>5. Lives(y)'
    BY <2>1, <2>2, <2>3 DEF Lives, HasNac
  <2> QED
    BY <2>4, <2>5
<1>4. AccountsHold'
  BY <1>3 DEF AccountsHold
<1> QED
  BY <1>1, <1>2, <1>4 DEF MembershipInv

(* While nobody pays, nothing is asked of balances.                        *)
LEMMA NobodyPays ==
  ASSUME paying' = Nobody
  PROVE  VippsAreBacked'
BY MembershipAssumption DEF VippsAreBacked

LEMMA BookUnchanged ==
  ASSUME MembershipInv, UNCHANGED <<book, lifeVars>>, paid' = paid, paying' = Nobody,
         OtherTypes', ClaimsTyped', Ledger'
  PROVE  MembershipInv'
<1>1. AccountsHold'
  BY DEF MembershipInv, AccountsHold, Lives, lifeVars
<1>2. ClaimSum(book') <= paid' /\ IsBook(book')
  BY DEF MembershipInv
<1> QED
  BY <1>1, <1>2, NobodyPays DEF MembershipInv

LEMMA NextBlockKeeps ==
  ASSUME MembershipInv, NextBlock
  PROVE  MembershipInv'
<1>1. block' \in Blocks
  BY NacAssumption DEF MembershipInv, OtherTypes, NextBlock, Blocks
<1>2. OtherTypes'
  BY <1>1 DEF MembershipInv, OtherTypes, NextBlock, lifeVars, claimVars
<1>3. ClaimsTyped' /\ Ledger' /\ paid' = paid
  BY ClaimsUnchanged DEF MembershipInv, NextBlock
<1> QED
  BY <1>2, <1>3, BookUnchanged DEF NextBlock

LEMMA FundingKeeps ==
  ASSUME MembershipInv, NEW amount \in Fundings, MintTokensToClaim(amount)
  PROVE  MembershipInv'
<1>1. amount \in Nat
  BY MembershipAssumption
<1>2. OtherTypes'
  BY <1>1 DEF MembershipInv, OtherTypes, MintTokensToClaim, lifeVars
<1>3. ClaimsTyped'
  BY <1>1 DEF MembershipInv, ClaimsTyped, MintTokensToClaim
<1>4. Ledger'
  BY <1>1 DEF MembershipInv, ClaimsTyped, Ledger, MintTokensToClaim
<1> QED
  BY <1>2, <1>3, <1>4, BookUnchanged DEF MintTokensToClaim

(* A claim made is open; a second one to the same address is added.        *)
LEMMA MintClaimKeeps ==
  ASSUME MembershipInv, NEW e \in Addresses, NEW new \in NewClaims, MintClaim(e, new)
  PROVE  MembershipInv'
<1>1. PICK c : c = <<new.instance, e>>
  OBVIOUS
<1>2. c \in Claimants /\ new.amount \in Nat /\ new.item \in Items \cup {NoItem}
  BY <1>1, MembershipAssumption DEF Claimants, Instances
<1>3. PICK old \in Nat : old = IF c \in DOMAIN claims THEN claims[c] ELSE 0
  BY DEF MembershipInv, ClaimsTyped
<1>4. PICK amount \in Nat : amount = new.amount
  BY <1>2
<1>5. PICK value \in Nat : value = amount + old
  OBVIOUS
<1>6. claims' = Put(claims, c, value)
  BY <1>1, <1>3, <1>4, <1>5 DEF MintClaim
<1>7. IsFiniteSet(DOMAIN claims) /\ \A y \in DOMAIN claims : claims[y] \in Nat
  BY DEF MembershipInv, ClaimsTyped
<1>8. /\ DOMAIN claims' = DOMAIN claims \cup {c}
      /\ \A y \in DOMAIN claims \cup {c} : claims'[y] \in Nat
      /\ SumFunctionOnSet(claims', DOMAIN claims') = SumFunctionOnSet(claims, DOMAIN claims) + value - old
  <2>1. PICK f : f = claims
    OBVIOUS
  <2>2. IsFiniteSet(DOMAIN f) /\ \A y \in DOMAIN f : f[y] \in Nat
    BY <1>7, <2>1
  <2>3. /\ DOMAIN Put(f, c, value) = DOMAIN f \cup {c}
        /\ \A y \in DOMAIN f \cup {c} : Put(f, c, value)[y] \in Nat
        /\ SumFunctionOnSet(Put(f, c, value), DOMAIN Put(f, c, value))
             = SumFunctionOnSet(f, DOMAIN f) + value - (IF c \in DOMAIN f THEN f[c] ELSE 0)
    BY <2>2, SumPut
  <2> QED
    BY <1>3, <1>6, <2>1, <2>3
<1>9. IsFiniteSet(DOMAIN claims')
  BY <1>7, <1>8, FS_AddElement
<1>10. /\ DOMAIN claimData' \subseteq DOMAIN claimData \cup {c}
       /\ \A y \in DOMAIN claimData' : claimData'[y] \in Items
  <2>1. CASE new.item = NoItem
    <3>1. claimData' = Drop(claimData, c)
      BY <1>1, <2>1 DEF MintClaim
    <3> QED
      BY <3>1 DEF Drop, MembershipInv, ClaimsTyped
  <2>2. CASE new.item # NoItem
    <3>1. claimData' = Put(claimData, c, new.item) /\ new.item \in Items
      BY <1>1, <1>2, <2>2 DEF MintClaim
    <3> QED
      BY <3>1 DEF Put, MembershipInv, ClaimsTyped
  <2> QED
    BY <2>1, <2>2
<1>11. vesting' \subseteq vesting \cup {c}
  BY <1>1 DEF MintClaim
<1>12. OtherTypes'
  BY <1>2, <1>8, <1>10, <1>11 DEF MembershipInv, OtherTypes, MintClaim, lifeVars
<1>13. ClaimsTyped'
  BY <1>4, <1>8, <1>9, <1>10 DEF MembershipInv, ClaimsTyped, MintClaim
<1>14. Ledger'
  <2>1. SumFunctionOnSet(claims, DOMAIN claims) \in Int
    BY <1>7, SumOfNaturals
  <2>2. assigned' = assigned + amount /\ paid' = paid /\ pot' = pot /\ funded' = funded
    BY <1>4 DEF MintClaim
  <2>3. paid \in Nat /\ assigned = paid + SumFunctionOnSet(claims, DOMAIN claims) /\ pot = funded - paid
    BY DEF MembershipInv, Ledger, ClaimsTyped
  <2>4. assigned' = paid' + SumFunctionOnSet(claims', DOMAIN claims')
    BY <1>5, <1>8, <2>1, <2>2, <2>3
  <2> QED
    BY <2>2, <2>3, <2>4 DEF Ledger
<1> QED
  BY <1>12, <1>13, <1>14, BookUnchanged DEF MintClaim

-----------------------------------------------------------------------------
(* Births and deaths *)

LEMMA ReputationKeeps ==
  ASSUME MembershipInv, NEW a \in Accounts, RecordReputation(a)
  PROVE  MembershipInv'
<1>1. IsBook(book) /\ AccountsHold
  BY DEF MembershipInv
<1>2. /\ DOMAIN book' = DOMAIN book /\ book'.nacs = book.nacs /\ book'.vipps = book.vipps
      /\ book'.users = book.users /\ book'.known = book.known \cup {a}
  BY <1>1 DEF RecordReputation, IsBook
<1>3. IsBook(book')
  BY <1>1, <1>2 DEF IsBook
<1>4. OnlyAt(book, book', a)
  BY <1>2, <1>3 DEF OnlyAt
<1>5. UNCHANGED <<total, foreseen, reborn>> /\ paying' = Nobody
  BY DEF RecordReputation, lifeVars
<1>6. OthersLive(a)
  BY <1>2, <1>5 DEF OthersLive
<1>7. OtherTypes'
  BY <1>5 DEF MembershipInv, OtherTypes, RecordReputation, claimVars
<1>8. ClaimsTyped' /\ Ledger' /\ paid' = paid
  BY ClaimsUnchanged DEF MembershipInv, RecordReputation
<1>9. Covered(book, a) /\ Recorded(book, a) /\ Lives(a)
  BY <1>1 DEF AccountsHold
<1>10. Covered(book', a) /\ Recorded(book', a) /\ Lives(a)'
  BY <1>2, <1>5, <1>9 DEF Covered, Recorded, Lives, HasNac, GetActiveVippAmount
<1>11. ClaimsIn(book'.nacs[a]) - ClaimsIn(book.nacs[a]) <= paid' - paid
  <2>1. ClaimsIn(book.nacs[a]) \in Nat /\ paid \in Nat
    BY <1>1, ClaimBalanceType DEF MembershipInv, ClaimsTyped
  <2> QED
    BY <1>2, <1>8, <2>1
<1> QED
  BY <1>4, <1>5, <1>6, <1>7, <1>8, <1>10, <1>11, NobodyPays, AccountStep

(* What a birth leaves: Known and Foresee together keep Lives, whatever the *)
(* balance becomes.                                                        *)
LEMMA BirthNames ==
  ASSUME MembershipInv, NEW a \in Accounts, Foresee(a), reborn' = reborn
  PROVE  /\ Named(book, Known(book, a), a)
         /\ a \notin reborn => IsSingle(Known(book, a).nacs[a])
                               /\ (HasNac(Known(book, a), a) => a \in Known(book, a).known)
         /\ HasNac(Known(book, a), a) \/ a \in foreseen'
         /\ foreseen \subseteq foreseen'
<1>1. IsBook(book) /\ Lives(a) /\ block \in Blocks /\ total[a] \in Nat
  BY MembershipAssumption DEF MembershipInv, AccountsHold, OtherTypes
<1>2. foreseen \subseteq foreseen'
  BY DEF Foresee
<1>3. CASE total[a] # 0
  <2>1. Known(book, a) = book /\ foreseen' = foreseen
    BY <1>3 DEF Known, Foresee
  <2> QED
    BY <1>1, <1>3, <2>1, NamedReflexive DEF Lives
<1>4. CASE total[a] = 0
  <2>1. PICK c : c = OnNewAccount(book, a, block)
    OBVIOUS
  <2>2. Known(book, a) = c
    BY <1>4, <2>1 DEF Known
  <2>3. /\ Named(book, c, a) /\ a \in c.known
        /\ a \in book.known => c = book
        /\ a \notin book.known => HasNac(c, a)
        /\ ~HasNac(book, a) => IsSingle(c.nacs[a])
    BY <1>1, <2>1, NewAccountNames
  <2>4. a \in book.known => a \in foreseen'
    BY <1>4 DEF Foresee
  <2>5. a \notin reborn => IsSingle(c.nacs[a])
    <3>1. CASE a \in book.known
      BY <1>1, <2>3, <3>1 DEF Lives
    <3>2. CASE a \notin book.known
      BY <1>1, <2>3, <3>2 DEF Lives
    <3> QED
      BY <3>1, <3>2
  <2> QED
    BY <1>2, <2>2, <2>3, <2>4, <2>5
<1> QED
  BY <1>3, <1>4

LEMMA ReceiveKeeps ==
  ASSUME MembershipInv, NEW a \in Accounts, NEW amount \in Transfers, Receive(a, amount)
  PROVE  MembershipInv'
<1>1. IsBook(book) /\ AccountsHold
  BY DEF MembershipInv
<1>2. amount \in Nat /\ MaxBalance \in Nat
  BY MembershipAssumption
<1>3. /\ total' = [total EXCEPT ![a] = @ + amount] /\ total[a] + amount <= MaxBalance
      /\ book' = Known(book, a) /\ Foresee(a) /\ reborn' = reborn /\ paying' = Nobody
  BY DEF Receive
<1>4. total \in [Accounts -> 0 .. MaxBalance]
  BY DEF MembershipInv, OtherTypes
<1>5. /\ Named(book, book', a)
      /\ a \notin reborn => IsSingle(book'.nacs[a]) /\ (HasNac(book', a) => a \in book'.known)
      /\ HasNac(book', a) \/ a \in foreseen'
  BY <1>3, BirthNames
<1>6. foreseen \subseteq foreseen'
  BY <1>3, BirthNames
<1>7. OthersLive(a)
  BY <1>3, <1>4, <1>5, <1>6 DEF OthersLive, Named
<1>8. total' \in [Accounts -> 0 .. MaxBalance]
  BY <1>2, <1>3, <1>4
<1>9. OtherTypes'
  BY <1>8 DEF MembershipInv, OtherTypes, Receive, claimVars
<1>10. ClaimsTyped' /\ Ledger' /\ paid' = paid
  BY ClaimsUnchanged DEF MembershipInv, Receive
<1>11. Covered(book', a) /\ Recorded(book', a) /\ Lives(a)'
  <2>1. Covered(book', a) /\ Recorded(book', a)
    BY <1>1, <1>5, NamedCovered DEF AccountsHold, Named
  <2>2. Lives(a)'
    BY <1>3, <1>5 DEF Lives
  <2> QED
    BY <2>1, <2>2
<1>12. ClaimsIn(book'.nacs[a]) - ClaimsIn(book.nacs[a]) <= paid' - paid
  <2>1. ClaimsIn(book.nacs[a]) \in Nat /\ paid \in Nat
    BY <1>1, ClaimBalanceType DEF MembershipInv, ClaimsTyped
  <2>2. ClaimsIn(book'.nacs[a]) = ClaimsIn(book.nacs[a])
    BY <1>5 DEF Named
  <2> QED
    BY <1>10, <2>1, <2>2
<1> QED
  BY <1>3, <1>5, <1>7, <1>9, <1>10, <1>11, <1>12, NobodyPays, AccountStep DEF Named

-----------------------------------------------------------------------------
(* Calls of the admin *)

LEMMA NamedStep ==
  ASSUME MembershipInv, NEW a \in Accounts, Named(book, book', a),
         UNCHANGED <<block, vips, lifeVars, claimVars>>, paying' = Nobody,
         HasNac(book', a), a \notin reborn => IsSingle(book'.nacs[a]) /\ a \in book'.known
  PROVE  MembershipInv'
<1>1. IsBook(book) /\ AccountsHold
  BY DEF MembershipInv
<1>2. UNCHANGED <<total, foreseen, reborn>>
  BY DEF lifeVars
<1>3. OthersLive(a)
  BY <1>2 DEF OthersLive, Named
<1>4. OtherTypes'
  BY <1>2 DEF MembershipInv, OtherTypes, claimVars
<1>5. ClaimsTyped' /\ Ledger' /\ paid' = paid
  BY ClaimsUnchanged DEF MembershipInv
<1>6. Covered(book', a) /\ Recorded(book', a)
  BY <1>1, NamedCovered DEF AccountsHold, Named
<1>7. Lives(a)'
  BY <1>2 DEF Lives
<1>8. ClaimsIn(book'.nacs[a]) - ClaimsIn(book.nacs[a]) <= paid' - paid
  <2>1. ClaimsIn(book.nacs[a]) \in Nat /\ paid \in Nat
    BY <1>1, ClaimBalanceType DEF MembershipInv, ClaimsTyped
  <2>2. ClaimsIn(book'.nacs[a]) = ClaimsIn(book.nacs[a])
    BY DEF Named
  <2> QED
    BY <1>5, <2>1, <2>2
<1> QED
  BY <1>3, <1>4, <1>5, <1>6, <1>7, <1>8, NobodyPays, AccountStep DEF Named

LEMMA FirstNacIsItem ==
  ASSUME NEW b, IsBook(b), NEW x \in Accounts, HasNac(b, x)
  PROVE  FirstNac(b, x) \in DOMAIN b.nacs[x] /\ LevelOf(b.nacs[x][FirstNac(b, x)]) \in Nat
<1>1. IsNacs(b.nacs[x])
  BY DEF IsBook
<1>2. PICK i \in DOMAIN b.nacs[x] : i = FirstNac(b, x)
  BY <1>1, FirstIsItem DEF HasNac, FirstNac, IsNacs
<1>3. b.nacs[x][i].level \in Attributes
  BY <1>1, ClaimTerm
<1> QED
  BY <1>2, <1>3 DEF LevelOf, Attributes, NoAttribute, DefaultNacLevel

(* A level written to the first NAC.                                       *)
LEMMA LevelKeeps ==
  ASSUME MembershipInv, NEW a \in Accounts, HasNac(book, a), NEW level \in Nat,
         book' = UpdateNftInfo(book, a, FirstNac(book, a), level),
         UNCHANGED <<block, vips, lifeVars, claimVars>>, paying' = Nobody
  PROVE  MembershipInv'
<1>1. IsBook(book) /\ Lives(a)
  BY DEF MembershipInv, AccountsHold
<1>2. PICK i \in DOMAIN book.nacs[a] : i = FirstNac(book, a)
  BY <1>1, FirstNacIsItem
<1>3. /\ Named(book, book', a)
      /\ DOMAIN book'.nacs[a] = DOMAIN book.nacs[a] /\ book'.known = book.known
  BY <1>1, <1>2, UpdateNames
<1>4. HasNac(book', a)
  BY <1>3 DEF HasNac
<1>5. a \notin reborn => IsSingle(book'.nacs[a]) /\ a \in book'.known
  BY <1>1, <1>3 DEF Lives, IsSingle
<1> QED
  BY <1>3, <1>4, <1>5, NamedStep

LEMMA MintNacKeeps ==
  ASSUME MembershipInv, NEW a \in Accounts, NEW level \in Levels, MintNac(a, level)
  PROVE  MembershipInv'
<1>1. IsBook(book) /\ block \in Blocks /\ level \in Nat
  BY NacAssumption DEF MembershipInv, OtherTypes
<1>2. UNCHANGED <<block, vips, lifeVars, claimVars>> /\ paying' = Nobody
  BY DEF MintNac
<1>3. CASE HasNac(book, a)
  <2>1. book' = UpdateNftInfo(book, a, FirstNac(book, a), level)
    BY <1>3 DEF MintNac
  <2> QED
    BY <1>1, <1>2, <1>3, <2>1, LevelKeeps
<1>4. CASE ~HasNac(book, a)
  <2>1. PICK m : m = DoMint(book, a, block)
    OBVIOUS
  <2>2. CanMint(book, a, block) /\ DOMAIN book.nacs[a] = {}
    BY <1>4 DEF HasNac, CanMint
  <2>3. /\ Named(book, m, a) /\ DOMAIN m.nacs[a] = DOMAIN book.nacs[a] \cup {block}
        /\ m.known = book.known \cup {a}
    BY <1>1, <2>1, <2>2, MintNames
  <2>4. IsBook(m) /\ block \in DOMAIN m.nacs[a]
    BY <2>3 DEF Named, OnlyAt
  <2>5. book' = UpdateNftInfo(m, a, block, level)
    BY <1>4, <2>1 DEF MintNac
  <2>6. /\ Named(m, book', a) /\ DOMAIN book'.nacs[a] = DOMAIN m.nacs[a] /\ book'.known = m.known
    BY <1>1, <2>4, <2>5, UpdateNames
  <2>7. Named(book, book', a)
    BY <2>3, <2>6, NamedTransitive
  <2>8. HasNac(book', a) /\ IsSingle(book'.nacs[a]) /\ a \in book'.known
    BY <2>2, <2>3, <2>6 DEF HasNac, IsSingle
  <2> QED
    BY <1>2, <2>7, <2>8, NamedStep
<1> QED
  BY <1>3, <1>4

LEMMA UpdateNftKeeps ==
  ASSUME MembershipInv, NEW a \in Accounts, NEW newLevel \in Levels, NEW keep \in BOOLEAN,
         UpdateNft(a, keep, newLevel)
  PROVE  MembershipInv'
<1>1. IsBook(book) /\ HasNac(book, a)
  BY DEF MembershipInv, UpdateNft
<1>2. PICK level : level = IF keep THEN LevelOf(book.nacs[a][FirstNac(book, a)]) ELSE newLevel
  OBVIOUS
<1>3. level \in Nat
  BY <1>1, <1>2, FirstNacIsItem, NacAssumption
<1>4. book' = UpdateNftInfo(book, a, FirstNac(book, a), level)
  BY <1>2 DEF UpdateNft
<1>5. UNCHANGED <<block, vips, lifeVars, claimVars>> /\ paying' = Nobody
  BY DEF UpdateNft
<1> QED
  BY <1>1, <1>3, <1>4, <1>5, LevelKeeps

-----------------------------------------------------------------------------
(* A claim is paid *)

(* The books of the claims: what leaves the open claims and the pot is paid. *)
LEMMA ClaimLedger ==
  ASSUME MembershipInv, NEW c \in Claimants, NEW a \in Accounts, Claim(c, a)
  PROVE  /\ ClaimsTyped' /\ Ledger' /\ OtherTypes'
         /\ claims[c] \in Nat /\ paid' = paid + claims[c]
<1>1. c \in DOMAIN claims /\ claims[c] <= pot /\ total[a] + claims[c] <= MaxBalance
  BY DEF Claim, ClaimSucceeds
<1>2. ClaimsTyped /\ Ledger /\ OtherTypes
  BY DEF MembershipInv
<1>3. PICK amount \in Nat : amount = claims[c]
  BY <1>1, <1>2 DEF ClaimsTyped
<1>4. PICK f : f = claims
  OBVIOUS
<1>5. IsFiniteSet(DOMAIN f) /\ c \in DOMAIN f /\ \A y \in DOMAIN f : f[y] \in Nat
  BY <1>1, <1>2, <1>4 DEF ClaimsTyped
<1>6. claims' = Drop(f, c)
  BY <1>4 DEF Claim, OpenAfter
<1>7. /\ DOMAIN Drop(f, c) = DOMAIN f \ {c}
      /\ \A y \in DOMAIN f \ {c} : Drop(f, c)[y] \in Nat
      /\ SumFunctionOnSet(Drop(f, c), DOMAIN Drop(f, c)) = SumFunctionOnSet(f, DOMAIN f) - f[c]
  BY <1>5, SumDrop
<1>8. paid' = paid + amount /\ pot' = pot - amount /\ assigned' = assigned /\ funded' = funded
  BY <1>3 DEF Claim
<1>9. IsFiniteSet(DOMAIN claims')
  BY <1>5, <1>6, <1>7, FS_Subset
<1>10. /\ DOMAIN claimData' \subseteq DOMAIN claimData
       /\ \A y \in DOMAIN claimData' : claimData'[y] \in Items
  <2>1. claimData' = Drop(claimData, c)
    BY DEF Claim
  <2> QED
    BY <1>2, <2>1 DEF Drop, ClaimsTyped
<1>11. ClaimsTyped'
  BY <1>2, <1>6, <1>7, <1>8, <1>9, <1>10 DEF ClaimsTyped
<1>12. Ledger'
  <2>1. SumFunctionOnSet(f, DOMAIN f) \in Int
    BY <1>5, SumOfNaturals
  <2>2. /\ assigned = paid + SumFunctionOnSet(f, DOMAIN f) /\ pot = funded - paid
        /\ paid \in Nat /\ funded \in Nat
    BY <1>2, <1>4 DEF Ledger, ClaimsTyped
  <2>3. SumFunctionOnSet(claims', DOMAIN claims') = SumFunctionOnSet(f, DOMAIN f) - amount
    BY <1>3, <1>4, <1>6, <1>7
  <2>4. assigned' = paid' + SumFunctionOnSet(claims', DOMAIN claims') /\ pot' = funded' - paid'
    BY <1>8, <2>1, <2>2, <2>3
  <2> QED
    BY <2>4 DEF Ledger
<1>13. total' \in [Accounts -> 0 .. MaxBalance]
  <2>1. total' = [total EXCEPT ![a] = total[a] + amount] /\ MaxBalance \in Nat
    BY <1>3, MembershipAssumption DEF Claim
  <2>2. total[a] + amount \in 0 .. MaxBalance
    BY <1>1, <1>2, <1>3, <2>1 DEF OtherTypes
  <2> QED
    BY <1>2, <2>1, <2>2 DEF OtherTypes
<1>14. collected' \subseteq Items
  BY <1>2 DEF Claim, ClaimsTyped, OtherTypes
<1>15. pot' \in Nat
  BY <1>1, <1>2, <1>3, <1>8 DEF OtherTypes
<1>16. DOMAIN claims' \subseteq Claimants /\ DOMAIN claimData' \subseteq Claimants
  BY <1>2, <1>4, <1>6, <1>7, <1>10 DEF OtherTypes
<1>17. OtherTypes'
  BY <1>2, <1>13, <1>14, <1>15, <1>16 DEF OtherTypes, Claim
<1> QED
  BY <1>3, <1>8, <1>11, <1>12, <1>17

LEMMA ClaimKeeps ==
  ASSUME MembershipInv, NEW c \in Claimants, NEW a \in Accounts, Claim(c, a)
  PROVE  MembershipInv'
<1>1. IsBook(book) /\ AccountsHold /\ block \in Blocks /\ total \in [Accounts -> 0 .. MaxBalance]
  BY DEF MembershipInv, OtherTypes
<1>2. /\ ClaimsTyped' /\ Ledger' /\ OtherTypes'
      /\ claims[c] \in Nat /\ paid' = paid + claims[c]
  BY ClaimLedger
<1>3. PICK amount \in Nat : amount = claims[c]
  BY <1>2
<1>4. PICK received : received = total[a] + amount
  OBVIOUS
<1>5. total' = [total EXCEPT ![a] = received] /\ Foresee(a) /\ reborn' = reborn /\ paying' = Nobody
  BY <1>3, <1>4 DEF Claim
<1>6. PICK n : n = Known(book, a)
  OBVIOUS
<1>7. /\ Named(book, n, a)
      /\ a \notin reborn => IsSingle(n.nacs[a]) /\ (HasNac(n, a) => a \in n.known)
      /\ HasNac(n, a) \/ a \in foreseen'
      /\ foreseen \subseteq foreseen'
  BY <1>5, <1>6, BirthNames
<1>8. IsBook(n) /\ ClaimsIn(n.nacs[a]) = ClaimsIn(book.nacs[a])
  BY <1>7 DEF Named, OnlyAt
<1>9. Covered(n, a) /\ Recorded(n, a)
  BY <1>1, <1>7, NamedCovered DEF AccountsHold, Named
<1>10. ClaimsIn(n.nacs[a]) \in Nat /\ paid \in Nat
  BY <1>8, ClaimBalanceType DEF MembershipInv, ClaimsTyped
<1>11. /\ Kept(n, book', a)
       /\ ClaimsIn(book'.nacs[a]) <= ClaimsIn(n.nacs[a]) + amount
       /\ Covered(book', a)
  <2>1. CASE c[1] = "VTRS"
    <3>1. HasNac(n, a) /\ book' = OnClaim(n, a, amount, received, block)
      BY <1>3, <1>4, <1>6, <2>1 DEF Claim, ClaimSucceeds
    <3>2. /\ Kept(n, book', a) /\ ClaimsIn(book'.nacs[a]) = ClaimsIn(n.nacs[a]) + amount
          /\ Covered(n, a) => Covered(book', a)
      BY <1>1, <1>8, <3>1, ClaimAdds
    <3> QED
      BY <1>9, <1>10, <3>2
  <2>2. CASE c[1] # "VTRS"
    <3>1. book' = n
      BY <1>6, <2>2 DEF Claim
    <3> QED
      BY <1>8, <1>9, <1>10, <3>1, KeptReflexive
  <2> QED
    BY <2>1, <2>2
<1>12. OnlyAt(book, book', a)
  BY <1>7, <1>11 DEF Named, Kept, OnlyAt
<1>13. book'.known = n.known
  BY <1>11 DEF Kept
<1>14. OthersLive(a)
  BY <1>1, <1>5, <1>7, <1>13 DEF OthersLive, Named
<1>15. /\ HasNac(book', a) <=> HasNac(n, a)
       /\ IsSingle(book'.nacs[a]) <=> IsSingle(n.nacs[a])
       /\ Recorded(book', a)
  BY <1>9, <1>11, KeptMeans
<1>16. Lives(a)'
  BY <1>5, <1>7, <1>13, <1>15 DEF Lives
<1>17. ClaimsIn(book'.nacs[a]) - ClaimsIn(book.nacs[a]) <= paid' - paid
  <2>1. ClaimsIn(book'.nacs[a]) \in Nat
    BY <1>11, ClaimBalanceType DEF Kept, OnlyAt
  <2> QED
    BY <1>2, <1>3, <1>8, <1>10, <1>11, <2>1
<1> QED
  BY <1>2, <1>5, <1>11, <1>12, <1>14, <1>15, <1>16, <1>17, NobodyPays, AccountStep

-----------------------------------------------------------------------------
(* Transactions *)

LEMMA KeptStep ==
  ASSUME MembershipInv, NEW a \in Accounts, Kept(book, book', a), Covered(book', a),
         ClaimsIn(book'.nacs[a]) <= ClaimsIn(book.nacs[a]),
         UNCHANGED <<foreseen, reborn, claimVars>>,
         \A y \in Accounts : y # a => total'[y] = total[y], total'[a] > 0 => total[a] > 0,
         OtherTypes', VippsAreBacked'
  PROVE  MembershipInv'
<1>1. IsBook(book) /\ AccountsHold /\ OnlyAt(book, book', a) /\ book'.known = book.known
  BY DEF MembershipInv, Kept
<1>2. OthersLive(a)
  BY <1>1 DEF OthersLive
<1>3. ClaimsTyped' /\ Ledger' /\ paid' = paid
  BY ClaimsUnchanged DEF MembershipInv
<1>4. Recorded(book, a) /\ Lives(a)
  BY <1>1 DEF AccountsHold
<1>5. /\ HasNac(book', a) <=> HasNac(book, a)
      /\ IsSingle(book'.nacs[a]) <=> IsSingle(book.nacs[a])
      /\ Recorded(book', a)
  BY <1>4, KeptMeans
<1>6. Lives(a)'
  BY <1>1, <1>4, <1>5 DEF Lives
<1>7. ClaimsIn(book'.nacs[a]) - ClaimsIn(book.nacs[a]) <= paid' - paid
  <2>1. /\ ClaimsIn(book.nacs[a]) \in Nat /\ ClaimsIn(book'.nacs[a]) \in Nat /\ paid \in Nat
    BY <1>1, ClaimBalanceType DEF MembershipInv, ClaimsTyped, OnlyAt
  <2> QED
    BY <1>3, <2>1
<1> QED
  BY <1>1, <1>2, <1>3, <1>5, <1>6, <1>7, AccountStep

LEMMA PayFeeKeeps ==
  ASSUME MembershipInv, NEW a \in Accounts, PayFee(a)
  PROVE  MembershipInv'
<1>1. IsBook(book) /\ Covered(book, a) /\ Lives(a) /\ total[a] \in Nat
  BY MembershipAssumption DEF MembershipInv, AccountsHold, OtherTypes
<1>2. PICK c : c = CheckAccountThreshold(book, a, total[a])
  OBVIOUS
<1>3. book' = c /\ paying' = a /\ UNCHANGED <<block, vips, total, foreseen, reborn, claimVars>>
  BY <1>2 DEF PayFee, lifeVars
<1>4. Burnt(book, c, a) /\ (DOMAIN c.vipps[a] = {} \/ ~Poor(c, a, total[a]))
  BY <1>1, <1>2, CheckBurns
<1>5. Kept(book, c, a) /\ Covered(c, a) /\ ClaimsIn(c.nacs[a]) <= ClaimsIn(book.nacs[a])
  BY <1>1, <1>4 DEF Burnt
<1>6. VippsAreBacked'
  <2>1. ASSUME a \notin reborn, GetActiveVippAmount(c, a) > 0
        PROVE  total[a] > Perbill95(GetActiveVippAmount(c, a))
    <3>1. IsBook(c) /\ IsSingle(c.nacs[a])
      BY <1>1, <1>5, <2>1, KeptMeans DEF Lives, Kept, OnlyAt
    <3> QED
      BY <1>1, <1>4, <1>5, <2>1, <3>1, CheckBacks
  <2> QED
    BY <1>3, <2>1 DEF VippsAreBacked, AllVipps
<1>7. OtherTypes'
  BY <1>3 DEF MembershipInv, OtherTypes, claimVars
<1> QED
  BY <1>3, <1>5, <1>6, <1>7, KeptStep

LEMMA SpendKeeps ==
  ASSUME MembershipInv, NEW a \in Accounts, NEW amount \in Transfers \cup {0, total[a]},
         Spend(a, amount)
  PROVE  MembershipInv'
<1>1. IsBook(book) /\ Covered(book, a) /\ Recorded(book, a) /\ Lives(a)
      /\ total \in [Accounts -> 0 .. MaxBalance] /\ MaxBalance \in Nat
  BY MembershipAssumption DEF MembershipInv, AccountsHold, OtherTypes
<1>2. amount \in Nat /\ amount <= total[a]
  BY <1>1, MembershipAssumption DEF Spend
<1>3. total' = [total EXCEPT ![a] = total[a] - amount] /\ paying' = Nobody
      /\ UNCHANGED <<block, vips, claimVars>>
  BY DEF Spend
<1>4. total' \in [Accounts -> 0 .. MaxBalance]
  <2>1. total[a] - amount \in 0 .. MaxBalance
    BY <1>1, <1>2
  <2> QED
    BY <1>1, <1>3, <2>1
<1>5. OtherTypes'
  BY <1>3, <1>4 DEF MembershipInv, OtherTypes, claimVars
<1>6. ClaimsIn(book.nacs[a]) \in Nat /\ paid \in Nat
  BY <1>1, ClaimBalanceType DEF MembershipInv, ClaimsTyped
<1>7. CASE amount # total[a]
  <2>1. UNCHANGED <<book, reborn, foreseen>>
    BY <1>7 DEF Spend
  <2>2. Kept(book, book', a)
    BY <1>1, <2>1, KeptReflexive
  <2>3. total'[a] > 0 => total[a] > 0
    BY <1>1, <1>2, <1>3
  <2>4. \A y \in Accounts : y # a => total'[y] = total[y]
    BY <1>1, <1>3
  <2>5. Covered(book', a) /\ ClaimsIn(book'.nacs[a]) <= ClaimsIn(book.nacs[a])
    BY <1>1, <1>6, <2>1
  <2> QED
    BY <1>3, <1>5, <2>1, <2>2, <2>3, <2>4, <2>5, NobodyPays, KeptStep
<1>8. CASE amount = total[a]
  <2>1. /\ book' = [book EXCEPT !.known = @ \ {a}]
        /\ reborn' = reborn \cup {a} /\ foreseen' = foreseen \ {a}
    BY <1>8 DEF Spend
  <2>2. /\ DOMAIN book' = DOMAIN book /\ book'.nacs = book.nacs /\ book'.vipps = book.vipps
        /\ book'.users = book.users /\ book'.known = book.known \ {a}
    BY <1>1, <2>1 DEF IsBook
  <2>3. IsBook(book')
    BY <1>1, <2>2 DEF IsBook
  <2>4. OnlyAt(book, book', a)
    BY <2>2, <2>3 DEF OnlyAt
  <2>5. OthersLive(a)
    BY <1>1, <1>3, <2>1, <2>2 DEF OthersLive
  <2>6. Covered(book', a) /\ Recorded(book', a)
    BY <1>1, <2>2 DEF Covered, Recorded, GetActiveVippAmount
  <2>7. Lives(a)'
    <3>1. total'[a] = 0
      BY <1>1, <1>3, <1>8
    <3> QED
      BY <2>1, <3>1 DEF Lives
  <2>8. ClaimsTyped' /\ Ledger' /\ paid' = paid
    BY <1>3, ClaimsUnchanged DEF MembershipInv
  <2>9. ClaimsIn(book'.nacs[a]) - ClaimsIn(book.nacs[a]) <= paid' - paid
    BY <1>6, <2>2, <2>8
  <2> QED
    BY <1>3, <1>5, <2>4, <2>5, <2>6, <2>7, <2>8, <2>9, NobodyPays, AccountStep
<1> QED
  BY <1>7, <1>8

LEMMA BecomeVipKeeps ==
  ASSUME MembershipInv, NEW a \in Accounts, BecomeVip(a)
  PROVE  MembershipInv'
<1>1. IsBook(book) /\ Covered(book, a) /\ block \in Blocks
  BY DEF MembershipInv, AccountsHold, OtherTypes
<1>2. PICK result : result = CanMintVipp(book, a, total[a], block)
  OBVIOUS
<1>3. PICK c : c = result.b
  OBVIOUS
<1>4. Raised(book, c, a)
  BY <1>1, <1>2, <1>3, CanMintRaises
<1>5. IsBook(c)
  BY <1>4 DEF Raised, Kept, OnlyAt
<1>6. Raised(book, book', a)
  <2>1. CASE result.minted
    <3>1. book' = [c EXCEPT !.thresholds[a] = <<<<result.item, result.amount>>>>]
      BY <1>2, <1>3, <2>1 DEF BecomeVip
    <3>2. Untouched(c, book')
      BY <1>5, <3>1, ThresholdsUntouched
    <3> QED
      BY <1>4, <3>2, RaisedUntouched
  <2>2. CASE ~result.minted
    <3>1. book' = c
      BY <1>2, <1>3, <2>2 DEF BecomeVip
    <3> QED
      BY <1>4, <3>1
  <2> QED
    BY <2>1, <2>2
<1>7. UNCHANGED <<block, total, foreseen, reborn, claimVars>> /\ paying' = Nobody
      /\ vips' = vips \cup {a}
  BY DEF BecomeVip, lifeVars
<1>8. OtherTypes'
  BY <1>7 DEF MembershipInv, OtherTypes, claimVars
<1>9. ClaimsIn(book.nacs[a]) \in Nat
  BY <1>1, ClaimBalanceType
<1>10. Kept(book, book', a) /\ Covered(book', a) /\ ClaimsIn(book'.nacs[a]) <= ClaimsIn(book.nacs[a])
  BY <1>1, <1>6, <1>9 DEF Raised
<1> QED
  BY <1>7, <1>8, <1>10, NobodyPays, KeptStep

LEMMA ExitVipKeeps ==
  ASSUME MembershipInv, NEW a \in Accounts, NEW penalty \in {0, 1}, ExitVip(a, penalty)
  PROVE  MembershipInv'
<1>1. IsBook(book) /\ Covered(book, a) /\ total \in [Accounts -> 0 .. MaxBalance] /\ MaxBalance \in Nat
  BY MembershipAssumption DEF MembershipInv, AccountsHold, OtherTypes
<1>2. Burnt(book, book', a)
  <2>1. CASE book.thresholds[a] = <<>>
    BY <1>1, <2>1, BurntReflexive DEF ExitVip
  <2>2. CASE book.thresholds[a] # <<>>
    <3>1. PICK c : c = [book EXCEPT !.thresholds[a] = <<>>]
      OBVIOUS
    <3>2. Untouched(book, c)
      BY <1>1, <3>1, ThresholdsUntouched
    <3>3. Kept(book, c, a)
      BY <1>1, <3>2, UntouchedKept
    <3>4. IsBook(c) /\ c.nacs = book.nacs /\ c.vipps = book.vipps
      BY <3>2, <3>3 DEF Kept, OnlyAt, Untouched
    <3>5. Burnt(book, c, a)
      <4>1. ClaimsIn(book.nacs[a]) \in Nat
        BY <1>1, ClaimBalanceType
      <4> QED
        BY <3>3, <3>4, <4>1 DEF Burnt, Covered, GetActiveVippAmount
    <3>6. book' = BurnAllVipps(c, a)
      BY <2>2, <3>1 DEF ExitVip
    <3>7. Burnt(c, book', a)
      BY <3>4, <3>6, BurnAllBurns
    <3> QED
      BY <1>1, <3>5, <3>7, BurntTransitive
  <2> QED
    BY <2>1, <2>2
<1>3. /\ UNCHANGED <<block, foreseen, reborn, claimVars>> /\ paying' = Nobody
      /\ vips' = vips \ {a} /\ penalty < total[a]
      /\ total' = [total EXCEPT ![a] = total[a] - penalty]
  BY DEF ExitVip
<1>4. total[a] - penalty \in 0 .. MaxBalance
  BY <1>1, <1>3
<1>5. total' \in [Accounts -> 0 .. MaxBalance] /\ \A y \in Accounts : y # a => total'[y] = total[y]
  BY <1>1, <1>3, <1>4
<1>6. total'[a] > 0 => total[a] > 0
  BY <1>1, <1>3
<1>7. OtherTypes'
  BY <1>3, <1>5 DEF MembershipInv, OtherTypes, claimVars
<1>8. Kept(book, book', a) /\ Covered(book', a) /\ ClaimsIn(book'.nacs[a]) <= ClaimsIn(book.nacs[a])
  BY <1>1, <1>2 DEF Burnt
<1> QED
  BY <1>3, <1>5, <1>6, <1>7, <1>8, NobodyPays, KeptStep

-----------------------------------------------------------------------------
(* Theorems *)

(* At genesis there are bare NACs for who is listed, no VIPP and no claim.  *)
LEMMA InitKeeps ==
  ASSUME Init
  PROVE  MembershipInv
<1>1. PICK endowed \in SUBSET Accounts, level \in Levels, listed \in SUBSET Accounts :
        /\ listed \subseteq endowed
        /\ book = [nacs       |-> [a \in Accounts |->
                                    IF a \in listed THEN Put(Nothing, 0, [BareNac EXCEPT !.level = level])
                                    ELSE Nothing],
                   vipps      |-> [a \in Accounts |-> Nothing],
                   users      |-> [a \in Accounts |->
                                    IF a \in listed THEN <<0, level>> ELSE <<>>],
                   thresholds |-> [a \in Accounts |-> <<>>],
                   known      |-> endowed]
        /\ total = [a \in Accounts |-> IF a \in endowed THEN 1 ELSE 0]
        /\ foreseen = endowed \ listed
  BY DEF Init
<1>2. level \in Nat /\ 0 \in Blocks /\ MaxBalance \in Nat \ {0}
  BY NacAssumption, MembershipAssumption DEF Blocks
<1>3. PICK nac : nac = [BareNac EXCEPT !.level = level]
  OBVIOUS
<1>4. nac \in NacRecords /\ nac.level = level /\ nac.claim = NoAttribute
  BY <1>2, <1>3 DEF BareNac, NacRecords, Attributes, NoAttribute
<1>5. PICK one : one = Put(Nothing, 0, nac)
  OBVIOUS
<1>6. DOMAIN one = {0} /\ one[0] = nac /\ DOMAIN Nothing = {}
  BY <1>5 DEF Put, Nothing
<1>7. IsNacs(one) /\ IsNacs(Nothing) /\ IsVipps(Nothing) /\ IsSingle(one) /\ IsSingle(Nothing)
  BY <1>2, <1>4, <1>6 DEF IsNacs, IsVipps, IsSingle
<1>8. ClaimsIn(one) = 0 /\ ClaimsIn(Nothing) = 0
  <2>1. ClaimTerms(one)[0] = 0
    BY <1>4, <1>6, <1>7, ClaimTerm
  <2>2. ClaimsIn(one) = ClaimTerms(one)[0]
    BY <1>6, <1>7, ClaimsCover
  <2> QED
    BY <1>6, <2>1, <2>2, ClaimsOfNone
<1>9. /\ DOMAIN book = {"nacs", "vipps", "users", "thresholds", "known"}
      /\ DOMAIN book.nacs = Accounts /\ DOMAIN book.vipps = Accounts /\ DOMAIN book.users = Accounts
      /\ book.known = endowed
  BY <1>1
<1>10. \A a \in Accounts :
         /\ book.nacs[a] = (IF a \in listed THEN one ELSE Nothing)
         /\ book.vipps[a] = Nothing
         /\ book.users[a] = (IF a \in listed THEN <<0, level>> ELSE <<>>)
         /\ total[a] = (IF a \in endowed THEN 1 ELSE 0)
  BY <1>1, <1>3, <1>5
<1>11. IsBook(book)
  BY <1>7, <1>9, <1>10 DEF IsBook
<1>12. \A a \in Accounts : ClaimsIn(book.nacs[a]) = 0
  BY <1>8, <1>10
<1>13. ClaimSum(book) = 0
  <2> DEFINE f == [x \in Accounts |-> ClaimsIn(book.nacs[x])]
  <2>1. \A x \in Accounts : f[x] = 0
    BY <1>12
  <2>2. ClaimSum(book) = SumFunctionOnSet(f, Accounts)
    BY DEF ClaimSum
  <2> HIDE DEF f
  <2> QED
    BY <2>1, <2>2, SumOfZeros, NacAssumption
<1>14. ASSUME NEW x \in Accounts PROVE Covered(book, x) /\ Recorded(book, x) /\ Lives(x)
  <2>1. Covered(book, x)
    <3>1. GetActiveVippAmount(book, x) = 0
      BY <1>6, <1>10, SumEmpty DEF GetActiveVippAmount
    <3> QED
      BY <1>12, <3>1 DEF Covered
  <2>2. CASE x \in listed
    <3>1. LevelOf(nac) = level
      BY <1>2, <1>4 DEF LevelOf, NoAttribute
    <3>2. Recorded(book, x)
      BY <1>6, <1>10, <2>2, <3>1 DEF Recorded
    <3>3. Lives(x)
      BY <1>1, <1>6, <1>7, <1>9, <1>10, <2>2 DEF Lives, HasNac
    <3> QED
      BY <2>1, <3>2, <3>3
  <2>3. CASE x \notin listed
    <3>1. Recorded(book, x)
      BY <1>10, <2>3 DEF Recorded
    <3>2. Lives(x)
      BY <1>1, <1>6, <1>7, <1>9, <1>10, <2>3 DEF Lives, HasNac
    <3> QED
      BY <2>1, <3>1, <3>2
  <2> QED
    BY <2>2, <2>3
<1>15. AccountsHold
  BY <1>14 DEF AccountsHold
<1>16. total \in [Accounts -> 0 .. MaxBalance]
  BY <1>1, <1>2
<1>17. /\ block = 0 /\ vips = {} /\ claims = Nothing /\ claimData = Nothing
       /\ vesting = {} /\ vested = {} /\ pot = 0 /\ collected = {} /\ paying = Nobody
       /\ assigned = 0 /\ paid = 0 /\ funded = 0
  BY DEF Init
<1>18. OtherTypes
  BY <1>2, <1>6, <1>16, <1>17 DEF OtherTypes
<1>19. ClaimsTyped
  BY <1>6, <1>17, FS_EmptySet DEF ClaimsTyped
<1>20. Ledger
  BY <1>6, <1>17, SumEmpty DEF Ledger
<1>21. VippsAreBacked
  BY <1>17, MembershipAssumption DEF VippsAreBacked
<1> QED
  BY <1>11, <1>13, <1>15, <1>17, <1>18, <1>19, <1>20, <1>21 DEF MembershipInv

LEMMA NextKeeps ==
  ASSUME MembershipInv, [Next]_vars
  PROVE  MembershipInv'
<1>1. CASE NextBlock
  BY <1>1, NextBlockKeeps
<1>2. ASSUME NEW a \in Accounts, RecordReputation(a) PROVE MembershipInv'
  BY <1>2, ReputationKeeps
<1>3. ASSUME NEW a \in Accounts, NEW amount \in Transfers, Receive(a, amount) PROVE MembershipInv'
  BY <1>3, ReceiveKeeps
<1>4. ASSUME NEW a \in Accounts, NEW level \in Levels, MintNac(a, level) PROVE MembershipInv'
  BY <1>4, MintNacKeeps
<1>5. ASSUME NEW a \in Accounts, NEW level \in Levels, NEW keep \in BOOLEAN, UpdateNft(a, keep, level)
      PROVE  MembershipInv'
  BY <1>5, UpdateNftKeeps
<1>6. ASSUME NEW a \in Accounts, NEW c \in Claimants, Claim(c, a) PROVE MembershipInv'
  BY <1>6, ClaimKeeps
<1>7. ASSUME NEW a \in Accounts, PayFee(a) PROVE MembershipInv'
  BY <1>7, PayFeeKeeps
<1>8. ASSUME NEW a \in Accounts, NEW amount \in Transfers \cup {0, total[a]}, Spend(a, amount)
      PROVE  MembershipInv'
  BY <1>8, SpendKeeps
<1>9. ASSUME NEW a \in Accounts, BecomeVip(a) PROVE MembershipInv'
  BY <1>9, BecomeVipKeeps
<1>10. ASSUME NEW a \in Accounts, NEW penalty \in {0, 1}, ExitVip(a, penalty) PROVE MembershipInv'
  BY <1>10, ExitVipKeeps
<1>11. ASSUME NEW amount \in Fundings, MintTokensToClaim(amount) PROVE MembershipInv'
  BY <1>11, FundingKeeps
<1>12. ASSUME NEW e \in Addresses, NEW new \in NewClaims, MintClaim(e, new) PROVE MembershipInv'
  BY <1>12, MintClaimKeeps
<1>13. CASE UNCHANGED vars
  <2>1. UNCHANGED <<block, book, vips, paying, total, foreseen, reborn, claimVars>>
    BY <1>13 DEF vars, lifeVars
  <2>2. ClaimsTyped' /\ Ledger' /\ paid' = paid
    BY <2>1, ClaimsUnchanged DEF MembershipInv
  <2>3. OtherTypes'
    BY <2>1 DEF MembershipInv, OtherTypes, claimVars
  <2>4. AccountsHold'
    BY <2>1 DEF MembershipInv, AccountsHold, Lives
  <2>5. VippsAreBacked'
    BY <2>1 DEF MembershipInv, VippsAreBacked, AllVipps
  <2> QED
    BY <2>1, <2>2, <2>3, <2>4, <2>5 DEF MembershipInv
<1> QED
  BY <1>1, <1>2, <1>3, <1>4, <1>5, <1>6, <1>7, <1>8, <1>9, <1>10, <1>11, <1>12, <1>13 DEF Next

(* The inductive invariant: types, the books of the claims, and of each     *)
(* account that its VIPPs are covered, its level recorded, and that it has  *)
(* one NAC and a reputation record unless it died.                         *)
THEOREM MembershipInvariant == Spec => []MembershipInv
<1>1. Init => MembershipInv
  BY InitKeeps
<1>2. MembershipInv /\ [Next]_vars => MembershipInv'
  BY NextKeeps
<1> QED
  BY <1>1, <1>2, PTL DEF Spec

(* ClaimsAddUp: what was assigned is paid or open, the shared pot has what  *)
(* was minted and not paid, and NACs record no more than what was paid,     *)
(* whatever the claims of both instances, their order and their schedules. *)
THEOREM ClaimsAlwaysAddUp == Spec => []ClaimsAddUp
<1>1. ASSUME MembershipInv PROVE ClaimsAddUp
  <2>1. TypeOK
    BY <1>1 DEF MembershipInv, TypeOK, OtherTypes, IsBook, IsNacs, IsVipps
  <2>2. SumFunctionOnSet([a \in Accounts |-> AllClaims(a)], Accounts) <= paid
    BY <1>1 DEF MembershipInv, ClaimSum, AllClaims
  <2> QED
    BY <1>1, <2>1, <2>2 DEF ClaimsAddUp, MembershipInv, Ledger
<1> QED
  BY <1>1, MembershipInvariant, PTL

(* MembersHaveNacs: who has money has a NAC, unless reputation knew of the  *)
(* account before its birth, and UsersNft tells the level of the item.      *)
THEOREM MembersAlwaysHaveNacs == Spec => []MembersHaveNacs
<1>1. ASSUME MembershipInv PROVE MembersHaveNacs
  BY <1>1 DEF MembershipInv, AccountsHold, Lives, Recorded, MembersHaveNacs
<1> QED
  BY <1>1, MembershipInvariant, PTL

(* VippsAreClaimed: the VIPPs of an account are never for more than its     *)
(* NACs record, through burns, deaths, second NACs and ids that are taken.  *)
THEOREM VippsAlwaysClaimed == Spec => []VippsAreClaimed
<1>1. ASSUME MembershipInv PROVE VippsAreClaimed
  BY <1>1 DEF MembershipInv, AccountsHold, Covered, VippsAreClaimed, AllVipps, AllClaims
<1> QED
  BY <1>1, MembershipInvariant, PTL

(* VippsAreBacked: who pays a fee and never died keeps VIPPs only for what  *)
(* its balance covers by 95 percent.                                       *)
THEOREM VippsAlwaysBacked == Spec => []VippsAreBacked
<1>1. MembershipInv => VippsAreBacked
  BY DEF MembershipInv
<1> QED
  BY <1>1, MembershipInvariant, PTL

-----------------------------------------------------------------------------
(* Years of privileges: dates                                              *)

LEMMA YearsTypes ==
  /\ DaysPerYear \in Nat \ {0} /\ MaxUpdateDays \in Nat \ {0} /\ IncreaseConstant \in Nat \ {0}
  /\ MaxDay \in Nat /\ MaxGap \in Nat /\ MaxThreshold \in Nat /\ Funds \in Nat
  /\ Stakes \subseteq Nat /\ Thresholds \subseteq Nat /\ RewardSums \subseteq Nat /\ ForcedPoints \subseteq Nat
  /\ IsFiniteSet(Members)
BY PrivilegesAssumption

LEMMA RemainderIs ==
  ASSUME NEW a \in Nat, NEW b \in Nat \ {0}
  PROVE  a % b \in Nat /\ a % b < b /\ a = (b * (a \div b)) + (a % b)
BY Z3

(* The year y of a date, the day i of it, and the days p of the years before. *)
IsDate(d, n, y, i, p) ==
  /\ y = Year(d) /\ i = DaysSinceNewYear(d) /\ p = n * y
  /\ d = p + i /\ i < n /\ n * (y + 1) = p + n

LEMMA DateIs ==
  ASSUME NEW d \in Nat, NEW n \in Nat \ {0}, n = DaysPerYear
  PROVE  \E y \in Nat, i \in Nat, p \in Nat : IsDate(d, n, y, i, p)
<1>1. PICK y \in Nat : y = d \div n
  BY DivIs
<1>2. PICK i \in Nat : i = d % n /\ i < n /\ d = n * y + i
  BY <1>1, RemainderIs
<1>3. PICK p \in Nat : p = n * y
  BY ProductIs
<1>4. n * (y + 1) = n * y + n
  BY Z3
<1>5. IsDate(d, n, y, i, p)
  BY <1>1, <1>2, <1>3, <1>4 DEF IsDate, Year, DaysSinceNewYear
<1> QED
  BY <1>5

(* Years do not go back, and a new one begins on its first day.             *)
LEMMA YearsPass ==
  ASSUME NEW d \in Nat, NEW e \in Nat, d <= e
  PROVE  /\ Year(d) <= Year(e)
         /\ d < e /\ DaysSinceNewYear(e) = 0 => Year(d) < Year(e)
<1>1. PICK n \in Nat \ {0} : n = DaysPerYear
  BY YearsTypes
<1>2. PICK y \in Nat, i \in Nat, p \in Nat : IsDate(d, n, y, i, p)
  BY <1>1, DateIs
<1>3. PICK z \in Nat, j \in Nat, q \in Nat : IsDate(e, n, z, j, q)
  BY <1>1, DateIs
<1>4. y <= z
  <2> SUFFICES ASSUME z + 1 <= y PROVE FALSE
    OBVIOUS
  <2>1. n * (z + 1) <= n * y
    BY ProductLess
  <2> QED
    BY <1>2, <1>3, <2>1 DEF IsDate
<1>5. ASSUME d < e, j = 0 PROVE y < z
  <2> SUFFICES ASSUME z <= y PROVE FALSE
    OBVIOUS
  <2>1. n * z <= n * y
    BY ProductLess
  <2> QED
    BY <1>2, <1>3, <1>5, <2>1 DEF IsDate
<1> QED
  BY <1>2, <1>3, <1>4, <1>5 DEF IsDate

LEMMA YearType ==
  ASSUME NEW d \in Nat
  PROVE  Year(d) \in Nat /\ DaysSinceNewYear(d) \in Nat
BY YearsTypes, DivIs, RemainderIs DEF Year, DaysSinceNewYear

LEMMA NextDay ==
  ASSUME NEW d \in Nat
  PROVE  /\ DaysSinceNewYear(d + 1) # 0 => Year(d + 1) = Year(d)
         /\ DaysSinceNewYear(d + 1) = 0 => Year(d + 1) = Year(d) + 1
<1>1. PICK n \in Nat \ {0} : n = DaysPerYear
  BY YearsTypes
<1>2. PICK y \in Nat, i \in Nat, p \in Nat : IsDate(d, n, y, i, p)
  BY <1>1, DateIs
<1>3. PICK e \in Nat : e = d + 1
  OBVIOUS
<1>4. PICK z \in Nat, j \in Nat, q \in Nat : IsDate(e, n, z, j, q)
  BY <1>1, DateIs
<1>5. y <= z /\ (j = 0 => y < z)
  BY <1>2, <1>3, <1>4, YearsPass DEF IsDate
<1>6. ASSUME j # 0 PROVE z <= y
  <2> SUFFICES ASSUME y + 1 <= z PROVE FALSE
    OBVIOUS
  <2>1. n * (y + 1) <= n * z
    BY ProductLess
  <2> QED
    BY <1>2, <1>3, <1>4, <1>6, <2>1 DEF IsDate
<1>7. z <= y + 1
  <2>1. n * z <= n * (y + 1)
    BY <1>2, <1>3, <1>4 DEF IsDate
  <2> QED
    BY <2>1, CancelFactor
<1> QED
  BY <1>2, <1>3, <1>4, <1>5, <1>6, <1>7 DEF IsDate

LEMMA PointsType ==
  ASSUME NEW stake \in Nat, NEW elapsed \in Nat
  PROVE  Points(stake, elapsed) \in Nat
<1>1. PICK v \in Nat \ {0} : v = IncreaseConstant + elapsed
  BY YearsTypes
<1>2. PICK a \in Nat, b \in Nat \ {0} : a = 2 * stake + v - 1 /\ b = 2 * v
  OBVIOUS
<1>3. a \div b \in Nat
  BY DivIs
<1> QED
  BY <1>1, <1>2, <1>3 DEF Points

-----------------------------------------------------------------------------
(* Maps *)

IsMap(f, K, V) == DOMAIN f \subseteq K /\ f \in [DOMAIN f -> V]

LEMMA PutIs ==
  ASSUME NEW K, NEW V, NEW f, IsMap(f, K, V), NEW x \in K, NEW v \in V
  PROVE  /\ IsMap(Put(f, x, v), K, V)
         /\ DOMAIN Put(f, x, v) = DOMAIN f \cup {x} /\ Put(f, x, v)[x] = v
         /\ \A y \in DOMAIN f : y # x => Put(f, x, v)[y] = f[y]
BY DEF IsMap, Put

LEMMA DropIs ==
  ASSUME NEW K, NEW V, NEW f, IsMap(f, K, V), NEW x
  PROVE  /\ IsMap(Drop(f, x), K, V)
         /\ DOMAIN Drop(f, x) = DOMAIN f \ {x}
         /\ \A y \in DOMAIN f : y # x => Drop(f, x)[y] = f[y]
BY DEF IsMap, Drop

(* A map may have more keys than it needs.                                 *)
LEMMA MapOfMore ==
  ASSUME NEW K, NEW V, NEW f, IsMap(f, K, V), NEW L, K \subseteq L
  PROVE  IsMap(f, L, V)
BY DEF IsMap

LEMMA NothingIs ==
  ASSUME NEW K, NEW V
  PROVE  IsMap(Nothing, K, V) /\ DOMAIN Nothing = {}
BY DEF IsMap, Nothing

-----------------------------------------------------------------------------
(* Books: points are filed under the years before y, and earned till y.     *)

VipRecord == [points : Nat, stake : Stakes \cup {0}]
VippRecord == [points : Nat, threshold : Nat]

IsFiled(filed, y) == IsMap(filed, (0 .. y - 1) \X Members, Nat)
IsEarned(f, y) == IsMap(f, (0 .. y) \X Members, Nat)

IsBooks(b, y) ==
  /\ DOMAIN b = {"vip", "vipp", "vipPoints", "vippPoints", "earned", "due"}
  /\ b = [i \in DOMAIN b |-> b[i]]
  /\ IsMap(b.vip, Members, VipRecord) /\ IsMap(b.vipp, Members, VippRecord)
  /\ IsFiled(b.vipPoints, y) /\ IsFiled(b.vippPoints, y)
  /\ IsEarned(b.earned, y)

(* What one year files is not touched by the next.                         *)
SameBefore(f, g, y) ==
  \A k \in (0 .. y - 1) \X Members :
    /\ k \in DOMAIN f <=> k \in DOMAIN g
    /\ k \in DOMAIN f => g[k] = f[k]

LEMMA YearsGrow ==
  ASSUME NEW y \in Nat, NEW z \in Nat, y <= z, NEW f
  PROVE  /\ IsFiled(f, y) => IsFiled(f, z)
         /\ IsEarned(f, y) => IsEarned(f, z)
<1>1. (0 .. y - 1) \X Members \subseteq (0 .. z - 1) \X Members
  OBVIOUS
<1>2. (0 .. y) \X Members \subseteq (0 .. z) \X Members
  OBVIOUS
<1> QED
  BY <1>1, <1>2, MapOfMore DEF IsFiled, IsEarned

(* The fields of the books after the points of a day.                       *)
PointsOf(b, a, elapsed) == IF a \in DOMAIN b.vip THEN Points(b.vip[a].stake, elapsed) ELSE 0

PointsGiven(b, r, y, elapsed) ==
  /\ r.vipPoints = b.vipPoints /\ r.vippPoints = b.vippPoints
  /\ DOMAIN r.vip = DOMAIN b.vip /\ DOMAIN r.vipp = DOMAIN b.vipp
  /\ \A a \in DOMAIN b.vip : r.vip[a].points = b.vip[a].points + PointsOf(b, a, elapsed)
  /\ \A k \in (0 .. y) \X Members :
       At(r.earned, k, 0) = At(b.earned, k, 0) + (IF k[1] = y THEN PointsOf(b, k[2], elapsed) ELSE 0)

LEMMA PointsOfType ==
  ASSUME NEW b, NEW y, IsBooks(b, y), NEW a, NEW elapsed \in Nat
  PROVE  PointsOf(b, a, elapsed) \in Nat
<1>1. CASE a \in DOMAIN b.vip
  <2>1. b.vip[a].stake \in Nat
    BY <1>1, YearsTypes DEF IsBooks, IsMap, VipRecord
  <2> QED
    BY <1>1, <2>1, PointsType DEF PointsOf
<1> QED
  BY <1>1 DEF PointsOf

LEMMA UpdatePointsIs ==
  ASSUME NEW y \in Nat, NEW z \in Nat, y <= z, NEW b, IsBooks(b, y),
         NEW day \in Nat, Year(day) = z, DaysSinceNewYear(day) \in Nat \ {0}
  PROVE  /\ IsBooks(UpdatePoints(b, day), z)
         /\ PointsGiven(b, UpdatePoints(b, day), z, DaysSinceNewYear(day))
<1>1. PICK elapsed \in Nat : elapsed = DaysSinceNewYear(day) /\ elapsed # 0
  OBVIOUS
<1>2. PICK f : f = [a \in DOMAIN b.vip |->
                      [b.vip[a] EXCEPT !.points = @ + Points(b.vip[a].stake, DaysSinceNewYear(day))]]
  OBVIOUS
<1>3. PICK g : g = [a \in DOMAIN b.vipp |->
                      [b.vipp[a] EXCEPT !.points = @ +
                         Lesser(b.vipp[a].threshold,
                                IF a \in DOMAIN b.vip THEN b.vip[a].stake ELSE 0)]]
  OBVIOUS
<1>4. PICK h : h = [k \in DOMAIN b.earned \cup {<<Year(day), a>> : a \in DOMAIN b.vip} |->
                      At(b.earned, k, 0) +
                        (IF k[1] = Year(day) /\ k[2] \in DOMAIN b.vip
                         THEN Points(b.vip[k[2]].stake, DaysSinceNewYear(day)) ELSE 0)]
  OBVIOUS
<1>5. UpdatePoints(b, day) = [b EXCEPT !.vip = f, !.vipp = g, !.earned = h]
  <2>1. DaysSinceNewYear(day) # 0
    BY <1>1
  <2> QED
    BY <1>2, <1>3, <1>4, <2>1, Zenon DEF UpdatePoints
<1>6. \A a \in DOMAIN b.vip :
        /\ b.vip[a] \in VipRecord /\ a \in Members
        /\ PointsOf(b, a, elapsed) = Points(b.vip[a].stake, elapsed)
        /\ PointsOf(b, a, elapsed) \in Nat
  BY PointsOfType DEF IsBooks, IsMap, PointsOf
<1>7. IsMap(f, Members, VipRecord) /\ DOMAIN f = DOMAIN b.vip
      /\ \A a \in DOMAIN b.vip : f[a].points = b.vip[a].points + PointsOf(b, a, elapsed)
  BY <1>1, <1>2, <1>6 DEF IsMap, VipRecord
<1>8. IsMap(g, Members, VippRecord) /\ DOMAIN g = DOMAIN b.vipp
  <2>1. \A a \in DOMAIN b.vip : b.vip[a].stake \in Nat
    <3> SUFFICES ASSUME NEW a \in DOMAIN b.vip PROVE b.vip[a].stake \in Nat
      OBVIOUS
    <3>1. PICK m : m = b.vip[a] /\ m \in VipRecord
      BY <1>6
    <3>2. m.stake \in Stakes \cup {0}
      BY <3>1 DEF VipRecord
    <3>3. Stakes \cup {0} \subseteq Nat
      BY YearsTypes
    <3> QED
      BY <3>1, <3>2, <3>3, Zenon
  <2>2. \A a \in DOMAIN b.vipp :
          /\ b.vipp[a] \in VippRecord /\ a \in Members
          /\ Lesser(b.vipp[a].threshold, IF a \in DOMAIN b.vip THEN b.vip[a].stake ELSE 0) \in Nat
    BY <2>1 DEF IsBooks, IsMap, VippRecord, Lesser
  <2> QED
    BY <1>3, <2>2 DEF IsMap, VippRecord
<1>9. IsEarned(h, z)
  <2>1. IsEarned(b.earned, z)
    BY YearsGrow DEF IsBooks
  <2>2. \A k \in DOMAIN b.earned \cup {<<z, a>> : a \in DOMAIN b.vip} :
          /\ k \in (0 .. z) \X Members
          /\ At(b.earned, k, 0) \in Nat
          /\ (IF k[1] = z /\ k[2] \in DOMAIN b.vip
              THEN Points(b.vip[k[2]].stake, elapsed) ELSE 0) \in Nat
    BY <1>6, <2>1 DEF IsEarned, IsMap, At
  <2> QED
    BY <1>1, <1>4, <2>2 DEF IsEarned, IsMap
<1>10. ASSUME NEW k \in (0 .. z) \X Members
       PROVE  At(h, k, 0) = At(b.earned, k, 0) + (IF k[1] = z THEN PointsOf(b, k[2], elapsed) ELSE 0)
  <2>1. At(b.earned, k, 0) \in Nat
    BY DEF IsBooks, IsEarned, IsMap, At
  <2>2. PICK m \in Nat : m = IF k[1] = z /\ k[2] \in DOMAIN b.vip
                            THEN Points(b.vip[k[2]].stake, elapsed) ELSE 0
    BY <1>6
  <2>3. m = IF k[1] = z THEN PointsOf(b, k[2], elapsed) ELSE 0
    BY <2>2 DEF PointsOf
  <2>4. CASE k \in DOMAIN h
    <3>1. h[k] = At(b.earned, k, 0) + m
      BY <1>1, <1>4, <2>2, <2>4
    <3> QED
      BY <2>3, <2>4, <3>1 DEF At
  <2>5. CASE k \notin DOMAIN h
    <3>1. k \notin DOMAIN b.earned
      BY <1>4, <2>5
    <3>2. k = <<k[1], k[2]>>
      OBVIOUS
    <3>3. ~(k[1] = z /\ k[2] \in DOMAIN b.vip)
      BY <1>4, <2>5, <3>2
    <3>4. m = 0
      BY <2>2, <3>3
    <3> QED
      BY <2>3, <2>5, <3>1, <3>4 DEF At
  <2> QED
    BY <2>4, <2>5
<1>11. PICK r : r = UpdatePoints(b, day)
  OBVIOUS
<1>12. /\ DOMAIN r = DOMAIN b /\ r = [i \in DOMAIN r |-> r[i]]
       /\ r.vip = f /\ r.vipp = g /\ r.earned = h
       /\ r.vipPoints = b.vipPoints /\ r.vippPoints = b.vippPoints
  BY <1>5, <1>11 DEF IsBooks
<1>13. IsFiled(r.vipPoints, z) /\ IsFiled(r.vippPoints, z)
  BY <1>12, YearsGrow DEF IsBooks
<1>14. IsBooks(r, z)
  BY <1>7, <1>8, <1>9, <1>12, <1>13 DEF IsBooks
<1>15. PointsGiven(b, r, z, elapsed)
  BY <1>7, <1>8, <1>10, <1>12 DEF PointsGiven
<1> QED
  BY <1>1, <1>11, <1>14, <1>15

IsList(list) ==
  DOMAIN list \subseteq Members /\ \A a \in DOMAIN list : list[a].points \in Nat

FiledIn(filed, r, list, z) ==
  /\ DOMAIN r = DOMAIN filed \cup {<<z, a>> : a \in DOMAIN list}
  /\ \A a \in DOMAIN list : r[<<z, a>>] = list[a].points
  /\ \A k \in DOMAIN filed : r[k] = filed[k]

LEMMA FileIs ==
  ASSUME NEW y \in Nat, NEW z \in Nat, y <= z, NEW filed, IsFiled(filed, y),
         NEW list, IsList(list)
  PROVE  /\ IsFiled(File(filed, list, z), z + 1)
         /\ FiledIn(filed, File(filed, list, z), list, z)
<1>1. \A k \in DOMAIN filed : k \in (0 .. y - 1) \X Members /\ filed[k] \in Nat
  BY DEF IsFiled, IsMap
<1>2. \A k \in DOMAIN filed : k[1] # z /\ k \in (0 .. z) \X Members
  BY <1>1
<1>3. PICK r : r = File(filed, list, z)
  OBVIOUS
<1>4. r = [k \in DOMAIN filed \cup {<<z, a>> : a \in DOMAIN list} |->
            IF k[1] = z /\ k[2] \in DOMAIN list THEN list[k[2]].points ELSE filed[k]]
  BY <1>3 DEF File
<1>5. DOMAIN r = DOMAIN filed \cup {<<z, a>> : a \in DOMAIN list}
  BY <1>4
<1>6. \A k \in DOMAIN filed : r[k] = filed[k]
  BY <1>2, <1>4
<1>7. \A a \in DOMAIN list : r[<<z, a>>] = list[a].points
  BY <1>4
<1>8. DOMAIN r \subseteq (0 .. z) \X Members
  BY <1>2, <1>5 DEF IsList
<1>9. r \in [DOMAIN r -> Nat]
  <2>1. \A k \in DOMAIN r : r[k] \in Nat
    BY <1>1, <1>5, <1>6, <1>7 DEF IsList
  <2>2. r = [k \in DOMAIN r |-> r[k]]
    BY <1>4
  <2> QED
    BY <2>1, <2>2
<1>10. IsFiled(r, z + 1)
  <2>1. (z + 1) - 1 = z
    OBVIOUS
  <2> QED
    BY <1>8, <1>9, <2>1 DEF IsFiled, IsMap
<1> QED
  BY <1>3, <1>5, <1>6, <1>7, <1>10 DEF FiledIn

(* The fields of the books after a year is filed.                          *)
YearSaved(b, r, z) ==
  /\ r.earned = b.earned
  /\ DOMAIN r.vip = DOMAIN b.vip
  /\ \A a \in DOMAIN b.vip : r.vip[a].points = 0
  /\ FiledIn(b.vipPoints, r.vipPoints, b.vip, z)
  /\ FiledIn(b.vippPoints, r.vippPoints, b.vipp, z)

LEMMA SaveYearIs ==
  ASSUME NEW y \in Nat, NEW z \in Nat, y <= z, NEW b, IsBooks(b, y)
  PROVE  IsBooks(SaveYearInfo(b, z), z + 1) /\ YearSaved(b, SaveYearInfo(b, z), z)
<1>1. PICK f : f = Reset(b.vip)
  OBVIOUS
<1>2. PICK g : g = Reset(b.vipp)
  OBVIOUS
<1>3. PICK u : u = File(b.vipPoints, b.vip, z)
  OBVIOUS
<1>4. PICK v : v = File(b.vippPoints, b.vipp, z)
  OBVIOUS
<1>5. SaveYearInfo(b, z) = [b EXCEPT !.vipPoints = u, !.vippPoints = v, !.vip = f, !.vipp = g]
  BY <1>1, <1>2, <1>3, <1>4, Zenon DEF SaveYearInfo, IsBooks
<1>6. IsMap(f, Members, VipRecord) /\ DOMAIN f = DOMAIN b.vip /\ \A a \in DOMAIN b.vip : f[a].points = 0
  <2>1. \A a \in DOMAIN b.vip : b.vip[a] \in VipRecord /\ a \in Members
    BY DEF IsBooks, IsMap
  <2> QED
    BY <1>1, <2>1 DEF IsMap, VipRecord, Reset
<1>7. IsMap(g, Members, VippRecord)
  <2>1. \A a \in DOMAIN b.vipp : b.vipp[a] \in VippRecord /\ a \in Members
    BY DEF IsBooks, IsMap
  <2> QED
    BY <1>2, <2>1 DEF IsMap, VippRecord, Reset
<1>8. IsList(b.vip) /\ IsList(b.vipp) /\ IsFiled(b.vipPoints, y) /\ IsFiled(b.vippPoints, y)
  BY DEF IsBooks, IsMap, VipRecord, VippRecord, IsList
<1>9. IsFiled(u, z + 1) /\ FiledIn(b.vipPoints, u, b.vip, z)
  BY <1>3, <1>8, FileIs
<1>10. IsFiled(v, z + 1) /\ FiledIn(b.vippPoints, v, b.vipp, z)
  BY <1>4, <1>8, FileIs
<1>11. PICK r : r = SaveYearInfo(b, z)
  OBVIOUS
<1>12. /\ DOMAIN r = DOMAIN b /\ r = [i \in DOMAIN r |-> r[i]]
       /\ r.vip = f /\ r.vipp = g /\ r.earned = b.earned
       /\ r.vipPoints = u /\ r.vippPoints = v
  BY <1>5, <1>11 DEF IsBooks
<1>13. IsEarned(r.earned, z + 1)
  <2>1. IsEarned(b.earned, y) /\ z + 1 \in Nat /\ y <= z + 1
    BY DEF IsBooks
  <2> QED
    BY <1>12, <2>1, YearsGrow
<1>14. IsBooks(r, z + 1)
  BY <1>6, <1>7, <1>9, <1>10, <1>12, <1>13 DEF IsBooks
<1>15. YearSaved(b, r, z)
  BY <1>6, <1>9, <1>10, <1>12 DEF YearSaved
<1> QED
  BY <1>11, <1>14, <1>15

-----------------------------------------------------------------------------
(* A day *)

(* Points of members and what is filed agree with what was earned.          *)
Counted(b, y) ==
  /\ \A a \in DOMAIN b.vip : b.vip[a].points = At(b.earned, <<y, a>>, 0)
  /\ \A k \in DOMAIN b.vipPoints : b.vipPoints[k] = At(b.earned, k, 0)

Filed(b, r, y) == \A a \in DOMAIN b.vip : <<y, a>> \in DOMAIN r.vipPoints

LEMMA DayIsTyped ==
  ASSUME NEW d \in Nat, NEW day \in Nat, d < day, NEW b, IsBooks(b, Year(d))
  PROVE  /\ IsBooks(OneDay(b, day), Year(day))
         /\ SameBefore(b.vipPoints, OneDay(b, day).vipPoints, Year(d))
         /\ SameBefore(b.vippPoints, OneDay(b, day).vippPoints, Year(d))
<1>1. PICK y \in Nat : y = Year(d)
  BY YearType
<1>2. PICK z \in Nat, i \in Nat : z = Year(day) /\ i = DaysSinceNewYear(day)
  BY YearType
<1>3. y <= z /\ (i = 0 => y < z)
  BY <1>1, <1>2, YearsPass
<1>4. PICK r : r = OneDay(b, day)
  OBVIOUS
<1>5. CASE i # 0
  <2>1. r = UpdatePoints(b, day)
    BY <1>2, <1>4, <1>5 DEF OneDay
  <2>2. IsBooks(r, z) /\ PointsGiven(b, r, z, i)
    <3>1. IsBooks(b, y) /\ DaysSinceNewYear(day) \in Nat \ {0}
      BY <1>1, <1>2, <1>5
    <3> QED
      BY <1>2, <1>3, <2>1, <3>1, UpdatePointsIs
  <2>3. r.vipPoints = b.vipPoints /\ r.vippPoints = b.vippPoints
    BY <2>2 DEF PointsGiven
  <2> QED
    BY <1>1, <1>2, <1>4, <2>2, <2>3 DEF SameBefore
<1>6. CASE i = 0
  <2>1. PICK w \in Nat : w = z - 1 /\ y <= w /\ w + 1 = z
    BY <1>3, <1>6
  <2>2. r = SaveYearInfo(b, w)
    BY <1>2, <1>4, <1>6, <2>1 DEF OneDay, UpdatePoints
  <2>3. IsBooks(r, z) /\ YearSaved(b, r, w)
    <3>1. IsBooks(r, w + 1) /\ YearSaved(b, r, w)
      BY <1>1, <2>1, <2>2, SaveYearIs
    <3> QED
      BY <2>1, <3>1
  <2>4. SameBefore(b.vipPoints, r.vipPoints, y) /\ SameBefore(b.vippPoints, r.vippPoints, y)
    BY <2>1, <2>3 DEF YearSaved, FiledIn, SameBefore
  <2> QED
    BY <1>1, <1>2, <1>4, <2>3, <2>4
<1> QED
  BY <1>5, <1>6

LEMMA DayIsCounted ==
  ASSUME NEW d \in Nat, NEW b, IsBooks(b, Year(d)), Counted(b, Year(d))
  PROVE  /\ Counted(OneDay(b, d + 1), Year(d + 1))
         /\ DOMAIN b.vipPoints \subseteq DOMAIN OneDay(b, d + 1).vipPoints
         /\ Year(d) < Year(d + 1) => Filed(b, OneDay(b, d + 1), Year(d))
<1>1. PICK y \in Nat : y = Year(d)
  BY YearType
<1>2. PICK day \in Nat : day = d + 1
  OBVIOUS
<1>3. PICK z \in Nat, i \in Nat : z = Year(day) /\ i = DaysSinceNewYear(day)
  BY YearType
<1>4. (i # 0 => z = y) /\ (i = 0 => z = y + 1)
  BY <1>1, <1>2, <1>3, NextDay
<1>5. PICK r : r = OneDay(b, day)
  OBVIOUS
<1>6. IsBooks(b, y) /\ Counted(b, y)
  BY <1>1
<1>7. CASE i # 0
  <2>1. r = UpdatePoints(b, day) /\ z = y
    BY <1>3, <1>4, <1>5, <1>7 DEF OneDay
  <2>2. PointsGiven(b, r, y, i)
    <3>1. DaysSinceNewYear(day) \in Nat \ {0} /\ Year(day) = y /\ y <= y
      BY <1>3, <1>7, <2>1
    <3> QED
      BY <1>3, <1>6, <2>1, <3>1, UpdatePointsIs
  <2>3. ASSUME NEW a \in DOMAIN r.vip PROVE r.vip[a].points = At(r.earned, <<y, a>>, 0)
    <3>1. PICK k : k = <<y, a>>
      OBVIOUS
    <3>2. a \in DOMAIN b.vip /\ a \in Members
      BY <1>6, <2>2, <2>3 DEF PointsGiven, IsBooks, IsMap
    <3>3. k \in (0 .. y) \X Members /\ k[1] = y /\ k[2] = a
      BY <3>1, <3>2
    <3>4. At(r.earned, k, 0) = At(b.earned, k, 0) + PointsOf(b, a, i)
      BY <2>2, <3>3 DEF PointsGiven
    <3>5. r.vip[a].points = b.vip[a].points + PointsOf(b, a, i)
      BY <2>2, <3>2 DEF PointsGiven
    <3>6. b.vip[a].points = At(b.earned, k, 0)
      BY <1>6, <3>1, <3>2 DEF Counted
    <3> QED
      BY <3>1, <3>4, <3>5, <3>6
  <2>4. ASSUME NEW k \in DOMAIN r.vipPoints PROVE r.vipPoints[k] = At(r.earned, k, 0)
    <3>1. r.vipPoints = b.vipPoints /\ k \in DOMAIN b.vipPoints
      BY <2>2, <2>4 DEF PointsGiven
    <3>2. k \in (0 .. y - 1) \X Members
      BY <1>6, <3>1 DEF IsBooks, IsFiled, IsMap
    <3>3. k \in (0 .. y) \X Members /\ k[1] # y
      BY <3>2
    <3>4. At(b.earned, k, 0) \in Nat
      BY <1>6 DEF IsBooks, IsEarned, IsMap, At
    <3>5. At(r.earned, k, 0) = At(b.earned, k, 0) + 0
      BY <2>2, <3>3 DEF PointsGiven
    <3>6. b.vipPoints[k] = At(b.earned, k, 0)
      BY <1>6, <3>1 DEF Counted
    <3> QED
      BY <3>1, <3>4, <3>5, <3>6
  <2>5. DOMAIN b.vipPoints \subseteq DOMAIN r.vipPoints
    BY <2>2 DEF PointsGiven
  <2>6. Counted(r, y)
    BY <2>3, <2>4 DEF Counted
  <2> QED
    BY <1>1, <1>2, <1>3, <1>5, <2>1, <2>5, <2>6
<1>8. CASE i = 0
  <2>1. r = SaveYearInfo(b, y) /\ z = y + 1
    BY <1>3, <1>4, <1>5, <1>8 DEF OneDay, UpdatePoints
  <2>2. YearSaved(b, r, y)
    <3>1. y <= y
      OBVIOUS
    <3> QED
      BY <1>6, <2>1, <3>1, SaveYearIs
  <2>3. ASSUME NEW a \in DOMAIN r.vip PROVE r.vip[a].points = At(r.earned, <<z, a>>, 0)
    <3>1. <<z, a>> \notin DOMAIN b.earned
      BY <1>6, <2>1 DEF IsBooks, IsEarned, IsMap
    <3> QED
      BY <2>2, <2>3, <3>1 DEF YearSaved, At
  <2>4. ASSUME NEW k \in DOMAIN r.vipPoints PROVE r.vipPoints[k] = At(r.earned, k, 0)
    <3>1. k \in DOMAIN b.vipPoints \/ \E a \in DOMAIN b.vip : k = <<y, a>>
      BY <2>2, <2>4 DEF YearSaved, FiledIn
    <3>2. CASE k \in DOMAIN b.vipPoints
      BY <1>6, <2>2, <3>2 DEF YearSaved, FiledIn, Counted
    <3>3. ASSUME NEW a \in DOMAIN b.vip, k = <<y, a>> PROVE r.vipPoints[k] = At(r.earned, k, 0)
      BY <1>6, <2>2, <3>3 DEF YearSaved, FiledIn, Counted
    <3> QED
      BY <3>1, <3>2, <3>3
  <2>5. DOMAIN b.vipPoints \subseteq DOMAIN r.vipPoints /\ Filed(b, r, y)
    BY <2>2 DEF YearSaved, FiledIn, Filed
  <2>6. Counted(r, z)
    BY <2>3, <2>4 DEF Counted
  <2> QED
    BY <1>1, <1>2, <1>3, <1>5, <2>5, <2>6
<1> QED
  BY <1>7, <1>8

-----------------------------------------------------------------------------
(* The loop of update_time, a recursive function of the days.               *)

IsDays(after, days, b, d) ==
  after = [n \in 0 .. days |-> IF n = 0 THEN b ELSE OneDay(after[n - 1], d + n)]

LEMMA DaysExist ==
  ASSUME NEW b, NEW d \in Nat, NEW days \in Nat
  PROVE  \E after : IsDays(after, days, b, d)
<1> DEFINE K == {n \in Nat : \E after : IsDays(after, n, b, d)}
<1>1. 0 \in K
  <2>1. PICK f : f = [n \in 0 .. 0 |-> b]
    OBVIOUS
  <2>2. f = [n \in 0 .. 0 |-> IF n = 0 THEN b ELSE OneDay(f[n - 1], d + n)]
    BY <2>1
  <2> QED
    BY <2>2 DEF IsDays
<1>2. ASSUME NEW n \in Nat, n \in K PROVE n + 1 \in K
  <2>1. PICK f : IsDays(f, n, b, d)
    BY <1>2
  <2>2. \A k \in 0 .. n : f[k] = IF k = 0 THEN b ELSE OneDay(f[k - 1], d + k)
    <3> DEFINE h == [k \in 0 .. n |-> IF k = 0 THEN b ELSE OneDay(f[k - 1], d + k)]
    <3>1. \A k \in 0 .. n : h[k] = IF k = 0 THEN b ELSE OneDay(f[k - 1], d + k)
      OBVIOUS
    <3>2. f = h
      BY <2>1 DEF IsDays
    <3> HIDE DEF h
    <3> QED
      BY <3>1, <3>2
  <2>3. PICK last : last = OneDay(f[n], d + (n + 1))
    OBVIOUS
  <2>4. PICK g : g = [k \in 0 .. n + 1 |-> IF k = n + 1 THEN last ELSE f[k]]
    OBVIOUS
  <2>5. \A k \in 0 .. n + 1 : g[k] = IF k = 0 THEN b ELSE OneDay(g[k - 1], d + k)
    <3> SUFFICES ASSUME NEW k \in 0 .. n + 1
                 PROVE  g[k] = IF k = 0 THEN b ELSE OneDay(g[k - 1], d + k)
      OBVIOUS
    <3>1. CASE k = n + 1
      <4>1. g[k] = last /\ g[k - 1] = f[n] /\ k # 0
        BY <2>4, <3>1
      <4> QED
        BY <2>3, <3>1, <4>1
    <3>2. CASE k # n + 1
      <4>1. k \in 0 .. n /\ g[k] = f[k]
        BY <2>4, <3>2
      <4>2. k # 0 => g[k - 1] = f[k - 1]
        BY <2>4, <4>1
      <4> QED
        BY <2>2, <4>1, <4>2
    <3> QED
      BY <3>1, <3>2
  <2>6. g = [k \in 0 .. n + 1 |-> IF k = 0 THEN b ELSE OneDay(g[k - 1], d + k)]
    <3>1. PICK h : h = [k \in 0 .. n + 1 |-> IF k = 0 THEN b ELSE OneDay(g[k - 1], d + k)]
      OBVIOUS
    <3>2. \A k \in 0 .. n + 1 : h[k] = g[k]
      BY <2>5, <3>1
    <3>3. h = [k \in 0 .. n + 1 |-> h[k]] /\ g = [k \in 0 .. n + 1 |-> g[k]]
      BY <2>4, <3>1
    <3>4. h = g
      BY <3>2, <3>3
    <3> QED
      BY <3>1, <3>4
  <2> QED
    BY <2>6 DEF IsDays
<1>3. Nat \subseteq K
  <2> HIDE DEF K
  <2> QED
    BY <1>1, <1>2, NatSetInduction
<1> QED
  BY <1>3

(* What the days from d on leave of the books b of day d.                   *)
DaysPass(b, r, d, n) ==
  /\ IsBooks(r, Year(d + n))
  /\ SameBefore(b.vipPoints, r.vipPoints, Year(d))
  /\ SameBefore(b.vippPoints, r.vippPoints, Year(d))

LEMMA DaysAreTyped ==
  ASSUME NEW d \in Nat, NEW b, IsBooks(b, Year(d)), NEW days \in Nat,
         NEW after, IsDays(after, days, b, d)
  PROVE  /\ DaysPass(b, after[days], d, days)
         /\ days = 1 => after[days] = OneDay(b, d + 1)
<1>1. \A n \in 0 .. days : after[n] = IF n = 0 THEN b ELSE OneDay(after[n - 1], d + n)
  <2>1. PICK h : h = [n \in 0 .. days |-> IF n = 0 THEN b ELSE OneDay(after[n - 1], d + n)]
    OBVIOUS
  <2>2. \A n \in 0 .. days : h[n] = IF n = 0 THEN b ELSE OneDay(after[n - 1], d + n)
    BY <2>1
  <2>3. after = h
    BY <2>1 DEF IsDays
  <2> QED
    BY <2>2, <2>3
<1> DEFINE K == {n \in Nat : n <= days => DaysPass(b, after[n], d, n)}
<1>2. 0 \in K
  <2>1. after[0] = b /\ d + 0 = d
    BY <1>1
  <2> QED
    BY <2>1 DEF DaysPass, SameBefore
<1>3. ASSUME NEW n \in Nat, n \in K PROVE n + 1 \in K
  <2> SUFFICES ASSUME n + 1 <= days PROVE DaysPass(b, after[n + 1], d, n + 1)
    OBVIOUS
  <2>1. DaysPass(b, after[n], d, n)
    BY <1>3
  <2>2. PICK c : c = after[n]
    OBVIOUS
  <2>3. PICK e \in Nat : e = d + n
    OBVIOUS
  <2>4. PICK day \in Nat : day = d + (n + 1) /\ e < day
    BY <2>3
  <2>5. PICK r : r = OneDay(c, day)
    OBVIOUS
  <2>6. after[n + 1] = r
    <3>1. n + 1 \in 0 .. days /\ (n + 1) - 1 = n /\ n + 1 # 0
      OBVIOUS
    <3> QED
      BY <1>1, <2>2, <2>4, <2>5, <3>1
  <2>7. IsBooks(c, Year(e))
    BY <2>1, <2>2, <2>3 DEF DaysPass
  <2>8. IsBooks(r, Year(day)) /\ SameBefore(c.vipPoints, r.vipPoints, Year(e))
        /\ SameBefore(c.vippPoints, r.vippPoints, Year(e))
    BY <2>4, <2>5, <2>7, DayIsTyped
  <2>9. PICK y \in Nat, z \in Nat : y = Year(d) /\ z = Year(e) /\ y <= z
    BY <2>3, YearType, YearsPass
  <2>10. /\ SameBefore(b.vipPoints, c.vipPoints, y) /\ SameBefore(b.vippPoints, c.vippPoints, y)
         /\ SameBefore(c.vipPoints, r.vipPoints, z) /\ SameBefore(c.vippPoints, r.vippPoints, z)
    BY <2>1, <2>2, <2>8, <2>9 DEF DaysPass
  <2>11. ASSUME NEW f, NEW g, NEW h, SameBefore(f, g, y), SameBefore(g, h, z)
         PROVE  SameBefore(f, h, y)
    <3>1. (0 .. y - 1) \X Members \subseteq (0 .. z - 1) \X Members
      BY <2>9
    <3> QED
      BY <2>11, <3>1 DEF SameBefore
  <2>12. SameBefore(b.vipPoints, r.vipPoints, y) /\ SameBefore(b.vippPoints, r.vippPoints, y)
    BY <2>10, <2>11
  <2> QED
    BY <2>4, <2>6, <2>8, <2>9, <2>12 DEF DaysPass
<1>4. Nat \subseteq K
  <2> HIDE DEF K
  <2> QED
    BY <1>2, <1>3, NatSetInduction
<1>5. DaysPass(b, after[days], d, days)
  BY <1>4
<1>6. ASSUME days = 1 PROVE after[days] = OneDay(b, d + 1)
  <2>1. after[1] = OneDay(after[0], d + 1) /\ after[0] = b
    BY <1>1, <1>6
  <2> QED
    BY <1>6, <2>1
<1> QED
  BY <1>5, <1>6

-----------------------------------------------------------------------------
(* The invariant *)

RewardRecord == [vipPoints : Nat, vip : Nat, vippPoints : Nat, vipp : Nat]
TakenRecord == [vip : Nat, vipp : Nat]

YearsTyped ==
  /\ lastEra \in 0 .. MaxDay /\ clock \in lastEra .. MaxDay /\ date \in 0 .. clock
  /\ IsMap(vip, Members, VipRecord) /\ IsMap(vipp, Members, VippRecord)
  /\ IsFiled(vipPoints, Year(date)) /\ IsFiled(vippPoints, Year(date))
  /\ IsEarned(earned, Year(date))
  /\ IsMap(rewards, 0 .. Year(date) - 1, RewardRecord)
  /\ IsMap(taken, (DOMAIN rewards) \X Members, TakenRecord)
  /\ funds \in 0 .. Funds

LEMMA DatesAreNaturals ==
  ASSUME YearsTyped
  PROVE  /\ lastEra \in Nat /\ clock \in Nat /\ date \in Nat /\ date <= clock
         /\ Year(date) \in Nat
BY YearsTypes, YearType DEF YearsTyped

LEMMA TypedInit == PrivilegesInit => YearsTyped
<1> SUFFICES ASSUME PrivilegesInit PROVE YearsTyped
  OBVIOUS
<1>1. PICK today \in 0 .. DaysPerYear - 1 : clock = today /\ lastEra = today /\ date = today
  BY DEF PrivilegesInit
<1>2. today \in Nat /\ today <= MaxDay
  BY <1>1, PrivilegesAssumption
<1>3. /\ vip = Nothing /\ vipp = Nothing /\ vipPoints = Nothing /\ vippPoints = Nothing
      /\ rewards = Nothing /\ funds = Funds /\ earned = Nothing /\ taken = Nothing
  BY DEF PrivilegesInit
<1> QED
  BY <1>1, <1>2, <1>3, YearsTypes, NothingIs DEF YearsTyped, IsFiled, IsEarned

LEMMA TypedIsTypeOK == YearsTyped => PrivilegesTypeOK
<1> SUFFICES ASSUME YearsTyped PROVE PrivilegesTypeOK
  OBVIOUS
<1>1. PICK y \in Nat : y = Year(date)
  BY DatesAreNaturals
<1>2. \A a \in DOMAIN vip : a \in Members /\ vip[a].points \in Nat /\ vip[a].stake \in Stakes \cup {0}
  BY DEF YearsTyped, IsMap, VipRecord
<1>3. \A a \in DOMAIN vipp : a \in Members /\ vipp[a].points \in Nat /\ vipp[a].threshold \in Nat
  BY DEF YearsTyped, IsMap, VippRecord
<1>4. /\ DOMAIN vipPoints \subseteq (0 .. y - 1) \X Members
      /\ DOMAIN vippPoints \subseteq (0 .. y - 1) \X Members
      /\ DOMAIN rewards \subseteq 0 .. y - 1
  BY <1>1 DEF YearsTyped, IsFiled, IsMap
<1>5. (0 .. y - 1) \X Members \subseteq (0 .. y) \X Members /\ 0 .. y - 1 \subseteq 0 .. y
  OBVIOUS
<1>6. /\ lastEra \in 0 .. MaxDay /\ clock \in lastEra .. MaxDay /\ date \in 0 .. clock
      /\ funds \in 0 .. Funds
  BY DEF YearsTyped
<1>7. DOMAIN vipPoints \cup DOMAIN vippPoints \subseteq (0 .. y) \X Members /\ DOMAIN rewards \subseteq 0 .. y
  BY <1>4, <1>5
<1> QED
  BY <1>1, <1>2, <1>3, <1>6, <1>7 DEF PrivilegesTypeOK

(* The books of the state are books.                                        *)
LEMMA BooksAreBooks ==
  ASSUME YearsTyped
  PROVE  IsBooks(Books, Year(date))
<1>1. PICK b : b = Books
  OBVIOUS
<1>2. /\ b.vip = vip /\ b.vipp = vipp /\ b.vipPoints = vipPoints /\ b.vippPoints = vippPoints
      /\ b.earned = earned
      /\ DOMAIN b = {"vip", "vipp", "vipPoints", "vippPoints", "earned", "due"}
      /\ b = [i \in DOMAIN b |-> b[i]]
  BY <1>1 DEF Books
<1>3. IsBooks(b, Year(date))
  BY <1>2 DEF YearsTyped, IsBooks
<1> QED
  BY <1>1, <1>3

(* What a new date brings, be it by update_quarter_info or by update_time.  *)
NewDate(r, new) ==
  /\ IsBooks(r, Year(new)) /\ Write(r)
  /\ SameBefore(vipPoints, r.vipPoints, Year(date)) /\ SameBefore(vippPoints, r.vippPoints, Year(date))
  /\ TurnOfYear(new) /\ date' = new
  /\ new > date /\ new <= clock /\ clock' = clock
  /\ new = date + 1 => r = OneDay(Books, new)

LEMMA QuarterIsNewDate ==
  ASSUME YearsTyped, UpdateQuarterInfo,
         DaysSinceNewYear(date) # DaysSinceNewYear(clock)
  PROVE  NewDate(OneDay(Books, clock), clock)
<1>1. PICK r : r = OneDay(Books, clock)
  OBVIOUS
<1>2. Write(r) /\ TurnOfYear(clock) /\ date' = clock /\ clock' = clock
  BY <1>1, Zenon DEF UpdateQuarterInfo
<1>3. date \in Nat /\ clock \in Nat /\ date < clock
  BY DatesAreNaturals
<1>4. PICK b : b = Books /\ IsBooks(b, Year(date)) /\ b.vipPoints = vipPoints /\ b.vippPoints = vippPoints
  BY BooksAreBooks DEF Books
<1>5. /\ IsBooks(r, Year(clock))
      /\ SameBefore(b.vipPoints, r.vipPoints, Year(date))
      /\ SameBefore(b.vippPoints, r.vippPoints, Year(date))
  BY <1>1, <1>3, <1>4, DayIsTyped
<1>6. NewDate(r, clock)
  BY <1>1, <1>2, <1>3, <1>4, <1>5 DEF NewDate
<1> QED
  BY <1>1, <1>6

LEMMA TimeIsNewDate ==
  ASSUME YearsTyped, NEW new \in date + 1 .. clock, UpdateTime(new)
  PROVE  \E r : NewDate(r, new)
<1>1. PICK d \in Nat : d = date /\ new \in Nat /\ clock \in Nat /\ d < new /\ new <= clock
  BY DatesAreNaturals
<1>2. PICK b : b = Books /\ IsBooks(b, Year(d)) /\ b.vipPoints = vipPoints /\ b.vippPoints = vippPoints
  BY <1>1, BooksAreBooks DEF Books
<1>3. PICK days \in Nat : days = Lesser(new - date, MaxUpdateDays) /\ days > 0 /\ d + days <= new
  BY <1>1, YearsTypes DEF Lesser
<1>4. PICK f : IsDays(f, days, b, d)
  BY <1>1, DaysExist
<1> DEFINE A == CHOOSE g : g = [n \in 0 .. days |-> IF n = 0 THEN b ELSE OneDay(g[n - 1], d + n)]
<1>5. f = [n \in 0 .. days |-> IF n = 0 THEN b ELSE OneDay(f[n - 1], d + n)]
  BY <1>4 DEF IsDays
<1>6. A = [n \in 0 .. days |-> IF n = 0 THEN b ELSE OneDay(A[n - 1], d + n)]
  BY <1>5, Zenon
<1>7. IsDays(A, days, b, d)
  BY <1>6 DEF IsDays
<1>8. Write(A[days]) /\ TurnOfYear(new) /\ date' = new /\ clock' = clock
  BY <1>1, <1>2, <1>3, Zenon DEF UpdateTime
<1>9. PICK r : r = A[days]
  OBVIOUS
<1> HIDE DEF A
<1>10. DaysPass(b, r, d, days) /\ (days = 1 => r = OneDay(b, d + 1))
  BY <1>1, <1>2, <1>3, <1>7, <1>9, DaysAreTyped
<1>11. PICK e \in Nat : e = d + days /\ e <= new
  BY <1>1, <1>3
<1>12. PICK y \in Nat, z \in Nat : y = Year(e) /\ z = Year(new) /\ y <= z
  BY <1>1, <1>11, YearType, YearsPass
<1>13. IsBooks(r, y)
  BY <1>10, <1>11, <1>12 DEF DaysPass
<1>14. IsBooks(r, z)
  BY <1>12, <1>13, YearsGrow DEF IsBooks
<1>15. SameBefore(vipPoints, r.vipPoints, Year(date)) /\ SameBefore(vippPoints, r.vippPoints, Year(date))
  BY <1>1, <1>2, <1>10 DEF DaysPass
<1>16. ASSUME new = date + 1 PROVE r = OneDay(Books, new)
  <2>1. days = 1
    BY <1>1, <1>3, <1>16, YearsTypes DEF Lesser
  <2> QED
    BY <1>1, <1>2, <1>10, <1>16, <2>1
<1>17. NewDate(r, new)
  BY <1>1, <1>8, <1>9, <1>12, <1>14, <1>15, <1>16 DEF NewDate
<1> QED
  BY <1>17

-----------------------------------------------------------------------------
(* Typed, step by step *)

(* The next value is one with the same years, dates and rewards.            *)
LEMMA MembersTyped ==
  ASSUME YearsTyped, UNCHANGED <<clock, lastEra, date, rewards, funds, taken>>,
         IsMap(vip', Members, VipRecord), IsMap(vipp', Members, VippRecord),
         IsFiled(vipPoints', Year(date)), IsFiled(vippPoints', Year(date)),
         IsEarned(earned', Year(date))
  PROVE  YearsTyped'
BY DEF YearsTyped

LEMMA TypedNow ==
  ASSUME YearsTyped
  PROVE  /\ IsMap(vip, Members, VipRecord) /\ IsMap(vipp, Members, VippRecord)
         /\ IsFiled(vipPoints, Year(date)) /\ IsFiled(vippPoints, Year(date))
         /\ IsEarned(earned, Year(date))
BY DEF YearsTyped

LEMMA EarnedPut ==
  ASSUME NEW y \in Nat, NEW f, IsEarned(f, y), NEW w \in Nat, w <= y, NEW a \in Members, NEW m \in Nat
  PROVE  IsEarned(Put(f, <<w, a>>, m), y)
<1>1. <<w, a>> \in (0 .. y) \X Members
  OBVIOUS
<1> QED
  BY <1>1, PutIs DEF IsEarned

LEMMA FiledPut ==
  ASSUME NEW y \in Nat, NEW f, IsFiled(f, y), NEW w \in Nat, w < y, NEW a \in Members, NEW m \in Nat
  PROVE  IsFiled(Put(f, <<w, a>>, m), y)
<1>1. <<w, a>> \in (0 .. y - 1) \X Members
  OBVIOUS
<1> QED
  BY <1>1, PutIs DEF IsFiled

(* A change of one entry, when there is one.                               *)
LEMMA ChangeIs ==
  ASSUME NEW K, NEW V, NEW f, IsMap(f, K, V), NEW x \in DOMAIN f, NEW v \in V
  PROVE  IsMap([f EXCEPT ![x] = v], K, V)
BY DEF IsMap

LEMMA NewDateTyped ==
  ASSUME YearsTyped, NEW new \in Nat, NEW r, NewDate(r, new),
         lastEra' \in 0 .. MaxDay, lastEra' <= clock
  PROVE  YearsTyped'
<1>1. PICK y \in Nat, z \in Nat : y = Year(date) /\ z = Year(new) /\ y <= z
  <2>1. PICK d \in Nat : d = date /\ d <= new
    BY DatesAreNaturals DEF NewDate
  <2> QED
    BY <2>1, YearType, YearsPass
<1>2. /\ vip' = r.vip /\ vipp' = r.vipp /\ vipPoints' = r.vipPoints /\ vippPoints' = r.vippPoints
      /\ earned' = r.earned /\ rewards' = rewards /\ funds' = funds /\ taken' = taken
      /\ date' = new /\ clock' = clock /\ new <= clock
  BY DEF NewDate, Write
<1>3. /\ IsMap(vip', Members, VipRecord) /\ IsMap(vipp', Members, VippRecord)
      /\ IsFiled(vipPoints', z) /\ IsFiled(vippPoints', z) /\ IsEarned(earned', z)
  BY <1>1, <1>2 DEF NewDate, IsBooks
<1>4. IsMap(rewards', 0 .. z - 1, RewardRecord)
  <2>1. IsMap(rewards, 0 .. y - 1, RewardRecord) /\ 0 .. y - 1 \subseteq 0 .. z - 1
    BY <1>1 DEF YearsTyped
  <2> QED
    BY <1>2, <2>1, MapOfMore
<1>5. IsMap(taken', (DOMAIN rewards') \X Members, TakenRecord) /\ funds' \in 0 .. Funds
  BY <1>2 DEF YearsTyped
<1>6. lastEra' \in 0 .. MaxDay /\ clock' \in lastEra' .. MaxDay /\ date' \in 0 .. clock'
  BY <1>2, DatesAreNaturals, YearsTypes DEF YearsTyped
<1>7. Year(date') = z
  BY <1>1, <1>2
<1> QED
  BY <1>3, <1>4, <1>5, <1>6, <1>7 DEF YearsTyped

LEMMA TickTyped == YearsTyped /\ Tick => YearsTyped'
<1> SUFFICES ASSUME YearsTyped, Tick PROVE YearsTyped'
  OBVIOUS
<1>1. /\ clock < MaxDay /\ clock' = clock + 1
      /\ UNCHANGED <<lastEra, date, vip, vipp, vipPoints, vippPoints, rewards, funds, taken, earned>>
  BY DEF Tick, memberVars, yearVars
<1>2. clock' \in lastEra .. MaxDay /\ date \in 0 .. clock'
  BY <1>1, DatesAreNaturals, YearsTypes DEF YearsTyped
<1> QED
  BY <1>1, <1>2 DEF YearsTyped

LEMMA QuarterTyped == YearsTyped /\ UpdateQuarterInfo => YearsTyped'
<1> SUFFICES ASSUME YearsTyped, UpdateQuarterInfo PROVE YearsTyped'
  OBVIOUS
<1>1. lastEra' = clock /\ clock' = clock
  BY Zenon DEF UpdateQuarterInfo
<1>2. lastEra' \in 0 .. MaxDay /\ lastEra' <= clock
  BY <1>1, DatesAreNaturals, YearsTypes DEF YearsTyped
<1>3. CASE DaysSinceNewYear(date) = DaysSinceNewYear(clock)
  <2>1. UNCHANGED <<date, vip, vipp, vipPoints, vippPoints, rewards, funds, taken, earned>>
    BY <1>3, Zenon DEF UpdateQuarterInfo, memberVars, yearVars
  <2>2. clock' \in lastEra' .. MaxDay /\ date \in 0 .. clock
    BY <1>1, DatesAreNaturals, YearsTypes DEF YearsTyped
  <2> QED
    BY <1>1, <1>2, <2>1, <2>2 DEF YearsTyped
<1>4. CASE DaysSinceNewYear(date) # DaysSinceNewYear(clock)
  <2>1. PICK r : NewDate(r, clock)
    BY <1>4, QuarterIsNewDate
  <2> QED
    BY <1>2, <2>1, DatesAreNaturals, NewDateTyped
<1> QED
  BY <1>3, <1>4

LEMMA TimeTyped ==
  ASSUME YearsTyped, NEW new \in date + 1 .. clock, UpdateTime(new)
  PROVE  YearsTyped'
<1>1. PICK r : NewDate(r, new)
  BY TimeIsNewDate
<1>2. lastEra' = lastEra
  BY Zenon DEF UpdateTime
<1>3. new \in Nat /\ lastEra' \in 0 .. MaxDay /\ lastEra' <= clock
  BY <1>2, DatesAreNaturals DEF YearsTyped
<1> QED
  BY <1>1, <1>3, NewDateTyped

LEMMA BecomeTyped ==
  ASSUME YearsTyped, NEW a \in Members, NEW stake \in Stakes, NEW newVipp \in BOOLEAN,
         NEW threshold \in Thresholds, BecomeVipStatus(a, stake, newVipp, threshold)
  PROVE  YearsTyped'
<1>1. [points |-> 0, stake |-> stake] \in VipRecord
      /\ [points |-> 0, threshold |-> threshold] \in VippRecord
  BY YearsTypes DEF VipRecord, VippRecord
<1>2. IsMap(vip', Members, VipRecord)
  BY <1>1, TypedNow, PutIs DEF BecomeVipStatus
<1>3. IsMap(vipp', Members, VippRecord)
  BY <1>1, TypedNow, PutIs DEF BecomeVipStatus
<1>4. IsEarned(earned', Year(date))
  <2>1. 0 \in Nat /\ Year(date) \in Nat /\ Year(date) <= Year(date)
    BY DatesAreNaturals
  <2> QED
    BY <2>1, TypedNow, EarnedPut DEF BecomeVipStatus
<1>5. UNCHANGED <<clock, lastEra, date, vipPoints, vippPoints, rewards, funds, taken>>
  BY DEF BecomeVipStatus, yearVars
<1> QED
  BY <1>2, <1>3, <1>4, <1>5, TypedNow, MembersTyped

LEMMA ExitTyped ==
  ASSUME YearsTyped, NEW a \in Members, DoExitVip(a)
  PROVE  YearsTyped'
<1>1. IsMap(vip', Members, VipRecord) /\ IsMap(vipp', Members, VippRecord)
  BY TypedNow, DropIs DEF DoExitVip
<1>2. IsEarned(earned', Year(date))
  <2>1. 0 \in Nat /\ Year(date) \in Nat /\ Year(date) <= Year(date)
    BY DatesAreNaturals
  <2> QED
    BY <2>1, TypedNow, EarnedPut DEF DoExitVip
<1>3. UNCHANGED <<clock, lastEra, date, vipPoints, vippPoints, rewards, funds, taken>>
  BY DEF DoExitVip, yearVars
<1> QED
  BY <1>1, <1>2, <1>3, TypedNow, MembersTyped

LEMMA StakeTyped ==
  ASSUME YearsTyped, NEW a \in Members, NEW stake \in Stakes \cup {0}, UpdateActiveStake(a, stake)
  PROVE  YearsTyped'
<1>1. IsMap(vip', Members, VipRecord)
  <2>1. a \in DOMAIN vip /\ vip[a] \in VipRecord
    BY TypedNow DEF UpdateActiveStake, IsMap
  <2>2. [vip[a] EXCEPT !.stake = stake] \in VipRecord
    BY <2>1 DEF VipRecord
  <2>3. vip' = [vip EXCEPT ![a] = [vip[a] EXCEPT !.stake = stake]]
    BY Zenon DEF UpdateActiveStake
  <2> QED
    BY <2>1, <2>2, <2>3, TypedNow, ChangeIs
<1>2. UNCHANGED <<clock, lastEra, date, vipp, vipPoints, vippPoints, rewards, funds, taken, earned>>
  BY DEF UpdateActiveStake, yearVars
<1> QED
  BY <1>1, <1>2, TypedNow, MembersTyped

LEMMA MintTyped ==
  ASSUME YearsTyped, NEW a \in Members, NEW threshold \in Thresholds, MintNewVippNft(a, threshold)
  PROVE  YearsTyped'
<1>1. IsMap(vipp', Members, VippRecord)
  <2>1. CASE a \in DOMAIN vipp
    <3>1. vipp[a] \in VippRecord /\ threshold \in Nat
      BY <2>1, TypedNow, YearsTypes DEF IsMap
    <3>2. [vipp[a] EXCEPT !.threshold = @ + threshold] \in VippRecord
      BY <3>1 DEF VippRecord
    <3>3. vipp' = [vipp EXCEPT ![a] = [vipp[a] EXCEPT !.threshold = @ + threshold]]
      BY <2>1, Zenon DEF MintNewVippNft
    <3> QED
      BY <2>1, <3>2, <3>3, TypedNow, ChangeIs
  <2>2. CASE a \notin DOMAIN vipp
    <3>1. [points |-> 0, threshold |-> threshold] \in VippRecord
      BY YearsTypes DEF VippRecord
    <3> QED
      BY <2>2, <3>1, TypedNow, PutIs DEF MintNewVippNft
  <2> QED
    BY <2>1, <2>2
<1>2. UNCHANGED <<clock, lastEra, date, vip, vipPoints, vippPoints, rewards, funds, taken, earned>>
  BY DEF MintNewVippNft, yearVars
<1> QED
  BY <1>1, <1>2, TypedNow, MembersTyped

LEMMA BurnTyped ==
  ASSUME YearsTyped, NEW a \in Members, NEW threshold \in Thresholds, NEW last \in BOOLEAN,
         BurnVippThreshold(a, threshold, last)
  PROVE  YearsTyped'
<1>1. IsMap(vipp', Members, VippRecord)
  <2>1. CASE last
    BY <2>1, TypedNow, DropIs DEF BurnVippThreshold
  <2>2. CASE ~last
    <3>1. a \in DOMAIN vipp /\ vipp[a] \in VippRecord /\ threshold \in Nat /\ threshold <= vipp[a].threshold
      BY TypedNow, YearsTypes DEF IsMap, BurnVippThreshold
    <3>2. [vipp[a] EXCEPT !.threshold = @ - threshold] \in VippRecord
      BY <3>1 DEF VippRecord
    <3>3. vipp' = [vipp EXCEPT ![a] = [vipp[a] EXCEPT !.threshold = @ - threshold]]
      BY <2>2, Zenon DEF BurnVippThreshold
    <3> QED
      BY <3>1, <3>2, <3>3, TypedNow, ChangeIs
  <2> QED
    BY <2>1, <2>2
<1>2. UNCHANGED <<clock, lastEra, date, vip, vipPoints, vippPoints, rewards, funds, taken, earned>>
  BY DEF BurnVippThreshold, yearVars
<1> QED
  BY <1>1, <1>2, TypedNow, MembersTyped

LEMMA ForceVipTyped ==
  ASSUME YearsTyped, NEW a \in Members, NEW year \in 0 .. Year(date), NEW points \in ForcedPoints,
         ForceSetVipPoints(year, a, points)
  PROVE  YearsTyped'
<1>1. PICK y \in Nat : y = Year(date) /\ year \in Nat /\ year <= y /\ points \in Nat
  BY DatesAreNaturals, YearsTypes
<1>2. IsEarned(earned', y)
  <2>1. earned' = Put(earned, <<year, a>>, points)
    BY DEF ForceSetVipPoints
  <2> QED
    BY <1>1, <2>1, TypedNow, EarnedPut
<1>3. UNCHANGED <<clock, lastEra, date, vipp, vippPoints, rewards, funds, taken>>
  BY DEF ForceSetVipPoints
<1>4. CASE year = y
  <2>1. a \in DOMAIN vip /\ vip' = [vip EXCEPT ![a] = [vip[a] EXCEPT !.points = points]]
        /\ vipPoints' = vipPoints
    BY <1>1, <1>4, Zenon DEF ForceSetVipPoints
  <2>2. vip[a] \in VipRecord
    BY <2>1, TypedNow DEF IsMap
  <2>3. [vip[a] EXCEPT !.points = points] \in VipRecord
    BY <1>1, <2>2 DEF VipRecord
  <2>4. IsMap(vip', Members, VipRecord)
    BY <2>1, <2>3, TypedNow, ChangeIs
  <2> QED
    BY <1>1, <1>2, <1>3, <2>1, <2>4, TypedNow, MembersTyped
<1>5. CASE year # y
  <2>1. vipPoints' = Put(vipPoints, <<year, a>>, points) /\ vip' = vip
    BY <1>1, <1>5, Zenon DEF ForceSetVipPoints
  <2>2. IsFiled(vipPoints', y)
    BY <1>1, <1>5, <2>1, TypedNow, FiledPut
  <2> QED
    BY <1>1, <1>2, <1>3, <2>1, <2>2, TypedNow, MembersTyped
<1> QED
  BY <1>4, <1>5

LEMMA ForceVippTyped ==
  ASSUME YearsTyped, NEW a \in Members, NEW year \in 0 .. Year(date), NEW points \in ForcedPoints,
         ForceSetVippPoints(year, a, points)
  PROVE  YearsTyped'
<1>1. PICK y \in Nat : y = Year(date) /\ year \in Nat /\ year <= y /\ points \in Nat
  BY DatesAreNaturals, YearsTypes
<1>2. UNCHANGED <<clock, lastEra, date, vip, vipPoints, rewards, funds, taken, earned>>
  BY DEF ForceSetVippPoints
<1>3. CASE year = y
  <2>1. a \in DOMAIN vipp /\ vipp' = [vipp EXCEPT ![a] = [vipp[a] EXCEPT !.points = points]]
        /\ vippPoints' = vippPoints
    BY <1>1, <1>3, Zenon DEF ForceSetVippPoints
  <2>2. vipp[a] \in VippRecord
    BY <2>1, TypedNow DEF IsMap
  <2>3. [vipp[a] EXCEPT !.points = points] \in VippRecord
    BY <1>1, <2>2 DEF VippRecord
  <2>4. IsMap(vipp', Members, VippRecord)
    BY <2>1, <2>3, TypedNow, ChangeIs
  <2> QED
    BY <1>2, <2>1, <2>4, TypedNow, MembersTyped
<1>4. CASE year # y
  <2>1. vippPoints' = Put(vippPoints, <<year, a>>, points) /\ vipp' = vipp
    BY <1>1, <1>4, Zenon DEF ForceSetVippPoints
  <2>2. IsFiled(vippPoints', y)
    BY <1>1, <1>4, <2>1, TypedNow, FiledPut
  <2> QED
    BY <1>1, <1>2, <2>1, <2>2, TypedNow, MembersTyped
<1> QED
  BY <1>3, <1>4

-----------------------------------------------------------------------------
(* Points of a year, and shares of its rewards                              *)

InYear(f, year) == {k \in DOMAIN f : k[1] = year}

LEMMA InYearFinite ==
  ASSUME NEW y \in Int, NEW V, NEW f, IsMap(f, (0 .. y) \X Members, V), NEW year
  PROVE  /\ InYear(f, year) \subseteq {year} \X Members
         /\ IsFiniteSet({year} \X Members) /\ Cardinality({year} \X Members) = Cardinality(Members)
         /\ IsFiniteSet(InYear(f, year)) /\ Cardinality(InYear(f, year)) <= Cardinality(Members)
<1>1. PICK S : S = InYear(f, year)
  OBVIOUS
<1>2. PICK T : T = {year} \X Members
  OBVIOUS
<1>3. S \subseteq T
  BY <1>1, <1>2 DEF InYear, IsMap
<1>4. IsFiniteSet(T) /\ Cardinality(T) = Cardinality(Members)
  <2>1. IsFiniteSet({year}) /\ Cardinality({year}) = 1
    BY FS_Singleton
  <2>2. IsFiniteSet(Members) /\ Cardinality(Members) \in Nat
    BY YearsTypes, FS_CardinalityType
  <2>3. IsFiniteSet(T) /\ Cardinality(T) = Cardinality({year}) * Cardinality(Members)
    BY <1>2, <2>1, <2>2, FS_Product
  <2> QED
    BY <2>1, <2>2, <2>3
<1>5. IsFiniteSet(S) /\ Cardinality(S) <= Cardinality(T)
  BY <1>3, <1>4, FS_Subset
<1> QED
  BY <1>1, <1>2, <1>3, <1>4, <1>5

LEMMA PointsOfYear ==
  ASSUME NEW y \in Nat, NEW f, IsFiled(f, y), NEW year
  PROVE  /\ IsFiniteSet(InYear(f, year))
         /\ TotalPoints(f, year) = SumFunctionOnSet(f, InYear(f, year))
         /\ \A k \in InYear(f, year) : f[k] \in Nat
         /\ TotalPoints(f, year) \in Nat
<1>1. PICK z \in Int : z = y - 1
  OBVIOUS
<1>2. IsMap(f, (0 .. z) \X Members, Nat)
  BY <1>1 DEF IsFiled
<1>3. PICK S : S = InYear(f, year)
  OBVIOUS
<1>4. IsFiniteSet(S)
  BY <1>2, <1>3, InYearFinite
<1>5. \A k \in S : f[k] \in Nat
  BY <1>2, <1>3 DEF InYear, IsMap
<1>6. TotalPoints(f, year) = SumFunctionOnSet(f, S)
  BY <1>3 DEF TotalPoints, InYear
<1>7. SumFunctionOnSet(f, S) \in Nat
  BY <1>4, <1>5, SumOfNaturals
<1> QED
  BY <1>3, <1>4, <1>5, <1>6, <1>7

LEMMA ShareIs ==
  ASSUME NEW part \in Nat, NEW whole \in Nat, NEW sum \in Nat
  PROVE  /\ Share(part, whole, sum) \in Nat
         /\ whole * Share(part, whole, sum) <= sum * part + whole
<1>1. PICK q : q = Share(part, whole, sum)
  OBVIOUS
<1>2. CASE part >= whole
  <2>1. q = sum
    BY <1>1, <1>2 DEF Share
  <2>2. sum * whole <= sum * part
    BY <1>2, ProductLess
  <2>3. whole * sum = sum * whole /\ sum * whole \in Nat /\ sum * part \in Nat
    BY ProductIs
  <2>4. whole * q <= sum * part + whole
    BY <2>1, <2>2, <2>3
  <2> QED
    BY <1>1, <2>1, <2>4
<1>3. CASE part < whole
  <2>1. PICK m \in Nat : m = part * sum /\ m = sum * part
    BY ProductIs
  <2>2. 2 * part * sum = 2 * m
    BY <2>1, Z3
  <2>3. PICK top \in Nat, bottom \in Nat \ {0} : top = 2 * m + whole - 1 /\ bottom = 2 * whole
    BY <1>3
  <2>4. q = top \div bottom
    BY <1>1, <1>3, <2>2, <2>3 DEF Share
  <2>5. q \in Nat /\ bottom * q <= top
    BY <2>3, <2>4, DivIs
  <2>6. PICK n \in Nat : n = whole * q
    BY <2>5, ProductIs
  <2>7. bottom * q = 2 * n
    BY <2>3, <2>5, <2>6, Z3
  <2>8. n <= m + whole
    BY <1>3, <2>3, <2>5, <2>7
  <2> QED
    BY <1>1, <2>1, <2>5, <2>6, <2>8
<1> QED
  BY <1>2, <1>3

(* What a claim does, with m and n paid for VIP and VIPP points.            *)
TakenOf(k) == At(taken, k, [vip |-> 0, vipp |-> 0])

Claimed(year, a, k, r, m, n) ==
  /\ year \in DOMAIN rewards /\ r = rewards[year] /\ k = <<year, a>>
  /\ k \in DOMAIN vipPoints
  /\ m = Share(vipPoints[k], r.vipPoints, r.vip)
  /\ n = IF k \in DOMAIN vippPoints THEN Share(vippPoints[k], r.vippPoints, r.vipp) ELSE 0
  /\ m + n <= funds
  /\ vipPoints' = Drop(vipPoints, k) /\ vippPoints' = Drop(vippPoints, k)
  /\ funds' = funds - m - n
  /\ taken' = Put(taken, k, [vip |-> TakenOf(k).vip + m, vipp |-> TakenOf(k).vipp + n])
  /\ UNCHANGED <<clock, lastEra, date, vip, vipp, rewards, earned, due>>

LEMMA ClaimIs ==
  ASSUME YearsTyped, NEW year, NEW a \in Members, ClaimRewards(year, a)
  PROVE  \E r \in RewardRecord, m \in Nat, n \in Nat : Claimed(year, a, <<year, a>>, r, m, n)
<1>1. PICK k : k = <<year, a>>
  OBVIOUS
<1>2. PICK r : r = rewards[year]
  OBVIOUS
<1>3. PICK m : m = Share(vipPoints[k], r.vipPoints, r.vip)
  OBVIOUS
<1>4. PICK n : n = IF k \in DOMAIN vippPoints THEN Share(vippPoints[k], r.vippPoints, r.vipp) ELSE 0
  OBVIOUS
<1>5. year \in DOMAIN rewards /\ k \in DOMAIN vipPoints
  BY <1>1, Zenon DEF ClaimRewards
<1>6. /\ m + n <= funds
      /\ vipPoints' = Drop(vipPoints, k) /\ vippPoints' = Drop(vippPoints, k)
      /\ funds' = funds - m - n
  BY <1>1, <1>2, <1>3, <1>4, Zenon DEF ClaimRewards, TakePoints
<1>7. taken' = Put(taken, k, [vip |-> TakenOf(k).vip + m, vipp |-> TakenOf(k).vipp + n])
  BY <1>1, <1>2, <1>3, <1>4, Zenon DEF ClaimRewards, TakenOf
<1>8. UNCHANGED <<clock, lastEra, date, vip, vipp, rewards, earned, due>>
  BY DEF ClaimRewards, memberVars
<1>9. r \in RewardRecord
  BY <1>2, <1>5 DEF YearsTyped, IsMap
<1>10. r.vipPoints \in Nat /\ r.vip \in Nat /\ r.vippPoints \in Nat /\ r.vipp \in Nat
  BY <1>9 DEF RewardRecord
<1>11. vipPoints[k] \in Nat
  BY <1>5 DEF YearsTyped, IsFiled, IsMap
<1>12. m \in Nat
  BY <1>3, <1>10, <1>11, ShareIs
<1>13. n \in Nat
  <2>1. CASE k \in DOMAIN vippPoints
    <3>1. vippPoints[k] \in Nat
      BY <2>1 DEF YearsTyped, IsFiled, IsMap
    <3> QED
      BY <1>4, <1>10, <2>1, <3>1, ShareIs
  <2>2. CASE k \notin DOMAIN vippPoints
    BY <1>4, <2>2
  <2> QED
    BY <2>1, <2>2
<1>14. Claimed(year, a, k, r, m, n)
  BY <1>1, <1>2, <1>3, <1>4, <1>5, <1>6, <1>7, <1>8 DEF Claimed
<1> QED
  BY <1>1, <1>9, <1>12, <1>13, <1>14

LEMMA ClaimTyped ==
  ASSUME YearsTyped, NEW year, NEW a \in Members, ClaimRewards(year, a)
  PROVE  YearsTyped'
<1>1. PICK r \in RewardRecord, m \in Nat, n \in Nat : Claimed(year, a, <<year, a>>, r, m, n)
  BY ClaimIs
<1>2. PICK k : k = <<year, a>>
  OBVIOUS
<1>3. /\ year \in DOMAIN rewards /\ m + n <= funds
      /\ vipPoints' = Drop(vipPoints, k) /\ vippPoints' = Drop(vippPoints, k)
      /\ funds' = funds - m - n
      /\ UNCHANGED <<clock, lastEra, date, vip, vipp, rewards, earned>>
  BY <1>1, <1>2 DEF Claimed
<1>4. IsFiled(vipPoints', Year(date)) /\ IsFiled(vippPoints', Year(date))
  BY <1>3, TypedNow, DropIs DEF IsFiled
<1>5. PICK v : v = [vip |-> TakenOf(k).vip + m, vipp |-> TakenOf(k).vipp + n]
  OBVIOUS
<1>6. taken' = Put(taken, k, v)
  BY <1>1, <1>2, <1>5, Zenon DEF Claimed
<1>7. IsMap(taken, (DOMAIN rewards) \X Members, TakenRecord)
  BY DEF YearsTyped
<1>8. v \in TakenRecord
  <2>1. TakenOf(k) \in TakenRecord
    BY <1>7 DEF TakenOf, At, IsMap, TakenRecord
  <2> QED
    BY <1>5, <2>1 DEF TakenRecord
<1>9. k \in (DOMAIN rewards) \X Members
  BY <1>2, <1>3
<1>10. IsMap(taken', (DOMAIN rewards) \X Members, TakenRecord)
  BY <1>6, <1>7, <1>8, <1>9, PutIs
<1>11. funds' \in 0 .. Funds
  BY <1>3, YearsTypes DEF YearsTyped
<1> QED
  BY <1>3, <1>4, <1>10, <1>11 DEF YearsTyped

LEMMA SetTyped ==
  ASSUME YearsTyped, NEW year \in 0 .. Year(date), NEW m \in RewardSums, NEW n \in RewardSums,
         SetRewards(year, m, n)
  PROVE  YearsTyped'
<1>1. PICK y \in Nat : y = Year(date) /\ year \in 0 .. y - 1
  BY DatesAreNaturals DEF SetRewards
<1>2. PICK r : r = [vipPoints  |-> TotalPoints(vipPoints, year),  vip  |-> m,
                    vippPoints |-> TotalPoints(vippPoints, year), vipp |-> n]
  OBVIOUS
<1>3. /\ rewards' = Put(rewards, year, r)
      /\ UNCHANGED <<clock, lastEra, date, vip, vipp, vipPoints, vippPoints, funds, earned, taken>>
  BY <1>2 DEF SetRewards, memberVars
<1>4. r \in RewardRecord
  <2>1. TotalPoints(vipPoints, year) \in Nat /\ TotalPoints(vippPoints, year) \in Nat
    BY <1>1, TypedNow, PointsOfYear
  <2> QED
    BY <1>2, <2>1, YearsTypes DEF RewardRecord
<1>5. IsMap(rewards, 0 .. y - 1, RewardRecord)
  BY <1>1 DEF YearsTyped
<1>6. IsMap(rewards', 0 .. y - 1, RewardRecord) /\ DOMAIN rewards \subseteq DOMAIN rewards'
  <2>1. PICK g : g = Put(rewards, year, r)
    OBVIOUS
  <2>2. PICK f, K, V, k : f = rewards /\ K = 0 .. y - 1 /\ V = RewardRecord /\ k = year
    OBVIOUS
  <2>3. IsMap(f, K, V) /\ k \in K /\ r \in V
    BY <1>1, <1>4, <1>5, <2>2
  <2>4. IsMap(Put(f, k, r), K, V) /\ DOMAIN Put(f, k, r) = DOMAIN f \cup {k}
    BY <2>3 DEF IsMap, Put
  <2> QED
    BY <1>3, <2>1, <2>2, <2>4
<1>7. IsMap(taken, (DOMAIN rewards') \X Members, TakenRecord)
  <2>1. (DOMAIN rewards) \X Members \subseteq (DOMAIN rewards') \X Members
    BY <1>6
  <2>2. IsMap(taken, (DOMAIN rewards) \X Members, TakenRecord)
    BY DEF YearsTyped
  <2> QED
    BY <2>1, <2>2, MapOfMore
<1> QED
  BY <1>1, <1>3, <1>6, <1>7 DEF YearsTyped

LEMMA TypedStep == YearsTyped /\ [PrivilegesNext]_privilegesVars => YearsTyped'
<1> SUFFICES ASSUME YearsTyped, [PrivilegesNext]_privilegesVars PROVE YearsTyped'
  OBVIOUS
<1>1. CASE Tick
  BY <1>1, TickTyped
<1>2. CASE UpdateQuarterInfo
  BY <1>2, QuarterTyped
<1>3. CASE \E new \in date + 1 .. clock : UpdateTime(new)
  BY <1>3, TimeTyped
<1>4. ASSUME NEW a \in Members, NEW stake \in Stakes, NEW newVipp \in BOOLEAN,
             NEW threshold \in Thresholds, BecomeVipStatus(a, stake, newVipp, threshold)
      PROVE  YearsTyped'
  BY <1>4, BecomeTyped
<1>5. ASSUME NEW a \in Members, DoExitVip(a) PROVE YearsTyped'
  BY <1>5, ExitTyped
<1>6. ASSUME NEW a \in Members, NEW stake \in Stakes \cup {0}, UpdateActiveStake(a, stake)
      PROVE  YearsTyped'
  BY <1>6, StakeTyped
<1>7. ASSUME NEW a \in Members, NEW threshold \in Thresholds, MintNewVippNft(a, threshold)
      PROVE  YearsTyped'
  BY <1>7, MintTyped
<1>8. ASSUME NEW a \in Members, NEW threshold \in Thresholds, NEW last \in BOOLEAN,
             BurnVippThreshold(a, threshold, last)
      PROVE  YearsTyped'
  BY <1>8, BurnTyped
<1>9. ASSUME NEW a \in Members, NEW year \in 0 .. Year(date), NEW points \in ForcedPoints,
             ForceSetVipPoints(year, a, points)
      PROVE  YearsTyped'
  BY <1>9, ForceVipTyped
<1>10. ASSUME NEW a \in Members, NEW year \in 0 .. Year(date), NEW points \in ForcedPoints,
              ForceSetVippPoints(year, a, points)
       PROVE  YearsTyped'
  BY <1>10, ForceVippTyped
<1>11. ASSUME NEW a \in Members, NEW year \in 0 .. Year(date), ClaimRewards(year, a)
       PROVE  YearsTyped'
  BY <1>11, ClaimTyped
<1>12. ASSUME NEW year \in 0 .. Year(date), NEW m \in RewardSums, NEW n \in RewardSums,
              SetRewards(year, m, n)
       PROVE  YearsTyped'
  BY <1>12, SetTyped
<1>13. CASE UNCHANGED privilegesVars
  BY <1>13 DEF YearsTyped, privilegesVars, memberVars, yearVars
<1> QED
  BY <1>1, <1>2, <1>3, <1>4, <1>5, <1>6, <1>7, <1>8, <1>9, <1>10, <1>11, <1>12, <1>13 DEF PrivilegesNext

-----------------------------------------------------------------------------
(* Rewards are shared: of the w points and the sum s of a year, p is paid   *)
(* and left points are not claimed yet, after n claims.                     *)

Balanced(w, s, p, left, n) == w * p + s * left <= s * w + w * n

LEMMA BalanceStep ==
  ASSUME NEW w \in Nat, NEW s \in Nat, NEW p \in Nat, NEW left \in Nat, NEW n \in Nat,
         Balanced(w, s, p, left, n),
         NEW q \in Nat, NEW c \in Nat, c <= left, w * q <= s * c + w
  PROVE  Balanced(w, s, p + q, left - c, n + 1)
<1>1. w * (p + q) = w * p + w * q /\ s * (left - c) = s * left - s * c /\ w * (n + 1) = w * n + w
  BY Z3
<1>2. /\ w * p \in Nat /\ w * q \in Nat /\ s * left \in Nat /\ s * c \in Nat
      /\ w * n \in Nat /\ s * w \in Nat
  BY ProductIs
<1>3. w * p + s * left <= s * w + w * n
  BY DEF Balanced
<1>4. PICK A \in Nat, B \in Nat, C \in Nat, D \in Nat, E \in Nat, F \in Nat :
        /\ A = w * p /\ B = w * q /\ C = s * left /\ D = s * c /\ E = w * n /\ F = s * w
  BY <1>2
<1>5. A + C <= F + E /\ B <= D + w
  BY <1>3, <1>4
<1>6. (A + B) + (C - D) <= F + (E + w)
  BY <1>5
<1>7. w * (p + q) = A + B /\ s * (left - c) = C - D /\ w * (n + 1) = E + w
  BY <1>1, <1>4
<1> QED
  BY <1>4, <1>6, <1>7 DEF Balanced

(* What the balance of a year means for what it cost.                      *)
LEMMA BalancedIsBounded ==
  ASSUME NEW w \in Nat \ {0}, NEW s \in Nat, NEW p \in Nat, NEW left \in Nat, NEW n \in Nat,
         Balanced(w, s, p, left, n), NEW m \in Nat, n <= m
  PROVE  p <= s + m
<1>1. w * n <= w * m
  BY ProductLess
<1>2. w * (s + m) = s * w + w * m
  BY Z3
<1>3. w * p \in Nat /\ s * left \in Nat /\ s * w \in Nat /\ w * n \in Nat /\ w * m \in Nat
  BY ProductIs
<1>4. w * p <= w * (s + m)
  BY <1>1, <1>2, <1>3 DEF Balanced
<1>5. p \in Int /\ s + m \in Int
  OBVIOUS
<1> QED
  BY <1>4, <1>5, CancelFactor

(* Sums over the keys of a year.                                           *)
SameIn(f, g, year) ==
  \A a \in Members :
    /\ <<year, a>> \in DOMAIN f <=> <<year, a>> \in DOMAIN g
    /\ <<year, a>> \in DOMAIN f => g[<<year, a>>] = f[<<year, a>>]

LEMMA PointsSame ==
  ASSUME NEW y \in Nat, NEW f, IsFiled(f, y), NEW z \in Nat, NEW g, IsFiled(g, z),
         NEW year, SameIn(f, g, year)
  PROVE  TotalPoints(f, year) = TotalPoints(g, year)
<1>1. \A k \in DOMAIN f : \E a \in Members : k = <<k[1], a>>
  BY DEF IsFiled, IsMap
<1>2. \A k \in DOMAIN g : \E a \in Members : k = <<k[1], a>>
  BY DEF IsFiled, IsMap
<1>3. InYear(f, year) = InYear(g, year)
  BY <1>1, <1>2 DEF SameIn, InYear
<1>4. PICK S : S = InYear(f, year)
  OBVIOUS
<1>5. /\ IsFiniteSet(S) /\ \A k \in S : f[k] \in Nat
      /\ TotalPoints(f, year) = SumFunctionOnSet(f, S)
  BY <1>4, PointsOfYear
<1>6. TotalPoints(g, year) = SumFunctionOnSet(g, S)
  BY <1>3, <1>4, PointsOfYear
<1>7. \A k \in S : f[k] = g[k]
  BY <1>1, <1>4 DEF SameIn, InYear
<1>8. IntegersOn(f, S)
  BY <1>5 DEF IntegersOn
<1>9. SumFunctionOnSet(f, S) = SumFunctionOnSet(g, S)
  BY <1>5, <1>7, <1>8, SumCongruence
<1> QED
  BY <1>5, <1>6, <1>9

LEMMA PointsDrop ==
  ASSUME NEW y \in Nat, NEW f, IsFiled(f, y), NEW k, NEW year, k[1] = year
  PROVE  /\ k \in DOMAIN f => /\ f[k] \in Nat /\ f[k] <= TotalPoints(f, year)
                             /\ TotalPoints(Drop(f, k), year) = TotalPoints(f, year) - f[k]
         /\ k \notin DOMAIN f => TotalPoints(Drop(f, k), year) = TotalPoints(f, year)
<1>1. PICK g : g = Drop(f, k)
  OBVIOUS
<1>2. IsFiled(g, y) /\ DOMAIN g = DOMAIN f \ {k} /\ \A x \in DOMAIN f : x # k => g[x] = f[x]
  <2>1. PICK K : K = (0 .. y - 1) \X Members
    OBVIOUS
  <2>2. IsMap(f, K, Nat)
    BY <2>1 DEF IsFiled
  <2>3. IsMap(g, K, Nat)
    BY <1>1, <2>2, DropIs
  <2>4. DOMAIN g = DOMAIN f \ {k} /\ \A x \in DOMAIN f : x # k => g[x] = f[x]
    BY <1>1 DEF Drop
  <2> QED
    BY <2>1, <2>3, <2>4 DEF IsFiled
<1>3. PICK S : S = InYear(f, year)
  OBVIOUS
<1>4. PICK T : T = InYear(g, year)
  OBVIOUS
<1>5. T = S \ {k} /\ \A x \in T : g[x] = f[x]
  BY <1>2, <1>3, <1>4 DEF InYear
<1>6. /\ IsFiniteSet(S) /\ \A x \in S : f[x] \in Nat
      /\ TotalPoints(f, year) = SumFunctionOnSet(f, S) /\ TotalPoints(f, year) \in Nat
  BY <1>3, PointsOfYear
<1>7. /\ IsFiniteSet(T) /\ \A x \in T : g[x] \in Nat
      /\ TotalPoints(g, year) = SumFunctionOnSet(g, T) /\ TotalPoints(g, year) \in Nat
  BY <1>2, <1>4, PointsOfYear
<1>8. SumFunctionOnSet(g, T) = SumFunctionOnSet(f, T)
  <2>1. IntegersOn(g, T)
    BY <1>7 DEF IntegersOn
  <2>2. \A x \in T : g[x] = f[x]
    BY <1>5
  <2> QED
    BY <1>7, <2>1, <2>2, SumCongruence
<1>9. CASE k \in DOMAIN f
  <2>1. k \in S
    BY <1>3, <1>9 DEF InYear
  <2>2. IntegersOn(f, S)
    BY <1>6 DEF IntegersOn
  <2>3. SumFunctionOnSet(f, S) = f[k] + SumFunctionOnSet(f, S \ {k})
    BY <1>6, <2>1, <2>2, SumRemove
  <2>4. TotalPoints(f, year) = f[k] + TotalPoints(g, year) /\ f[k] \in Nat
    BY <1>5, <1>6, <1>7, <1>8, <2>1, <2>3
  <2> QED
    BY <1>1, <1>6, <1>7, <1>9, <2>4
<1>10. CASE k \notin DOMAIN f
  <2>1. S = T
    BY <1>3, <1>5, <1>10 DEF InYear
  <2> QED
    BY <1>1, <1>6, <1>7, <1>8, <1>10, <2>1
<1> QED
  BY <1>9, <1>10

(* What was paid of one kind, by the keys of t.                            *)
PaidOf(t, year, kind) ==
  SumFunctionOnSet([k \in DOMAIN t |-> t[k][kind]], {k \in DOMAIN t : k[1] = year})

IsTaken(t, y) == IsMap(t, (0 .. y - 1) \X Members, TakenRecord)

LEMMA PaidType ==
  ASSUME NEW y \in Nat, NEW t, IsTaken(t, y), NEW year, NEW kind \in {"vip", "vipp"}
  PROVE  /\ IsFiniteSet(InYear(t, year)) /\ Cardinality(InYear(t, year)) \in Nat
         /\ Cardinality(InYear(t, year)) <= Cardinality(Members)
         /\ \A k \in DOMAIN t : t[k][kind] \in Nat
         /\ PaidOf(t, year, kind) \in Nat
<1>1. PICK z \in Int : z = y - 1
  OBVIOUS
<1>2. IsMap(t, (0 .. z) \X Members, TakenRecord)
  BY <1>1 DEF IsTaken
<1>3. PICK S : S = InYear(t, year)
  OBVIOUS
<1>4. IsFiniteSet(S) /\ Cardinality(S) <= Cardinality(Members)
  BY <1>2, <1>3, InYearFinite
<1>5. Cardinality(S) \in Nat
  BY <1>4, FS_CardinalityType
<1>6. \A k \in DOMAIN t : t[k][kind] \in Nat
  BY <1>2 DEF IsMap, TakenRecord
<1>7. PICK f : f = [k \in DOMAIN t |-> t[k][kind]]
  OBVIOUS
<1>8. \A k \in S : f[k] \in Nat
  BY <1>3, <1>6, <1>7 DEF InYear
<1>9. PaidOf(t, year, kind) = SumFunctionOnSet(f, S)
  BY <1>3, <1>7, Zenon DEF PaidOf, InYear
<1>10. SumFunctionOnSet(f, S) \in Nat
  BY <1>4, <1>8, SumOfNaturals
<1> QED
  BY <1>3, <1>4, <1>5, <1>6, <1>9, <1>10

LEMMA PaidPut ==
  ASSUME NEW y \in Nat, NEW t, IsTaken(t, y), NEW k \in (0 .. y - 1) \X Members, k \notin DOMAIN t,
         NEW v \in TakenRecord, NEW year, NEW kind \in {"vip", "vipp"}
  PROVE  /\ k[1] = year => /\ PaidOf(Put(t, k, v), year, kind) = PaidOf(t, year, kind) + v[kind]
                          /\ Cardinality(InYear(Put(t, k, v), year)) = Cardinality(InYear(t, year)) + 1
         /\ k[1] # year => /\ PaidOf(Put(t, k, v), year, kind) = PaidOf(t, year, kind)
                          /\ InYear(Put(t, k, v), year) = InYear(t, year)
<1>1. PICK u : u = Put(t, k, v)
  OBVIOUS
<1>2. IsTaken(u, y) /\ DOMAIN u = DOMAIN t \cup {k} /\ u[k] = v /\ \A x \in DOMAIN t : u[x] = t[x]
  BY <1>1, PutIs DEF IsTaken
<1>3. PICK f : f = [x \in DOMAIN t |-> t[x][kind]]
  OBVIOUS
<1>4. PICK g : g = [x \in DOMAIN u |-> u[x][kind]]
  OBVIOUS
<1>5. PICK S : S = InYear(t, year)
  OBVIOUS
<1>6. PICK T : T = InYear(u, year)
  OBVIOUS
<1>7. PaidOf(t, year, kind) = SumFunctionOnSet(f, S) /\ PaidOf(u, year, kind) = SumFunctionOnSet(g, T)
  BY <1>3, <1>4, <1>5, <1>6, Zenon DEF PaidOf, InYear
<1>8. IsFiniteSet(S) /\ k \notin S
  BY <1>5, PaidType DEF InYear
<1>9. (\A x \in DOMAIN t : t[x][kind] \in Nat) /\ (\A x \in DOMAIN u : u[x][kind] \in Nat)
  BY <1>2, PaidType
<1>10. \A x \in S : f[x] = g[x]
  BY <1>2, <1>3, <1>4, <1>5 DEF InYear
<1>11. IntegersOn(f, S) /\ IntegersOn(g, T)
  BY <1>3, <1>4, <1>5, <1>6, <1>9 DEF InYear, IntegersOn
<1>12. SumFunctionOnSet(f, S) = SumFunctionOnSet(g, S)
  BY <1>8, <1>10, <1>11, SumCongruence
<1>13. CASE k[1] = year
  <2>1. T = S \cup {k} /\ g[k] = v[kind]
    BY <1>2, <1>4, <1>5, <1>6, <1>13 DEF InYear
  <2>2. IntegersOn(g, S \cup {k})
    BY <1>11, <2>1
  <2>3. SumFunctionOnSet(g, S \cup {k}) = SumFunctionOnSet(g, S) + g[k]
    BY <1>8, <2>2, SumAdd
  <2>4. Cardinality(T) = Cardinality(S) + 1
    BY <1>8, <2>1, FS_AddElement
  <2> QED
    BY <1>1, <1>5, <1>6, <1>7, <1>12, <1>13, <2>1, <2>3, <2>4
<1>14. CASE k[1] # year
  <2>1. T = S
    BY <1>2, <1>5, <1>6, <1>14 DEF InYear
  <2> QED
    BY <1>1, <1>5, <1>6, <1>7, <1>12, <1>14, <2>1
<1> QED
  BY <1>13, <1>14

(* One year of rewards, whose record is r.                                 *)
SharedYear(r, t, f, g, year) ==
  /\ Balanced(r.vipPoints, r.vip, PaidOf(t, year, "vip"), TotalPoints(f, year),
              Cardinality(InYear(t, year)))
  /\ Balanced(r.vippPoints, r.vipp, PaidOf(t, year, "vipp"), TotalPoints(g, year),
              Cardinality(InYear(t, year)))

(* Who was paid for a year has no points in it any more.                   *)
YearsShared ==
  /\ DOMAIN taken \cap DOMAIN vipPoints = {}
  /\ \A year \in DOMAIN rewards : SharedYear(rewards[year], taken, vipPoints, vippPoints, year)

LEMMA TakenNow ==
  ASSUME YearsTyped
  PROVE  IsTaken(taken, Year(date))
<1>1. PICK y \in Nat : y = Year(date)
  BY DatesAreNaturals
<1>2. DOMAIN rewards \subseteq 0 .. y - 1
  BY <1>1 DEF YearsTyped, IsMap
<1>3. (DOMAIN rewards) \X Members \subseteq (0 .. y - 1) \X Members
  BY <1>2
<1>4. IsMap(taken, (DOMAIN rewards) \X Members, TakenRecord)
  BY DEF YearsTyped
<1>5. IsMap(taken, (0 .. y - 1) \X Members, TakenRecord)
  BY <1>3, <1>4, MapOfMore
<1> QED
  BY <1>1, <1>5 DEF IsTaken

LEMMA SharedInit == PrivilegesInit => YearsShared
BY DEF PrivilegesInit, YearsShared, Nothing

(* Most steps leave the points of years with rewards alone.                *)
LEMMA SharedKept ==
  ASSUME YearsTyped, YearsTyped', YearsShared, rewards' = rewards, taken' = taken,
         \A year \in DOMAIN rewards :
           SameIn(vipPoints, vipPoints', year) /\ SameIn(vippPoints, vippPoints', year)
  PROVE  YearsShared'
<1>1. ASSUME NEW k \in DOMAIN taken PROVE k \notin DOMAIN vipPoints'
  <2>1. PICK year \in DOMAIN rewards, a \in Members : k = <<year, a>>
    BY <1>1 DEF YearsTyped, IsMap
  <2>2. k \notin DOMAIN vipPoints
    BY DEF YearsShared
  <2> QED
    BY <2>1, <2>2 DEF SameIn
<1>2. ASSUME NEW year \in DOMAIN rewards
      PROVE  SharedYear(rewards[year], taken, vipPoints', vippPoints', year)
  <2>1. PICK y \in Nat, z \in Nat : y = Year(date) /\ z = Year(date')
    <3>1. date' \in Nat
      BY YearsTypes DEF YearsTyped
    <3> QED
      BY <3>1, DatesAreNaturals, YearType
  <2>2. IsFiled(vipPoints, y) /\ IsFiled(vippPoints, y)
    BY <2>1 DEF YearsTyped
  <2>3. IsFiled(vipPoints', z) /\ IsFiled(vippPoints', z)
    BY <2>1 DEF YearsTyped
  <2>4. SameIn(vipPoints, vipPoints', year) /\ SameIn(vippPoints, vippPoints', year)
    BY <1>2
  <2>5. PICK f, g, p, q : f = vipPoints /\ g = vippPoints /\ p = vipPoints' /\ q = vippPoints'
    OBVIOUS
  <2>6. /\ IsFiled(f, y) /\ IsFiled(g, y) /\ IsFiled(p, z) /\ IsFiled(q, z)
        /\ SameIn(f, p, year) /\ SameIn(g, q, year)
    BY <2>2, <2>3, <2>4, <2>5
  <2>7. TotalPoints(f, year) = TotalPoints(p, year) /\ TotalPoints(g, year) = TotalPoints(q, year)
    BY <2>6, PointsSame
  <2>8. SharedYear(rewards[year], taken, f, g, year)
    BY <1>2, <2>5 DEF YearsShared
  <2>9. SharedYear(rewards[year], taken, p, q, year)
    BY <2>7, <2>8 DEF SharedYear
  <2> QED
    BY <2>5, <2>9
<1> QED
  BY <1>1, <1>2 DEF YearsShared

LEMMA SharedUntouched ==
  ASSUME YearsTyped, YearsTyped', YearsShared,
         UNCHANGED <<rewards, taken, vipPoints, vippPoints>>
  PROVE  YearsShared'
BY DEF YearsShared

LEMMA NewDateShared ==
  ASSUME YearsTyped, YearsTyped', YearsShared, NEW new, NEW r, NewDate(r, new)
  PROVE  YearsShared'
<1>1. PICK y \in Nat : y = Year(date)
  BY DatesAreNaturals
<1>2. /\ vipPoints' = r.vipPoints /\ vippPoints' = r.vippPoints
      /\ rewards' = rewards /\ taken' = taken
      /\ SameBefore(vipPoints, r.vipPoints, y) /\ SameBefore(vippPoints, r.vippPoints, y)
  BY <1>1 DEF NewDate, Write
<1>3. ASSUME NEW year \in DOMAIN rewards
      PROVE  SameIn(vipPoints, vipPoints', year) /\ SameIn(vippPoints, vippPoints', year)
  <2>1. year \in 0 .. y - 1
    BY <1>1 DEF YearsTyped, IsMap
  <2>2. \A a \in Members : <<year, a>> \in (0 .. y - 1) \X Members
    BY <2>1
  <2> QED
    BY <1>2, <2>2 DEF SameBefore, SameIn
<1> QED
  BY <1>2, <1>3, SharedKept

LEMMA PutElsewhere ==
  ASSUME NEW f, NEW w, NEW a, NEW m, NEW year, year # w
  PROVE  SameIn(f, Put(f, <<w, a>>, m), year)
BY DEF SameIn, Put

LEMMA ForceShared ==
  ASSUME YearsTyped, YearsTyped', YearsShared, NEW year, year \notin DOMAIN rewards, NEW a, NEW m,
         rewards' = rewards, taken' = taken,
         vipPoints' = vipPoints \/ vipPoints' = Put(vipPoints, <<year, a>>, m),
         vippPoints' = vippPoints \/ vippPoints' = Put(vippPoints, <<year, a>>, m)
  PROVE  YearsShared'
<1>1. ASSUME NEW w \in DOMAIN rewards
      PROVE  SameIn(vipPoints, vipPoints', w) /\ SameIn(vippPoints, vippPoints', w)
  <2>1. w # year
    BY <1>1
  <2>2. SameIn(vipPoints, vipPoints, w) /\ SameIn(vippPoints, vippPoints, w)
    BY DEF SameIn
  <2>3. SameIn(vipPoints, Put(vipPoints, <<year, a>>, m), w)
        /\ SameIn(vippPoints, Put(vippPoints, <<year, a>>, m), w)
    BY <2>1, PutElsewhere
  <2> QED
    BY <2>2, <2>3
<1> QED
  BY <1>1, SharedKept

LEMMA SetShared ==
  ASSUME YearsTyped, YearsTyped', YearsShared, NEW year, NEW m \in RewardSums, NEW n \in RewardSums,
         SetRewards(year, m, n)
  PROVE  YearsShared'
<1>1. PICK r : r = [vipPoints  |-> TotalPoints(vipPoints, year),  vip  |-> m,
                    vippPoints |-> TotalPoints(vippPoints, year), vipp |-> n]
  OBVIOUS
<1>2. /\ year \notin DOMAIN rewards /\ rewards' = Put(rewards, year, r)
      /\ UNCHANGED <<vipPoints, vippPoints, taken>>
  BY <1>1 DEF SetRewards
<1>3. PICK y \in Nat : y = Year(date)
  BY DatesAreNaturals
<1>4. SharedYear(r, taken, vipPoints, vippPoints, year)
  <2>1. InYear(taken, year) = {}
    BY <1>2 DEF YearsTyped, IsMap, InYear
  <2>2. Cardinality(InYear(taken, year)) = 0
    BY <2>1, FS_EmptySet
  <2>3. PaidOf(taken, year, "vip") = 0 /\ PaidOf(taken, year, "vipp") = 0
    <3>1. {k \in DOMAIN taken : k[1] = year} = {}
      BY <2>1, Zenon DEF InYear
    <3> QED
      BY <3>1, SumEmpty DEF PaidOf
  <2>4. PICK w \in Nat, v \in Nat : w = TotalPoints(vipPoints, year) /\ v = TotalPoints(vippPoints, year)
    BY <1>3, TypedNow, PointsOfYear
  <2>5. m \in Nat /\ n \in Nat
    BY YearsTypes
  <2>6. Balanced(w, m, 0, w, 0) /\ Balanced(v, n, 0, v, 0)
    <3>1. m * w \in Nat /\ n * v \in Nat
      BY <2>5, ProductIs
    <3>2. w * 0 = 0 /\ v * 0 = 0
      OBVIOUS
    <3> QED
      BY <3>1, <3>2 DEF Balanced
  <2>7. r.vipPoints = w /\ r.vip = m /\ r.vippPoints = v /\ r.vipp = n
    BY <1>1, <2>4
  <2> QED
    BY <2>2, <2>3, <2>4, <2>6, <2>7 DEF SharedYear
<1>5. ASSUME NEW w \in DOMAIN rewards'
      PROVE  SharedYear(rewards'[w], taken, vipPoints, vippPoints, w)
  <2>1. CASE w = year
    <3>1. rewards'[w] = r
      BY <1>2, <2>1 DEF Put
    <3> QED
      BY <1>4, <2>1, <3>1
  <2>2. CASE w # year
    <3>1. w \in DOMAIN rewards /\ rewards'[w] = rewards[w]
      BY <1>2, <1>5, <2>2 DEF Put
    <3> QED
      BY <3>1 DEF YearsShared
  <2> QED
    BY <2>1, <2>2
<1>6. DOMAIN taken \cap DOMAIN vipPoints = {}
  BY DEF YearsShared
<1> QED
  BY <1>2, <1>5, <1>6 DEF YearsShared

(* A claim moves the points of one member from what is left to what is paid. *)
LEMMA ShareBalances ==
  ASSUME NEW y \in Nat, NEW f, IsFiled(f, y), NEW t, IsTaken(t, y),
         NEW k \in (0 .. y - 1) \X Members, k \notin DOMAIN t, NEW v \in TakenRecord,
         NEW year, k[1] = year, NEW kind \in {"vip", "vipp"}, NEW w \in Nat, NEW s \in Nat,
         v[kind] = IF k \in DOMAIN f THEN Share(f[k], w, s) ELSE 0,
         Balanced(w, s, PaidOf(t, year, kind), TotalPoints(f, year), Cardinality(InYear(t, year)))
  PROVE  Balanced(w, s, PaidOf(Put(t, k, v), year, kind), TotalPoints(Drop(f, k), year),
                  Cardinality(InYear(Put(t, k, v), year)))
<1>1. PICK p \in Nat, left \in Nat, n \in Nat :
        /\ p = PaidOf(t, year, kind) /\ left = TotalPoints(f, year) /\ n = Cardinality(InYear(t, year))
  BY PaidType, PointsOfYear
<1>2. Balanced(w, s, p, left, n)
  BY <1>1
<1>3. PICK q : q = v[kind]
  OBVIOUS
<1>4. PaidOf(Put(t, k, v), year, kind) = p + q /\ Cardinality(InYear(Put(t, k, v), year)) = n + 1
  BY <1>1, <1>3, PaidPut
<1>5. CASE k \in DOMAIN f
  <2>1. PICK c \in Nat : c = f[k] /\ c <= left /\ TotalPoints(Drop(f, k), year) = left - c
    BY <1>1, <1>5, PointsDrop
  <2>2. q = Share(c, w, s)
    BY <1>3, <1>5, <2>1
  <2>3. q \in Nat /\ w * q <= s * c + w
    BY <2>2, ShareIs
  <2>4. Balanced(w, s, p + q, left - c, n + 1)
    BY <1>2, <2>1, <2>3, BalanceStep
  <2> QED
    BY <1>4, <2>1, <2>4
<1>6. CASE k \notin DOMAIN f
  <2>1. TotalPoints(Drop(f, k), year) = left
    BY <1>1, <1>6, PointsDrop
  <2>2. q = 0
    BY <1>3, <1>6
  <2>3. PICK c \in Nat : c = 0
    OBVIOUS
  <2>4. Balanced(w, s, p + c, left - c, n + 1)
    <3>1. c <= left /\ w * c <= s * c + w
      BY <2>3
    <3> QED
      BY <1>2, <3>1, BalanceStep
  <2>5. p + c = p + q /\ left - c = left
    BY <2>2, <2>3
  <2> QED
    BY <1>4, <2>1, <2>4, <2>5
<1> QED
  BY <1>5, <1>6

LEMMA ClaimShared ==
  ASSUME YearsTyped, YearsTyped', YearsShared, NEW year, NEW a \in Members, ClaimRewards(year, a)
  PROVE  YearsShared'
<1>1. PICK r \in RewardRecord, m \in Nat, n \in Nat : Claimed(year, a, <<year, a>>, r, m, n)
  BY ClaimIs
<1>2. PICK k : k = <<year, a>>
  OBVIOUS
<1>3. PICK v : v = [vip |-> TakenOf(k).vip + m, vipp |-> TakenOf(k).vipp + n]
  OBVIOUS
<1>4. /\ year \in DOMAIN rewards /\ r = rewards[year] /\ k \in DOMAIN vipPoints
      /\ m = Share(vipPoints[k], r.vipPoints, r.vip)
      /\ n = IF k \in DOMAIN vippPoints THEN Share(vippPoints[k], r.vippPoints, r.vipp) ELSE 0
      /\ vipPoints' = Drop(vipPoints, k) /\ vippPoints' = Drop(vippPoints, k)
      /\ taken' = Put(taken, k, v) /\ rewards' = rewards
  BY <1>1, <1>2, <1>3, Zenon DEF Claimed
<1>5. k \notin DOMAIN taken
  BY <1>4 DEF YearsShared
<1>6. v = [vip |-> m, vipp |-> n]
  <2>1. TakenOf(k) = [vip |-> 0, vipp |-> 0]
    BY <1>5 DEF TakenOf, At
  <2> QED
    BY <1>3, <2>1
<1>7. v \in TakenRecord /\ v["vip"] = m /\ v["vipp"] = n
  BY <1>6 DEF TakenRecord
<1>8. PICK y \in Nat : y = Year(date)
  BY DatesAreNaturals
<1>9. PICK f, g, t : f = vipPoints /\ g = vippPoints /\ t = taken
  OBVIOUS
<1>10. IsFiled(f, y) /\ IsFiled(g, y) /\ IsTaken(t, y)
  BY <1>8, <1>9, TypedNow, TakenNow
<1>11. k \in (0 .. y - 1) \X Members /\ k[1] = year /\ k \notin DOMAIN t
  BY <1>2, <1>4, <1>5, <1>9, <1>10 DEF IsFiled, IsMap
<1>12. PICK w \in Nat, s \in Nat : w = r.vipPoints /\ s = r.vip
  BY DEF RewardRecord
<1>13. PICK x \in Nat, z \in Nat : x = r.vippPoints /\ z = r.vipp
  BY DEF RewardRecord
<1>14. SharedYear(r, t, f, g, year)
  BY <1>4, <1>9 DEF YearsShared
<1>15. Balanced(w, s, PaidOf(Put(t, k, v), year, "vip"), TotalPoints(Drop(f, k), year),
                Cardinality(InYear(Put(t, k, v), year)))
  <2>1. v["vip"] = IF k \in DOMAIN f THEN Share(f[k], w, s) ELSE 0
    BY <1>4, <1>7, <1>9, <1>12
  <2>2. Balanced(w, s, PaidOf(t, year, "vip"), TotalPoints(f, year), Cardinality(InYear(t, year)))
    BY <1>12, <1>14 DEF SharedYear
  <2> QED
    BY <1>7, <1>10, <1>11, <2>1, <2>2, ShareBalances
<1>16. Balanced(x, z, PaidOf(Put(t, k, v), year, "vipp"), TotalPoints(Drop(g, k), year),
                Cardinality(InYear(Put(t, k, v), year)))
  <2>1. v["vipp"] = IF k \in DOMAIN g THEN Share(g[k], x, z) ELSE 0
    BY <1>4, <1>7, <1>9, <1>13
  <2>2. Balanced(x, z, PaidOf(t, year, "vipp"), TotalPoints(g, year), Cardinality(InYear(t, year)))
    BY <1>13, <1>14 DEF SharedYear
  <2> QED
    BY <1>7, <1>10, <1>11, <2>1, <2>2, ShareBalances
<1>17. SharedYear(r, Put(t, k, v), Drop(f, k), Drop(g, k), year)
  BY <1>12, <1>13, <1>15, <1>16 DEF SharedYear
<1>18. ASSUME NEW e \in DOMAIN rewards, e # year
       PROVE  SharedYear(rewards[e], Put(t, k, v), Drop(f, k), Drop(g, k), e)
  <2>1. SharedYear(rewards[e], t, f, g, e)
    BY <1>9, <1>18 DEF YearsShared
  <2>2. SameIn(f, Drop(f, k), e) /\ SameIn(g, Drop(g, k), e)
    BY <1>2, <1>18 DEF SameIn, Drop
  <2>3. IsFiled(Drop(f, k), y) /\ IsFiled(Drop(g, k), y)
    BY <1>10, DropIs DEF IsFiled
  <2>4. TotalPoints(f, e) = TotalPoints(Drop(f, k), e) /\ TotalPoints(g, e) = TotalPoints(Drop(g, k), e)
    BY <1>10, <2>2, <2>3, PointsSame
  <2>5. k[1] # e
    BY <1>11, <1>18
  <2>6. PaidOf(Put(t, k, v), e, "vip") = PaidOf(t, e, "vip")
        /\ InYear(Put(t, k, v), e) = InYear(t, e)
    BY <1>7, <1>10, <1>11, <2>5, PaidPut
  <2>7. PaidOf(Put(t, k, v), e, "vipp") = PaidOf(t, e, "vipp")
    BY <1>7, <1>10, <1>11, <2>5, PaidPut
  <2> QED
    BY <2>1, <2>4, <2>6, <2>7 DEF SharedYear
<1>19. DOMAIN Put(t, k, v) \cap DOMAIN Drop(f, k) = {}
  <2>1. DOMAIN t \cap DOMAIN f = {}
    BY <1>9 DEF YearsShared
  <2> QED
    BY <2>1 DEF Put, Drop
<1>20. \A e \in DOMAIN rewards : SharedYear(rewards[e], Put(t, k, v), Drop(f, k), Drop(g, k), e)
  BY <1>4, <1>17, <1>18
<1> QED
  BY <1>4, <1>9, <1>19, <1>20 DEF YearsShared

LEMMA SharedStep ==
  ASSUME YearsTyped, YearsTyped', YearsShared, [PrivilegesNext]_privilegesVars
  PROVE  YearsShared'
<1>1. CASE Tick
  BY <1>1, SharedUntouched DEF Tick, yearVars
<1>2. CASE UpdateQuarterInfo
  <2>1. CASE DaysSinceNewYear(date) = DaysSinceNewYear(clock)
    <3>1. UNCHANGED <<rewards, taken, vipPoints, vippPoints>>
      BY <1>2, <2>1, Zenon DEF UpdateQuarterInfo, yearVars
    <3> QED
      BY <3>1, SharedUntouched
  <2>2. CASE DaysSinceNewYear(date) # DaysSinceNewYear(clock)
    BY <1>2, <2>2, QuarterIsNewDate, NewDateShared
  <2> QED
    BY <2>1, <2>2
<1>3. ASSUME NEW new \in date + 1 .. clock, UpdateTime(new) PROVE YearsShared'
  BY <1>3, TimeIsNewDate, NewDateShared
<1>4. ASSUME NEW a \in Members, NEW stake \in Stakes, NEW newVipp \in BOOLEAN,
             NEW threshold \in Thresholds, BecomeVipStatus(a, stake, newVipp, threshold)
      PROVE  YearsShared'
  BY <1>4, SharedUntouched DEF BecomeVipStatus, yearVars
<1>5. ASSUME NEW a \in Members, DoExitVip(a) PROVE YearsShared'
  BY <1>5, SharedUntouched DEF DoExitVip, yearVars
<1>6. ASSUME NEW a \in Members, NEW stake \in Stakes \cup {0}, UpdateActiveStake(a, stake)
      PROVE  YearsShared'
  BY <1>6, SharedUntouched DEF UpdateActiveStake, yearVars
<1>7. ASSUME NEW a \in Members, NEW threshold \in Thresholds, MintNewVippNft(a, threshold)
      PROVE  YearsShared'
  BY <1>7, SharedUntouched DEF MintNewVippNft, yearVars
<1>8. ASSUME NEW a \in Members, NEW threshold \in Thresholds, NEW last \in BOOLEAN,
             BurnVippThreshold(a, threshold, last)
      PROVE  YearsShared'
  BY <1>8, SharedUntouched DEF BurnVippThreshold, yearVars
<1>9. ASSUME NEW a \in Members, NEW year \in 0 .. Year(date), NEW points \in ForcedPoints,
             ForceSetVipPoints(year, a, points)
      PROVE  YearsShared'
  <2>1. /\ year \notin DOMAIN rewards /\ rewards' = rewards /\ taken' = taken
        /\ vipPoints' = vipPoints \/ vipPoints' = Put(vipPoints, <<year, a>>, points)
        /\ vippPoints' = vippPoints
    BY <1>9, Zenon DEF ForceSetVipPoints
  <2> QED
    BY <2>1, ForceShared
<1>10. ASSUME NEW a \in Members, NEW year \in 0 .. Year(date), NEW points \in ForcedPoints,
              ForceSetVippPoints(year, a, points)
       PROVE  YearsShared'
  <2>1. /\ year \notin DOMAIN rewards /\ rewards' = rewards /\ taken' = taken
        /\ vippPoints' = vippPoints \/ vippPoints' = Put(vippPoints, <<year, a>>, points)
        /\ vipPoints' = vipPoints
    BY <1>10, Zenon DEF ForceSetVippPoints
  <2> QED
    BY <2>1, ForceShared
<1>11. ASSUME NEW a \in Members, NEW year \in 0 .. Year(date), ClaimRewards(year, a)
       PROVE  YearsShared'
  BY <1>11, ClaimShared
<1>12. ASSUME NEW year \in 0 .. Year(date), NEW m \in RewardSums, NEW n \in RewardSums,
              SetRewards(year, m, n)
       PROVE  YearsShared'
  BY <1>12, SetShared
<1>13. CASE UNCHANGED privilegesVars
  BY <1>13, SharedUntouched DEF privilegesVars, memberVars, yearVars
<1> QED
  BY <1>1, <1>2, <1>3, <1>4, <1>5, <1>6, <1>7, <1>8, <1>9, <1>10, <1>11, <1>12, <1>13 DEF PrivilegesNext

LEMMA SharedIsBounded == YearsTyped /\ YearsShared => RewardsAreShared
<1> SUFFICES ASSUME YearsTyped, YearsShared, NEW year \in DOMAIN rewards
             PROVE  /\ rewards[year].vipPoints > 0 =>
                         Paid(year, "vip") <= rewards[year].vip + Cardinality(Members)
                    /\ rewards[year].vippPoints > 0 =>
                         Paid(year, "vipp") <= rewards[year].vipp + Cardinality(Members)
  BY DEF RewardsAreShared
<1>1. PICK y \in Nat : y = Year(date)
  BY DatesAreNaturals
<1>2. PICK r \in RewardRecord : r = rewards[year]
  BY DEF YearsTyped, IsMap
<1>3. PICK m \in Nat : m = Cardinality(Members)
  BY YearsTypes, FS_CardinalityType
<1>4. PICK f, g, t : f = vipPoints /\ g = vippPoints /\ t = taken
  OBVIOUS
<1>5. IsFiled(f, y) /\ IsFiled(g, y) /\ IsTaken(t, y)
  BY <1>1, <1>4, TypedNow, TakenNow
<1>6. PICK n \in Nat : n = Cardinality(InYear(t, year)) /\ n <= m
  BY <1>3, <1>5, PaidType
<1>7. SharedYear(r, t, f, g, year)
  BY <1>2, <1>4 DEF YearsShared
<1>8. ASSUME r.vipPoints > 0 PROVE Paid(year, "vip") <= r.vip + m
  <2>1. PICK w \in Nat \ {0}, s \in Nat : w = r.vipPoints /\ s = r.vip
    BY <1>8 DEF RewardRecord
  <2>2. PICK p \in Nat : p = PaidOf(t, year, "vip")
    BY <1>5, PaidType
  <2>3. PICK left \in Nat : left = TotalPoints(f, year)
    BY <1>5, PointsOfYear
  <2>4. Balanced(w, s, p, left, n)
    BY <1>6, <1>7, <2>1, <2>2, <2>3 DEF SharedYear
  <2>5. p <= s + m
    BY <1>6, <2>4, BalancedIsBounded
  <2> QED
    BY <1>4, <2>1, <2>2, <2>5 DEF Paid, PaidOf
<1>9. ASSUME r.vippPoints > 0 PROVE Paid(year, "vipp") <= r.vipp + m
  <2>1. PICK w \in Nat \ {0}, s \in Nat : w = r.vippPoints /\ s = r.vipp
    BY <1>9 DEF RewardRecord
  <2>2. PICK p \in Nat : p = PaidOf(t, year, "vipp")
    BY <1>5, PaidType
  <2>3. PICK left \in Nat : left = TotalPoints(g, year)
    BY <1>5, PointsOfYear
  <2>4. Balanced(w, s, p, left, n)
    BY <1>6, <1>7, <2>1, <2>2, <2>3 DEF SharedYear
  <2>5. p <= s + m
    BY <1>6, <2>4, BalancedIsBounded
  <2> QED
    BY <1>4, <2>1, <2>2, <2>5 DEF Paid, PaidOf
<1> QED
  BY <1>2, <1>3, <1>8, <1>9

(* The invariant of the years: every variable is typed, points are filed    *)
(* under past years, and every year with rewards is in balance.            *)
YearsInv == YearsTyped /\ YearsShared

THEOREM YearsInvariant == PrivilegesSpec => []YearsInv
<1>1. PrivilegesInit => YearsInv
  BY TypedInit, SharedInit DEF YearsInv
<1>2. YearsInv /\ [PrivilegesNext]_privilegesVars => YearsInv'
  <2> SUFFICES ASSUME YearsTyped, YearsShared, [PrivilegesNext]_privilegesVars PROVE YearsInv'
    BY DEF YearsInv
  <2>1. YearsTyped'
    BY TypedStep
  <2>2. YearsShared'
    BY <2>1, SharedStep
  <2> QED
    BY <2>1, <2>2 DEF YearsInv
<1> QED
  BY <1>1, <1>2, PTL DEF PrivilegesSpec

(* Who has points in a year is paid once and in proportion, so that a year  *)
(* costs what was allocated for it, up to a unit for each member.          *)
THEOREM RewardsAlwaysShared == PrivilegesSpec => []RewardsAreShared
<1>1. YearsInv => RewardsAreShared
  BY SharedIsBounded DEF YearsInv
<1> QED
  BY <1>1, YearsInvariant, PTL

-----------------------------------------------------------------------------
(* Years are filed, if an era ends on every day                             *)

LEMMA AtPut ==
  ASSUME NEW f, NEW x, NEW v, NEW k
  PROVE  At(Put(f, x, v), k, 0) = IF k = x THEN v ELSE At(f, k, 0)
BY DEF At, Put

(* The date is at most a day behind.                                       *)
DateIsRecent == lastEra <= date /\ clock <= lastEra + MaxGap

PointsAgree(v, e, y) == \A a \in DOMAIN v : v[a].points = At(e, <<y, a>>, 0)
FilesAgree(f, e) == \A k \in DOMAIN f : f[k] = At(e, k, 0)

YearsFiled ==
  /\ DateIsRecent
  /\ PointsAgree(vip, earned, Year(date))
  /\ FilesAgree(vipPoints, earned)
  /\ due \subseteq DOMAIN vipPoints \cup DOMAIN taken

LEMMA FiledInit == PrivilegesInit => YearsFiled
<1> SUFFICES ASSUME PrivilegesInit PROVE YearsFiled
  OBVIOUS
<1>1. PICK today \in 0 .. DaysPerYear - 1 : clock = today /\ lastEra = today /\ date = today
  BY DEF PrivilegesInit
<1>2. DateIsRecent
  BY <1>1, YearsTypes DEF DateIsRecent
<1>3. DOMAIN vip = {} /\ DOMAIN vipPoints = {} /\ due = {}
  BY DEF PrivilegesInit, Nothing
<1> QED
  BY <1>2, <1>3 DEF YearsFiled, PointsAgree, FilesAgree

LEMMA NextDayDiffers ==
  ASSUME NEW d \in Nat, DaysPerYear > 1
  PROVE  DaysSinceNewYear(d + 1) # DaysSinceNewYear(d)
<1>1. PICK n \in Nat \ {0} : n = DaysPerYear /\ n > 1
  BY YearsTypes
<1>2. PICK y \in Nat, i \in Nat, p \in Nat : IsDate(d, n, y, i, p)
  BY <1>1, DateIs
<1>3. PICK e \in Nat : e = d + 1
  OBVIOUS
<1>4. PICK z \in Nat, j \in Nat, q \in Nat : IsDate(e, n, z, j, q)
  BY <1>1, DateIs
<1>5. z = y \/ z = y + 1
  BY <1>2, <1>3, <1>4, NextDay DEF IsDate
<1>6. q = p \/ q = p + n
  BY <1>2, <1>4, <1>5 DEF IsDate
<1>7. i # j
  BY <1>1, <1>2, <1>3, <1>4, <1>6 DEF IsDate
<1> QED
  BY <1>2, <1>3, <1>4, <1>7 DEF IsDate

LEMMA NewDateFiled ==
  ASSUME YearsTyped, YearsFiled, MaxGap <= 1, NEW r, NEW new \in Nat, NewDate(r, new),
         lastEra' = lastEra \/ lastEra' = clock
  PROVE  YearsFiled'
<1>1. PICK d \in Nat : d = date /\ clock \in Nat /\ lastEra \in Nat /\ MaxGap \in Nat
  BY DatesAreNaturals, YearsTypes
<1>2. new = d + 1 /\ clock = new /\ clock' = clock /\ date' = new
  BY <1>1 DEF NewDate, YearsFiled, DateIsRecent
<1>3. PICK b : b = Books
  OBVIOUS
<1>4. /\ b.vip = vip /\ b.vipPoints = vipPoints /\ b.earned = earned
      /\ IsBooks(b, Year(d))
  BY <1>1, <1>3, BooksAreBooks DEF Books
<1>5. Counted(b, Year(d))
  BY <1>1, <1>4 DEF Counted, YearsFiled, PointsAgree, FilesAgree
<1>6. r = OneDay(b, d + 1)
  BY <1>1, <1>2, <1>3 DEF NewDate
<1>7. /\ Counted(r, Year(d + 1)) /\ DOMAIN b.vipPoints \subseteq DOMAIN r.vipPoints
      /\ Year(d) < Year(d + 1) => Filed(b, r, Year(d))
  BY <1>4, <1>5, <1>6, DayIsCounted
<1>8. /\ vip' = r.vip /\ vipPoints' = r.vipPoints /\ earned' = r.earned /\ taken' = taken
      /\ due' = IF Year(new) > Year(date) THEN due \cup {<<Year(date), a>> : a \in DOMAIN vip} ELSE due
  BY DEF NewDate, Write, TurnOfYear
<1>9. PointsAgree(vip', earned', Year(date')) /\ FilesAgree(vipPoints', earned')
  BY <1>2, <1>7, <1>8 DEF Counted, PointsAgree, FilesAgree
<1>10. due' \subseteq DOMAIN vipPoints' \cup DOMAIN taken'
  <2>1. PICK y \in Nat, z \in Nat : y = Year(d) /\ z = Year(new)
    BY YearType
  <2>2. due \subseteq DOMAIN vipPoints \cup DOMAIN taken
    BY DEF YearsFiled
  <2>3. z > y => \A a \in DOMAIN vip : <<y, a>> \in DOMAIN vipPoints'
    BY <1>2, <1>4, <1>7, <1>8, <2>1 DEF Filed
  <2>4. due' = IF z > y THEN due \cup {<<y, a>> : a \in DOMAIN vip} ELSE due
    BY <1>1, <1>8, <2>1
  <2>5. DOMAIN vipPoints \subseteq DOMAIN vipPoints' /\ taken' = taken
    BY <1>4, <1>7, <1>8
  <2> QED
    BY <2>2, <2>3, <2>4, <2>5
<1>11. DateIsRecent'
  BY <1>1, <1>2 DEF DateIsRecent, YearsFiled
<1> QED
  BY <1>9, <1>10, <1>11 DEF YearsFiled

LEMMA QuarterFiled ==
  ASSUME YearsTyped, YearsFiled, MaxGap <= 1, DaysPerYear > 1, UpdateQuarterInfo
  PROVE  YearsFiled'
<1>1. lastEra' = clock /\ clock' = clock
  BY Zenon DEF UpdateQuarterInfo
<1>2. PICK d \in Nat : d = date /\ clock \in Nat /\ lastEra \in Nat /\ MaxGap \in Nat /\ d <= clock
  BY DatesAreNaturals, YearsTypes
<1>3. CASE DaysSinceNewYear(date) = DaysSinceNewYear(clock)
  <2>1. UNCHANGED <<date, vip, vipPoints, taken, earned, due>>
    BY <1>3, Zenon DEF UpdateQuarterInfo, memberVars, yearVars
  <2>2. clock = d \/ clock = d + 1
    BY <1>2 DEF YearsFiled, DateIsRecent
  <2>3. clock = d
    BY <1>2, <1>3, <2>2, NextDayDiffers
  <2>4. DateIsRecent'
    BY <1>1, <1>2, <2>1, <2>3 DEF DateIsRecent
  <2> QED
    BY <2>1, <2>4 DEF YearsFiled
<1>4. CASE DaysSinceNewYear(date) # DaysSinceNewYear(clock)
  <2>1. PICK r : NewDate(r, clock)
    BY <1>4, QuarterIsNewDate
  <2> QED
    BY <1>1, <1>2, <2>1, NewDateFiled
<1> QED
  BY <1>3, <1>4

LEMMA TickFiled ==
  ASSUME YearsTyped, YearsFiled, Tick
  PROVE  YearsFiled'
<1>1. /\ clock + 1 - lastEra <= MaxGap /\ clock' = clock + 1
      /\ UNCHANGED <<lastEra, date, vip, vipPoints, taken, earned, due>>
  BY DEF Tick, memberVars, yearVars
<1>2. DateIsRecent'
  BY <1>1, DatesAreNaturals, YearsTypes DEF DateIsRecent, YearsFiled
<1> QED
  BY <1>1, <1>2 DEF YearsFiled

LEMMA MembersFiled ==
  ASSUME YearsTyped, YearsFiled, UNCHANGED <<clock, lastEra, date, vipPoints, taken, due>>,
         PointsAgree(vip', earned', Year(date)), FilesAgree(vipPoints, earned')
  PROVE  YearsFiled'
BY DEF YearsFiled, DateIsRecent

(* Points of this year are not filed yet.                                  *)
LEMMA FilesOfThePast ==
  ASSUME YearsTyped, YearsFiled, NEW a, NEW m
  PROVE  FilesAgree(vipPoints, Put(earned, <<Year(date), a>>, m))
<1>1. PICK y \in Nat : y = Year(date)
  BY DatesAreNaturals
<1>2. ASSUME NEW k \in DOMAIN vipPoints PROVE vipPoints[k] = At(Put(earned, <<y, a>>, m), k, 0)
  <2>1. k \in (0 .. y - 1) \X Members
    BY <1>1, <1>2 DEF YearsTyped, IsFiled, IsMap
  <2>2. k # <<y, a>>
    BY <2>1
  <2> QED
    BY <2>2, AtPut DEF YearsFiled, FilesAgree
<1> QED
  BY <1>1, <1>2 DEF FilesAgree

LEMMA BecomeFiled ==
  ASSUME YearsTyped, YearsFiled, NEW a, NEW stake, NEW newVipp, NEW threshold,
         BecomeVipStatus(a, stake, newVipp, threshold)
  PROVE  YearsFiled'
<1>1. PICK y : y = Year(date)
  OBVIOUS
<1>2. /\ vip' = Put(vip, a, [points |-> 0, stake |-> stake])
      /\ earned' = Put(earned, <<y, a>>, 0)
      /\ UNCHANGED <<clock, lastEra, date, vipPoints, taken, due>>
  BY <1>1 DEF BecomeVipStatus, yearVars
<1>3. ASSUME NEW e \in DOMAIN vip' PROVE vip'[e].points = At(earned', <<y, e>>, 0)
  <2>1. CASE e = a
    <3>1. vip'[e] = [points |-> 0, stake |-> stake]
      BY <1>2, <2>1 DEF Put
    <3>2. At(earned', <<y, e>>, 0) = 0
      BY <1>2, <2>1, AtPut
    <3> QED
      BY <3>1, <3>2
  <2>2. CASE e # a
    <3>1. e \in DOMAIN vip /\ vip'[e] = vip[e]
      BY <1>2, <1>3, <2>2 DEF Put
    <3>2. At(earned', <<y, e>>, 0) = At(earned, <<y, e>>, 0)
      BY <1>2, <2>2, AtPut
    <3> QED
      BY <1>1, <3>1, <3>2 DEF YearsFiled, PointsAgree
  <2> QED
    BY <2>1, <2>2
<1> QED
  BY <1>1, <1>2, <1>3, FilesOfThePast, MembersFiled DEF PointsAgree

LEMMA ExitFiled ==
  ASSUME YearsTyped, YearsFiled, NEW a, DoExitVip(a)
  PROVE  YearsFiled'
<1>1. PICK y : y = Year(date)
  OBVIOUS
<1>2. /\ vip' = Drop(vip, a) /\ earned' = Put(earned, <<y, a>>, 0)
      /\ UNCHANGED <<clock, lastEra, date, vipPoints, taken, due>>
  BY <1>1 DEF DoExitVip, yearVars
<1>3. ASSUME NEW e \in DOMAIN vip' PROVE vip'[e].points = At(earned', <<y, e>>, 0)
  <2>1. e \in DOMAIN vip /\ vip'[e] = vip[e] /\ e # a
    BY <1>2, <1>3 DEF Drop
  <2>2. At(earned', <<y, e>>, 0) = At(earned, <<y, e>>, 0)
    BY <1>2, <2>1, AtPut
  <2> QED
    BY <1>1, <2>1, <2>2 DEF YearsFiled, PointsAgree
<1> QED
  BY <1>1, <1>2, <1>3, FilesOfThePast, MembersFiled DEF PointsAgree

LEMMA StakeFiled ==
  ASSUME YearsTyped, YearsFiled, NEW a, NEW stake, UpdateActiveStake(a, stake)
  PROVE  YearsFiled'
<1>1. /\ a \in DOMAIN vip /\ vip' = [vip EXCEPT ![a] = [vip[a] EXCEPT !.stake = stake]]
      /\ UNCHANGED <<clock, lastEra, date, vipPoints, taken, earned, due>>
  BY Zenon DEF UpdateActiveStake, yearVars
<1>2. ASSUME NEW e \in DOMAIN vip' PROVE e \in DOMAIN vip /\ vip'[e].points = vip[e].points
  <2>1. e \in DOMAIN vip /\ vip[e] \in VipRecord
    BY <1>1, <1>2, TypedNow DEF IsMap
  <2>2. vip'[e] = IF e = a THEN [vip[e] EXCEPT !.stake = stake] ELSE vip[e]
    BY <1>1, <2>1
  <2> QED
    BY <2>1, <2>2 DEF VipRecord
<1>3. PointsAgree(vip', earned', Year(date)) /\ FilesAgree(vipPoints, earned')
  BY <1>1, <1>2 DEF YearsFiled, PointsAgree
<1> QED
  BY <1>1, <1>3, MembersFiled

LEMMA ForceFiled ==
  ASSUME YearsTyped, YearsFiled, NEW year \in 0 .. Year(date), NEW a, NEW points,
         ForceSetVipPoints(year, a, points)
  PROVE  YearsFiled'
<1>1. PICK y \in Nat : y = Year(date)
  BY DatesAreNaturals
<1>2. earned' = Put(earned, <<year, a>>, points) /\ UNCHANGED <<clock, lastEra, date, taken, due>>
  BY DEF ForceSetVipPoints
<1>3. CASE year = y
  <2>1. /\ a \in DOMAIN vip /\ vip' = [vip EXCEPT ![a] = [vip[a] EXCEPT !.points = points]]
        /\ vipPoints' = vipPoints
    BY <1>1, <1>3, Zenon DEF ForceSetVipPoints
  <2>2. ASSUME NEW e \in DOMAIN vip' PROVE vip'[e].points = At(earned', <<y, e>>, 0)
    <3>1. e \in DOMAIN vip /\ vip[e] \in VipRecord
      BY <2>1, <2>2, TypedNow DEF IsMap
    <3>2. vip'[e] = IF e = a THEN [vip[e] EXCEPT !.points = points] ELSE vip[e]
      BY <2>1, <3>1
    <3>3. vip'[e].points = IF e = a THEN points ELSE vip[e].points
      BY <3>1, <3>2 DEF VipRecord
    <3>4. At(earned', <<y, e>>, 0) = IF e = a THEN points ELSE At(earned, <<y, e>>, 0)
      BY <1>2, <1>3, AtPut
    <3> QED
      BY <1>1, <3>1, <3>3, <3>4 DEF YearsFiled, PointsAgree
  <2>3. FilesAgree(vipPoints, earned')
    BY <1>1, <1>2, <1>3, FilesOfThePast
  <2> QED
    BY <1>1, <1>2, <2>1, <2>2, <2>3, MembersFiled DEF PointsAgree
<1>4. CASE year # y
  <2>1. vipPoints' = Put(vipPoints, <<year, a>>, points) /\ vip' = vip
    BY <1>1, <1>4, Zenon DEF ForceSetVipPoints
  <2>2. ASSUME NEW e \in DOMAIN vip PROVE vip[e].points = At(earned', <<y, e>>, 0)
    <3>1. At(earned', <<y, e>>, 0) = At(earned, <<y, e>>, 0)
      BY <1>2, <1>4, AtPut
    <3> QED
      BY <1>1, <3>1 DEF YearsFiled, PointsAgree
  <2>3. ASSUME NEW k \in DOMAIN vipPoints' PROVE vipPoints'[k] = At(earned', k, 0)
    <3>1. At(earned', k, 0) = IF k = <<year, a>> THEN points ELSE At(earned, k, 0)
      BY <1>2, AtPut
    <3>2. vipPoints'[k] = IF k = <<year, a>> THEN points ELSE vipPoints[k]
      BY <2>1, <2>3 DEF Put
    <3>3. k # <<year, a>> => k \in DOMAIN vipPoints
      BY <2>1, <2>3 DEF Put
    <3> QED
      BY <3>1, <3>2, <3>3 DEF YearsFiled, FilesAgree
  <2>4. DOMAIN vipPoints \subseteq DOMAIN vipPoints'
    BY <2>1 DEF Put
  <2>5. PointsAgree(vip', earned', Year(date')) /\ FilesAgree(vipPoints', earned')
    BY <1>1, <1>2, <2>1, <2>2, <2>3 DEF PointsAgree, FilesAgree
  <2> QED
    BY <1>2, <2>4, <2>5 DEF YearsFiled, DateIsRecent
<1> QED
  BY <1>3, <1>4

LEMMA ClaimFiled ==
  ASSUME YearsTyped, YearsFiled, NEW year, NEW a \in Members, ClaimRewards(year, a)
  PROVE  YearsFiled'
<1>1. PICK r \in RewardRecord, m \in Nat, n \in Nat : Claimed(year, a, <<year, a>>, r, m, n)
  BY ClaimIs
<1>2. PICK k : k = <<year, a>>
  OBVIOUS
<1>3. PICK v : v = [vip |-> TakenOf(k).vip + m, vipp |-> TakenOf(k).vipp + n]
  OBVIOUS
<1>4. /\ vipPoints' = Drop(vipPoints, k) /\ taken' = Put(taken, k, v)
      /\ UNCHANGED <<clock, lastEra, date, vip, earned, due>>
  BY <1>1, <1>2, <1>3, Zenon DEF Claimed
<1>5. FilesAgree(vipPoints', earned')
  BY <1>4 DEF YearsFiled, FilesAgree, Drop
<1>6. due' \subseteq DOMAIN vipPoints' \cup DOMAIN taken'
  BY <1>4 DEF YearsFiled, Drop, Put
<1>7. PointsAgree(vip', earned', Year(date')) /\ DateIsRecent'
  BY <1>4 DEF YearsFiled, DateIsRecent
<1> QED
  BY <1>5, <1>6, <1>7 DEF YearsFiled

LEMMA FiledUntouched ==
  ASSUME YearsFiled, UNCHANGED <<clock, lastEra, date, vip, vipPoints, earned, due, taken>>
  PROVE  YearsFiled'
BY DEF YearsFiled, DateIsRecent

LEMMA FiledStep ==
  ASSUME YearsTyped, YearsFiled, MaxGap <= 1, DaysPerYear > 1, [PrivilegesNext]_privilegesVars
  PROVE  YearsFiled'
<1>1. CASE Tick
  BY <1>1, TickFiled
<1>2. CASE UpdateQuarterInfo
  BY <1>2, QuarterFiled
<1>3. ASSUME NEW new \in date + 1 .. clock, UpdateTime(new) PROVE YearsFiled'
  <2>1. PICK r : NewDate(r, new)
    BY <1>3, TimeIsNewDate
  <2>2. lastEra' = lastEra
    BY <1>3, Zenon DEF UpdateTime
  <2>3. new \in Nat
    BY DatesAreNaturals
  <2> QED
    BY <2>1, <2>2, <2>3, NewDateFiled
<1>4. ASSUME NEW a \in Members, NEW stake \in Stakes, NEW newVipp \in BOOLEAN,
             NEW threshold \in Thresholds, BecomeVipStatus(a, stake, newVipp, threshold)
      PROVE  YearsFiled'
  BY <1>4, BecomeFiled
<1>5. ASSUME NEW a \in Members, DoExitVip(a) PROVE YearsFiled'
  BY <1>5, ExitFiled
<1>6. ASSUME NEW a \in Members, NEW stake \in Stakes \cup {0}, UpdateActiveStake(a, stake)
      PROVE  YearsFiled'
  BY <1>6, StakeFiled
<1>7. ASSUME NEW a \in Members, NEW threshold \in Thresholds, MintNewVippNft(a, threshold)
      PROVE  YearsFiled'
  BY <1>7, FiledUntouched DEF MintNewVippNft, yearVars
<1>8. ASSUME NEW a \in Members, NEW threshold \in Thresholds, NEW last \in BOOLEAN,
             BurnVippThreshold(a, threshold, last)
      PROVE  YearsFiled'
  BY <1>8, FiledUntouched DEF BurnVippThreshold, yearVars
<1>9. ASSUME NEW a \in Members, NEW year \in 0 .. Year(date), NEW points \in ForcedPoints,
             ForceSetVipPoints(year, a, points)
      PROVE  YearsFiled'
  BY <1>9, ForceFiled
<1>10. ASSUME NEW a \in Members, NEW year \in 0 .. Year(date), NEW points \in ForcedPoints,
              ForceSetVippPoints(year, a, points)
       PROVE  YearsFiled'
  BY <1>10, FiledUntouched DEF ForceSetVippPoints
<1>11. ASSUME NEW a \in Members, NEW year \in 0 .. Year(date), ClaimRewards(year, a)
       PROVE  YearsFiled'
  BY <1>11, ClaimFiled
<1>12. ASSUME NEW year \in 0 .. Year(date), NEW m \in RewardSums, NEW n \in RewardSums,
              SetRewards(year, m, n)
       PROVE  YearsFiled'
  BY <1>12, FiledUntouched DEF SetRewards, memberVars
<1>13. CASE UNCHANGED privilegesVars
  BY <1>13, FiledUntouched DEF privilegesVars, memberVars, yearVars
<1> QED
  BY <1>1, <1>2, <1>3, <1>4, <1>5, <1>6, <1>7, <1>8, <1>9, <1>10, <1>11, <1>12, <1>13 DEF PrivilegesNext

(* Where an era ends at least once a day, and a year has more than one day, *)
(* points are filed under the year they were earned in, and whoever is a    *)
(* member at the turn of a year has them filed or was paid for them.        *)
THEOREM YearsAlwaysFiled ==
  ASSUME MaxGap <= 1, DaysPerYear > 1
  PROVE  PrivilegesSpec => []YearsAreFiled
<1>1. PrivilegesInit => YearsFiled
  BY FiledInit
<1>2. YearsInv /\ YearsFiled /\ [PrivilegesNext]_privilegesVars => YearsFiled'
  <2> SUFFICES ASSUME YearsTyped, YearsFiled, [PrivilegesNext]_privilegesVars PROVE YearsFiled'
    BY DEF YearsInv
  <2>1. MaxGap <= 1 /\ DaysPerYear > 1
    OBVIOUS
  <2> QED
    BY <2>1, FiledStep
<1>3. YearsInv /\ YearsFiled => YearsAreFiled
  BY TypedIsTypeOK DEF YearsInv, YearsFiled, YearsAreFiled, PointsAgree, FilesAgree
<1> QED
  BY <1>1, <1>2, <1>3, YearsInvariant, PTL DEF PrivilegesSpec
================================================================================
