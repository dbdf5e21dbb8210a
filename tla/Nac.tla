---------------------------------- MODULE Nac ----------------------------------
(***************************************************************************)
(* The tokens of pallet nac-managing: NACs, which give access levels and    *)
(* record what was claimed, and VIPPs, which stand for a part of the claim. *)
(*                                                                         *)
(* Everything the calls write is one record, a `book`, and the helpers of   *)
(* the code are operators from a book to the next. An item id is a hash of  *)
(* the block and the owner, so among the items of an account it is the      *)
(* block: hashes do not collide here. Which item an account "has first" is  *)
(* the order of those hashes, any fixed order. pallet-nfts is external.     *)
(***************************************************************************)
EXTENDS Integers, Sequences, FiniteSetsExt, Maps

CONSTANTS
  Accounts,
  MaxBlock,   \* bound on the blocks, which are item ids as well
  HashOrder,  \* place of an id in the order of the hashes
  Levels,     \* NAC levels an admin may set
  Byte        \* number of values of a byte

Blocks == 0 .. MaxBlock

ASSUME NacAssumption ==
  /\ IsFiniteSet(Accounts)
  /\ MaxBlock \in Nat
  /\ HashOrder \in [Blocks -> Nat]
  /\ \A i, j \in Blocks : HashOrder[i] = HashOrder[j] => i = j
  /\ Levels \subseteq Nat
  /\ Byte \in Nat \ {0, 1}

NoAttribute == -1
DefaultNacLevel == 1

-----------------------------------------------------------------------------
(* Items *)

Monus(x, y) == IF x > y THEN x - y ELSE 0

(* A NAC as pallet-nfts mints it: without attributes.                      *)
BareNac == [level |-> NoAttribute, claim |-> NoAttribute, inactive |-> FALSE]

(* The item that owned_in_collection(..).next() returns.                   *)
First(items) ==
  CHOOSE i \in DOMAIN items : \A j \in DOMAIN items : HashOrder[i] <= HashOrder[j]

HasNac(b, a) == DOMAIN b.nacs[a] # {}
FirstNac(b, a) == First(b.nacs[a])

(* The claim attribute of the first NAC, NoAttribute also without a NAC.   *)
GetClaimBalance(b, a) ==
  IF HasNac(b, a) THEN b.nacs[a][FirstNac(b, a)].claim ELSE NoAttribute

LevelOf(nac) == IF nac.level = NoAttribute THEN DefaultNacLevel ELSE nac.level

(* What precompiles, the EVM runner and transaction validation ask.        *)
UserHasAccess(b, a, desired) ==
  HasNac(b, a) /\ LevelOf(b.nacs[a][FirstNac(b, a)]) >= desired

SetClaim(b, a, amount) == [b EXCEPT !.nacs[a][FirstNac(b, a)].claim = amount]

GetActiveVippAmount(b, a) ==
  SumFunctionOnSet(b.vipps[a], DOMAIN b.vipps[a])

-----------------------------------------------------------------------------
(* Minting NACs *)

(* An id that exists already is refused by pallet-nfts.                    *)
CanMint(b, a, item) == item \notin DOMAIN b.nacs[a]

(* increase_creating makes the reputation record if there is none.         *)
DoMint(b, a, item) ==
  [b EXCEPT !.nacs[a] = Put(@, item, BareNac), !.known = @ \cup {a}]

UpdateNftInfo(b, a, item, level) ==
  [b EXCEPT !.nacs[a][item].level = level, !.users[a] = <<item, level>>]

(* Mutant: a newcomer that is unknown is recorded but gets no NAC.         *)
OnNewAccountForgets(b, a, item) == [b EXCEPT !.known = @ \cup {a}]

(* The hook of frame-system. An account with a record gets no NAC.         *)
OnNewAccount(b, a, item) ==
  IF a \in b.known THEN b
  ELSE LET recorded == [b EXCEPT !.known = @ \cup {a}]
       IN  IF CanMint(b, a, item)
           THEN [DoMint(recorded, a, item) EXCEPT !.users[a] = <<item, DefaultNacLevel>>]
           ELSE recorded

-----------------------------------------------------------------------------
(* VIPPs *)

(* 95 % of an amount, rounded to the nearest, and down in the middle.      *)
Perbill95(amount) == (95 * amount + 49) \div 100

MeetsVippRequirements(total, claim) == total > Perbill95(claim)

(* The VIPP handler of pallet privileges: thresholds by item id, no entry  *)
(* without thresholds.                                                     *)
MintNewVipp(b, a, amount, item) == [b EXCEPT !.thresholds[a] = Append(@, <<item, amount>>)]

BurnThreshold(b, a, item) ==
  [b EXCEPT !.thresholds[a] = SelectSeq(@, LAMBDA entry : entry[1] # item)]

(* Mutant: the new VIPP is for the whole claim.                            *)
UncoveredWhole(b, a) == GetClaimBalance(b, a)

(* What no VIPP stands for yet.                                            *)
Uncovered(b, a) == GetClaimBalance(b, a) - GetActiveVippAmount(b, a)

(* mint_vipp_nft. The attribute is written even if the mint was refused as  *)
(* the id exists; and what is returned is the id of the NAC.                *)
MintVippNft(b, a, total, item) ==
  LET claim == GetClaimBalance(b, a)
      rest  == Uncovered(b, a)
  IN  IF claim # NoAttribute /\ MeetsVippRequirements(total, claim) /\ rest >= 0
      THEN [b      |-> [b EXCEPT !.vipps[a] = Put(@, item, rest)],
            minted |-> item \notin DOMAIN b.vipps[a],
            amount |-> Perbill95(rest),
            item   |-> FirstNac(b, a)]
      ELSE [b |-> b, minted |-> FALSE, amount |-> 0, item |-> item]

(* can_mint_vipp: asked by who becomes a VIP, refused to who lost a status. *)
CanMintVipp(b, a, total, item) ==
  IF HasNac(b, a) /\ ~b.nacs[a][FirstNac(b, a)].inactive
  THEN MintVippNft(b, a, total, item)
  ELSE [b |-> b, minted |-> FALSE, amount |-> 0, item |-> item]

(* Amounts are compared as they are encoded: the lowest byte comes first.  *)
Lower(x, y) ==
  x % Byte < y % Byte \/ (x % Byte = y % Byte /\ x \div Byte < y \div Byte)

(* The first in the order of the hashes among the lowest.                  *)
LowestVipp(b, a) ==
  LET lowest == {i \in DOMAIN b.vipps[a] :
                   \A j \in DOMAIN b.vipps[a] : ~Lower(b.vipps[a][j], b.vipps[a][i])}
  IN  CHOOSE i \in lowest : \A j \in lowest : HashOrder[i] <= HashOrder[j]

DecreaseThreshold(b, a, amount) ==
  IF HasNac(b, a) THEN SetClaim(b, a, Monus(GetClaimBalance(b, a), amount)) ELSE b

SetInactiveAttributeVipp(b, a) ==
  IF HasNac(b, a) THEN [b EXCEPT !.nacs[a][FirstNac(b, a)].inactive = TRUE] ELSE b

(* burn_vipp_nft: the code's result is whether there was one to burn.      *)
BurnVippNft(b, a) ==
  IF DOMAIN b.vipps[a] = {} THEN SetInactiveAttributeVipp(b, a)
  ELSE LET item  == LowestVipp(b, a)
           burnt == [b EXCEPT !.vipps[a] = Drop(@, item)]
       IN  DecreaseThreshold(BurnThreshold(burnt, a, item), a, b.vipps[a][item])

Poor(b, a, total) ==
  LET claim == GetClaimBalance(b, a)
  IN  claim # NoAttribute /\ ~MeetsVippRequirements(total, claim)

(* Mutant: one VIPP is burnt for each transaction.                         *)
CheckAccountThresholdOnce(b, a, total) ==
  IF Poor(b, a, total) THEN BurnVippNft(b, a) ELSE b

(* check_account_threshold burns until the claim fits the balance, and at   *)
(* most once more than there are VIPPs.                                     *)
CheckAccountThreshold(b, a, total) ==
  LET rounds == 1 + Cardinality(DOMAIN b.vipps[a])
      after[n \in 0 .. rounds] ==
        IF n = 0 THEN b
        ELSE IF Poor(after[n - 1], a, total) THEN BurnVippNft(after[n - 1], a)
             ELSE after[n - 1]
  IN  after[rounds]

(* do_exit_vip burns all.                                                  *)
BurnAllVipps(b, a) ==
  LET rounds == 1 + Cardinality(DOMAIN b.vipps[a])
      after[n \in 0 .. rounds] == IF n = 0 THEN b ELSE BurnVippNft(after[n - 1], a)
  IN  after[rounds]

(* The handler of a claim that was paid. It needs a NAC.                   *)
OnClaim(b, a, amount, total, item) ==
  LET before   == Monus(GetClaimBalance(b, a), 0)
      recorded == SetClaim(b, a, before + amount)
      result   == MintVippNft(recorded, a, total, item)
  IN  IF before = 0 THEN recorded
      ELSE IF result.minted THEN MintNewVipp(result.b, a, result.amount, result.item)
      ELSE result.b
================================================================================
