------------------------------- MODULE Membership -------------------------------
(***************************************************************************)
(* Members of the chain: pallets nac-managing, claiming (both instances)    *)
(* and the VIPP part of privileges, over the balances and the reputation    *)
(* records that decide who is new.                                          *)
(*                                                                         *)
(* A signed transaction is two steps: its fee is taken, with the hook that  *)
(* checks VIPPs, then its call runs. Nothing comes in between. A claim is   *)
(* unsigned and pays no fee. A call that fails is rolled back, so it is no  *)
(* step at all. Fees are energy and do not touch `total`.                   *)
(***************************************************************************)
EXTENDS Nac

CONSTANTS
  Addresses,    \* Ethereum addresses with claims
  Items,        \* collectibles of Kickstart claims
  NewClaims,    \* bound: the claims that root may make, see MintClaim
  Fundings,     \* amounts minted into the pot
  Transfers,    \* amounts that accounts receive and spend
  MaxAssigned,  \* bound on all claims ever made
  MaxBalance,   \* bound on the balance of an account
  Nobody, NoItem

ASSUME MembershipAssumption ==
  /\ NewClaims \subseteq [instance : {"VTRS", "Kickstart"}, amount : Nat \ {0},
                           schedule : BOOLEAN, item : Items \cup {NoItem}]
  /\ Fundings \cup Transfers \subseteq Nat \ {0}
  /\ MaxAssigned \in Nat /\ MaxBalance \in Nat \ {0}
  /\ Nobody \notin Accounts /\ NoItem \notin Items

VARIABLES
  block,
  book,      \* the tokens, thresholds and records of module Nac
  total,     \* balances; an account with none does not exist
  vips,      \* VipMembers
  claims,    \* Claims of both instances, by instance and address
  claimData, \* ClaimsData: the collectible of an open Kickstart claim
  vesting,   \* Vesting of pallet claiming: claims with a schedule
  vested,    \* accounts with a schedule
  pot,       \* the claim account, which both instances share
  collected, \* collectibles that were minted
  paying,    \* whose transaction has paid its fee and not yet run
  foreseen,  \* history: accounts with a reputation record before their birth
  reborn,    \* history: accounts that were killed
  assigned,  \* history: the sum of all claims made
  paid,      \* history: the sum of all claims paid
  funded     \* history: the sum minted into the pot

claimVars == <<claims, claimData, vesting, vested, pot, collected, assigned, paid, funded>>
lifeVars == <<total, foreseen, reborn>>
vars == <<block, book, vips, paying, lifeVars, claimVars>>

Instances == {"VTRS", "Kickstart"}
Claimants == Instances \X Addresses

TypeOK ==
  /\ block \in Blocks
  /\ DOMAIN book = {"nacs", "vipps", "users", "thresholds", "known"}
  /\ \A a \in Accounts :
       /\ DOMAIN book.nacs[a] \subseteq Blocks /\ DOMAIN book.vipps[a] \subseteq Blocks
       /\ \A i \in DOMAIN book.vipps[a] : book.vipps[a][i] \in Nat
  /\ book.known \subseteq Accounts /\ vips \subseteq Accounts
  /\ total \in [Accounts -> 0 .. MaxBalance]
  /\ DOMAIN claims \subseteq Claimants /\ DOMAIN claimData \subseteq Claimants
  /\ vesting \subseteq Claimants /\ vested \subseteq Accounts
  /\ pot \in Nat /\ collected \subseteq Items
  /\ paying \in Accounts \cup {Nobody}

(* Genesis: some accounts are endowed and get NACs by the genesis list of  *)
(* nac-managing, others are endowed and on no list. Those are recorded by  *)
(* the hook before there is a collection to mint from.                     *)
Init ==
  /\ \E endowed \in SUBSET Accounts, level \in Levels : \E listed \in SUBSET endowed :
       /\ book = [nacs       |-> [a \in Accounts |->
                                   IF a \in listed THEN Put(Nothing, 0, [BareNac EXCEPT !.level = level])
                                   ELSE Nothing],
                  vipps      |-> [a \in Accounts |-> Nothing],
                  users      |-> [a \in Accounts |->
                                   IF a \in listed THEN <<0, level>> ELSE <<>>],
                  thresholds |-> [a \in Accounts |-> <<>>],
                  known      |-> endowed]
       /\ total = [a \in Accounts |-> IF a \in endowed THEN 1 ELSE 0]
       /\ foreseen = endowed \ listed
  /\ block = 0 /\ vips = {} /\ claims = Nothing /\ claimData = Nothing
  /\ vesting = {} /\ vested = {} /\ pot = 0 /\ collected = {}
  /\ paying = Nobody /\ reborn = {}
  /\ assigned = 0 /\ paid = 0 /\ funded = 0

-----------------------------------------------------------------------------
(* Balances and records *)

NextBlock ==
  /\ paying = Nobody
  /\ block < MaxBlock
  /\ block' = block + 1
  /\ UNCHANGED <<book, vips, paying, lifeVars, claimVars>>

(* The book after money reached an account, which may be its birth.        *)
Known(b, a) == IF total[a] = 0 THEN OnNewAccount(b, a, block) ELSE b
Foresee(a) == foreseen' = IF total[a] = 0 /\ a \in book.known THEN foreseen \cup {a} ELSE foreseen

Receive(a, amount) ==
  /\ paying = Nobody
  /\ total[a] + amount <= MaxBalance
  /\ total' = [total EXCEPT ![a] = @ + amount]
  /\ book' = Known(book, a)
  /\ Foresee(a)
  /\ UNCHANGED <<block, vips, paying, reborn, claimVars>>

(* force_set_points and the rewards of energy-generation make a record for  *)
(* any account, be it alive or not.                                        *)
RecordReputation(a) ==
  /\ paying = Nobody
  /\ book' = [book EXCEPT !.known = @ \cup {a}]
  /\ UNCHANGED <<block, vips, paying, lifeVars, claimVars>>

-----------------------------------------------------------------------------
(* Calls of the admin of nac-managing *)

MintNac(a, level) ==
  /\ paying = Nobody
  /\ IF HasNac(book, a)
     THEN /\ LevelOf(book.nacs[a][FirstNac(book, a)]) # level
          /\ book' = UpdateNftInfo(book, a, FirstNac(book, a), level)
     ELSE book' = UpdateNftInfo(DoMint(book, a, block), a, block, level)
  /\ UNCHANGED <<block, vips, paying, lifeVars, claimVars>>

(* Without a new level the old one is written.                             *)
UpdateNft(a, keep, newLevel) ==
  /\ paying = Nobody
  /\ HasNac(book, a)
  /\ LET level == IF keep THEN LevelOf(book.nacs[a][FirstNac(book, a)]) ELSE newLevel
     IN  book' = UpdateNftInfo(book, a, FirstNac(book, a), level)
  /\ UNCHANGED <<block, vips, paying, lifeVars, claimVars>>

-----------------------------------------------------------------------------
(* Claims *)

MintTokensToClaim(amount) ==
  /\ paying = Nobody
  /\ funded + amount <= MaxAssigned
  /\ pot' = pot + amount
  /\ funded' = funded + amount
  /\ UNCHANGED <<block, book, vips, paying, lifeVars, claims, claimData, vesting, vested,
                 collected, assigned, paid>>

(* A second claim adds to the first, and its data replaces that of the      *)
(* first, by nothing too.                                                  *)
MintClaim(e, new) ==
  LET c == <<new.instance, e>>
  IN  /\ paying = Nobody
      /\ assigned + new.amount <= MaxAssigned
      /\ new.schedule => c \notin vesting
      /\ claims' = Put(claims, c, new.amount + (IF c \in DOMAIN claims THEN claims[c] ELSE 0))
      /\ vesting' = IF new.schedule THEN vesting \cup {c} ELSE vesting
      /\ claimData' = IF new.item = NoItem THEN Drop(claimData, c) ELSE Put(claimData, c, new.item)
      /\ assigned' = assigned + new.amount
      /\ UNCHANGED <<block, book, vips, paying, lifeVars, vested, pot, collected, paid, funded>>

(* process_claim: paid from the pot, which may be the birth of `a`; put     *)
(* under its schedule; handed to the handler of the instance. The handler  *)
(* of the first needs a NAC, that of Kickstart mints the collectible.      *)
ClaimSucceeds(c, a) ==
  /\ claims[c] <= pot
  /\ c \in vesting => a \notin vested
  /\ c[1] = "VTRS" => HasNac(Known(book, a), a)
  /\ c \in DOMAIN claimData => claimData[c] \notin collected

(* Mutant: the claim is read and stays open.                               *)
OpenAfterRead(c) == claims

(* Claims::take.                                                           *)
OpenAfter(c) == Drop(claims, c)

Claim(c, a) ==
  /\ paying = Nobody
  /\ c \in DOMAIN claims
  /\ total[a] + claims[c] <= MaxBalance
  /\ ClaimSucceeds(c, a)
  /\ LET received == total[a] + claims[c]
     IN  /\ total' = [total EXCEPT ![a] = received]
         /\ book' = IF c[1] = "VTRS"
                    THEN OnClaim(Known(book, a), a, claims[c], received, block)
                    ELSE Known(book, a)
  /\ Foresee(a)
  /\ claims' = OpenAfter(c)
  /\ vesting' = vesting \ {c}
  /\ vested' = IF c \in vesting THEN vested \cup {a} ELSE vested
  /\ claimData' = Drop(claimData, c)
  /\ collected' = IF c \in DOMAIN claimData THEN collected \cup {claimData[c]} ELSE collected
  /\ pot' = pot - claims[c]
  /\ paid' = paid + claims[c]
  /\ UNCHANGED <<block, vips, paying, reborn, assigned, funded>>

-----------------------------------------------------------------------------
(* Transactions *)

(* The hook on_withdraw_fee.                                               *)
PayFee(a) ==
  /\ paying = Nobody
  /\ total[a] > 0
  /\ book' = CheckAccountThreshold(book, a, total[a])
  /\ paying' = a
  /\ UNCHANGED <<block, vips, lifeVars, claimVars>>

(* Any call that moves money out of the account, or none. An account whose *)
(* balance is locked by a schedule cannot go, one that goes loses its       *)
(* reputation record and keeps its tokens.                                  *)
Spend(a, amount) ==
  /\ paying = a
  /\ amount <= total[a]
  /\ a \in vested => amount < total[a]
  /\ total' = [total EXCEPT ![a] = @ - amount]
  /\ IF amount = total[a]
     THEN /\ book' = [book EXCEPT !.known = @ \ {a}]
          /\ reborn' = reborn \cup {a}
          /\ foreseen' = foreseen \ {a}
     ELSE UNCHANGED <<book, reborn, foreseen>>
  /\ paying' = Nobody
  /\ UNCHANGED <<block, vips, claimVars>>

(* become_vip_status, of a validator or cooperator: do_set_vipp_status      *)
(* replaces the thresholds the account may have by that of the new VIPP.    *)
BecomeVip(a) ==
  /\ paying = a
  /\ a \notin vips
  /\ vips' = vips \cup {a}
  /\ LET result == CanMintVipp(book, a, total[a], block)
     IN  book' = IF result.minted
                 THEN [result.b EXCEPT !.thresholds[a] = <<<<result.item, result.amount>>>>]
                 ELSE result.b
  /\ paying' = Nobody
  /\ UNCHANGED <<block, lifeVars, claimVars>>

(* exit_vip; the penalty is module Cooperation's.                          *)
ExitVip(a, penalty) ==
  /\ paying = a
  /\ a \in vips
  /\ penalty < total[a]
  /\ total' = [total EXCEPT ![a] = @ - penalty]
  /\ vips' = vips \ {a}
  /\ book' = IF book.thresholds[a] = <<>> THEN book
             ELSE BurnAllVipps([book EXCEPT !.thresholds[a] = <<>>], a)
  /\ paying' = Nobody
  /\ UNCHANGED <<block, foreseen, reborn, claimVars>>

Next ==
  \/ NextBlock
  \/ \E a \in Accounts :
       \/ RecordReputation(a)
       \/ \E amount \in Transfers : Receive(a, amount)
       \/ \E level \in Levels : MintNac(a, level)
       \/ \E level \in Levels, keep \in BOOLEAN : UpdateNft(a, keep, level)
       \/ \E c \in Claimants : Claim(c, a)
       \/ PayFee(a)
       \/ \E amount \in Transfers \cup {0, total[a]} : Spend(a, amount)
       \/ BecomeVip(a)
       \/ \E penalty \in {0, 1} : ExitVip(a, penalty)
  \/ \E amount \in Fundings : MintTokensToClaim(amount)
  \/ \E e \in Addresses, new \in NewClaims : MintClaim(e, new)

Spec == Init /\ [][Next]_vars

-----------------------------------------------------------------------------
(* Properties *)

ClaimsIn(nacs) == SumFunctionOnSet([i \in DOMAIN nacs |-> Monus(nacs[i].claim, 0)], DOMAIN nacs)
AllClaims(a) == ClaimsIn(book.nacs[a])
AllVipps(a) == GetActiveVippAmount(book, a)

(* No claim is lost and none is paid twice, whichever of the steps of a     *)
(* payment fails: what was assigned is paid or still open, the shared pot   *)
(* has what was minted and not paid, and no account's NACs record more than *)
(* what was paid.                                                          *)
ClaimsAddUp ==
  /\ TypeOK
  /\ assigned = paid + SumFunctionOnSet(claims, DOMAIN claims)
  /\ pot = funded - paid
  /\ SumFunctionOnSet([a \in Accounts |-> AllClaims(a)], Accounts) <= paid

(* Who has money has a NAC, unless reputation had recorded the account      *)
(* before it was born, or it was endowed at genesis and on no list. And the *)
(* level that UsersNft tells of an item is the level of that item.          *)
MembersHaveNacs ==
  \A a \in Accounts :
    /\ total[a] > 0 /\ ~HasNac(book, a) => a \in foreseen
    /\ book.users[a] # <<>> =>
         /\ book.users[a][1] \in DOMAIN book.nacs[a]
         /\ book.users[a][2] = LevelOf(book.nacs[a][book.users[a][1]])

(* VIPPs stand for claims: those of an account are never for more than its  *)
(* NACs record, through partial burns, deaths, second NACs and ids that are *)
(* taken.                                                                   *)
VippsAreClaimed == \A a \in Accounts : AllVipps(a) <= AllClaims(a)

(* Who pays a fee keeps VIPPs only for what its balance covers by 95 %.     *)
(* Accounts that died with VIPPs are reborn with a second NAC, which can    *)
(* come first and has no claim: nothing is checked then.                    *)
VippsAreBacked ==
  \A a \in Accounts :
    paying = a /\ a \notin reborn /\ AllVipps(a) > 0 => total[a] > Perbill95(AllVipps(a))

(* Burning a VIPP removes its threshold, so that who has lost all VIPPs     *)
(* earns no more VIPP points.                                              *)
ThresholdsNeedVipps ==
  \A a \in Accounts : DOMAIN book.vipps[a] = {} => book.thresholds[a] = <<>>
================================================================================
