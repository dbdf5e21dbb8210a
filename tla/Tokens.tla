--------------------------------- MODULE Tokens ---------------------------------
(***************************************************************************)
(* What moves the native token besides staking: the ERC-20 precompile with  *)
(* its permits, the manual bridge, simple vesting and the faucet.          *)
(*                                                                         *)
(* All of them write the balances of one pallet (external) and keep little  *)
(* state of their own. A call that fails is rolled back, so it is no step.  *)
(* `deposit` of the precompile sends back what it was sent, and `withdraw`  *)
(* only looks at a balance: neither changes anything. The existential       *)
(* deposit is one unit. A block takes one second of the timestamp.           *)
(***************************************************************************)
EXTENDS Integers, FiniteSetsExt

CONSTANTS
  Users,               \* accounts that sign calls
  Owners, Spenders,    \* bound: the users who approve, and whom they approve
  Vesters,             \* bound: the users who are put under a schedule
  Requesters,          \* bound: the users who ask the faucet
  BridgeAccount, FeeReceiverAccount,
  Values,             \* amounts of transfers and approvals
  WithdrawalFeePercent, DepositFeePercent,
  Schedules,           \* vesting schedules root may grant
  Endowed,             \* what users have at genesis
  MaxAmount,           \* of the faucet
  AccumulationPeriod,  \* of the faucet, in blocks
  BalanceMax,          \* the largest balance of the type
  MaxHeight,           \* bound on the blocks
  Deadlines,           \* of permits, in seconds
  MaxNonce             \* bound on the permits of an owner

ASSUME TokensAssumption ==
  /\ Owners \cup Spenders \cup Vesters \cup Requesters \subseteq Users
  /\ IsFiniteSet(Users)
  /\ Values \subseteq Nat /\ Endowed \in [Users -> Nat]
  /\ {WithdrawalFeePercent, DepositFeePercent} \subseteq 0 .. 100
  /\ {MaxAmount, AccumulationPeriod} \subseteq Nat
  /\ Schedules \subseteq [locked : 0 .. BalanceMax, perBlock : 0 .. BalanceMax, start : Nat]
  /\ {MaxNonce, BalanceMax, MaxHeight} \subseteq Nat

Holders == Users \cup {BridgeAccount, FeeReceiverAccount}

VARIABLES
  height,           \* the number of the block
  free, reserved,   \* pallet-balances
  schedules,        \* Vesting: the schedules of some users
  approves,         \* ApprovesStorage: by owner and spender, if ever approved
  nonces,           \* NoncesStorage
  requests,         \* Requests of the faucet: the sum and when it began
  grants,          \* history: by user, the last schedule granted and not removed
  issued,           \* history: all tokens there should be
  approval,         \* history: by owner and spender, the last approval and what was spent since
  used,             \* history: the permits that were used
  given             \* history: what the faucet gave, by user and block

walletVars == <<free, reserved, issued>>
vestingVars == <<schedules, grants>>
erc20Vars == <<approves, nonces, approval, used>>
faucetVars == <<requests, given>>
tokensVars == <<height, walletVars, vestingVars, erc20Vars, faucetVars>>

WithEntry(f, x, value) == [y \in DOMAIN f \cup {x} |-> IF y = x THEN value ELSE f[y]]
WithoutEntry(f, x) == [y \in DOMAIN f \ {x} |-> f[y]]
Nothing == [x \in {} |-> 0]
Minus(x, y) == IF x > y THEN x - y ELSE 0
Lesser(x, y) == IF x < y THEN x ELSE y

InHands(f) == SumFunctionOnSet(f, Holders)

Permits ==
  [owner : Owners, spender : Spenders, value : Values, nonce : 0 .. MaxNonce - 1, deadline : Deadlines]

TokensInit ==
  /\ height = 0
  /\ free = [a \in Holders |-> IF a \in Users THEN Endowed[a] ELSE 1]
  /\ reserved = [a \in Holders |-> 0]
  /\ schedules = Nothing /\ grants = Nothing
  /\ approves = Nothing /\ nonces = [u \in Owners |-> 0] /\ approval = Nothing /\ used = {}
  /\ requests = [u \in Requesters |-> [sum |-> 0, since |-> 0]]
  /\ given = [k \in Requesters \X (0 .. MaxHeight) |-> 0]
  /\ issued = InHands(free)

NextHeight ==
  /\ height < MaxHeight
  /\ height' = height + 1
  /\ UNCHANGED <<walletVars, vestingVars, erc20Vars, faucetVars>>

(* transfer_allow_death: everything that is free may go.                   *)
Moved(from, to, amount) == [[free EXCEPT ![from] = @ - amount] EXCEPT ![to] = @ + amount]

Keeps(who, amount) == free[who] - amount >= 1

-----------------------------------------------------------------------------
(* The ERC-20 precompile *)

Transfer(caller, to, value) ==
  /\ value <= free[caller]
  /\ free' = Moved(caller, to, value)
  /\ UNCHANGED <<height, reserved, issued, vestingVars, erc20Vars, faucetVars>>

(* An approval replaces the one before it.                                 *)
Approving(owner, spender, value) ==
  /\ approves' = WithEntry(approves, <<owner, spender>>, value)
  /\ approval' = WithEntry(approval, <<owner, spender>>, [value |-> value, spent |-> 0])

Approve(caller, spender, value) ==
  /\ Approving(caller, spender, value)
  /\ UNCHANGED <<height, walletVars, vestingVars, nonces, used, faucetVars>>

Remaining(allowed, value) == allowed - value

(* transfer_from: an owner needs no approval of its own.                   *)
TransferFrom(caller, from, to, value) ==
  LET k == <<from, caller>>
  IN  /\ IF caller = from THEN UNCHANGED <<approves, approval>>
         ELSE /\ k \in DOMAIN approves
              /\ value <= approves[k]
              /\ approves' = [approves EXCEPT ![k] = Remaining(@, value)]
              /\ approval' = [approval EXCEPT ![k].spent = @ + value]
      /\ value <= free[from]
      /\ free' = Moved(from, to, value)
      /\ UNCHANGED <<height, reserved, issued, vestingVars, nonces, used, faucetVars>>

(* Mutant: a permit leaves the nonce.                                      *)
NextNonceSame(n) == n

NextNonce(n) == n + 1

(* permit: whoever submits it. The signature is checked over the nonce in   *)
(* storage: of a permit for another nonce the signer comes out wrong.       *)
Permit(p) ==
  /\ p.deadline >= height
  /\ p.nonce = nonces[p.owner]
  /\ nonces' = [nonces EXCEPT ![p.owner] = NextNonce(@)]
  /\ Approving(p.owner, p.spender, p.value)
  /\ used' = used \cup {p}
  /\ UNCHANGED <<height, walletVars, vestingVars, faucetVars>>

-----------------------------------------------------------------------------
(* The bridge *)

MulFloor(percent, amount) == (percent * amount) \div 100

(* Both calls split what they withdraw: a fee and the rest.                *)
Split(from, to, taken, fee) ==
  free' = [[[free EXCEPT ![from] = @ - taken]
                 EXCEPT ![to] = @ + taken - fee]
                 EXCEPT ![FeeReceiverAccount] = @ + fee]

(* The fee of a transfer comes on top, that of a payout out of the amount.  *)
BridgeTransfer(who, amount) ==
  LET fee == MulFloor(WithdrawalFeePercent, amount)
  IN  /\ Keeps(who, amount + fee)
      /\ Split(who, BridgeAccount, amount + fee, fee)
      /\ UNCHANGED <<height, reserved, issued, vestingVars, erc20Vars, faucetVars>>

(* Mutant: the fee of a payout is not taken out of it.                     *)
PayoutWhole(dest, amount) ==
  LET fee == MulFloor(DepositFeePercent, amount)
  IN  /\ Keeps(BridgeAccount, amount)
      /\ free' = [[[free EXCEPT ![BridgeAccount] = @ - amount]
                         EXCEPT ![dest] = @ + amount]
                         EXCEPT ![FeeReceiverAccount] = @ + fee]
      /\ UNCHANGED <<height, reserved, issued, vestingVars, erc20Vars, faucetVars>>

Payout(dest, amount) ==
  /\ Keeps(BridgeAccount, amount)
  /\ Split(BridgeAccount, dest, amount, MulFloor(DepositFeePercent, amount))
  /\ UNCHANGED <<height, reserved, issued, vestingVars, erc20Vars, faucetVars>>

-----------------------------------------------------------------------------
(* Vesting *)

IsValid(s) == s.locked > 0 /\ s.perBlock > 0

(* Mutant: nothing is locked before the start, as if the subtraction failed. *)
LockedAtEarly(s, n) == IF n < s.start THEN 0 ELSE Minus(s.locked, (n - s.start) * s.perBlock)

(* locked_at: nothing when the product overflows.                          *)
LockedAt(s, n) ==
  LET toUnlock == Minus(n, s.start) * (IF s.perBlock > 1 THEN s.perBlock ELSE 1)
  IN  IF toUnlock > BalanceMax THEN 0 ELSE Minus(s.locked, toUnlock)

ForceVestedTransfer(source, dest, s) ==
  /\ IsValid(s)
  /\ dest \notin DOMAIN schedules
  /\ Keeps(source, s.locked)
  /\ LET moved == Moved(source, dest, s.locked)
     IN  free' = [moved EXCEPT ![dest] = @ - s.locked]
  /\ reserved' = [reserved EXCEPT ![dest] = @ + s.locked]
  /\ schedules' = WithEntry(schedules, dest, s)
  /\ grants' = WithEntry(grants, dest, s)
  /\ UNCHANGED <<height, issued, erc20Vars, faucetVars>>

(* do_vest: ensure_reserved_named releases or reserves until what is        *)
(* reserved is what is locked.                                             *)
Vest(who) ==
  LET locked == LockedAt(schedules[who], height)
  IN  /\ who \in DOMAIN schedules
      /\ locked <= free[who] + reserved[who]
      /\ free' = [free EXCEPT ![who] = @ + reserved[who] - locked]
      /\ reserved' = [reserved EXCEPT ![who] = locked]
      /\ schedules' = IF locked = 0 THEN WithoutEntry(schedules, who) ELSE schedules
      /\ UNCHANGED <<height, issued, grants, erc20Vars, faucetVars>>

(* force_remove_vesting slashes the locked balance of the schedule, which   *)
(* takes whatever is still reserved.                                       *)
ForceRemoveVesting(who) ==
  /\ who \in DOMAIN schedules
  /\ LET slashed == Lesser(schedules[who].locked, reserved[who])
     IN  /\ reserved' = [reserved EXCEPT ![who] = @ - slashed]
         /\ issued' = issued - slashed
  /\ schedules' = WithoutEntry(schedules, who)
  /\ grants' = WithoutEntry(grants, who)
  /\ UNCHANGED <<height, free, erc20Vars, faucetVars>>

-----------------------------------------------------------------------------
(* The faucet *)

(* Mutant: requests of one period are not added up.                        *)
AccumulatedLast(r, amount) == [sum |-> amount, since |-> r.since]

(* The period begins with the first request after the last one is over.     *)
Accumulated(r, amount) ==
  IF height - r.since >= AccumulationPeriod THEN [sum |-> amount, since |-> height]
  ELSE [sum |-> r.sum + amount, since |-> r.since]

RequestFunds(who, amount) ==
  LET r == Accumulated(requests[who], amount)
  IN  /\ amount <= MaxAmount
      /\ r.sum <= MaxAmount
      /\ free' = [free EXCEPT ![who] = @ + amount]
      /\ issued' = issued + amount
      /\ requests' = [requests EXCEPT ![who] = r]
      /\ given' = [given EXCEPT ![<<who, height>>] = @ + amount]
      /\ UNCHANGED <<height, reserved, vestingVars, erc20Vars>>

TokensNext ==
  \/ NextHeight
  \/ \E p \in Permits : Permit(p)
  \/ \E u \in Users, amount \in Values :
       \/ BridgeTransfer(u, amount)
       \/ Payout(u, amount)
       \/ \E v \in Users :
            \/ Transfer(u, v, amount)
            \/ \E w \in Users : TransferFrom(u, v, w, amount)
  \/ \E amount \in Values :
       \/ \E u \in Requesters : RequestFunds(u, amount)
       \/ \E u \in Owners, v \in Spenders : Approve(u, v, amount)
  \/ \E u \in Vesters :
       \/ Vest(u)
       \/ ForceRemoveVesting(u)
       \/ \E v \in Users, s \in Schedules : ForceVestedTransfer(v, u, s)

TokensSpec == TokensInit /\ [][TokensNext]_tokensVars

-----------------------------------------------------------------------------
(* Properties *)

(* Whatever fee, lock or gift is split off, no token is made or lost.       *)
TokensConserved ==
  /\ \A a \in Holders : free[a] >= 0 /\ reserved[a] >= 0
  /\ issued = InHands(free) + InHands(reserved)

(* Of each approval no more is spent than it was for, through transfers,    *)
(* approvals that replace it and permits; and every permit is used once.    *)
ApprovalsHold ==
  /\ \A k \in DOMAIN approves : approval[k].spent + approves[k] = approval[k].value
  /\ \A u \in Owners : Cardinality({p \in used : p.owner = u}) = nonces[u]

(* What was granted is reserved, whatever else its owner does, and is        *)
(* released no faster than the schedule says: in part while it is stored,   *)
(* and in full by the vest that takes it off storage.                      *)
NothingVestsEarly ==
  \A u \in DOMAIN grants :
    LET s == grants[u]
    IN  s.locked - reserved[u] <= s.perBlock * Minus(height, s.start)

Period(from) == {n \in from .. from + AccumulationPeriod - 1 : n <= MaxHeight}
GivenIn(gifts, u, blocks) == SumFunctionOnSet([n \in blocks |-> gifts[<<u, n>>]], blocks)

(* Over any period the faucet gives twice the limit at most: the end of one *)
(* period of accumulation and the start of the next.                       *)
FaucetIsBounded ==
  \A u \in Requesters, from \in 0 .. MaxHeight :
    GivenIn(given, u, Period(from)) <= 2 * MaxAmount
================================================================================
