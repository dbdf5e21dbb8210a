------------------------------ MODULE EnergyMarket ------------------------------
(***************************************************************************)
(* Paying fees in energy, and the market where energy is bought: pallets    *)
(* energy-fee, energy-broker and treasury-extension, with the converters of *)
(* the runtime.                                                            *)
(*                                                                         *)
(* A transaction is charged (withdraw_fee, CheckEnergyFee), runs its call   *)
(* and settles the fee (correct_and_deposit_fee).  A call that fails is     *)
(* rolled back; the hooks of a block are not.                              *)
(*                                                                         *)
(* One user stands for all of them.  VTRS is counted in existential         *)
(* deposits, so there is no dust; an account that holds energy cannot give  *)
(* away its last VTRS.  The least balance of the energy assets is 1.        *)
(***************************************************************************)
EXTENDS Integers, FiniteSetsExt

CONSTANTS
  SwapFee,          \* T::SwapFee, per mille
  EvmFee,           \* T::GetConstantFee, the fee of an Ethereum transaction
  SpendThreshold,   \* T::SpendThreshold, percent
  BaseRate,         \* T::FeeRecyclingBaseRate, percent
  ScalingFactor,    \* T::FeeRecyclingScalingFactor, percent
  TargetBalance,    \* T::TreasuryTargetBalance
  StaticRate,       \* <<native, static energy>>, set in pallet asset-rate
  Rates,            \* what dynamic-energy may set its rate to: <<energy, native>>
  Capacities,       \* what TotalEnergyBurn may be when a session begins
  Thresholds,       \* what the council may set BurnedEnergyThreshold to
  Fees, Tips,       \* of transactions
  Amounts,          \* swapped at once
  Start,            \* the balances to start from
  MaxTxs, MaxRounds \* bounds on the transactions and rounds explored

Accounts == {"User", "Broker", "Treasury", "Rewards"}
Assets   == {"VTRS", "VNRG", "SNRG", "LNRG"}
Energies == Assets \ {"VTRS"}
Paths    == {<<"VTRS", "VNRG">>, <<"LNRG", "VTRS">>, <<"SNRG", "VTRS">>,
             <<"LNRG", "VNRG">>, <<"SNRG", "VNRG">>}
Kinds    == {"constant", "weighed", "batch", "evm"}
None     == -1

ASSUME MarketAssumption ==
  /\ SwapFee \in 0..999 /\ {SpendThreshold, BaseRate, ScalingFactor} \subseteq 0..100
  /\ EvmFee \in Nat \ {0} /\ TargetBalance \in Nat \ {0}
  /\ StaticRate \in (Nat \ {0}) \X (Nat \ {0}) /\ Rates \subseteq Nat \X (Nat \ {0})
  /\ Capacities \cup Thresholds \cup Tips \subseteq Nat
  /\ Fees \cup Amounts \subseteq Nat \ {0}
  /\ Start \in [Accounts -> [Assets -> Nat]]
  /\ \A who \in Accounts : Start[who].VTRS > 0
  /\ {MaxTxs, MaxRounds} \subseteq Nat

VARIABLES
  market,       \* what swaps and fees work on, see Markets
  override,     \* EnergyCapacityOverride
  threshold,    \* BurnedEnergyThreshold
  recycling,    \* FeeRecyclingRate, percent
  burned,       \* BurnedEnergy, of this block
  tx,           \* the transaction being applied
  txs, rounds,  \* count transactions, and sessions and spends of the treasury
  reported,     \* history: all that OnEnergyBurn was told
  allowed,      \* history: the highest threshold of this block
  unchecked     \* history: charged in this block on top of the fee checked

ruleVars == <<override, threshold, recycling>>
feeVars  == <<burned, reported, unchecked>>
vars     == <<market, ruleVars, feeVars, tx, txs, rounds, allowed>>

(* Balances, ExchangeRate of dynamic-energy (<<0, 1>> for none),            *)
(* EnergyCapacity, and as history the energy that left the books without    *)
(* being a fee: burnt as surplus, or sold as static energy.                 *)
Markets == [of : [Accounts -> [Assets -> Nat]], rate : Rates, capacity : Nat, gone : Nat]

NoTx == [stage |-> "none", kind |-> "constant", paid |-> 0, tip |-> 0]

SatSub(a, b) == IF a >= b THEN a - b ELSE 0
Least(a, b)  == IF a <= b THEN a ELSE b
Percent(pct, amount) == (pct * amount + 49) \div 100
Credit(m, who, asset, amount) == [m EXCEPT !.of[who][asset] = @ + amount]

-----------------------------------------------------------------------------
(***************************************************************************)
(* The broker.                                                             *)
(***************************************************************************)
Issuing(path) == path[1] # "VTRS" /\ path[2] = "VNRG"

FeeOf(path, who) == IF who = "Treasury" \/ Issuing(path) THEN 0 ELSE SwapFee

(* The converters of the runtime: what `amount` of the source is worth, and *)
(* how much of it is asked for `amount` of the target.                      *)
Worth(rate, path, amount) ==
  CASE path = <<"VTRS", "VNRG">> -> (amount * rate[1]) \div rate[2]
    [] path = <<"LNRG", "VTRS">> -> IF rate[1] = 0 THEN 0 ELSE (amount * rate[2]) \div rate[1]
    [] path = <<"SNRG", "VTRS">> -> (amount * StaticRate[1]) \div StaticRate[2]
    [] OTHER -> amount

Asked(rate, path, amount) ==
  CASE path = <<"VTRS", "VNRG">> -> IF rate[1] = 0 THEN None ELSE (amount * rate[2]) \div rate[1]
    [] path = <<"LNRG", "VTRS">> -> IF rate[1] = 0 THEN None ELSE (amount * rate[1]) \div rate[2]
    [] path = <<"SNRG", "VTRS">> -> (amount * StaticRate[2]) \div StaticRate[1]
    [] OTHER -> amount

(* get_amount_out and get_amount_in: nothing comes out when they fail.      *)
GetAmountOut(rate, path, who, in) ==
  LET exchanged == (in * (1000 - FeeOf(path, who))) \div 1000
  IN  [in |-> in, out |-> Worth(rate, path, exchanged), fee |-> in - exchanged]

GetAmountIn(rate, path, who, out) ==
  LET exchanged == Max({Asked(rate, path, out), 1})
      in        == (exchanged * 1000) \div (1000 - FeeOf(path, who))
  IN  [in |-> in, out |-> IF Asked(rate, path, out) = None THEN 0 ELSE out, fee |-> in - exchanged]

Spendable(m, who, asset, keep) ==
  SatSub(m.of[who][asset], IF keep \/ asset = "VTRS" THEN 1 ELSE 0)

(* Mutant: forgets that the stock grew in this very swap.                   *)
BurnSurplusBefore(m, grown) ==
  LET surplus == Least(SatSub(m.of["Broker"].VNRG - grown, m.capacity), SatSub(m.of["Broker"].VNRG, 1))
  IN  [Credit(m, "Broker", "VNRG", -surplus) EXCEPT !.gone = @ + surplus]

(* burn_surplus_energy, after the stock has grown: the account stays alive. *)
BurnSurplus(m, grown) ==
  LET surplus == Least(SatSub(m.of["Broker"].VNRG, m.capacity), SatSub(m.of["Broker"].VNRG, 1))
  IN  [Credit(m, "Broker", "VNRG", -surplus) EXCEPT !.gone = @ + surplus]

(* do_swap, with the market it leaves behind: a failure half way is undone  *)
(* by the caller or by nobody.                                             *)
DoSwap(m, who, recipient, path, amounts, keep) ==
  LET source == path[1]
      target == path[2]
      sold   == amounts.in - amounts.fee
      taken  == Credit(Credit(m, who, source, -amounts.in), "Treasury", source, amounts.fee)
      stored == CASE source = "VTRS" -> Credit(taken, "Broker", "VTRS", sold)
                  [] path = <<"LNRG", "VTRS">> -> Credit(taken, "Broker", "VNRG", sold)
                  [] path = <<"SNRG", "VTRS">> -> [taken EXCEPT !.gone = @ + sold]
                  [] OTHER -> taken
      given  == Credit(IF Issuing(path) THEN stored ELSE Credit(stored, "Broker", target, -amounts.out),
                       recipient, target, amounts.out)
      grown  == given.of["Broker"].VNRG - m.of["Broker"].VNRG
  IN  IF amounts.in > Spendable(m, who, source, keep) THEN [ok |-> FALSE, m |-> m]
      ELSE IF ~Issuing(path) /\ amounts.out > SatSub(stored.of["Broker"][target], 1)
      THEN [ok |-> FALSE, m |-> stored]
      ELSE [ok |-> TRUE, m |-> IF grown > 0 THEN BurnSurplus(given, grown) ELSE given]

-----------------------------------------------------------------------------
(***************************************************************************)
(* Paying fees.                                                            *)
(***************************************************************************)
Buy == <<"VTRS", "VNRG">>

(* ensure_sufficient_energy: own energy first, then energy bought.          *)
EnsureSufficientEnergy(required) ==
  LET own     == market.of["User"]
      static  == Least(own.SNRG, SatSub(required, own.VNRG))
      liquid  == Least(own.LNRG, SatSub(required, own.VNRG + static))
      m       == Credit(Credit(Credit(market, "User", "SNRG", -static), "User", "LNRG", -liquid),
                        "User", "VNRG", static + liquid)
      missing == SatSub(required, own.VNRG + static + liquid)
      amounts == GetAmountIn(m.rate, Buy, "User", missing)
  IN  IF missing = 0 THEN [ok |-> TRUE, m |-> m]
      ELSE IF amounts.out = 0 THEN [ok |-> FALSE, m |-> m]
      ELSE DoSwap(m, "User", "User", Buy, amounts, TRUE)

Quoted(required, energy) ==
  LET amounts == GetAmountIn(market.rate, Buy, "User", SatSub(required, energy))
  IN  IF energy >= required THEN [ok |-> TRUE, energy |-> required, native |-> 0]
      ELSE [ok |-> amounts.out > 0, energy |-> energy, native |-> amounts.in]

(* Mutant: leaves the liquid energy out.                                    *)
FeePartsOfTwo(required) ==
  Quoted(required, market.of["User"].VNRG + market.of["User"].SNRG)

(* calculate_fee_parts, by which wallets show what a fee will cost.         *)
FeeParts(required) ==
  Quoted(required, market.of["User"].VNRG + market.of["User"].SNRG + market.of["User"].LNRG)

(* Mutant: only looks at what is burnt already.                             *)
ValidateOnlyBurnt(fee) == threshold = None \/ burned <= threshold

ValidateCallFee(fee) == threshold = None \/ burned + fee <= threshold

(* Mutant: the refund is not set off against what was paid.                 *)
SettledTwice(m, paid, tip, refund) ==
  LET recycled == Percent(recycling, paid - Least(tip, paid))
  IN  [m |-> Credit(Credit(m, "User", "VNRG", refund), "Treasury", "VNRG", recycled),
       burnt |-> paid - recycled]

(* What becomes of `paid` once `refund` of it is given back: of what is     *)
(* left, without the tip, a share goes to the treasury; the rest is burnt.  *)
Settled(m, paid, tip, refund) ==
  LET left     == paid - refund
      recycled == Percent(recycling, left - Least(tip, left))
  IN  [m |-> Credit(Credit(m, "User", "VNRG", refund), "Treasury", "VNRG", recycled),
       burnt |-> left - recycled]

Burn(amount) == burned' = burned + amount /\ reported' = reported + amount

-----------------------------------------------------------------------------
Init ==
  /\ \E rate \in Rates, capacity \in Capacities :
       /\ market = [of |-> Start, rate |-> rate, capacity |-> capacity, gone |-> 0]
       /\ override = capacity
  /\ threshold = None
  /\ recycling = 0
  /\ burned = 0 /\ reported = 0 /\ unchecked = 0
  /\ tx = NoTx
  /\ txs = 0 /\ rounds = 0
  /\ allowed = None

(* withdraw_fee and CheckEnergyFee::pre_dispatch.  The fee of a pallet is a *)
(* constant whatever the tip; a fee by weight includes it; a batch of       *)
(* Ethereum calls pays for each of them; an Ethereum call alone only makes  *)
(* sure that it can pay.                                                   *)
Charge(kind, amount, tip) ==
  LET fee    == IF kind \in {"batch", "evm"} THEN EvmFee ELSE amount
      whole  == IF kind = "weighed" THEN fee + tip ELSE fee
      paid   == IF kind = "evm" THEN 0 ELSE whole
      result == EnsureSufficientEnergy(whole)
  IN  /\ tx.stage = "none"
      /\ txs < MaxTxs
      /\ txs' = txs + 1
      /\ result.ok
      /\ ValidateCallFee(fee)
      /\ market' = Credit(result.m, "User", "VNRG", -paid)
      /\ tx' = [stage |-> "charged", kind |-> kind, paid |-> paid, tip |-> tip]
      /\ unchecked' = unchecked + (whole - fee)
      /\ UNCHANGED <<ruleVars, burned, reported, rounds, allowed>>

Dispatch ==
  /\ tx.stage = "charged"
  /\ tx' = [tx EXCEPT !.stage = "ran"]
  /\ UNCHANGED <<ruleVars, txs, rounds, allowed>>

(* A call that does nothing here, or fails.                                *)
OtherCall == Dispatch /\ UNCHANGED <<market, feeVars>>

Swap(path, recipient, amounts, keep) ==
  LET result == DoSwap(market, "User", recipient, path, amounts, keep)
  IN  /\ Dispatch
      /\ tx.kind \in {"constant", "weighed"}
      /\ amounts.out > 0
      /\ result.ok
      /\ market' = result.m
      /\ UNCHANGED feeVars

(* A limit set on the other amount can only make a swap fail.               *)
SwapExactTokensForTokens(path, recipient, in, keep) ==
  Swap(path, recipient, GetAmountOut(market.rate, path, "User", in), keep)

SwapTokensForExactTokens(path, recipient, out, keep) ==
  Swap(path, recipient, GetAmountIn(market.rate, path, "User", out), keep)

(* An Ethereum call, alone or in a batch: OnChargeEVMTransaction takes its  *)
(* fee and settles it at once.                                             *)
EvmCall ==
  LET result  == EnsureSufficientEnergy(EvmFee)
      settled == Settled(Credit(result.m, "User", "VNRG", -EvmFee), EvmFee, 0, 0)
  IN  /\ Dispatch
      /\ tx.kind \in {"batch", "evm"}
      /\ result.ok
      /\ market' = settled.m
      /\ Burn(settled.burnt)
      /\ unchecked' = unchecked + IF tx.kind = "batch" THEN EvmFee ELSE 0

(* correct_and_deposit_fee.                                                *)
Settle(paysFee) ==
  LET refund  == IF paysFee THEN 0 ELSE SatSub(tx.paid, tx.tip)
      settled == Settled(market, tx.paid, tx.tip, refund)
  IN  /\ tx.stage = "ran"
      /\ tx' = NoTx
      /\ market' = settled.m
      /\ Burn(settled.burnt)
      /\ UNCHANGED <<ruleVars, unchecked, txs, rounds, allowed>>

-----------------------------------------------------------------------------
(***************************************************************************)
(* Root, the council and the hooks of a block.                             *)
(***************************************************************************)
Privileged ==
  /\ tx.stage = "none"
  /\ txs < MaxTxs
  /\ txs' = txs + 1
  /\ UNCHANGED <<recycling, feeVars, tx, rounds>>

UpdateBurnedEnergyThreshold(amount) ==
  /\ Privileged
  /\ threshold' = amount
  /\ allowed' = IF allowed = None THEN None ELSE Max({allowed, amount})
  /\ UNCHANGED <<market, override>>

ForceSetCapacity(amount) ==
  /\ Privileged
  /\ override' = amount
  /\ UNCHANGED <<market, threshold, allowed>>

ForceAddLiquidity(source, asset, amount, keep) ==
  /\ Privileged
  /\ amount <= Spendable(market, source, asset, keep)
  /\ market' = Credit(Credit(market, source, asset, -amount), "Broker", asset, amount)
  /\ UNCHANGED <<override, threshold, allowed>>

(* on_initialize of energy-fee, with that of session or treasury when it is *)
(* their turn.                                                             *)
NewBlock ==
  /\ tx.stage = "none"
  /\ burned' = 0 /\ unchecked' = 0
  /\ allowed' = threshold
  /\ UNCHANGED <<override, threshold, tx, txs, reported>>

QuietBlock == NewBlock /\ UNCHANGED <<market, recycling, rounds>>

Round == rounds < MaxRounds /\ rounds' = rounds + 1

(* The treasury sells all it has of an energy; a failed sale is not undone. *)
Sell(m, asset) ==
  LET path    == <<asset, "VTRS">>
      amounts == GetAmountOut(m.rate, path, "Treasury", m.of["Treasury"][asset])
  IN  IF amounts.out = 0 THEN m
      ELSE DoSwap(m, "Treasury", "Treasury", path, amounts, FALSE).m

(* exchange_energy: VNRG becomes LNRG, then SNRG and LNRG are sold.         *)
ExchangeEnergy(m) ==
  LET energy == m.of["Treasury"].VNRG
      liquid == Credit(Credit(m, "Treasury", "VNRG", -energy), "Treasury", "LNRG", energy)
  IN  Sell(Sell(liquid, "SNRG"), "LNRG")

(* on_new_session of energy-broker, dynamic-energy and treasury-extension,  *)
(* in this order: TotalEnergyBurn is `total`, the new exchange rate `rate`. *)
OnNewSession(total, rate) ==
  LET capacity == IF override = None THEN total ELSE override
      resized  == IF capacity = 0 THEN market ELSE BurnSurplus([market EXCEPT !.capacity = capacity], 0)
  IN  ExchangeEnergy([resized EXCEPT !.rate = rate])

SessionBlock(total, rate) ==
  /\ NewBlock /\ Round
  /\ market' = OnNewSession(total, rate)
  /\ UNCHANGED recycling

(* spend_funds: what proposals leave of the share to be spent goes to the   *)
(* staking rewards, and the recycling rate follows the pot.                 *)
SpendBlock(spent) ==
  LET pot   == SatSub(market.of["Treasury"].VTRS, 1)
      share == (SpendThreshold * pot + 99) \div 100
      left  == SatSub(share, spent)
  IN  /\ NewBlock /\ Round
      /\ spent <= pot
      /\ market' = Credit(Credit(Credit(market, "Treasury", "VTRS", -(spent + left)),
                                 "User", "VTRS", spent), "Rewards", "VTRS", left)
      /\ recycling' = IF left = 0 THEN recycling
                      ELSE Least(100, SatSub(BaseRate + ScalingFactor, (ScalingFactor * pot) \div TargetBalance))

Next ==
  \/ \E kind \in Kinds, fee \in Fees, tip \in Tips : Charge(kind, fee, tip)
  \/ OtherCall
  \/ \E path \in Paths, to \in {"User", "Broker"}, amount \in Amounts, keep \in BOOLEAN :
       \/ SwapExactTokensForTokens(path, to, amount, keep)
       \/ SwapTokensForExactTokens(path, to, amount, keep)
  \/ EvmCall
  \/ \E paysFee \in BOOLEAN : Settle(paysFee)
  \/ \E amount \in Thresholds : UpdateBurnedEnergyThreshold(amount)
  \/ \E amount \in Capacities \cup {None} : ForceSetCapacity(amount)
  \/ \E asset \in {"VTRS", "VNRG"}, amount \in Amounts, keep \in BOOLEAN :
       ForceAddLiquidity("User", asset, amount, keep)
  \/ QuietBlock
  \/ \E total \in Capacities, rate \in Rates : SessionBlock(total, rate)
  \/ \E spent \in Amounts \cup {0} : SpendBlock(spent)

Spec == Init /\ [][Next]_vars

-----------------------------------------------------------------------------
(***************************************************************************)
(* Properties.                                                             *)
(***************************************************************************)
Total(m, asset) == SumFunctionOnSet([who \in Accounts |-> m.of[who][asset]], Accounts)
EnergyOf(m) == SumFunctionOnSet([asset \in Energies |-> Total(m, asset)], Energies)

MarketTypeOK ==
  /\ market \in Markets
  /\ recycling \in 0..100
  /\ {burned, reported, unchecked, tx.paid} \subseteq Nat

(* No energy comes from nowhere: what the accounts hold, what a transaction *)
(* in flight has paid, what OnEnergyBurn was told and what left as surplus  *)
(* or as static energy is always what there was at the start, VTRS only     *)
(* move, and nobody owes any.                                              *)
NothingMinted ==
  /\ MarketTypeOK
  /\ Total(market, "VTRS") = Total([of |-> Start], "VTRS")
  /\ EnergyOf(market) + market.gone + reported + tx.paid = EnergyOf([of |-> Start])

(* A swap of a user never leaves more energy with the broker than its       *)
(* capacity, unless it had more already and got none.                       *)
StockWithinCapacity ==
  [][tx.stage = "charged" /\ market'.of["Broker"].VNRG > market.of["Broker"].VNRG
       => market'.of["Broker"].VNRG <= Max({market.capacity, 1})]_vars

(* calculate_fee_parts and withdraw_fee are two ways to the same split of a *)
(* fee: a fee that can be paid costs what was quoted, and what was quoted   *)
(* can be paid unless VTRS of the user or energy of the broker are short.   *)
QuoteHolds ==
  \A fee \in Fees :
    LET quote   == FeeParts(fee)
        result  == EnsureSufficientEnergy(fee)
        native  == market.of["User"].VTRS - result.m.of["User"].VTRS
        enough  == /\ quote.native <= Spendable(market, "User", "VTRS", TRUE)
                   /\ fee - quote.energy <= Spendable(market, "Broker", "VNRG", TRUE)
    IN  /\ result.ok <=> quote.ok /\ (quote.native = 0 \/ enough)
        /\ result.ok => native = quote.native

(* A block burns no more than the highest threshold it saw, but for tips    *)
(* and for the Ethereum calls of a batch, which nobody checks.              *)
BurnIsBounded == allowed # None => burned <= allowed + unchecked

=============================================================================
