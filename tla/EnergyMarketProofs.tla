------------------------- MODULE EnergyMarketProofs -------------------------
(***************************************************************************)
(* Theorems about EnergyMarket for every fee, rate and starting balance:    *)
(* what a block burns, what a swap leaves with the broker, that no energy   *)
(* comes from nowhere, and that a fee costs what was quoted.               *)
(***************************************************************************)
EXTENDS EnergyMarket, RecursionTheorems

-----------------------------------------------------------------------------
(* Numbers.                                                                *)

(* Saturating subtraction, with numbers that may be negative.              *)
LEMMA SatSubIs ==
  ASSUME NEW a \in Int, NEW b \in Int
  PROVE  /\ SatSub(a, b) \in Nat
         /\ b >= 0 /\ a >= 0 => SatSub(a, b) <= a
         /\ SatSub(a, b) >= a - b
         /\ SatSub(a, b) = a - b \/ (SatSub(a, b) = 0 /\ a < b)
BY DEF SatSub

(* The lesser of two numbers.                                              *)
LEMMA LeastIs ==
  ASSUME NEW a \in Int, NEW b \in Int
  PROVE  Least(a, b) \in {a, b} /\ Least(a, b) \in Int /\ Least(a, b) <= a /\ Least(a, b) <= b
BY DEF Least

(* A share of something is not negative.                                   *)
LEMMA PercentIs ==
  ASSUME NEW pct \in Nat, NEW amount \in Nat
  PROVE  Percent(pct, amount) \in Nat
<1>1. pct * amount \in Nat
  OBVIOUS
<1>2. \A n \in Nat : (n + 49) \div 100 \in Nat
  OBVIOUS
<1> QED
  BY <1>1, <1>2 DEF Percent

-----------------------------------------------------------------------------
(* Books: the market with balances that are numbers.                       *)

Balances == [Accounts -> [Assets -> Int]]

Books == [of : Balances, rate : Rates, capacity : Int, gone : Int]

(* Balances are numbers.                                                   *)
LEMMA Balance ==
  ASSUME NEW m \in Books, NEW who \in Accounts, NEW asset \in Assets
  PROVE  m.of[who][asset] \in Int
BY DEF Books, Balances

(* A credit moves one balance by its amount and nothing else.              *)
LEMMA CreditOK ==
  ASSUME NEW m \in Books, NEW who \in Accounts, NEW asset \in Assets, NEW amount \in Int
  PROVE  /\ Credit(m, who, asset, amount) \in Books
         /\ \A w \in Accounts, a \in Assets :
              Credit(m, who, asset, amount).of[w][a] =
                m.of[w][a] + IF w = who /\ a = asset THEN amount ELSE 0
         /\ Credit(m, who, asset, amount).capacity = m.capacity
         /\ Credit(m, who, asset, amount).rate = m.rate
<1>1. m.of \in Balances /\ m.of[who] \in [Assets -> Int] /\ m.of[who][asset] \in Int
  BY DEF Books, Balances
<1>2. PICK row \in [Assets -> Int] : row = [m.of[who] EXCEPT ![asset] = @ + amount]
  <2>1. m.of[who][asset] + amount \in Int
    BY <1>1
  <2>2. [m.of[who] EXCEPT ![asset] = m.of[who][asset] + amount] \in [Assets -> Int]
    BY <1>1, <2>1
  <2> QED
    BY <2>2
<1>3. PICK table \in Balances : table = [m.of EXCEPT ![who] = row]
  BY <1>1 DEF Balances
<1>4. Credit(m, who, asset, amount) = [m EXCEPT !.of = table]
  BY <1>2, <1>3 DEF Credit
<1>5. Credit(m, who, asset, amount) \in Books /\ Credit(m, who, asset, amount).of = table
      /\ Credit(m, who, asset, amount).capacity = m.capacity
      /\ Credit(m, who, asset, amount).rate = m.rate
  BY <1>4 DEF Books
<1>6. ASSUME NEW w \in Accounts, NEW a \in Assets
      PROVE  table[w][a] = m.of[w][a] + IF w = who /\ a = asset THEN amount ELSE 0
  <2>1. m.of[w][a] \in Int
    BY Balance
  <2>2. table[w] = IF w = who THEN row ELSE m.of[w]
    BY <1>1, <1>3 DEF Balances
  <2>3. row[a] = IF a = asset THEN m.of[who][a] + amount ELSE m.of[who][a]
    BY <1>1, <1>2
  <2> QED
    BY <2>1, <2>2, <2>3
<1> QED
  BY <1>5, <1>6

(* What most callers need of it.                                           *)
LEMMA CreditKeeps ==
  ASSUME NEW m \in Books, NEW who \in Accounts, NEW asset \in Assets, NEW amount \in Int
  PROVE  Credit(m, who, asset, amount) \in Books /\ Credit(m, who, asset, amount).capacity = m.capacity
BY CreditOK

(* The accounts and the assets, by their names.                            *)
LEMMA NamesOK ==
  /\ {"User", "Broker", "Treasury", "Rewards"} = Accounts
  /\ {"VTRS", "VNRG", "SNRG", "LNRG"} = Assets
BY DEF Accounts, Assets

(* The surplus is burnt: what is left is at most the capacity, or the last *)
(* unit that keeps the account alive.                                      *)
LEMMA BurnSurplusOK ==
  ASSUME NEW m \in Books, NEW grown
  PROVE  /\ BurnSurplus(m, grown) \in Books
         /\ BurnSurplus(m, grown).of["Broker"].VNRG <= Max({m.capacity, 1})
         /\ BurnSurplus(m, grown).capacity = m.capacity
<1>1. "Broker" \in Accounts /\ "VNRG" \in Assets /\ m.capacity \in Int /\ m.gone \in Int
  BY NamesOK DEF Books
<1>2. PICK stock \in Int : stock = m.of["Broker"].VNRG
  BY <1>1, Balance
<1>3. PICK over \in Nat : over = SatSub(stock, m.capacity)
  BY <1>1, SatSubIs
<1>4. PICK spare \in Nat : spare = SatSub(stock, 1)
  BY DEF SatSub
<1>5. /\ over >= stock - m.capacity /\ spare >= stock - 1
  BY <1>1, <1>3, <1>4 DEF SatSub
<1>6. PICK surplus \in Int : surplus = Least(over, spare) /\ (surplus = over \/ surplus = spare)
  BY <1>3, <1>4, LeastIs
<1>7. stock - surplus <= Max({m.capacity, 1})
  <2>1. PICK bound \in Int : bound = Max({m.capacity, 1}) /\ bound >= m.capacity /\ bound >= 1
    <3>1. 1 \in Int
      OBVIOUS
    <3>2. Max({m.capacity, 1}) \in Int /\ Max({m.capacity, 1}) >= m.capacity
          /\ Max({m.capacity, 1}) >= 1
      BY <1>1, <3>1, MaxOfTwo, ZenonT(30)
    <3> QED
      BY <3>2
  <2>2. stock - surplus <= m.capacity \/ stock - surplus <= 1
    BY <1>1, <1>6, <1>5
  <2> QED
    BY <1>1, <2>1, <2>2
<1>8. PICK paid \in Books : paid = Credit(m, "Broker", "VNRG", -surplus)
  BY <1>1, CreditOK
<1>9. paid.of["Broker"].VNRG = stock - surplus /\ paid.capacity = m.capacity /\ paid.gone \in Int
  <2>1. -surplus \in Int
    OBVIOUS
  <2>2. paid.of["Broker"]["VNRG"] = m.of["Broker"]["VNRG"] + (-surplus) /\ paid.capacity = m.capacity
    BY <1>1, <1>8, <2>1, CreditOK
  <2> QED
    BY <1>2, <2>2 DEF Books
<1>10. BurnSurplus(m, grown) = [paid EXCEPT !.gone = @ + surplus]
  BY <1>2, <1>3, <1>4, <1>6, <1>8 DEF BurnSurplus
<1>11. BurnSurplus(m, grown) \in Books /\ BurnSurplus(m, grown).of = paid.of
      /\ BurnSurplus(m, grown).capacity = paid.capacity
  BY <1>9, <1>10 DEF Books
<1> QED
  BY <1>9, <1>11, <1>7

-----------------------------------------------------------------------------
(* The broker.                                                             *)

(* A rate is a fraction that one can divide by.                            *)
LEMMA RatesOK ==
  ASSUME NEW rate \in Rates
  PROVE  rate[1] \in Nat /\ rate[2] \in Nat /\ rate[2] > 0
BY MarketAssumption

(* Products and quotients of numbers are numbers.                          *)
LEMMA Quotients ==
  ASSUME NEW a \in Int, NEW b \in Int, NEW c \in Int, c > 0
  PROVE  (a * b) \div c \in Int
<1>1. a * b \in Int
  OBVIOUS
<1>2. \A n \in Int : n \div c \in Int
  OBVIOUS
<1> QED
  BY <1>1, <1>2

(* The converters give numbers.                                            *)
LEMMA ConvertersOK ==
  ASSUME NEW rate \in Rates, NEW path, NEW amount \in Int
  PROVE  Worth(rate, path, amount) \in Int /\ Asked(rate, path, amount) \in Int
<1>1. rate[1] \in Int /\ rate[2] \in Int /\ rate[2] > 0 /\ (rate[1] # 0 => rate[1] > 0)
  BY RatesOK
<1>2. StaticRate[1] \in Int /\ StaticRate[2] \in Int /\ StaticRate[1] > 0 /\ StaticRate[2] > 0
  BY MarketAssumption
<1>3. (amount * rate[1]) \div rate[2] \in Int
  BY <1>1, Quotients
<1>4. rate[1] # 0 => (amount * rate[2]) \div rate[1] \in Int
  BY <1>1, Quotients
<1>5. (amount * StaticRate[1]) \div StaticRate[2] \in Int
      /\ (amount * StaticRate[2]) \div StaticRate[1] \in Int
  BY <1>2, Quotients
<1>6. path # <<"VTRS", "VNRG">> \/ path # <<"LNRG", "VTRS">>
  OBVIOUS
<1>7. CASE path = <<"VTRS", "VNRG">>
  BY <1>3, <1>4, <1>7 DEF Worth, Asked, None
<1>8. CASE path = <<"LNRG", "VTRS">>
  BY <1>3, <1>4, <1>8 DEF Worth, Asked, None
<1>9. CASE path = <<"SNRG", "VTRS">>
  BY <1>5, <1>9 DEF Worth, Asked, None
<1>10. CASE path \notin {<<"VTRS", "VNRG">>, <<"LNRG", "VTRS">>, <<"SNRG", "VTRS">>}
  BY <1>10 DEF Worth, Asked, None
<1> QED
  BY <1>7, <1>8, <1>9, <1>10

Numbers(amounts) == amounts.in \in Int /\ amounts.out \in Int /\ amounts.fee \in Int

(* What a swap is asked for is in numbers, and nothing negative is handed  *)
(* out for an amount to be bought.                                         *)
LEMMA AmountsOK ==
  ASSUME NEW rate \in Rates, NEW path, NEW who, NEW amount \in Int
  PROVE  /\ Numbers(GetAmountOut(rate, path, who, amount))
         /\ Numbers(GetAmountIn(rate, path, who, amount))
         /\ amount >= 0 => GetAmountIn(rate, path, who, amount).out >= 0
<1>1. PICK rest \in Int : rest = 1000 - FeeOf(path, who) /\ rest > 0
  BY MarketAssumption DEF FeeOf
<1>2. PICK exchanged \in Int : exchanged = (amount * rest) \div 1000
  BY <1>1, Quotients
<1>3. Worth(rate, path, exchanged) \in Int
  BY ConvertersOK
<1>4. GetAmountOut(rate, path, who, amount) =
        [in |-> amount, out |-> Worth(rate, path, exchanged), fee |-> amount - exchanged]
  BY <1>1, <1>2 DEF GetAmountOut
<1>5. PICK asked \in Int : asked = Asked(rate, path, amount)
  BY ConvertersOK
<1>6. PICK least \in Int : least = Max({asked, 1})
  <2>1. 1 \in Int
    OBVIOUS
  <2>2. Max({asked, 1}) \in Int
    BY <2>1, MaxOfTwo, ZenonT(30)
  <2> QED
    BY <2>2
<1>7. PICK in \in Int : in = (least * 1000) \div rest
  BY <1>1, Quotients
<1>8. GetAmountIn(rate, path, who, amount) =
        [in |-> in, out |-> IF asked = None THEN 0 ELSE amount, fee |-> in - least]
  BY <1>1, <1>5, <1>6, <1>7 DEF GetAmountIn
<1> QED
  BY <1>3, <1>4, <1>8 DEF Numbers

(* A swap, done or not, keeps the books; one that adds to the stock leaves *)
(* no more than the capacity.                                              *)
LEMMA DoSwapOK ==
  ASSUME NEW m \in Books, NEW who \in Accounts, NEW recipient \in Accounts,
         NEW path \in Paths, NEW amounts, Numbers(amounts), NEW keep
  PROVE  LET result == DoSwap(m, who, recipient, path, amounts, keep)
         IN  /\ result.m \in Books
             /\ result.m.capacity = m.capacity
             /\ result.ok /\ result.m.of["Broker"].VNRG > m.of["Broker"].VNRG
                  => result.m.of["Broker"].VNRG <= Max({m.capacity, 1})
<1> DEFINE source == path[1]
           target == path[2]
           sold   == amounts.in - amounts.fee
           paying == Credit(m, who, source, -amounts.in)
           taken  == Credit(paying, "Treasury", source, amounts.fee)
           stored == CASE source = "VTRS" -> Credit(taken, "Broker", "VTRS", sold)
                       [] path = <<"LNRG", "VTRS">> -> Credit(taken, "Broker", "VNRG", sold)
                       [] path = <<"SNRG", "VTRS">> -> [taken EXCEPT !.gone = @ + sold]
                       [] OTHER -> taken
           given  == Credit(IF Issuing(path) THEN stored ELSE Credit(stored, "Broker", target, -amounts.out),
                            recipient, target, amounts.out)
           grown  == given.of["Broker"].VNRG - m.of["Broker"].VNRG
           result == DoSwap(m, who, recipient, path, amounts, keep)
<1> HIDE DEF source, target, sold, paying, taken, stored, given, grown, result
<1>1. /\ source \in Assets /\ target \in Assets
      /\ "Broker" \in Accounts /\ "Treasury" \in Accounts
      /\ "VTRS" \in Assets /\ "VNRG" \in Assets
  BY DEF Paths, Assets, Accounts, source, target
<1>2. PICK in \in Int, out \in Int, fee \in Int :
        amounts.in = in /\ amounts.out = out /\ amounts.fee = fee
  BY DEF Numbers
<1>3. sold \in Int /\ -in \in Int /\ -out \in Int
  BY <1>2 DEF sold
<1> DEFINE unstocked == Credit(stored, "Broker", target, -out)
           base      == IF Issuing(path) THEN stored ELSE unstocked
<1> HIDE DEF unstocked, base
<1>14. result = IF amounts.in > Spendable(m, who, source, keep) THEN [ok |-> FALSE, m |-> m]
               ELSE IF ~Issuing(path) /\ amounts.out > SatSub(stored.of["Broker"][target], 1)
               THEN [ok |-> FALSE, m |-> stored]
               ELSE [ok |-> TRUE, m |-> IF grown > 0 THEN BurnSurplus(given, grown) ELSE given]
  BY DEF DoSwap, source, target, sold, paying, taken, stored, given, grown, result
<1>4. paying \in Books /\ paying.capacity = m.capacity
  <2>1. paying = Credit(m, who, source, -in)
    BY <1>2 DEF paying
  <2>2. Credit(m, who, source, -in) \in Books /\ Credit(m, who, source, -in).capacity = m.capacity
    BY <1>1, <1>3, CreditKeeps
  <2> QED
    BY <2>1, <2>2
<1>5. taken \in Books /\ taken.capacity = m.capacity
  <2>1. taken = Credit(paying, "Treasury", source, fee)
    BY <1>2 DEF taken
  <2>2. /\ Credit(paying, "Treasury", source, fee) \in Books
        /\ Credit(paying, "Treasury", source, fee).capacity = paying.capacity
    BY <1>1, <1>4, CreditKeeps
  <2> QED
    BY <1>4, <2>1, <2>2
<1>6. stored \in Books /\ stored.capacity = m.capacity
  <2>1. Credit(taken, "Broker", "VTRS", sold) \in Books
        /\ Credit(taken, "Broker", "VTRS", sold).capacity = taken.capacity
    BY <1>1, <1>3, <1>5, CreditKeeps
  <2>2. Credit(taken, "Broker", "VNRG", sold) \in Books
        /\ Credit(taken, "Broker", "VNRG", sold).capacity = taken.capacity
    BY <1>1, <1>3, <1>5, CreditKeeps
  <2>3. [taken EXCEPT !.gone = @ + sold] \in Books
        /\ [taken EXCEPT !.gone = @ + sold].capacity = taken.capacity
    BY <1>3, <1>5 DEF Books
  <2>4. \/ stored = Credit(taken, "Broker", "VTRS", sold)
        \/ stored = Credit(taken, "Broker", "VNRG", sold)
        \/ stored = [taken EXCEPT !.gone = @ + sold]
        \/ stored = taken
    <3>1. source = "VTRS" => path # <<"LNRG", "VTRS">> /\ path # <<"SNRG", "VTRS">>
      BY DEF source
    <3>2. <<"LNRG", "VTRS">> # <<"SNRG", "VTRS">>
      OBVIOUS
    <3>3. CASE source = "VTRS"
      BY <3>1, <3>3 DEF stored
    <3>4. CASE source # "VTRS" /\ path = <<"LNRG", "VTRS">>
      BY <3>2, <3>4 DEF stored
    <3>5. CASE source # "VTRS" /\ path = <<"SNRG", "VTRS">>
      BY <3>2, <3>5 DEF stored
    <3>6. CASE source # "VTRS" /\ path # <<"LNRG", "VTRS">> /\ path # <<"SNRG", "VTRS">>
      BY <3>6 DEF stored
    <3> QED
      BY <3>3, <3>4, <3>5, <3>6
  <2> QED
    BY <1>5, <2>1, <2>2, <2>3, <2>4
<1>7. given \in Books /\ given.capacity = m.capacity
  <2>1. unstocked \in Books /\ unstocked.capacity = stored.capacity
    BY <1>1, <1>3, <1>6, CreditKeeps DEF unstocked
  <2>2. base \in Books /\ base.capacity = m.capacity
    BY <1>6, <2>1 DEF base
  <2>3. given = Credit(base, recipient, target, out)
    BY <1>2 DEF given, base, unstocked
  <2>4. /\ Credit(base, recipient, target, out) \in Books
        /\ Credit(base, recipient, target, out).capacity = base.capacity
    BY <1>1, <2>2, CreditKeeps
  <2> QED
    BY <2>2, <2>3, <2>4
<1>8. given.of["Broker"].VNRG \in Int /\ m.of["Broker"].VNRG \in Int
  BY <1>1, <1>7, Balance
<1>9. BurnSurplus(given, grown) \in Books /\ BurnSurplus(given, grown).capacity = m.capacity
      /\ BurnSurplus(given, grown).of["Broker"].VNRG <= Max({m.capacity, 1})
  BY <1>7, BurnSurplusOK
<1>10. CASE amounts.in > Spendable(m, who, source, keep)
  BY <1>14, <1>10 DEF result
<1>11. CASE /\ ~(amounts.in > Spendable(m, who, source, keep))
            /\ ~Issuing(path) /\ amounts.out > SatSub(stored.of["Broker"][target], 1)
  BY <1>14, <1>6, <1>11 DEF result
<1>12. CASE /\ ~(amounts.in > Spendable(m, who, source, keep))
            /\ ~(~Issuing(path) /\ amounts.out > SatSub(stored.of["Broker"][target], 1))
  <2>1. result.m = (IF grown > 0 THEN BurnSurplus(given, grown) ELSE given)
    BY <1>14, <1>12
  <2>2. CASE grown > 0
    BY <1>9, <2>1, <2>2 DEF result
  <2>3. CASE ~(grown > 0)
    <3>1. result.m = given /\ ~(given.of["Broker"].VNRG > m.of["Broker"].VNRG)
      BY <1>8, <2>1, <2>3 DEF grown
    <3> QED
      BY <1>7, <3>1 DEF result
  <2> QED
    BY <2>2, <2>3
<1> QED
  BY <1>10, <1>11, <1>12

-----------------------------------------------------------------------------
(* Fees.                                                                   *)

Stock(m) == m.of["Broker"].VNRG

(* Credit of anyone but the broker.                                        *)
LEMMA CreditOther ==
  ASSUME NEW m \in Books, NEW who \in Accounts, NEW asset \in Assets, NEW amount \in Int,
         who # "Broker"
  PROVE  /\ Credit(m, who, asset, amount) \in Books
         /\ Credit(m, who, asset, amount).capacity = m.capacity
         /\ Stock(Credit(m, who, asset, amount)) = Stock(m)
         /\ Stock(m) \in Int
<1>1. "Broker" \in Accounts /\ "VNRG" \in Assets
  BY DEF Accounts, Assets
<1>2. m.of["Broker"]["VNRG"] \in Int
  BY <1>1, Balance
<1>3. Credit(m, who, asset, amount).of["Broker"]["VNRG"] = m.of["Broker"]["VNRG"] + 0
  BY <1>1, CreditOK
<1> QED
  BY <1>2, <1>3, CreditKeeps DEF Stock

(* What a step may do to the stock of the broker while a call runs.        *)
StockOK(m, after) == Stock(after) > Stock(m) => Stock(after) <= Max({m.capacity, 1})

(* To provide the energy of a fee keeps the books and the capacity, and    *)
(* does not fill the broker beyond it.                                     *)
LEMMA EnsureOK ==
  ASSUME market \in Books, NEW required \in Nat
  PROVE  LET result == EnsureSufficientEnergy(required)
         IN  /\ result.m \in Books
             /\ result.m.capacity = market.capacity
             /\ result.ok => StockOK(market, result.m)
<1>1. /\ "User" \in Accounts /\ "User" # "Broker"
      /\ "VNRG" \in Assets /\ "SNRG" \in Assets /\ "LNRG" \in Assets
  BY DEF Accounts, Assets
<1>2. PICK own : own = market.of["User"]
  OBVIOUS
<1>3. own.VNRG \in Int /\ own.SNRG \in Int /\ own.LNRG \in Int
  BY <1>1, <1>2, Balance
<1>4. PICK wanted \in Int : wanted = SatSub(required, own.VNRG)
  BY <1>3, SatSubIs
<1>5. PICK static \in Int : static = Least(own.SNRG, wanted)
  BY <1>3, LeastIs
<1>6. own.VNRG + static \in Int
  BY <1>3
<1>7. PICK rest \in Int : rest = SatSub(required, own.VNRG + static)
  BY <1>6, SatSubIs
<1>8. PICK liquid \in Int : liquid = Least(own.LNRG, rest)
  BY <1>3, LeastIs
<1>9. -static \in Int /\ -liquid \in Int /\ static + liquid \in Int
      /\ own.VNRG + static + liquid \in Int
  BY <1>3
<1>10. PICK missing \in Nat : missing = SatSub(required, own.VNRG + static + liquid)
  <2>1. PICK total \in Int : total = own.VNRG + static + liquid
    BY <1>9
  <2>2. SatSub(required, total) \in Nat
    BY SatSubIs
  <2> QED
    BY <2>1, <2>2
<1>22. PICK user \in Accounts, snrg \in Assets, lnrg \in Assets, vnrg \in Assets,
            lessStatic \in Int, lessLiquid \in Int, sum \in Int :
         /\ user = "User" /\ user # "Broker" /\ snrg = "SNRG" /\ lnrg = "LNRG" /\ vnrg = "VNRG"
         /\ lessStatic = -static /\ lessLiquid = -liquid /\ sum = static + liquid
  BY <1>1, <1>9
<1>11. PICK one \in Books : one = Credit(market, user, snrg, lessStatic)
         /\ one.capacity = market.capacity /\ Stock(one) = Stock(market)
  <2>1. /\ Credit(market, user, snrg, lessStatic) \in Books
        /\ Credit(market, user, snrg, lessStatic).capacity = market.capacity
        /\ Stock(Credit(market, user, snrg, lessStatic)) = Stock(market)
    BY <1>22, CreditOther
  <2> QED
    BY <2>1
<1>12. PICK two \in Books : two = Credit(one, user, lnrg, lessLiquid)
         /\ two.capacity = market.capacity /\ Stock(two) = Stock(market)
  <2>1. /\ Credit(one, user, lnrg, lessLiquid) \in Books
        /\ Credit(one, user, lnrg, lessLiquid).capacity = one.capacity
        /\ Stock(Credit(one, user, lnrg, lessLiquid)) = Stock(one)
    BY <1>22, CreditOther
  <2> QED
    BY <1>11, <2>1
<1>13. PICK m \in Books : m = Credit(two, user, vnrg, sum)
         /\ m.capacity = market.capacity /\ Stock(m) = Stock(market)
  <2>1. /\ Credit(two, user, vnrg, sum) \in Books
        /\ Credit(two, user, vnrg, sum).capacity = two.capacity
        /\ Stock(Credit(two, user, vnrg, sum)) = Stock(two)
    BY <1>22, CreditOther
  <2> QED
    BY <1>12, <2>1
<1>14. PICK amounts : amounts = GetAmountIn(m.rate, Buy, "User", missing)
  OBVIOUS
<1>15. Numbers(amounts)
  <2>1. m.rate \in Rates /\ missing \in Int
    BY DEF Books
  <2> QED
    BY <1>14, <2>1, AmountsOK
<1>16. PICK swap : swap = DoSwap(m, "User", "User", Buy, amounts, TRUE)
  OBVIOUS
<1>17. /\ swap.m \in Books /\ swap.m.capacity = m.capacity
       /\ swap.ok /\ swap.m.of["Broker"].VNRG > m.of["Broker"].VNRG
            => swap.m.of["Broker"].VNRG <= Max({m.capacity, 1})
  <2>1. Buy \in Paths
    BY DEF Buy, Paths
  <2>2. PICK keep : keep = TRUE
    OBVIOUS
  <2>3. swap = DoSwap(m, "User", "User", Buy, amounts, keep)
    BY <1>16, <2>2
  <2>4. PICK payer \in Accounts : payer = "User"
    BY <1>1
  <2>5. /\ DoSwap(m, payer, payer, Buy, amounts, keep).m \in Books
        /\ DoSwap(m, payer, payer, Buy, amounts, keep).m.capacity = m.capacity
        /\ DoSwap(m, payer, payer, Buy, amounts, keep).ok
             /\ DoSwap(m, payer, payer, Buy, amounts, keep).m.of["Broker"].VNRG > m.of["Broker"].VNRG
             => DoSwap(m, payer, payer, Buy, amounts, keep).m.of["Broker"].VNRG <= Max({m.capacity, 1})
    BY <1>15, <2>1, DoSwapOK, ZenonT(30)
  <2> QED
    BY <2>3, <2>4, <2>5
<1>23. m = Credit(Credit(Credit(market, "User", "SNRG", -static), "User", "LNRG", -liquid),
                   "User", "VNRG", static + liquid)
  BY <1>11, <1>12, <1>13, <1>22
<1>18. EnsureSufficientEnergy(required) =
         IF missing = 0 THEN [ok |-> TRUE, m |-> m]
         ELSE IF amounts.out = 0 THEN [ok |-> FALSE, m |-> m]
         ELSE swap
  BY <1>2, <1>4, <1>5, <1>7, <1>8, <1>10, <1>14, <1>16, <1>23
     DEF EnsureSufficientEnergy
<1>19. Stock(market) \in Int
  BY <1>1, CreditOther
<1>20. StockOK(market, m)
  BY <1>13, <1>19 DEF StockOK
<1>21. swap.ok => StockOK(market, swap.m)
  BY <1>13, <1>17 DEF StockOK, Stock
<1> QED
  BY <1>13, <1>17, <1>18, <1>20, <1>21

(* What is burnt of a fee is never more than what was paid.                *)
LEMMA SettledOK ==
  ASSUME NEW m \in Books, NEW paid \in Nat, NEW tip \in Nat, NEW refund \in Nat,
         refund <= paid, recycling \in Nat
  PROVE  LET settled == Settled(m, paid, tip, refund)
         IN  /\ settled.m \in Books
             /\ settled.m.capacity = m.capacity
             /\ Stock(settled.m) = Stock(m)
             /\ settled.burnt \in Int /\ settled.burnt <= paid
<1>1. /\ "User" \in Accounts /\ "User" # "Broker" /\ "Treasury" \in Accounts
      /\ "Treasury" # "Broker" /\ "VNRG" \in Assets
  BY DEF Accounts, Assets
<1>2. PICK left \in Nat : left = paid - refund /\ left <= paid
  OBVIOUS
<1>3. PICK shared \in Nat : shared = left - Least(tip, left)
  <2>1. Least(tip, left) \in Int /\ Least(tip, left) <= left
    BY LeastIs
  <2> QED
    BY <2>1
<1>4. PICK recycled \in Nat : recycled = Percent(recycling, shared)
  BY PercentIs
<1>5. PICK one \in Books : one = Credit(m, "User", "VNRG", refund)
        /\ one.capacity = m.capacity /\ Stock(one) = Stock(m)
  <2>1. refund \in Int
    OBVIOUS
  <2> QED
    BY <1>1, <2>1, CreditOther, ZenonT(30)
<1>6. PICK two \in Books : two = Credit(one, "Treasury", "VNRG", recycled)
        /\ two.capacity = m.capacity /\ Stock(two) = Stock(m)
  <2>1. recycled \in Int
    OBVIOUS
  <2>2. /\ Credit(one, "Treasury", "VNRG", recycled) \in Books
        /\ Credit(one, "Treasury", "VNRG", recycled).capacity = one.capacity
        /\ Stock(Credit(one, "Treasury", "VNRG", recycled)) = Stock(one)
    BY <1>1, <2>1, CreditOther, ZenonT(30)
  <2> QED
    BY <1>5, <2>2
<1>7. Settled(m, paid, tip, refund) = [m |-> two, burnt |-> left - recycled]
  BY <1>2, <1>3, <1>4, <1>5, <1>6 DEF Settled
<1>8. left - recycled \in Int /\ left - recycled <= paid
  BY <1>2
<1> QED
  BY <1>6, <1>7, <1>8

-----------------------------------------------------------------------------
(* The inductive invariant.                                                *)

Txs == [stage : {"none", "charged", "ran"}, kind : Kinds, paid : Nat, tip : Nat]

(* The fee that an Ethereum call, once checked, has still to burn.         *)
Pending == IF tx.stage = "charged" /\ tx.kind = "evm" THEN EvmFee ELSE 0

RulesOK ==
  /\ override \in Int /\ recycling \in Nat
  /\ threshold \in Nat \cup {None} /\ allowed \in Nat \cup {None}
  /\ burned \in Int /\ unchecked \in Nat
  /\ tx \in Txs /\ (tx.stage = "none" => tx.paid = 0)

(* The threshold in force is no higher than the highest of this block, and *)
(* what is burnt and may still be burnt by the transaction in flight stays *)
(* below the latter.                                                       *)
BurnInv ==
  allowed # None =>
    /\ threshold # None /\ threshold <= allowed
    /\ burned + tx.paid + Pending <= allowed + unchecked

MarketInv == market \in Books /\ RulesOK /\ BurnInv

(* The books of genesis are numbers, and nothing is charged yet.           *)
LEMMA InitInv == Init => MarketInv
<1> SUFFICES ASSUME Init PROVE MarketInv
  OBVIOUS
<1>1. market \in Books
  <2>1. Start \in Balances
    BY MarketAssumption DEF Balances
  <2>2. PICK rate \in Rates, capacity \in Capacities :
          market = [of |-> Start, rate |-> rate, capacity |-> capacity, gone |-> 0]
    BY DEF Init
  <2>3. capacity \in Int
    BY <2>2, MarketAssumption
  <2> QED
    BY <2>1, <2>2, <2>3 DEF Books
<1>2. override \in Int
  BY MarketAssumption DEF Init
<1>3. tx = [stage |-> "none", kind |-> "constant", paid |-> 0, tip |-> 0]
  BY DEF Init, NoTx
<1>4. RulesOK
  BY <1>2, <1>3 DEF Init, RulesOK, Txs, Kinds
<1>5. BurnInv
  BY DEF Init, BurnInv
<1> QED
  BY <1>1, <1>4, <1>5 DEF MarketInv

(* A fee is checked as it is charged, and the fee of an Ethereum call is   *)
(* only pending then.                                                      *)
LEMMA ChargeInv ==
  ASSUME MarketInv, NEW kind \in Kinds, NEW amount \in Fees, NEW tip \in Tips,
         Charge(kind, amount, tip)
  PROVE  MarketInv'
<1>1. amount \in Nat /\ tip \in Nat /\ EvmFee \in Nat
  BY MarketAssumption
<1>2. PICK fee \in Nat : fee = IF kind \in {"batch", "evm"} THEN EvmFee ELSE amount
  BY <1>1
<1>3. PICK whole \in Nat : whole = (IF kind = "weighed" THEN fee + tip ELSE fee) /\ whole >= fee
  BY <1>1
<1>4. PICK paid \in Nat : paid = IF kind = "evm" THEN 0 ELSE whole
  OBVIOUS
<1>5. PICK result : result = EnsureSufficientEnergy(whole)
  OBVIOUS
<1>6. /\ tx.stage = "none" /\ ValidateCallFee(fee)
      /\ market' = Credit(result.m, "User", "VNRG", -paid)
      /\ tx' = [stage |-> "charged", kind |-> kind, paid |-> paid, tip |-> tip]
      /\ unchecked' = unchecked + (whole - fee)
      /\ UNCHANGED <<ruleVars, burned, reported, rounds, allowed>>
  BY <1>2, <1>3, <1>4, <1>5 DEF Charge
<1>7. market' \in Books
  <2>1. result.m \in Books
    BY <1>5, EnsureOK DEF MarketInv
  <2>2. "User" \in Accounts /\ "VNRG" \in Assets /\ -paid \in Int
    BY DEF Accounts, Assets
  <2>3. Credit(result.m, "User", "VNRG", -paid) \in Books
    BY <2>1, <2>2, CreditKeeps, ZenonT(30)
  <2> QED
    BY <1>6, <2>3
<1>8. override' = override /\ threshold' = threshold /\ recycling' = recycling /\ burned' = burned
      /\ allowed' = allowed
  BY <1>6 DEF ruleVars
<1>9. RulesOK'
  <2>1. tx' \in Txs /\ tx'.stage = "charged"
    BY <1>1, <1>6 DEF Txs
  <2>2. unchecked' \in Nat
    BY <1>3, <1>6 DEF MarketInv, RulesOK
  <2> QED
    BY <1>8, <2>1, <2>2 DEF MarketInv, RulesOK
<1>10. BurnInv'
  <2>1. SUFFICES ASSUME allowed # None
                 PROVE  /\ threshold # None /\ threshold <= allowed
                        /\ burned + tx'.paid + Pending' <= allowed + unchecked'
    BY <1>8 DEF BurnInv
  <2>2. threshold # None /\ threshold <= allowed /\ burned + fee <= threshold
        /\ threshold \in Int /\ allowed \in Int /\ burned \in Int /\ unchecked \in Nat
    BY <1>6, <2>1 DEF MarketInv, RulesOK, BurnInv, ValidateCallFee, None
  <2>3. tx'.paid = paid /\ Pending' = IF kind = "evm" THEN EvmFee ELSE 0
    BY <1>6 DEF Pending
  <2>4. CASE kind = "evm"
    <3>1. paid = 0 /\ fee = EvmFee /\ whole = fee
      BY <1>2, <1>3, <1>4, <2>4
    <3> QED
      BY <1>6, <2>2, <2>3, <2>4, <3>1
  <2>5. CASE kind # "evm"
    <3>1. paid = whole
      BY <1>4, <2>5
    <3> QED
      BY <1>3, <1>6, <2>2, <2>3, <2>5, <3>1
  <2> QED
    BY <2>4, <2>5
<1> QED
  BY <1>7, <1>9, <1>10 DEF MarketInv

(* A call that burns nothing by itself.                                    *)
LEMMA DispatchInv ==
  ASSUME MarketInv, Dispatch, market' \in Books, UNCHANGED feeVars
  PROVE  MarketInv'
<1>1. /\ tx.stage = "charged" /\ tx' = [tx EXCEPT !.stage = "ran"] /\ tx \in Txs
      /\ override' = override /\ threshold' = threshold /\ recycling' = recycling
      /\ burned' = burned /\ unchecked' = unchecked /\ allowed' = allowed
  BY DEF Dispatch, ruleVars, feeVars, MarketInv, RulesOK
<1>2. tx' \in Txs /\ tx'.paid = tx.paid /\ tx'.stage = "ran" /\ tx.paid \in Nat
  BY <1>1 DEF Txs
<1>3. Pending' = 0 /\ Pending \in Nat
  BY <1>2, MarketAssumption DEF Pending
<1>4. RulesOK'
  BY <1>1, <1>2 DEF MarketInv, RulesOK
<1>5. BurnInv'
  BY <1>1, <1>2, <1>3 DEF MarketInv, RulesOK, BurnInv, None
<1> QED
  BY <1>4, <1>5 DEF MarketInv

(* A call that has nothing to do with energy.                              *)
LEMMA OtherCallInv == MarketInv /\ OtherCall => MarketInv'
BY DispatchInv DEF OtherCall, MarketInv

(* A swap keeps the books, and the capacity if it adds to the stock.       *)
LEMMA SwapStep ==
  ASSUME MarketInv, NEW path \in Paths, NEW recipient \in Accounts, NEW amounts, NEW keep,
         Numbers(amounts), Swap(path, recipient, amounts, keep)
  PROVE  MarketInv' /\ StockOK(market, market')
<1>1. PICK result : result = DoSwap(market, "User", recipient, path, amounts, keep)
  OBVIOUS
<1>2. Dispatch /\ result.ok /\ market' = result.m /\ UNCHANGED feeVars
  BY <1>1 DEF Swap
<1>3. PICK user \in Accounts : user = "User"
  BY DEF Accounts
<1>4. market \in Books
  BY DEF MarketInv
<1>5. /\ DoSwap(market, user, recipient, path, amounts, keep).m \in Books
      /\ DoSwap(market, user, recipient, path, amounts, keep).ok
           /\ DoSwap(market, user, recipient, path, amounts, keep).m.of["Broker"].VNRG
                > market.of["Broker"].VNRG
           => DoSwap(market, user, recipient, path, amounts, keep).m.of["Broker"].VNRG
                <= Max({market.capacity, 1})
  BY <1>4, DoSwapOK, ZenonT(30)
<1>6. result.m \in Books /\ StockOK(market, result.m)
  BY <1>1, <1>2, <1>3, <1>5 DEF StockOK, Stock
<1> QED
  BY <1>2, <1>6, DispatchInv

(* The two swaps that a user may call.                                     *)
LEMMA SwapsStep ==
  ASSUME MarketInv, NEW path \in Paths, NEW recipient \in {"User", "Broker"},
         NEW amount \in Amounts, NEW keep \in BOOLEAN,
         \/ SwapExactTokensForTokens(path, recipient, amount, keep)
         \/ SwapTokensForExactTokens(path, recipient, amount, keep)
  PROVE  MarketInv' /\ StockOK(market, market')
<1>1. amount \in Int /\ recipient \in Accounts /\ market.rate \in Rates
  BY MarketAssumption DEF Accounts, MarketInv, Books
<1>2. Numbers(GetAmountOut(market.rate, path, "User", amount))
      /\ Numbers(GetAmountIn(market.rate, path, "User", amount))
  BY <1>1, AmountsOK
<1> QED
  BY <1>1, <1>2, SwapStep DEF SwapExactTokensForTokens, SwapTokensForExactTokens

(* An Ethereum call burns what was pending, or what nobody checks.         *)
LEMMA EvmCallStep ==
  ASSUME MarketInv, EvmCall
  PROVE  MarketInv' /\ StockOK(market, market')
<1>1. EvmFee \in Nat /\ market \in Books /\ recycling \in Nat
  BY MarketAssumption DEF MarketInv, RulesOK
<1>2. PICK result : result = EnsureSufficientEnergy(EvmFee)
  OBVIOUS
<1>3. PICK charged : charged = Credit(result.m, "User", "VNRG", -EvmFee)
  OBVIOUS
<1>4. PICK settled : settled = Settled(charged, EvmFee, 0, 0)
  OBVIOUS
<1>5. /\ Dispatch /\ tx.kind \in {"batch", "evm"} /\ result.ok
      /\ market' = settled.m /\ Burn(settled.burnt)
      /\ unchecked' = unchecked + IF tx.kind = "batch" THEN EvmFee ELSE 0
  BY <1>2, <1>3, <1>4 DEF EvmCall
<1>6. result.m \in Books /\ result.m.capacity = market.capacity /\ StockOK(market, result.m)
  BY <1>1, <1>2, <1>5, EnsureOK
<1>7. charged \in Books /\ Stock(charged) = Stock(result.m)
  <2>1. "User" \in Accounts /\ "User" # "Broker" /\ "VNRG" \in Assets /\ -EvmFee \in Int
    BY <1>1 DEF Accounts, Assets
  <2>2. /\ Credit(result.m, "User", "VNRG", -EvmFee) \in Books
        /\ Stock(Credit(result.m, "User", "VNRG", -EvmFee)) = Stock(result.m)
    BY <1>6, <2>1, CreditOther, ZenonT(30)
  <2> QED
    BY <1>3, <2>2
<1>8. settled.m \in Books /\ Stock(settled.m) = Stock(charged)
      /\ settled.burnt \in Int /\ settled.burnt <= EvmFee
  <2>1. PICK zero \in Nat : zero = 0
    OBVIOUS
  <2>2. zero <= EvmFee
    BY <1>1, <2>1
  <2>3. settled = Settled(charged, EvmFee, zero, zero)
    BY <1>4, <2>1
  <2> QED
    BY <1>1, <1>7, <2>2, <2>3, SettledOK
<1>9. StockOK(market, market')
  BY <1>5, <1>6, <1>7, <1>8 DEF StockOK
<1>10. /\ tx.stage = "charged" /\ tx' = [tx EXCEPT !.stage = "ran"] /\ tx \in Txs
       /\ override' = override /\ threshold' = threshold /\ recycling' = recycling
       /\ allowed' = allowed /\ burned' = burned + settled.burnt
  BY <1>5 DEF Dispatch, ruleVars, Burn, MarketInv, RulesOK
<1>11. tx' \in Txs /\ tx'.paid = tx.paid /\ tx'.stage = "ran" /\ tx.paid \in Nat
  BY <1>10 DEF Txs
<1>12. Pending' = 0 /\ Pending = IF tx.kind = "evm" THEN EvmFee ELSE 0
  BY <1>10, <1>11 DEF Pending
<1>13. RulesOK'
  BY <1>1, <1>5, <1>8, <1>10, <1>11 DEF MarketInv, RulesOK
<1>14. BurnInv'
  <2>1. SUFFICES ASSUME allowed # None
                 PROVE  /\ threshold # None /\ threshold <= allowed
                        /\ burned + settled.burnt + tx.paid <= allowed + unchecked'
    BY <1>8, <1>10, <1>11, <1>12 DEF BurnInv, MarketInv, RulesOK
  <2>2. /\ threshold # None /\ threshold <= allowed
        /\ burned + tx.paid + Pending <= allowed + unchecked
        /\ allowed \in Int /\ burned \in Int /\ unchecked \in Nat
    BY <2>1 DEF MarketInv, RulesOK, BurnInv, None
  <2>3. CASE tx.kind = "evm"
    BY <1>1, <1>5, <1>8, <1>11, <1>12, <2>2, <2>3
  <2>4. CASE tx.kind = "batch"
    BY <1>1, <1>5, <1>8, <1>11, <1>12, <2>2, <2>4
  <2> QED
    BY <1>5, <2>3, <2>4
<1> QED
  BY <1>5, <1>8, <1>9, <1>13, <1>14 DEF MarketInv

(* Settling burns no more than what was paid, and what was paid is no      *)
(* longer owed.                                                            *)
LEMMA SettleInv ==
  ASSUME MarketInv, NEW paysFee \in BOOLEAN, Settle(paysFee)
  PROVE  MarketInv'
<1>1. tx \in Txs /\ market \in Books /\ recycling \in Nat /\ burned \in Int
  BY DEF MarketInv, RulesOK
<1>2. tx.paid \in Nat /\ tx.tip \in Nat
  BY <1>1 DEF Txs
<1>3. PICK refund \in Nat :
        refund = (IF paysFee THEN 0 ELSE SatSub(tx.paid, tx.tip)) /\ refund <= tx.paid
  <2>1. SatSub(tx.paid, tx.tip) \in Nat /\ SatSub(tx.paid, tx.tip) <= tx.paid
    BY <1>2 DEF SatSub
  <2> QED
    BY <1>2, <2>1
<1>4. PICK settled : settled = Settled(market, tx.paid, tx.tip, refund)
  OBVIOUS
<1>5. settled.m \in Books /\ settled.burnt \in Int /\ settled.burnt <= tx.paid
  BY <1>1, <1>2, <1>3, <1>4, SettledOK
<1>6. /\ tx.stage = "ran" /\ tx' = NoTx /\ market' = settled.m
      /\ burned' = burned + settled.burnt /\ unchecked' = unchecked /\ allowed' = allowed
      /\ override' = override /\ threshold' = threshold /\ recycling' = recycling
  BY <1>3, <1>4 DEF Settle, Burn, ruleVars
<1>7. tx' \in Txs /\ tx'.paid = 0 /\ tx'.stage = "none"
  BY <1>6 DEF NoTx, Txs, Kinds
<1>8. Pending' = 0 /\ Pending = 0
  BY <1>6, <1>7 DEF Pending
<1>9. RulesOK'
  BY <1>5, <1>6, <1>7 DEF MarketInv, RulesOK
<1>10. BurnInv'
  BY <1>1, <1>2, <1>5, <1>6, <1>7, <1>8 DEF MarketInv, RulesOK, BurnInv, None
<1> QED
  BY <1>5, <1>6, <1>9, <1>10 DEF MarketInv

-----------------------------------------------------------------------------
(* Root, the council and the hooks of a block.                             *)

(* Between transactions nothing is pending.                                *)
LEMMA NothingPending ==
  ASSUME MarketInv, tx.stage = "none"
  PROVE  Pending = 0 /\ tx.paid = 0
BY DEF Pending, MarketInv, RulesOK

(* A new threshold raises the highest the block saw, or leaves it.         *)
LEMMA UpdateBurnedEnergyThresholdInv ==
  ASSUME MarketInv, NEW amount \in Thresholds, UpdateBurnedEnergyThreshold(amount)
  PROVE  MarketInv'
<1>1. /\ market' = market /\ override' = override /\ recycling' = recycling /\ burned' = burned
      /\ unchecked' = unchecked /\ tx' = tx /\ threshold' = amount
      /\ allowed' = IF allowed = None THEN None ELSE Max({allowed, amount})
  BY DEF UpdateBurnedEnergyThreshold, Privileged, feeVars
<1>2. amount \in Nat /\ allowed \in Nat \cup {None}
  BY MarketAssumption DEF MarketInv, RulesOK
<1>3. CASE allowed = None
  BY <1>1, <1>2, <1>3 DEF MarketInv, RulesOK, BurnInv
<1>4. CASE allowed # None
  <2>1. PICK most \in Int : most = Max({allowed, amount}) /\ most >= allowed /\ most >= amount
    <3>1. Max({allowed, amount}) \in Int /\ Max({allowed, amount}) >= allowed
          /\ Max({allowed, amount}) >= amount
      BY <1>2, <1>4, MaxOfTwo
    <3> QED
      BY <3>1
  <2>2. allowed' = most /\ most \in Nat
    BY <1>1, <1>2, <1>4, <2>1
  <2>3. RulesOK'
    BY <1>1, <1>2, <2>2 DEF MarketInv, RulesOK
  <2>4. Pending' = Pending
    BY <1>1 DEF Pending
  <2>5. burned \in Int /\ tx.paid \in Int /\ Pending \in Int /\ unchecked \in Int
    <3>1. tx.paid \in Nat
      BY DEF MarketInv, RulesOK, Txs
    <3> QED
      BY <3>1, MarketAssumption DEF MarketInv, RulesOK, Pending
  <2>6. BurnInv'
    BY <1>1, <1>2, <1>4, <2>1, <2>2, <2>4, <2>5 DEF MarketInv, BurnInv, None
  <2> QED
    BY <1>1, <2>3, <2>6 DEF MarketInv
<1> QED
  BY <1>3, <1>4

(* An override of the capacity only counts at the next session.            *)
LEMMA ForceSetCapacityInv ==
  ASSUME MarketInv, NEW amount \in Capacities \cup {None}, ForceSetCapacity(amount)
  PROVE  MarketInv'
<1>1. /\ market' = market /\ override' = amount /\ recycling' = recycling /\ burned' = burned
      /\ unchecked' = unchecked /\ tx' = tx /\ threshold' = threshold /\ allowed' = allowed
  BY DEF ForceSetCapacity, Privileged, feeVars
<1>2. amount \in Int
  BY MarketAssumption DEF None
<1> QED
  BY <1>1, <1>2 DEF MarketInv, RulesOK, BurnInv, Pending

(* Added liquidity moves from the user to the broker.                      *)
LEMMA ForceAddLiquidityInv ==
  ASSUME MarketInv, NEW asset \in {"VTRS", "VNRG"}, NEW amount \in Amounts, NEW keep \in BOOLEAN,
         ForceAddLiquidity("User", asset, amount, keep)
  PROVE  MarketInv'
<1>1. /\ override' = override /\ recycling' = recycling /\ burned' = burned
      /\ unchecked' = unchecked /\ tx' = tx /\ threshold' = threshold /\ allowed' = allowed
      /\ market' = Credit(Credit(market, "User", asset, -amount), "Broker", asset, amount)
  BY DEF ForceAddLiquidity, Privileged, feeVars
<1>2. "User" \in Accounts /\ "Broker" \in Accounts /\ asset \in Assets /\ amount \in Int /\ -amount \in Int
  BY MarketAssumption DEF Accounts, Assets
<1>3. market \in Books
  BY DEF MarketInv
<1>4. Credit(market, "User", asset, -amount) \in Books
  BY <1>2, <1>3, CreditKeeps, ZenonT(30)
<1>5. market' \in Books
  BY <1>1, <1>2, <1>4, CreditKeeps, ZenonT(30)
<1> QED
  BY <1>1, <1>5 DEF MarketInv, RulesOK, BurnInv, Pending

(* A new block starts with nothing burnt and the threshold in force.       *)
LEMMA NewBlockInv ==
  ASSUME MarketInv, NewBlock, market' \in Books, recycling' \in Nat
  PROVE  MarketInv'
<1>1. /\ tx.stage = "none" /\ burned' = 0 /\ unchecked' = 0 /\ allowed' = threshold
      /\ override' = override /\ threshold' = threshold /\ tx' = tx
  BY DEF NewBlock
<1>2. Pending = 0 /\ Pending' = 0 /\ tx.paid = 0
  BY <1>1, NothingPending DEF Pending
<1>3. RulesOK'
  BY <1>1 DEF MarketInv, RulesOK
<1>4. BurnInv'
  BY <1>1, <1>2 DEF MarketInv, RulesOK, BurnInv, None
<1> QED
  BY <1>3, <1>4 DEF MarketInv

(* The sale of what the treasury has of an energy keeps the books.         *)
LEMMA SellOK ==
  ASSUME NEW m \in Books, NEW asset \in {"SNRG", "LNRG"}
  PROVE  Sell(m, asset) \in Books
<1>1. PICK path \in Paths : path = <<asset, "VTRS">>
  BY DEF Paths
<1>2. PICK treasury \in Accounts : treasury = "Treasury"
  BY DEF Accounts
<1>3. asset \in Assets /\ m.rate \in Rates
  BY DEF Assets, Books
<1>4. m.of[treasury][asset] \in Int
  BY <1>2, <1>3, Balance
<1>5. PICK amounts : amounts = GetAmountOut(m.rate, path, treasury, m.of[treasury][asset])
  OBVIOUS
<1>6. Numbers(amounts)
  BY <1>3, <1>4, <1>5, AmountsOK
<1>7. PICK keep : keep = FALSE
  OBVIOUS
<1>8. DoSwap(m, treasury, treasury, path, amounts, keep).m \in Books
  BY <1>6, DoSwapOK, ZenonT(30)
<1>9. Sell(m, asset) = IF amounts.out = 0 THEN m
                       ELSE DoSwap(m, treasury, treasury, path, amounts, keep).m
  BY <1>1, <1>2, <1>5, <1>7 DEF Sell
<1> QED
  BY <1>8, <1>9

(* So does the exchange of what it was paid in fees.                       *)
LEMMA ExchangeEnergyOK ==
  ASSUME NEW m \in Books
  PROVE  ExchangeEnergy(m) \in Books
<1>1. "Treasury" \in Accounts /\ "VNRG" \in Assets /\ "LNRG" \in Assets
  BY DEF Accounts, Assets
<1>2. PICK energy \in Int : energy = m.of["Treasury"].VNRG /\ -energy \in Int
  BY <1>1, Balance
<1>3. Credit(m, "Treasury", "VNRG", -energy) \in Books
  BY <1>1, <1>2, CreditKeeps, ZenonT(30)
<1>4. PICK liquid \in Books :
        liquid = Credit(Credit(m, "Treasury", "VNRG", -energy), "Treasury", "LNRG", energy)
  BY <1>1, <1>2, <1>3, CreditKeeps, ZenonT(30)
<1>5. Sell(liquid, "SNRG") \in Books
  BY SellOK
<1>6. Sell(Sell(liquid, "SNRG"), "LNRG") \in Books
  BY <1>5, SellOK
<1> QED
  BY <1>2, <1>4, <1>6 DEF ExchangeEnergy

(* The first block of a session.                                           *)
LEMMA SessionBlockInv ==
  ASSUME MarketInv, NEW total \in Capacities, NEW rate \in Rates, SessionBlock(total, rate)
  PROVE  MarketInv'
<1>1. PICK capacity \in Int : capacity = IF override = None THEN total ELSE override
  BY MarketAssumption DEF MarketInv, RulesOK
<1>2. market \in Books
  BY DEF MarketInv
<1>3. PICK wider \in Books : wider = [market EXCEPT !.capacity = capacity]
  BY <1>2 DEF Books
<1>4. PICK zero : zero = 0
  OBVIOUS
<1>5. BurnSurplus(wider, zero) \in Books
  BY BurnSurplusOK
<1>6. PICK resized \in Books : resized = IF capacity = 0 THEN market ELSE BurnSurplus(wider, zero)
  BY <1>2, <1>5
<1>7. PICK rated \in Books : rated = [resized EXCEPT !.rate = rate]
  BY <1>6 DEF Books
<1>8. OnNewSession(total, rate) = ExchangeEnergy(rated)
  BY <1>1, <1>3, <1>4, <1>6, <1>7 DEF OnNewSession
<1>9. market' \in Books
  BY <1>8, ExchangeEnergyOK DEF SessionBlock
<1> QED
  BY <1>9, NewBlockInv DEF SessionBlock, MarketInv, RulesOK

(* A block in which the treasury spends.                                   *)
LEMMA SpendBlockInv ==
  ASSUME MarketInv, NEW spent \in Amounts \cup {0}, SpendBlock(spent)
  PROVE  MarketInv'
<1>1. /\ "Treasury" \in Accounts /\ "User" \in Accounts /\ "Rewards" \in Accounts
      /\ "VTRS" \in Assets /\ market \in Books /\ recycling \in Nat /\ spent \in Nat
  BY MarketAssumption DEF Accounts, Assets, MarketInv, RulesOK
<1>2. /\ SpendThreshold \in Nat /\ ScalingFactor \in Nat /\ BaseRate \in Nat
      /\ TargetBalance \in Nat /\ TargetBalance > 0
  BY MarketAssumption
<1>3. market.of["Treasury"]["VTRS"] \in Int
  BY <1>1, Balance
<1>4. PICK pot \in Nat : pot = SatSub(market.of["Treasury"].VTRS, 1)
  BY <1>3 DEF SatSub
<1>5. PICK share \in Int : share = (SpendThreshold * pot + 99) \div 100
  <2>1. SpendThreshold * pot \in Int
    BY <1>2
  <2> QED
    BY <2>1
<1>6. PICK left \in Nat : left = SatSub(share, spent)
  BY <1>1, <1>5 DEF SatSub
<1>7. PICK part \in Int : part = (ScalingFactor * pot) \div TargetBalance
  BY <1>2, Quotients
<1>8. PICK follow \in Nat : follow = SatSub(BaseRate + ScalingFactor, part)
  <2>1. PICK sum \in Int : sum = BaseRate + ScalingFactor
    BY <1>2
  <2>2. SatSub(sum, part) \in Nat
    BY SatSubIs
  <2> QED
    BY <2>1, <2>2
<1>9. Least(100, follow) \in Nat
  BY DEF Least
<1>10. /\ NewBlock
       /\ market' = Credit(Credit(Credit(market, "Treasury", "VTRS", -(spent + left)),
                                  "User", "VTRS", spent), "Rewards", "VTRS", left)
       /\ recycling' = IF left = 0 THEN recycling ELSE Least(100, follow)
  BY <1>4, <1>5, <1>6, <1>7, <1>8 DEF SpendBlock
<1>11. -(spent + left) \in Int /\ spent \in Int /\ left \in Int
  BY <1>1
<1>12. Credit(market, "Treasury", "VTRS", -(spent + left)) \in Books
  BY <1>1, <1>11, CreditKeeps, ZenonT(30)
<1>13. Credit(Credit(market, "Treasury", "VTRS", -(spent + left)), "User", "VTRS", spent) \in Books
  BY <1>1, <1>11, <1>12, CreditKeeps, ZenonT(30)
<1>14. market' \in Books
  BY <1>1, <1>10, <1>11, <1>13, CreditKeeps, ZenonT(30)
<1>15. recycling' \in Nat
  BY <1>1, <1>9, <1>10
<1> QED
  BY <1>10, <1>14, <1>15, NewBlockInv

-----------------------------------------------------------------------------
(* The theorems about burns and stock.                                     *)

(* Every step keeps the invariant, and minds the stock of the broker.      *)
LEMMA NextStep ==
  ASSUME MarketInv, Next
  PROVE  MarketInv' /\ (tx.stage = "charged" => StockOK(market, market'))
<1>1. ASSUME NEW kind \in Kinds, NEW fee \in Fees, NEW tip \in Tips, Charge(kind, fee, tip)
      PROVE  MarketInv' /\ tx.stage = "none"
  BY <1>1, ChargeInv DEF Charge
<1>2. CASE OtherCall
  <2>1. market' = market /\ Stock(market) \in Int
    <3>1. "Broker" \in Accounts /\ "VNRG" \in Assets
      BY DEF Accounts, Assets
    <3> QED
      BY <1>2, <3>1, Balance DEF OtherCall, MarketInv, Stock
  <2>2. StockOK(market, market')
    BY <2>1 DEF StockOK
  <2> QED
    BY <1>2, <2>2, OtherCallInv
<1>3. ASSUME NEW path \in Paths, NEW to \in {"User", "Broker"}, NEW amount \in Amounts,
             NEW keep \in BOOLEAN,
             \/ SwapExactTokensForTokens(path, to, amount, keep)
             \/ SwapTokensForExactTokens(path, to, amount, keep)
      PROVE  MarketInv' /\ StockOK(market, market')
  BY <1>3, SwapsStep
<1>4. CASE EvmCall
  BY <1>4, EvmCallStep
<1>5. ASSUME NEW paysFee \in BOOLEAN, Settle(paysFee)
      PROVE  MarketInv' /\ tx.stage = "ran"
  BY <1>5, SettleInv DEF Settle
<1>6. ASSUME NEW amount \in Thresholds, UpdateBurnedEnergyThreshold(amount)
      PROVE  MarketInv' /\ tx.stage = "none"
  BY <1>6, UpdateBurnedEnergyThresholdInv DEF UpdateBurnedEnergyThreshold, Privileged
<1>7. ASSUME NEW amount \in Capacities \cup {None}, ForceSetCapacity(amount)
      PROVE  MarketInv' /\ tx.stage = "none"
  BY <1>7, ForceSetCapacityInv DEF ForceSetCapacity, Privileged
<1>8. ASSUME NEW asset \in {"VTRS", "VNRG"}, NEW amount \in Amounts, NEW keep \in BOOLEAN,
             ForceAddLiquidity("User", asset, amount, keep)
      PROVE  MarketInv' /\ tx.stage = "none"
  BY <1>8, ForceAddLiquidityInv DEF ForceAddLiquidity, Privileged
<1>9. CASE QuietBlock
  <2>1. NewBlock /\ market' \in Books /\ recycling' \in Nat /\ tx.stage = "none"
    BY <1>9 DEF QuietBlock, NewBlock, MarketInv, RulesOK
  <2> QED
    BY <2>1, NewBlockInv
<1>10. ASSUME NEW total \in Capacities, NEW rate \in Rates, SessionBlock(total, rate)
       PROVE  MarketInv' /\ tx.stage = "none"
  BY <1>10, SessionBlockInv DEF SessionBlock, NewBlock
<1>11. ASSUME NEW spent \in Amounts \cup {0}, SpendBlock(spent)
       PROVE  MarketInv' /\ tx.stage = "none"
  BY <1>11, SpendBlockInv DEF SpendBlock, NewBlock
<1> QED
  BY <1>1, <1>2, <1>3, <1>4, <1>5, <1>6, <1>7, <1>8, <1>9, <1>10, <1>11 DEF Next

(* The books are numbers, the transaction in flight is one the code knows, *)
(* and what it may burn was checked.                                       *)
THEOREM MarketInvariant == Spec => []MarketInv
<1>1. MarketInv /\ [Next]_vars => MarketInv'
  <2>1. MarketInv /\ Next => MarketInv'
    BY NextStep
  <2>2. MarketInv /\ UNCHANGED vars => MarketInv'
    BY DEF vars, ruleVars, feeVars, MarketInv, RulesOK, BurnInv, Pending
  <2> QED
    BY <2>1, <2>2
<1> QED
  BY InitInv, <1>1, PTL DEF Spec

(* No block burns more than the highest threshold it saw, plus what is     *)
(* charged without a check: tips, and the Ethereum calls of a batch.       *)
THEOREM BlockBurnIsBounded == Spec => []BurnIsBounded
<1>1. MarketInv => BurnIsBounded
  <2> SUFFICES ASSUME MarketInv, allowed # None
               PROVE  burned <= allowed + unchecked
    BY DEF BurnIsBounded
  <2>1. tx.paid \in Nat /\ Pending \in Nat
    <3>1. tx.paid \in Nat
      BY DEF MarketInv, RulesOK, Txs
    <3> QED
      BY <3>1, MarketAssumption DEF Pending
  <2>2. burned \in Int /\ allowed \in Int /\ unchecked \in Int
    BY DEF MarketInv, RulesOK, None
  <2> QED
    BY <2>1, <2>2 DEF MarketInv, BurnInv
<1> QED
  BY <1>1, MarketInvariant, PTL

(* However a user swaps or pays fees, along any path and at any rate, the   *)
(* broker never grows its stock beyond its capacity.                       *)
THEOREM StockStaysWithinCapacity == Spec => StockWithinCapacity
<1>1. MarketInv /\ [Next]_vars =>
        [tx.stage = "charged" /\ market'.of["Broker"].VNRG > market.of["Broker"].VNRG
           => market'.of["Broker"].VNRG <= Max({market.capacity, 1})]_vars
  BY NextStep DEF StockOK, Stock
<1> QED
  BY <1>1, MarketInvariant, PTL DEF Spec, StockWithinCapacity

-----------------------------------------------------------------------------
(* What there is: VTRS and energy in all accounts                          *)

(* The accounts and the energies are few.                                  *)
LEMMA FewOfBoth == IsFiniteSet(Accounts) /\ IsFiniteSet(Energies) /\ Energies \subseteq Assets
<1>1. IsFiniteSet({}) /\ \A S, x : IsFiniteSet(S) => IsFiniteSet(S \cup {x})
  BY FS_EmptySet, FS_AddElement
<1>2. IsFiniteSet(({} \cup {"User"}) \cup {"Broker"})
  BY <1>1
<1>3. IsFiniteSet(((({} \cup {"User"}) \cup {"Broker"}) \cup {"Treasury"}) \cup {"Rewards"})
  BY <1>1, <1>2
<1>4. IsFiniteSet((({} \cup {"VNRG"}) \cup {"SNRG"}) \cup {"LNRG"})
  BY <1>1
<1>5. Accounts = ((({} \cup {"User"}) \cup {"Broker"}) \cup {"Treasury"}) \cup {"Rewards"}
  BY DEF Accounts
<1>6. Energies = (({} \cup {"VNRG"}) \cup {"SNRG"}) \cup {"LNRG"}
  BY DEF Energies, Assets
<1>7. Energies \subseteq Assets
  BY DEF Energies
<1> QED
  BY <1>3, <1>4, <1>5, <1>6, <1>7

(* The total of an asset is a number.                                      *)
LEMMA TotalIs ==
  ASSUME NEW m \in Books, NEW asset \in Assets
  PROVE  Total(m, asset) \in Int
<1>1. PICK f : f = [who \in Accounts |-> m.of[who][asset]]
  OBVIOUS
<1>2. IntegersOn(f, Accounts)
  BY <1>1, Balance DEF IntegersOn
<1> QED
  BY <1>1, <1>2, FewOfBoth, SumType DEF Total

(* One balance moves.                                                      *)
Moved(m, n, who, asset, amount) ==
  \A w \in Accounts, a \in Assets :
    n.of[w][a] = m.of[w][a] + IF w = who /\ a = asset THEN amount ELSE 0

(* One total moves.                                                        *)
TotalMoved(m, n, asset, amount) ==
  \A a \in Assets : Total(n, a) = Total(m, a) + IF a = asset THEN amount ELSE 0

(* A credit moves one.                                                     *)
LEMMA CreditMoves ==
  ASSUME NEW m \in Books, NEW who \in Accounts, NEW asset \in Assets, NEW amount \in Int
  PROVE  Moved(m, Credit(m, who, asset, amount), who, asset, amount)
<1>1. m.of \in Balances /\ m.of[who] \in [Assets -> Int] /\ m.of[who][asset] \in Int
  BY DEF Books, Balances
<1>2. PICK row \in [Assets -> Int] : row = [m.of[who] EXCEPT ![asset] = @ + amount]
  <2>1. m.of[who][asset] + amount \in Int
    BY <1>1
  <2>2. [m.of[who] EXCEPT ![asset] = m.of[who][asset] + amount] \in [Assets -> Int]
    BY <1>1, <2>1
  <2> QED
    BY <2>2
<1>3. PICK table \in Balances : table = [m.of EXCEPT ![who] = row]
  BY <1>1 DEF Balances
<1>4. Credit(m, who, asset, amount).of = table
  BY <1>2, <1>3 DEF Credit, Books
<1>5. ASSUME NEW w \in Accounts, NEW a \in Assets
      PROVE  table[w][a] = m.of[w][a] + IF w = who /\ a = asset THEN amount ELSE 0
  <2>1. m.of[w][a] \in Int
    BY Balance
  <2>2. table[w] = IF w = who THEN row ELSE m.of[w]
    BY <1>1, <1>3 DEF Balances
  <2>3. row[a] = IF a = asset THEN m.of[who][a] + amount ELSE m.of[who][a]
    BY <1>1, <1>2
  <2> QED
    BY <2>1, <2>2, <2>3
<1> QED
  BY <1>4, <1>5 DEF Moved

(* A credit adds to the total of its asset.                                *)
LEMMA TotalMoves ==
  ASSUME NEW m \in Books, NEW n \in Books, NEW who \in Accounts, NEW asset \in Assets, NEW amount \in Int,
         Moved(m, n, who, asset, amount)
  PROVE  TotalMoved(m, n, asset, amount)
<1> SUFFICES ASSUME NEW a \in Assets
             PROVE  Total(n, a) = Total(m, a) + IF a = asset THEN amount ELSE 0
  BY DEF TotalMoved
<1>1. PICK f, g : f = [w \in Accounts |-> m.of[w][a]] /\ g = [w \in Accounts |-> n.of[w][a]]
  OBVIOUS
<1>2. IntegersOn(f, Accounts) /\ IntegersOn(g, Accounts)
  BY <1>1, Balance DEF IntegersOn
<1>3. \A w \in Accounts : f[w] \in Int /\ g[w] = f[w] + IF w = who /\ a = asset THEN amount ELSE 0
  BY <1>1, Balance DEF Moved
<1>4. \A w \in Accounts : w # who => g[w] = f[w]
  <2> SUFFICES ASSUME NEW w \in Accounts, w # who PROVE g[w] = f[w]
    OBVIOUS
  <2>1. f[w] \in Int /\ g[w] = f[w] + 0
    BY <1>3
  <2> QED
    BY <2>1
<1>5. SumFunctionOnSet(g, Accounts) = SumFunctionOnSet(f, Accounts) + g[who] - f[who]
  BY <1>2, <1>4, FewOfBoth, SumUpdate
<1>6. SumFunctionOnSet(f, Accounts) \in Int
  BY <1>2, FewOfBoth, SumType
<1>7. f[who] \in Int /\ g[who] = f[who] + IF a = asset THEN amount ELSE 0
  BY <1>3
<1> QED
  BY <1>1, <1>5, <1>6, <1>7 DEF Total

(* The energy in the accounts is a number.                                 *)
LEMMA EnergyIs ==
  ASSUME NEW m \in Books
  PROVE  EnergyOf(m) \in Int
<1>1. PICK f : f = [asset \in Energies |-> Total(m, asset)]
  OBVIOUS
<1>2. IntegersOn(f, Energies)
  <2>1. \A asset \in Energies : asset \in Assets
    BY FewOfBoth
  <2>2. \A asset \in Energies : Total(m, asset) \in Int
    BY <2>1, TotalIs
  <2> QED
    BY <1>1, <2>2 DEF IntegersOn
<1> QED
  BY <1>1, <1>2, FewOfBoth, SumType DEF EnergyOf

(* A credit of energy adds to it.                                          *)
LEMMA EnergyMoves ==
  ASSUME NEW m \in Books, NEW n \in Books, NEW asset \in Assets, NEW amount \in Int,
         TotalMoved(m, n, asset, amount)
  PROVE  EnergyOf(n) = EnergyOf(m) + IF asset = "VTRS" THEN 0 ELSE amount
<1>1. PICK f, g : f = [a \in Energies |-> Total(m, a)] /\ g = [a \in Energies |-> Total(n, a)]
  OBVIOUS
<1>2. \A a \in Energies : f[a] \in Int /\ g[a] \in Int /\ g[a] = f[a] + IF a = asset THEN amount ELSE 0
  <2> SUFFICES ASSUME NEW a \in Energies
               PROVE  f[a] \in Int /\ g[a] \in Int /\ g[a] = f[a] + IF a = asset THEN amount ELSE 0
    OBVIOUS
  <2>1. a \in Assets
    BY FewOfBoth
  <2>2. Total(m, a) \in Int /\ Total(n, a) \in Int
    BY <2>1, TotalIs
  <2> QED
    BY <1>1, <2>1, <2>2 DEF TotalMoved
<1>3. IntegersOn(f, Energies) /\ IntegersOn(g, Energies)
  BY <1>2 DEF IntegersOn
<1>4. SumFunctionOnSet(f, Energies) \in Int
  BY <1>3, FewOfBoth, SumType
<1>5. CASE asset \in Energies
  <2>1. \A a \in Energies : a # asset => g[a] = f[a]
    <3> SUFFICES ASSUME NEW a \in Energies, a # asset PROVE g[a] = f[a]
      OBVIOUS
    <3>1. f[a] \in Int /\ g[a] = f[a] + 0
      BY <1>2
    <3> QED
      BY <3>1
  <2>2. SumFunctionOnSet(g, Energies) = SumFunctionOnSet(f, Energies) + g[asset] - f[asset]
    BY <1>3, <1>5, <2>1, FewOfBoth, SumUpdate
  <2>3. f[asset] \in Int /\ g[asset] = f[asset] + amount
    BY <1>2, <1>5
  <2>4. asset # "VTRS"
    BY <1>5 DEF Energies
  <2> QED
    BY <1>1, <1>4, <2>2, <2>3, <2>4 DEF EnergyOf
<1>6. CASE asset \notin Energies
  <2>1. \A a \in Energies : f[a] = g[a]
    <3> SUFFICES ASSUME NEW a \in Energies PROVE f[a] = g[a]
      OBVIOUS
    <3>1. f[a] \in Int /\ g[a] = f[a] + 0
      BY <1>2, <1>6
    <3> QED
      BY <3>1
  <2>2. SumFunctionOnSet(f, Energies) = SumFunctionOnSet(g, Energies)
    BY <1>3, <2>1, FewOfBoth, SumCongruence
  <2>3. asset = "VTRS"
    BY <1>6 DEF Energies
  <2> QED
    BY <1>1, <1>4, <2>2, <2>3 DEF EnergyOf
<1> QED
  BY <1>5, <1>6

-----------------------------------------------------------------------------
(* What a step adds to what there is                                       *)

Power(m) == EnergyOf(m) + m.gone

(* From market m to market n, so much more VTRS and energy.                *)
Gains(m, n, native, energy) ==
  /\ n \in Markets /\ n.capacity = m.capacity /\ n.rate = m.rate
  /\ Total(n, "VTRS") = Total(m, "VTRS") + native
  /\ Power(n) = Power(m) + energy

Native(asset, amount) == IF asset = "VTRS" THEN amount ELSE 0
Energy(asset, amount) == IF asset = "VTRS" THEN 0 ELSE amount

(* Markets are books in which nobody owes.                                 *)
LEMMA MarketIsBook ==
  ASSUME NEW m \in Markets
  PROVE  /\ m \in Books /\ m.capacity \in Nat /\ m.gone \in Nat /\ m.rate \in Rates
         /\ \A w \in Accounts, a \in Assets : m.of[w][a] \in Nat
<1>1. /\ m.of \in [Accounts -> [Assets -> Nat]] /\ m.rate \in Rates /\ m.capacity \in Nat /\ m.gone \in Nat
      /\ m = [of |-> m.of, rate |-> m.rate, capacity |-> m.capacity, gone |-> m.gone]
  BY DEF Markets
<1>2. m.of \in Balances
  <2>1. Nat \subseteq Int
    OBVIOUS
  <2>2. PICK N, Z : N = Nat /\ Z = Int /\ N \subseteq Z
    BY <2>1
  <2>3. m.of \in [Accounts -> [Assets -> N]]
    BY <1>1, <2>2
  <2>4. m.of \in [Accounts -> [Assets -> Z]]
    BY <2>2, <2>3
  <2> QED
    BY <2>2, <2>4 DEF Balances
<1>3. m.capacity \in Int /\ m.gone \in Int
  BY <1>1
<1>4. m \in Books
  BY <1>1, <1>2, <1>3 DEF Books
<1>5. \A w \in Accounts, a \in Assets : m.of[w][a] \in Nat
  BY <1>1
<1> QED
  BY <1>1, <1>4, <1>5

(* And the other way round.                                                *)
LEMMA BookIsMarket ==
  ASSUME NEW m \in Books, m.capacity >= 0, m.gone >= 0,
         \A w \in Accounts, a \in Assets : m.of[w][a] >= 0
  PROVE  m \in Markets
<1>1. /\ m.of \in Balances /\ m.rate \in Rates /\ m.capacity \in Int /\ m.gone \in Int
      /\ m = [of |-> m.of, rate |-> m.rate, capacity |-> m.capacity, gone |-> m.gone]
  BY DEF Books
<1>2. m.of \in [Accounts -> [Assets -> Nat]]
  <2>1. \A w \in Accounts, a \in Assets : m.of[w][a] \in Nat
    <3> SUFFICES ASSUME NEW w \in Accounts, NEW a \in Assets PROVE m.of[w][a] \in Nat
      OBVIOUS
    <3>1. m.of[w][a] \in Int /\ m.of[w][a] >= 0
      BY Balance
    <3> QED
      BY <3>1
  <2>2. PICK N, Z : N = Nat /\ Z = Int
    OBVIOUS
  <2>3. m.of \in [Accounts -> [Assets -> Z]] /\ \A w \in Accounts, a \in Assets : m.of[w][a] \in N
    BY <1>1, <2>1, <2>2 DEF Balances
  <2>4. m.of \in [Accounts -> [Assets -> N]]
    BY <2>3
  <2> QED
    BY <2>2, <2>4
<1>3. m.capacity \in Nat /\ m.gone \in Nat
  BY <1>1
<1> QED
  BY <1>1, <1>2, <1>3 DEF Markets

(* What there is, is counted in numbers.                                   *)
LEMMA MarketNumbers ==
  ASSUME NEW m \in Markets
  PROVE  Total(m, "VTRS") \in Int /\ EnergyOf(m) \in Int /\ Power(m) \in Int /\ m.gone \in Int
<1>1. m \in Books /\ "VTRS" \in Assets /\ m.gone \in Int
  <2>1. m.gone \in Nat
    BY MarketIsBook
  <2> QED
    BY <2>1, MarketIsBook DEF Assets
<1>2. PICK asset \in Assets : asset = "VTRS"
  BY <1>1
<1>3. Total(m, asset) \in Int /\ EnergyOf(m) \in Int
  BY <1>1, TotalIs, EnergyIs
<1> QED
  BY <1>1, <1>2, <1>3 DEF Power

(* A credit that leaves no debt.                                           *)
LEMMA CreditGains ==
  ASSUME NEW m \in Markets, NEW who \in Accounts, NEW asset \in Assets, NEW amount \in Int,
         m.of[who][asset] + amount >= 0
  PROVE  /\ Gains(m, Credit(m, who, asset, amount), Native(asset, amount), Energy(asset, amount))
         /\ Credit(m, who, asset, amount).gone = m.gone
         /\ Moved(m, Credit(m, who, asset, amount), who, asset, amount)
<1>1. /\ m \in Books /\ m.capacity \in Nat /\ m.gone \in Nat
      /\ \A w \in Accounts, a \in Assets : m.of[w][a] \in Nat
  BY MarketIsBook
<1>2. PICK n : n = Credit(m, who, asset, amount)
  OBVIOUS
<1>3. /\ n \in Books /\ n.capacity = m.capacity /\ n.rate = m.rate
      /\ Moved(m, n, who, asset, amount)
  <2>1. /\ Credit(m, who, asset, amount) \in Books
        /\ Credit(m, who, asset, amount).capacity = m.capacity
        /\ Credit(m, who, asset, amount).rate = m.rate
    BY <1>1, CreditOK
  <2>2. Moved(m, Credit(m, who, asset, amount), who, asset, amount)
    BY <1>1, CreditMoves
  <2> QED
    BY <1>2, <2>1, <2>2
<1>4. n.gone = m.gone
  BY <1>2 DEF Credit
<1>5. \A w \in Accounts, a \in Assets : n.of[w][a] >= 0
  <2> SUFFICES ASSUME NEW w \in Accounts, NEW a \in Assets PROVE n.of[w][a] >= 0
    OBVIOUS
  <2>1. m.of[w][a] \in Nat /\ n.of[w][a] = m.of[w][a] + IF w = who /\ a = asset THEN amount ELSE 0
    BY <1>1, <1>3 DEF Moved
  <2>2. CASE w = who /\ a = asset
    BY <2>1, <2>2
  <2>3. CASE ~(w = who /\ a = asset)
    BY <2>1, <2>3
  <2> QED
    BY <2>2, <2>3
<1>6. n \in Markets
  <2>1. n.capacity >= 0 /\ n.gone >= 0
    BY <1>1, <1>3, <1>4
  <2> QED
    BY <1>3, <1>5, <2>1, BookIsMarket
<1>7. TotalMoved(m, n, asset, amount)
  BY <1>1, <1>3, TotalMoves
<1>8. EnergyOf(n) = EnergyOf(m) + Energy(asset, amount)
  BY <1>1, <1>3, <1>7, EnergyMoves DEF Energy
<1>9. Total(n, "VTRS") = Total(m, "VTRS") + Native(asset, amount)
  <2>1. "VTRS" \in Assets
    BY DEF Assets
  <2>2. Total(n, "VTRS") = Total(m, "VTRS") + IF "VTRS" = asset THEN amount ELSE 0
    BY <1>7, <2>1 DEF TotalMoved
  <2> QED
    BY <2>2 DEF Native
<1>10. Power(n) = Power(m) + Energy(asset, amount)
  <2>1. EnergyOf(m) \in Int /\ m.gone \in Int /\ Energy(asset, amount) \in Int
    BY MarketNumbers DEF Energy
  <2> QED
    BY <1>4, <1>8, <2>1 DEF Power
<1> QED
  BY <1>2, <1>3, <1>4, <1>6, <1>9, <1>10 DEF Gains

(* Gains add up.                                                           *)
LEMMA GainsAdd ==
  ASSUME NEW m \in Markets, NEW n, NEW o, NEW v \in Int, NEW e \in Int, NEW w \in Int, NEW f \in Int,
         Gains(m, n, v, e), Gains(n, o, w, f)
  PROVE  Gains(m, o, v + w, e + f)
<1>1. Total(m, "VTRS") \in Int /\ Power(m) \in Int
  BY MarketNumbers
<1> QED
  BY <1>1 DEF Gains

(* What is taken out of the books is counted as gone.                      *)
LEMMA GoneGains ==
  ASSUME NEW m \in Markets, NEW amount \in Nat
  PROVE  /\ Gains(m, [m EXCEPT !.gone = @ + amount], 0, amount)
         /\ [m EXCEPT !.gone = @ + amount].of = m.of
<1>1. PICK n : n = [m EXCEPT !.gone = @ + amount]
  OBVIOUS
<1>2. /\ m.of \in [Accounts -> [Assets -> Nat]] /\ m.rate \in Rates /\ m.capacity \in Nat /\ m.gone \in Nat
      /\ m = [of |-> m.of, rate |-> m.rate, capacity |-> m.capacity, gone |-> m.gone]
  BY DEF Markets
<1>3. n.of = m.of /\ n.gone = m.gone + amount /\ n.rate = m.rate /\ n.capacity = m.capacity
      /\ n = [of |-> m.of, rate |-> m.rate, capacity |-> m.capacity, gone |-> m.gone + amount]
  BY <1>1, <1>2
<1>4. n \in Markets
  BY <1>2, <1>3 DEF Markets
<1>5. \A a : Total(n, a) = Total(m, a)
  BY <1>3 DEF Total
<1>6. EnergyOf(n) = EnergyOf(m)
  BY <1>5 DEF EnergyOf
<1>7. EnergyOf(m) \in Int /\ Total(m, "VTRS") \in Int
  BY MarketNumbers
<1> QED
  BY <1>1, <1>2, <1>3, <1>4, <1>5, <1>6, <1>7 DEF Gains, Power

(* Nothing changes.                                                        *)
LEMMA GainsNone == ASSUME NEW m \in Markets PROVE Gains(m, m, 0, 0)
<1>1. Total(m, "VTRS") \in Int /\ Power(m) \in Int
  BY MarketNumbers
<1> QED
  BY <1>1 DEF Gains

-----------------------------------------------------------------------------
(* Amounts                                                                 *)

ShareFits(a, k) == (a * k) \div 1000 \in Nat /\ (a * k) \div 1000 <= a
PriceFits(a, k) == (a * 1000) \div k \in Nat /\ (a * 1000) \div k >= a

(* A share of a thousand is no more than the whole.                        *)
LEMMA ShareIsLess ==
  ASSUME NEW a \in Nat, NEW k \in 0..1000
  PROVE  ShareFits(a, k)
<1>1. PICK p \in Nat : p = a * k /\ p <= a * 1000
  OBVIOUS
<1>2. p \div 1000 \in Nat /\ p \div 1000 <= a
  BY <1>1
<1> QED
  BY <1>1, <1>2 DEF ShareFits

(* And what has to be paid for it is no less.                              *)
LEMMA PriceIsMore ==
  ASSUME NEW a \in Nat, NEW k \in 1..1000
  PROVE  PriceFits(a, k)
<1>1. PICK p \in Nat : p = a * 1000 /\ p >= a * k
  OBVIOUS
<1>2. PICK q \in Int : q = p \div k
  OBVIOUS
<1>3. k * q <= p /\ p < k * q + k
  BY <1>2
<1>4. q >= a
  <2> SUFFICES ASSUME q + 1 <= a PROVE FALSE
    BY <1>2
  <2>1. k * (q + 1) <= k * a
    OBVIOUS
  <2>2. k * (q + 1) = k * q + k /\ k * a = a * k
    OBVIOUS
  <2> QED
    BY <1>1, <1>3, <2>1, <2>2
<1> QED
  BY <1>1, <1>2, <1>4 DEF PriceFits

(* The amounts of a swap: what goes in, comes out and is the fee.          *)
Fair(path, amounts) ==
  /\ amounts.in \in Nat /\ amounts.out \in Nat /\ amounts.fee \in Nat
  /\ amounts.fee <= amounts.in
  /\ Issuing(path) => amounts.fee = 0 /\ amounts.out = amounts.in

(* A quotient of numbers is one.                                           *)
LEMMA NatQuotient ==
  ASSUME NEW a \in Nat, NEW b \in Nat, NEW c \in Nat, c > 0
  PROVE  (a * b) \div c \in Nat
<1>1. a * b \in Nat
  OBVIOUS
<1>2. \A n \in Nat : n \div c \in Nat
  OBVIOUS
<1> QED
  BY <1>1, <1>2

(* The converters give no debts, and one energy is worth another.          *)
LEMMA WorthIs ==
  ASSUME NEW rate \in Rates, NEW path \in Paths, NEW amount \in Nat
  PROVE  /\ Worth(rate, path, amount) \in Nat
         /\ Asked(rate, path, amount) \in Nat \cup {None}
         /\ Issuing(path) => Worth(rate, path, amount) = amount /\ Asked(rate, path, amount) = amount
<1>1. rate[1] \in Nat /\ rate[2] \in Nat /\ rate[2] > 0 /\ (rate[1] # 0 => rate[1] > 0)
  BY RatesOK
<1>2. StaticRate[1] \in Nat /\ StaticRate[2] \in Nat /\ StaticRate[1] > 0 /\ StaticRate[2] > 0
  BY MarketAssumption
<1>3. (amount * rate[1]) \div rate[2] \in Nat
  BY <1>1, NatQuotient
<1>4. rate[1] # 0 => (amount * rate[2]) \div rate[1] \in Nat
  BY <1>1, NatQuotient
<1>5. (amount * StaticRate[1]) \div StaticRate[2] \in Nat
      /\ (amount * StaticRate[2]) \div StaticRate[1] \in Nat
  BY <1>2, NatQuotient
<1>6. (amount * rate[1]) \div rate[2] \in Nat
  BY <1>1, NatQuotient
<1>7. CASE path = <<"VTRS", "VNRG">>
  BY <1>3, <1>4, <1>7 DEF Worth, Asked, None, Issuing
<1>8. CASE path = <<"LNRG", "VTRS">>
  BY <1>1, <1>4, <1>6, <1>8 DEF Worth, Asked, None, Issuing
<1>9. CASE path = <<"SNRG", "VTRS">>
  BY <1>5, <1>9 DEF Worth, Asked, None, Issuing
<1>10. CASE path \notin {<<"VTRS", "VNRG">>, <<"LNRG", "VTRS">>, <<"SNRG", "VTRS">>}
  BY <1>10 DEF Worth, Asked, None
<1> QED
  BY <1>7, <1>8, <1>9, <1>10

(* What goes in when an amount is sold is that amount, and it is fair.     *)
LEMMA AmountOutFair ==
  ASSUME NEW rate \in Rates, NEW path \in Paths, NEW who, NEW amount \in Nat
  PROVE  /\ Fair(path, GetAmountOut(rate, path, who, amount))
         /\ GetAmountOut(rate, path, who, amount).in = amount
<1>1. PICK rest \in 1..1000 : rest = 1000 - FeeOf(path, who) /\ (Issuing(path) => rest = 1000)
  BY MarketAssumption DEF FeeOf
<1>2. PICK exchanged \in Nat : exchanged = (amount * rest) \div 1000 /\ exchanged <= amount
  <2>1. rest \in 0..1000
    BY <1>1
  <2>2. ShareFits(amount, rest)
    BY <2>1, ShareIsLess
  <2> QED
    BY <2>2 DEF ShareFits
<1>3. Issuing(path) => exchanged = amount
  BY <1>1, <1>2
<1>4. PICK worth \in Nat : worth = Worth(rate, path, exchanged) /\ (Issuing(path) => worth = exchanged)
  BY WorthIs
<1>5. GetAmountOut(rate, path, who, amount) = [in |-> amount, out |-> worth, fee |-> amount - exchanged]
  BY <1>1, <1>2, <1>4 DEF GetAmountOut
<1> QED
  BY <1>2, <1>3, <1>4, <1>5 DEF Fair

(* So is what has to go in for an amount to come out.                      *)
LEMMA AmountInFair ==
  ASSUME NEW rate \in Rates, NEW path \in Paths, NEW who, NEW amount \in Nat, amount > 0
  PROVE  /\ Fair(path, GetAmountIn(rate, path, who, amount))
               \/ GetAmountIn(rate, path, who, amount).out = 0
         /\ GetAmountIn(rate, path, who, amount).out \in {0, amount}
         /\ GetAmountIn(rate, path, who, amount).in \in Nat
         /\ GetAmountIn(rate, path, who, amount).in >= 1
<1>1. PICK rest \in 1..1000 : rest = 1000 - FeeOf(path, who) /\ (Issuing(path) => rest = 1000)
  BY MarketAssumption DEF FeeOf
<1>2. PICK asked \in Nat \cup {None} : asked = Asked(rate, path, amount) /\ (Issuing(path) => asked = amount)
  BY WorthIs
<1>3. PICK least \in Nat : least = Max({asked, 1}) /\ least >= 1 /\ (Issuing(path) => least = amount)
  <2>1. 1 \in Int /\ asked \in Int
    BY <1>2 DEF None
  <2>2. /\ Max({asked, 1}) \in Int /\ Max({asked, 1}) >= asked /\ Max({asked, 1}) >= 1
        /\ Max({asked, 1}) = asked \/ Max({asked, 1}) = 1
    BY <2>1, MaxOfTwo, ZenonT(30)
  <2>3. Issuing(path) => Max({asked, 1}) = amount
    BY <1>2, <2>2
  <2> QED
    BY <2>2, <2>3
<1>4. PICK in \in Nat : in = (least * 1000) \div rest /\ in >= least
  <2>1. PriceFits(least, rest)
    BY PriceIsMore
  <2> QED
    BY <2>1 DEF PriceFits
<1>5. Issuing(path) => in = least
  BY <1>1, <1>4
<1>6. GetAmountIn(rate, path, who, amount) =
        [in |-> in, out |-> IF asked = None THEN 0 ELSE amount, fee |-> in - least]
  BY <1>1, <1>2, <1>3, <1>4 DEF GetAmountIn
<1>7. CASE asked = None
  BY <1>3, <1>4, <1>6, <1>7
<1>8. CASE asked # None
  BY <1>3, <1>4, <1>5, <1>6, <1>8 DEF Fair
<1> QED
  BY <1>7, <1>8

-----------------------------------------------------------------------------
(* Swaps                                                                   *)

(* The surplus that leaves the broker is counted as gone.                  *)
LEMMA BurnSurplusGains ==
  ASSUME NEW m \in Markets, NEW grown
  PROVE  /\ Gains(m, BurnSurplus(m, grown), 0, 0)
         /\ \A w \in Accounts, a \in Assets :
              w # "Broker" => BurnSurplus(m, grown).of[w][a] = m.of[w][a]
<1>1. PICK who \in Accounts, asset \in Assets : who = "Broker" /\ asset = "VNRG"
  BY DEF Accounts, Assets
<1>2. m \in Books /\ m.of[who][asset] \in Nat /\ m.capacity \in Nat /\ m.gone \in Nat
  BY MarketIsBook
<1>3. PICK surplus \in Nat :
        /\ surplus = Least(SatSub(m.of["Broker"].VNRG, m.capacity), SatSub(m.of["Broker"].VNRG, 1))
        /\ surplus <= m.of[who][asset]
  BY <1>1, <1>2 DEF Least, SatSub
<1>4. PICK less \in Int : less = -surplus
  OBVIOUS
<1>5. m.of[who][asset] + less >= 0
  BY <1>2, <1>3, <1>4
<1>6. PICK paid : paid = Credit(m, who, asset, less)
  OBVIOUS
<1>7. /\ Gains(m, paid, Native(asset, less), Energy(asset, less))
      /\ Moved(m, paid, who, asset, less)
  BY <1>2, <1>5, <1>6, CreditGains
<1>8. Gains(m, paid, 0, less) /\ paid \in Markets
  BY <1>1, <1>7 DEF Gains, Native, Energy
<1>9. PICK end : end = [paid EXCEPT !.gone = @ + surplus]
  OBVIOUS
<1>10. Gains(paid, end, 0, surplus) /\ end.of = paid.of
  BY <1>8, <1>9, GoneGains
<1>11. Gains(m, end, 0 + 0, less + surplus)
  BY <1>8, <1>10, GainsAdd
<1>12. 0 + 0 = 0 /\ less + surplus = 0
  BY <1>4
<1>13. BurnSurplus(m, grown) = end
  BY <1>1, <1>3, <1>4, <1>6, <1>9 DEF BurnSurplus
<1>14. ASSUME NEW w \in Accounts, NEW a \in Assets, w # "Broker"
       PROVE  end.of[w][a] = m.of[w][a]
  <2>1. paid.of[w][a] = m.of[w][a] + 0 /\ m.of[w][a] \in Int
    BY <1>1, <1>2, <1>7, <1>14, Balance DEF Moved
  <2> QED
    BY <1>10, <2>1
<1> QED
  BY <1>11, <1>12, <1>13, <1>14

(* A credit of nothing but VTRS, and of energy.                            *)
LEMMA CreditNative ==
  ASSUME NEW m \in Markets, NEW who \in Accounts, NEW amount \in Int, m.of[who].VTRS + amount >= 0
  PROVE  Gains(m, Credit(m, who, "VTRS", amount), amount, 0)
<1>1. PICK asset \in Assets : asset = "VTRS"
  BY DEF Assets
<1>2. m.of[who][asset] + amount >= 0
  BY <1>1
<1>3. Gains(m, Credit(m, who, asset, amount), Native(asset, amount), Energy(asset, amount))
  BY <1>2, CreditGains
<1> QED
  BY <1>1, <1>3 DEF Native, Energy

(* The same for an energy.                                                 *)
LEMMA CreditEnergy ==
  ASSUME NEW m \in Markets, NEW who \in Accounts, NEW asset \in Assets, asset # "VTRS",
         NEW amount \in Int, m.of[who][asset] + amount >= 0
  PROVE  Gains(m, Credit(m, who, asset, amount), 0, amount)
<1>1. Gains(m, Credit(m, who, asset, amount), Native(asset, amount), Energy(asset, amount))
  BY CreditGains
<1> QED
  BY <1>1 DEF Native, Energy

(* What is credited is not lost.                                           *)
LEMMA CreditOfGains ==
  ASSUME NEW m \in Markets, NEW who \in Accounts, NEW asset \in Assets, NEW amount \in Nat
  PROVE  Gains(m, Credit(m, who, asset, amount), Native(asset, amount), Energy(asset, amount))
<1>1. m.of[who][asset] \in Nat /\ amount \in Int
  BY MarketIsBook
<1>2. m.of[who][asset] + amount >= 0
  BY <1>1
<1> QED
  BY <1>1, <1>2, CreditGains

(* What is sold leaves its account but for the fee, which the treasury     *)
(* gets.                                                                   *)
LEMMA TakenGains ==
  ASSUME NEW m \in Markets, NEW who \in Accounts, NEW source \in Assets,
         NEW in \in Nat, NEW fee \in Nat, fee <= in, in <= m.of[who][source]
  PROVE  Gains(m, Credit(Credit(m, who, source, -in), "Treasury", source, fee),
               Native(source, fee - in), Energy(source, fee - in))
<1>1. PICK treasury \in Accounts, less \in Int : treasury = "Treasury" /\ less = -in
  <2>1. "Treasury" \in Accounts /\ -in \in Int
    BY DEF Accounts
  <2> QED
    BY <2>1
<1>2. m.of[who][source] + less >= 0
  <2>1. m.of[who][source] \in Nat
    BY MarketIsBook
  <2> QED
    BY <1>1, <2>1
<1>3. PICK paying : paying = Credit(m, who, source, less)
  OBVIOUS
<1>4. Gains(m, paying, Native(source, less), Energy(source, less)) /\ paying \in Markets
  BY <1>2, <1>3, CreditGains DEF Gains
<1>5. PICK taken : taken = Credit(paying, treasury, source, fee)
  OBVIOUS
<1>6. Gains(paying, taken, Native(source, fee), Energy(source, fee))
  BY <1>4, <1>5, CreditOfGains
<1>7. /\ Native(source, less) \in Int /\ Energy(source, less) \in Int
      /\ Native(source, fee) \in Int /\ Energy(source, fee) \in Int
  BY DEF Native, Energy
<1>8. Gains(m, taken, Native(source, less) + Native(source, fee), Energy(source, less) + Energy(source, fee))
  BY <1>4, <1>6, <1>7, GainsAdd
<1>9. /\ Native(source, less) + Native(source, fee) = Native(source, fee - in)
      /\ Energy(source, less) + Energy(source, fee) = Energy(source, fee - in)
  BY <1>1 DEF Native, Energy
<1> QED
  BY <1>1, <1>3, <1>5, <1>8, <1>9

(* What a swap stores with the broker before it hands anything out.        *)
Stored(taken, path, sold) ==
  CASE path[1] = "VTRS" -> Credit(taken, "Broker", "VTRS", sold)
    [] path = <<"LNRG", "VTRS">> -> Credit(taken, "Broker", "VNRG", sold)
    [] path = <<"SNRG", "VTRS">> -> [taken EXCEPT !.gone = @ + sold]
    [] OTHER -> taken

(* Nothing is lost of what is sold, but static and liquid energy that is   *)
(* to become VNRG.                                                         *)
LEMMA StoredGains ==
  ASSUME NEW m \in Markets, NEW taken, NEW path \in Paths, NEW sold \in Nat,
         Gains(m, taken, Native(path[1], -sold), Energy(path[1], -sold))
  PROVE  /\ Issuing(path) => Gains(m, Stored(taken, path, sold), 0, -sold)
         /\ ~Issuing(path) => Gains(m, Stored(taken, path, sold), 0, 0)
<1>1. PICK broker \in Accounts, vtrs \in Assets, vnrg \in Assets :
        broker = "Broker" /\ vtrs = "VTRS" /\ vnrg = "VNRG"
  BY DEF Accounts, Assets
<1>2. taken \in Markets /\ -sold \in Int /\ sold \in Int /\ -sold + sold = 0 /\ 0 + 0 = 0 /\ 0 \in Int
  BY DEF Gains
<1>3. CASE path = <<"VTRS", "VNRG">>
  <2>1. ~Issuing(path) /\ Stored(taken, path, sold) = Credit(taken, broker, vtrs, sold)
    BY <1>1, <1>3 DEF Issuing, Stored
  <2>2. Gains(m, taken, -sold, 0)
    BY <1>3 DEF Native, Energy
  <2>3. Gains(taken, Credit(taken, broker, vtrs, sold), Native(vtrs, sold), Energy(vtrs, sold))
    BY <1>2, CreditOfGains
  <2>4. Gains(taken, Credit(taken, broker, vtrs, sold), sold, 0)
    BY <1>1, <2>3 DEF Native, Energy
  <2>5. Gains(m, Credit(taken, broker, vtrs, sold), -sold + sold, 0 + 0)
    BY <1>2, <2>2, <2>4, GainsAdd, Zenon
  <2> QED
    BY <1>2, <2>1, <2>5
<1>4. CASE path = <<"LNRG", "VTRS">>
  <2>1. ~Issuing(path) /\ Stored(taken, path, sold) = Credit(taken, broker, vnrg, sold)
    BY <1>1, <1>4 DEF Issuing, Stored
  <2>2. Gains(m, taken, 0, -sold)
    BY <1>4 DEF Native, Energy
  <2>3. Gains(taken, Credit(taken, broker, vnrg, sold), Native(vnrg, sold), Energy(vnrg, sold))
    BY <1>2, CreditOfGains
  <2>4. Gains(taken, Credit(taken, broker, vnrg, sold), 0, sold)
    BY <1>1, <2>3 DEF Native, Energy
  <2>5. Gains(m, Credit(taken, broker, vnrg, sold), 0 + 0, -sold + sold)
    BY <1>2, <2>2, <2>4, GainsAdd, Zenon
  <2> QED
    BY <1>2, <2>1, <2>5
<1>5. CASE path = <<"SNRG", "VTRS">>
  <2>1. ~Issuing(path) /\ Stored(taken, path, sold) = [taken EXCEPT !.gone = @ + sold]
    BY <1>1, <1>5 DEF Issuing, Stored
  <2>2. Gains(m, taken, 0, -sold)
    BY <1>5 DEF Native, Energy
  <2>3. PICK end : end = [taken EXCEPT !.gone = @ + sold]
    OBVIOUS
  <2>4. Gains(taken, end, 0, sold)
    BY <1>2, <2>3, GoneGains
  <2>5. Gains(m, end, 0 + 0, -sold + sold)
    BY <1>2, <2>2, <2>4, GainsAdd, Zenon
  <2> QED
    BY <1>2, <2>1, <2>3, <2>5
<1>6. CASE path = <<"LNRG", "VNRG">> \/ path = <<"SNRG", "VNRG">>
  <2>1. Issuing(path) /\ Stored(taken, path, sold) = taken
    BY <1>6 DEF Issuing, Stored
  <2>2. Gains(m, taken, 0, -sold)
    BY <1>6 DEF Native, Energy
  <2> QED
    BY <2>1, <2>2
<1> QED
  BY <1>3, <1>4, <1>5, <1>6 DEF Paths

(* The three steps of a swap, once the amount in is there: the broker hands *)
(* out what it has, or what it may issue.                                  *)
LEMMA GivenGains ==
  ASSUME NEW m \in Markets, NEW stored, NEW path \in Paths, NEW recipient \in Accounts,
         NEW in \in Nat, NEW out \in Nat,
         Issuing(path) => out = in /\ Gains(m, stored, 0, -in),
         ~Issuing(path) => Gains(m, stored, 0, 0) /\ ~(out > SatSub(stored.of["Broker"][path[2]], 1))
  PROVE  Gains(m, Credit(IF Issuing(path) THEN stored ELSE Credit(stored, "Broker", path[2], -out),
                         recipient, path[2], out), 0, 0)
<1>1. PICK broker \in Accounts, target \in Assets, less \in Int :
        broker = "Broker" /\ target = path[2] /\ less = -out
  <2>1. "Broker" \in Accounts /\ path[2] \in Assets /\ -out \in Int
    BY DEF Accounts, Assets, Paths
  <2> QED
    BY <2>1
<1>2. PICK base : base = IF Issuing(path) THEN stored ELSE Credit(stored, broker, target, less)
  OBVIOUS
<1>3. stored \in Markets
  BY DEF Gains
<1>4. Gains(m, base, Native(target, less), Energy(target, less))
  <2>1. CASE Issuing(path)
    <3>1. base = stored /\ out = in /\ Gains(m, stored, 0, -in) /\ target = "VNRG"
      BY <1>1, <1>2, <2>1 DEF Issuing
    <3>2. Native(target, less) = 0 /\ Energy(target, less) = -in
      BY <1>1, <3>1 DEF Native, Energy
    <3> QED
      BY <3>1, <3>2
  <2>2. CASE ~Issuing(path)
    <3>1. stored.of[broker][target] \in Nat
      BY <1>3, MarketIsBook
    <3>2. stored.of[broker][target] + less >= 0
      BY <1>1, <2>2, <3>1 DEF SatSub
    <3>3. Gains(stored, Credit(stored, broker, target, less), Native(target, less), Energy(target, less))
      BY <1>3, <3>2, CreditGains
    <3>4. /\ Native(target, less) \in Int /\ Energy(target, less) \in Int
          /\ 0 + Native(target, less) = Native(target, less)
          /\ 0 + Energy(target, less) = Energy(target, less) /\ 0 \in Int
      BY DEF Native, Energy
    <3>5. Gains(m, stored, 0, 0)
      BY <2>2
    <3>6. Gains(m, Credit(stored, broker, target, less), 0 + Native(target, less), 0 + Energy(target, less))
      BY <3>3, <3>4, <3>5, GainsAdd, Zenon
    <3> QED
      BY <1>2, <2>2, <3>4, <3>6
  <2> QED
    BY <2>1, <2>2
<1>5. base \in Markets
  BY <1>4 DEF Gains
<1>6. Gains(base, Credit(base, recipient, target, out), Native(target, out), Energy(target, out))
  BY <1>5, CreditOfGains
<1>7. /\ Native(target, less) \in Int /\ Energy(target, less) \in Int
      /\ Native(target, out) \in Int /\ Energy(target, out) \in Int
      /\ Native(target, less) + Native(target, out) = 0
      /\ Energy(target, less) + Energy(target, out) = 0
  BY <1>1 DEF Native, Energy
<1>8. Gains(m, Credit(base, recipient, target, out), Native(target, less) + Native(target, out),
            Energy(target, less) + Energy(target, out))
  BY <1>4, <1>6, <1>7, GainsAdd, Zenon
<1> QED
  BY <1>1, <1>2, <1>7, <1>8

(* A swap moves what there is and makes none of it, done or not: not even  *)
(* one that fails half way, which nobody undoes.                           *)
LEMMA DoSwapGains ==
  ASSUME NEW m \in Markets, NEW who \in Accounts, NEW recipient \in Accounts,
         NEW path \in Paths, NEW amounts, Fair(path, amounts), NEW keep
  PROVE  Gains(m, DoSwap(m, who, recipient, path, amounts, keep).m, 0, 0)
<1>1. PICK in \in Nat, out \in Nat, fee \in Nat :
        /\ amounts.in = in /\ amounts.out = out /\ amounts.fee = fee /\ fee <= in
        /\ Issuing(path) => fee = 0 /\ out = in
  BY DEF Fair
<1>2. PICK source \in Assets, target \in Assets : source = path[1] /\ target = path[2]
  <2>1. path[1] \in Assets /\ path[2] \in Assets
    BY DEF Paths, Assets
  <2> QED
    BY <2>1
<1>3. PICK sold \in Nat : sold = in - fee /\ -sold = fee - in /\ (Issuing(path) => -sold = -in)
  <2>1. in - fee \in Nat
    BY <1>1
  <2> QED
    BY <1>1, <2>1
<1>4. PICK taken : taken = Credit(Credit(m, who, source, -in), "Treasury", source, fee)
  OBVIOUS
<1>5. PICK stored : stored = Stored(taken, path, sold)
  OBVIOUS
<1>6. PICK given : given = Credit(IF Issuing(path) THEN stored ELSE Credit(stored, "Broker", target, -out),
                                  recipient, target, out)
  OBVIOUS
<1>7. PICK grown : grown = given.of["Broker"].VNRG - m.of["Broker"].VNRG
  OBVIOUS
<1>8. DoSwap(m, who, recipient, path, amounts, keep) =
        IF in > Spendable(m, who, source, keep) THEN [ok |-> FALSE, m |-> m]
        ELSE IF ~Issuing(path) /\ out > SatSub(stored.of["Broker"][target], 1)
        THEN [ok |-> FALSE, m |-> stored]
        ELSE [ok |-> TRUE, m |-> IF grown > 0 THEN BurnSurplus(given, grown) ELSE given]
  BY <1>1, <1>2, <1>3, <1>4, <1>5, <1>6, <1>7 DEF DoSwap, Stored
<1>9. CASE in > Spendable(m, who, source, keep)
  BY <1>8, <1>9, GainsNone
<1>10. CASE ~(in > Spendable(m, who, source, keep))
  <2>1. in <= m.of[who][source]
    <3>1. m.of[who][source] \in Nat
      BY MarketIsBook
    <3> QED
      BY <1>10, <3>1 DEF Spendable, SatSub
  <2>2. Gains(m, taken, Native(source, fee - in), Energy(source, fee - in))
    BY <1>1, <1>4, <2>1, TakenGains
  <2>3. Gains(m, taken, Native(path[1], -sold), Energy(path[1], -sold))
    BY <1>2, <1>3, <2>2
  <2>4. /\ Issuing(path) => Gains(m, stored, 0, -sold)
        /\ ~Issuing(path) => Gains(m, stored, 0, 0)
    BY <1>5, <2>3, StoredGains
  <2>5. CASE ~Issuing(path) /\ out > SatSub(stored.of["Broker"][target], 1)
    BY <1>8, <1>10, <2>4, <2>5
  <2>6. CASE ~(~Issuing(path) /\ out > SatSub(stored.of["Broker"][target], 1))
    <3>1. /\ Issuing(path) => out = in /\ Gains(m, stored, 0, -in)
          /\ ~Issuing(path) => Gains(m, stored, 0, 0) /\ ~(out > SatSub(stored.of["Broker"][path[2]], 1))
      BY <1>1, <1>2, <1>3, <2>4, <2>6
    <3>2. Gains(m, given, 0, 0)
      BY <1>2, <1>6, <3>1, GivenGains
    <3>3. given \in Markets
      BY <3>2 DEF Gains
    <3>4. Gains(given, BurnSurplus(given, grown), 0, 0)
      BY <3>3, BurnSurplusGains
    <3>5. Gains(m, BurnSurplus(given, grown), 0, 0)
      <4>1. Gains(m, BurnSurplus(given, grown), 0 + 0, 0 + 0)
        BY <3>2, <3>4, GainsAdd
      <4> QED
        BY <4>1
    <3> QED
      BY <1>8, <1>10, <2>6, <3>2, <3>5
  <2> QED
    BY <2>5, <2>6
<1> QED
  BY <1>9, <1>10

-----------------------------------------------------------------------------
(* Energy bought                                                           *)

(* A chain of credits is read one balance at a time.                       *)
LEMMA MovedIs ==
  ASSUME NEW m \in Books, NEW n, NEW who, NEW asset, NEW amount, Moved(m, n, who, asset, amount),
         NEW w \in Accounts, NEW a \in Assets
  PROVE  /\ w = who /\ a = asset => n.of[w][a] = m.of[w][a] + amount
         /\ ~(w = who /\ a = asset) => n.of[w][a] = m.of[w][a]
<1>1. m.of[w][a] \in Int /\ n.of[w][a] = m.of[w][a] + IF w = who /\ a = asset THEN amount ELSE 0
  BY Balance DEF Moved
<1> QED
  BY <1>1

(* The surplus is the broker's.                                            *)
LEMMA BurnSurplusOthers ==
  ASSUME NEW m \in Books, NEW grown, NEW w \in Accounts, NEW a \in Assets, w # "Broker"
  PROVE  BurnSurplus(m, grown).of[w][a] = m.of[w][a]
<1>1. PICK who \in Accounts, asset \in Assets : who = "Broker" /\ asset = "VNRG"
  BY DEF Accounts, Assets
<1>2. m.of[who][asset] \in Int /\ m.capacity \in Int
  BY Balance DEF Books
<1>3. PICK less \in Int :
        less = -Least(SatSub(m.of["Broker"].VNRG, m.capacity), SatSub(m.of["Broker"].VNRG, 1))
  BY <1>1, <1>2 DEF Least, SatSub
<1>4. PICK paid \in Books : paid = Credit(m, who, asset, less) /\ Moved(m, paid, who, asset, less)
  <2>1. Credit(m, who, asset, less) \in Books /\ Moved(m, Credit(m, who, asset, less), who, asset, less)
    BY CreditKeeps, CreditMoves
  <2> QED
    BY <2>1
<1>5. BurnSurplus(m, grown).of = paid.of
  BY <1>1, <1>3, <1>4 DEF BurnSurplus, Books
<1>6. paid.of[w][a] = m.of[w][a]
  BY <1>1, <1>4, MovedIs
<1> QED
  BY <1>5, <1>6

Did(m, who, asset, amount, n) == n \in Books /\ Moved(m, n, who, asset, amount)

(* A credit, named.                                                        *)
LEMMA CreditDid ==
  ASSUME NEW m \in Books, NEW who \in Accounts, NEW asset \in Assets, NEW amount \in Int
  PROVE  Did(m, who, asset, amount, Credit(m, who, asset, amount))
BY CreditKeeps, CreditMoves DEF Did

(* A user that buys energy pays VTRS and gets it, if it has the VTRS and   *)
(* the broker the energy.                                                  *)
LEMMA BuyIs ==
  ASSUME NEW m \in Books, NEW amounts, Fair(Buy, amounts), NEW keep
  PROVE  LET result == DoSwap(m, "User", "User", Buy, amounts, keep)
         IN  /\ result.ok <=> /\ amounts.in <= Spendable(m, "User", "VTRS", TRUE)
                              /\ amounts.out <= Spendable(m, "Broker", "VNRG", TRUE)
             /\ result.ok => /\ result.m.of["User"].VTRS = m.of["User"].VTRS - amounts.in
                             /\ result.m.of["User"].VNRG = m.of["User"].VNRG + amounts.out
<1>1. PICK in \in Nat, out \in Nat, fee \in Nat :
        amounts.in = in /\ amounts.out = out /\ amounts.fee = fee /\ fee <= in
  BY DEF Fair
<1>2. PICK user \in Accounts, broker \in Accounts, treasury \in Accounts, vtrs \in Assets, vnrg \in Assets :
        /\ user = "User" /\ broker = "Broker" /\ treasury = "Treasury" /\ vtrs = "VTRS" /\ vnrg = "VNRG"
        /\ user # broker /\ user # treasury /\ broker # treasury /\ vtrs # vnrg
  <2>1. /\ "User" \in Accounts /\ "Broker" \in Accounts /\ "Treasury" \in Accounts
        /\ "VTRS" \in Assets /\ "VNRG" \in Assets
    BY DEF Accounts, Assets
  <2> QED
    BY <2>1
<1>3. PICK less \in Int, sold \in Int, gone \in Int : less = -in /\ sold = in - fee /\ gone = -out
  OBVIOUS
<1>4. PICK paying \in Books : paying = Credit(m, user, vtrs, less) /\ Moved(m, paying, user, vtrs, less)
  <2>1. Did(m, user, vtrs, less, Credit(m, user, vtrs, less))
    BY CreditDid
  <2> QED
    BY <2>1 DEF Did
<1>5. PICK taken \in Books :
        taken = Credit(paying, treasury, vtrs, fee) /\ Moved(paying, taken, treasury, vtrs, fee)
  <2>1. fee \in Int
    OBVIOUS
  <2>2. Did(paying, treasury, vtrs, fee, Credit(paying, treasury, vtrs, fee))
    BY <2>1, CreditDid
  <2> QED
    BY <2>2 DEF Did
<1>6. PICK stored \in Books :
        stored = Credit(taken, broker, vtrs, sold) /\ Moved(taken, stored, broker, vtrs, sold)
  <2>1. Did(taken, broker, vtrs, sold, Credit(taken, broker, vtrs, sold))
    BY CreditDid
  <2> QED
    BY <2>1 DEF Did
<1>7. PICK base \in Books :
        base = Credit(stored, broker, vnrg, gone) /\ Moved(stored, base, broker, vnrg, gone)
  <2>1. Did(stored, broker, vnrg, gone, Credit(stored, broker, vnrg, gone))
    BY CreditDid
  <2> QED
    BY <2>1 DEF Did
<1>8. PICK given \in Books :
        given = Credit(base, user, vnrg, out) /\ Moved(base, given, user, vnrg, out)
  <2>1. out \in Int
    OBVIOUS
  <2>2. Did(base, user, vnrg, out, Credit(base, user, vnrg, out))
    BY <2>1, CreditDid
  <2> QED
    BY <2>2 DEF Did
<1>9. PICK grown : grown = given.of["Broker"].VNRG - m.of["Broker"].VNRG
  OBVIOUS
<1>10. ~Issuing(Buy)
  BY DEF Issuing, Buy
<1>11. PICK result : result = DoSwap(m, "User", "User", Buy, amounts, keep)
  OBVIOUS
<1>12. result = IF in > Spendable(m, user, vtrs, keep) THEN [ok |-> FALSE, m |-> m]
                ELSE IF out > SatSub(stored.of[broker][vnrg], 1)
                THEN [ok |-> FALSE, m |-> stored]
                ELSE [ok |-> TRUE, m |-> IF grown > 0 THEN BurnSurplus(given, grown) ELSE given]
  BY <1>1, <1>2, <1>3, <1>4, <1>5, <1>6, <1>7, <1>8, <1>9, <1>10, <1>11 DEF DoSwap, Buy
<1>13. stored.of[broker][vnrg] = m.of[broker][vnrg]
  <2>1. paying.of[broker][vnrg] = m.of[broker][vnrg]
    BY <1>2, <1>4, MovedIs
  <2>2. taken.of[broker][vnrg] = paying.of[broker][vnrg]
    BY <1>2, <1>5, MovedIs
  <2>3. stored.of[broker][vnrg] = taken.of[broker][vnrg]
    BY <1>2, <1>6, MovedIs
  <2> QED
    BY <2>1, <2>2, <2>3
<1>14. given.of[user][vtrs] = m.of[user][vtrs] + less
  <2>1. paying.of[user][vtrs] = m.of[user][vtrs] + less
    BY <1>2, <1>4, MovedIs
  <2>2. taken.of[user][vtrs] = paying.of[user][vtrs]
    BY <1>2, <1>5, MovedIs
  <2>3. stored.of[user][vtrs] = taken.of[user][vtrs]
    BY <1>2, <1>6, MovedIs
  <2>4. base.of[user][vtrs] = stored.of[user][vtrs]
    BY <1>2, <1>7, MovedIs
  <2>5. given.of[user][vtrs] = base.of[user][vtrs]
    BY <1>2, <1>8, MovedIs
  <2> QED
    BY <2>1, <2>2, <2>3, <2>4, <2>5
<1>15. given.of[user][vnrg] = m.of[user][vnrg] + out
  <2>1. paying.of[user][vnrg] = m.of[user][vnrg]
    BY <1>2, <1>4, MovedIs
  <2>2. taken.of[user][vnrg] = paying.of[user][vnrg]
    BY <1>2, <1>5, MovedIs
  <2>3. stored.of[user][vnrg] = taken.of[user][vnrg]
    BY <1>2, <1>6, MovedIs
  <2>4. base.of[user][vnrg] = stored.of[user][vnrg]
    BY <1>2, <1>7, MovedIs
  <2>5. given.of[user][vnrg] = base.of[user][vnrg] + out
    BY <1>2, <1>8, MovedIs
  <2> QED
    BY <2>1, <2>2, <2>3, <2>4, <2>5
<1>16. BurnSurplus(given, grown).of[user][vtrs] = given.of[user][vtrs]
       /\ BurnSurplus(given, grown).of[user][vnrg] = given.of[user][vnrg]
  BY <1>2, BurnSurplusOthers
<1>17. /\ Spendable(m, user, vtrs, keep) = Spendable(m, "User", "VTRS", TRUE)
       /\ Spendable(m, "Broker", "VNRG", TRUE) = SatSub(m.of[broker][vnrg], 1)
  BY <1>2 DEF Spendable
<1>18. m.of[user][vtrs] \in Int /\ m.of[user][vnrg] \in Int /\ m.of[broker][vnrg] \in Int
  BY Balance
<1>19. PICK least \in Int, spare \in Int :
         least = Spendable(m, "User", "VTRS", TRUE) /\ spare = Spendable(m, "Broker", "VNRG", TRUE)
  BY <1>2, <1>18 DEF Spendable, SatSub
<1>20. result.ok <=> in <= least /\ out <= spare
  <2>1. Spendable(m, user, vtrs, keep) = least /\ SatSub(stored.of[broker][vnrg], 1) = spare
    BY <1>13, <1>17, <1>19
  <2>2. CASE in > least
    BY <1>12, <2>1, <2>2
  <2>3. CASE in <= least /\ out > spare
    <3>1. ~(in > least)
      BY <2>3
    <3> QED
      BY <1>12, <2>1, <2>3, <3>1
  <2>4. CASE in <= least /\ out <= spare
    <3>1. ~(in > least) /\ ~(out > spare)
      BY <2>4
    <3> QED
      BY <1>12, <2>1, <2>4, <3>1
  <2> QED
    BY <2>2, <2>3, <2>4
<1>21. result.ok => result.m.of[user][vtrs] = m.of[user][vtrs] - in
                    /\ result.m.of[user][vnrg] = m.of[user][vnrg] + out
  BY <1>3, <1>12, <1>14, <1>15, <1>16, <1>18
<1> QED
  BY <1>1, <1>2, <1>11, <1>19, <1>20, <1>21

Split(required, v, s, l, static, liquid) ==
  /\ static \in Nat /\ static <= s /\ liquid \in Nat /\ liquid <= l
  /\ SatSub(required, v + static + liquid) = SatSub(required, v + s + l)
  /\ SatSub(required, v + s + l) > 0 => v + static + liquid + SatSub(required, v + s + l) = required
  /\ SatSub(required, v + s + l) = 0 => v + static + liquid >= required

(* Own energy is taken in turn: VNRG, then static, then liquid; and all of *)
(* it before any is bought.                                                *)
LEMMA SplitIs ==
  ASSUME NEW required \in Nat, NEW v \in Nat, NEW s \in Nat, NEW l \in Nat, NEW static, NEW liquid,
         static = Least(s, SatSub(required, v)), liquid = Least(l, SatSub(required, v + static))
  PROVE  Split(required, v, s, l, static, liquid)
<1>1. static = IF v >= required THEN 0 ELSE IF s <= required - v THEN s ELSE required - v
  BY DEF Least, SatSub
<1>2. liquid = IF v + static >= required THEN 0
               ELSE IF l <= required - (v + static) THEN l ELSE required - (v + static)
  BY <1>1 DEF Least, SatSub
<1>3. static \in Nat /\ static <= s /\ liquid \in Nat /\ liquid <= l
  BY <1>1, <1>2
<1>4. CASE v >= required
  <2>1. static = 0 /\ liquid = 0
    BY <1>1, <1>2, <1>4
  <2> QED
    BY <1>3, <1>4, <2>1 DEF SatSub, Split
<1>5. CASE v < required /\ v + s >= required
  <2>1. static = required - v /\ liquid = 0
    BY <1>1, <1>2, <1>5
  <2> QED
    BY <1>3, <1>5, <2>1 DEF SatSub, Split
<1>6. CASE v + s < required /\ v + s + l >= required
  <2>1. static = s /\ liquid = required - (v + s)
    BY <1>1, <1>2, <1>6
  <2> QED
    BY <1>3, <1>6, <2>1 DEF SatSub, Split
<1>7. CASE v + s + l < required
  <2>1. static = s /\ liquid = l
    BY <1>1, <1>2, <1>7
  <2> QED
    BY <1>3, <1>7, <2>1 DEF SatSub, Split
<1> QED
  BY <1>4, <1>5, <1>6, <1>7

(* From market m, own energy turned into VNRG.                             *)
Turned(m, static, liquid) ==
  Credit(Credit(Credit(m, "User", "SNRG", -static), "User", "LNRG", -liquid), "User", "VNRG", static + liquid)

(* It stays what it was, for a user who has it.                            *)
LEMMA TurnedIs ==
  ASSUME NEW m \in Markets, NEW static \in Nat, NEW liquid \in Nat,
         static <= m.of["User"].SNRG, liquid <= m.of["User"].LNRG
  PROVE  /\ Gains(m, Turned(m, static, liquid), 0, 0)
         /\ Turned(m, static, liquid).of["User"].VNRG = m.of["User"].VNRG + (static + liquid)
         /\ Turned(m, static, liquid).of["User"].VTRS = m.of["User"].VTRS
         /\ Turned(m, static, liquid).of["Broker"].VNRG = m.of["Broker"].VNRG
<1>1. PICK user \in Accounts, broker \in Accounts, vtrs \in Assets, vnrg \in Assets,
           snrg \in Assets, lnrg \in Assets :
        /\ user = "User" /\ broker = "Broker" /\ user # broker /\ vtrs = "VTRS" /\ vnrg = "VNRG"
        /\ snrg = "SNRG" /\ lnrg = "LNRG" /\ vtrs # vnrg /\ vtrs # snrg /\ vtrs # lnrg
        /\ vnrg # snrg /\ vnrg # lnrg /\ snrg # lnrg
  <2>1. "User" \in Accounts /\ "Broker" \in Accounts /\ Assets = {"VTRS", "VNRG", "SNRG", "LNRG"}
    BY DEF Accounts, Assets
  <2> QED
    BY <2>1
<1>2. PICK x \in Int, y \in Int, z \in Int : x = -static /\ y = -liquid /\ z = static + liquid
  OBVIOUS
<1>3. m \in Books /\ m.of[user][snrg] + x >= 0 /\ m.of[user][lnrg] \in Nat
  <2>1. m.of[user][snrg] \in Nat /\ m.of[user][lnrg] \in Nat
    BY MarketIsBook
  <2> QED
    BY <1>1, <1>2, <2>1, MarketIsBook
<1>4. PICK one : one = Credit(m, user, snrg, x)
  OBVIOUS
<1>5. Gains(m, one, Native(snrg, x), Energy(snrg, x)) /\ Moved(m, one, user, snrg, x)
  BY <1>3, <1>4, CreditGains
<1>6. Gains(m, one, 0, x) /\ one \in Markets /\ one \in Books
  <2>1. Gains(m, one, 0, x) /\ one \in Markets
    BY <1>1, <1>5 DEF Gains, Native, Energy
  <2> QED
    BY <2>1, MarketIsBook
<1>7. one.of[user][lnrg] + y >= 0
  <2>1. one.of[user][lnrg] = m.of[user][lnrg]
    BY <1>1, <1>3, <1>5, MovedIs
  <2> QED
    BY <1>1, <1>2, <1>3, <2>1
<1>8. PICK two : two = Credit(one, user, lnrg, y)
  OBVIOUS
<1>9. Gains(one, two, Native(lnrg, y), Energy(lnrg, y)) /\ Moved(one, two, user, lnrg, y)
  BY <1>6, <1>7, <1>8, CreditGains
<1>10. Gains(one, two, 0, y) /\ two \in Markets /\ two \in Books
  <2>1. Gains(one, two, 0, y) /\ two \in Markets
    BY <1>1, <1>9 DEF Gains, Native, Energy
  <2> QED
    BY <2>1, MarketIsBook
<1>11. two.of[user][vnrg] + z >= 0
  <2>1. two.of[user][vnrg] \in Nat
    BY <1>10, MarketIsBook
  <2> QED
    BY <1>2, <2>1
<1>12. PICK three : three = Credit(two, user, vnrg, z)
  OBVIOUS
<1>13. Gains(two, three, Native(vnrg, z), Energy(vnrg, z)) /\ Moved(two, three, user, vnrg, z)
  BY <1>10, <1>11, <1>12, CreditGains
<1>14. Gains(two, three, 0, z)
  BY <1>1, <1>13 DEF Native, Energy
<1>15. Gains(m, three, 0, 0)
  <2>1. 0 \in Int /\ 0 + 0 = 0 /\ x + y \in Int
    OBVIOUS
  <2>2. Gains(m, two, 0 + 0, x + y)
    BY <1>6, <1>10, <2>1, GainsAdd, Zenon
  <2>3. Gains(m, two, 0, x + y)
    BY <2>1, <2>2
  <2>4. Gains(m, three, 0 + 0, (x + y) + z)
    BY <1>14, <2>1, <2>3, GainsAdd, Zenon
  <2>5. (x + y) + z = 0
    BY <1>2
  <2> QED
    BY <2>1, <2>4, <2>5
<1>16. Turned(m, static, liquid) = three
  BY <1>1, <1>2, <1>4, <1>8, <1>12 DEF Turned
<1>17. three.of[user][vnrg] = m.of[user][vnrg] + z
  <2>1. one.of[user][vnrg] = m.of[user][vnrg]
    BY <1>1, <1>3, <1>5, MovedIs
  <2>2. two.of[user][vnrg] = one.of[user][vnrg]
    BY <1>1, <1>6, <1>9, MovedIs
  <2>3. three.of[user][vnrg] = two.of[user][vnrg] + z
    BY <1>1, <1>10, <1>13, MovedIs
  <2> QED
    BY <2>1, <2>2, <2>3
<1>18. three.of[user][vtrs] = m.of[user][vtrs]
  <2>1. one.of[user][vtrs] = m.of[user][vtrs]
    BY <1>1, <1>3, <1>5, MovedIs
  <2>2. two.of[user][vtrs] = one.of[user][vtrs]
    BY <1>1, <1>6, <1>9, MovedIs
  <2>3. three.of[user][vtrs] = two.of[user][vtrs]
    BY <1>1, <1>10, <1>13, MovedIs
  <2> QED
    BY <2>1, <2>2, <2>3
<1>19. three.of[broker][vnrg] = m.of[broker][vnrg]
  <2>1. one.of[broker][vnrg] = m.of[broker][vnrg]
    BY <1>1, <1>3, <1>5, MovedIs
  <2>2. two.of[broker][vnrg] = one.of[broker][vnrg]
    BY <1>1, <1>6, <1>9, MovedIs
  <2>3. three.of[broker][vnrg] = two.of[broker][vnrg]
    BY <1>1, <1>10, <1>13, MovedIs
  <2> QED
    BY <2>1, <2>2, <2>3
<1> QED
  BY <1>1, <1>2, <1>15, <1>16, <1>17, <1>18, <1>19

Owned == market.of["User"].VNRG + market.of["User"].SNRG + market.of["User"].LNRG

(* What is short of a fee, and what it takes to buy it.                    *)
Short(required) == SatSub(required, Owned)
Price(required) == GetAmountIn(market.rate, Buy, "User", Short(required))

Ensured(required, result) ==
  /\ Gains(market, result.m, 0, 0)
  /\ result.ok => result.m.of["User"].VNRG >= required
  /\ Short(required) = 0 => result.ok /\ result.m.of["User"].VTRS = market.of["User"].VTRS
  /\ Short(required) > 0 =>
       /\ result.ok <=> /\ Price(required).out > 0
                        /\ Price(required).in <= Spendable(market, "User", "VTRS", TRUE)
                        /\ Short(required) <= Spendable(market, "Broker", "VNRG", TRUE)
       /\ result.ok => result.m.of["User"].VTRS = market.of["User"].VTRS - Price(required).in

(* To provide the energy of a fee makes none: the user turns its own, then *)
(* buys what is short, and then has the fee.                               *)
LEMMA EnsureIs ==
  ASSUME market \in Markets, NEW required \in Nat
  PROVE  Ensured(required, EnsureSufficientEnergy(required))
<1>1. /\ "User" \in Accounts /\ "Broker" \in Accounts
      /\ "VNRG" \in Assets /\ "SNRG" \in Assets /\ "LNRG" \in Assets /\ "VTRS" \in Assets
  BY DEF Accounts, Assets
<1>2. PICK v \in Nat, s \in Nat, l \in Nat, native \in Nat, stock \in Nat :
        /\ v = market.of["User"].VNRG /\ s = market.of["User"].SNRG /\ l = market.of["User"].LNRG
        /\ native = market.of["User"].VTRS /\ stock = market.of["Broker"].VNRG
  <2>1. /\ market.of["User"]["VNRG"] \in Nat /\ market.of["User"]["SNRG"] \in Nat
        /\ market.of["User"]["LNRG"] \in Nat /\ market.of["User"]["VTRS"] \in Nat
        /\ market.of["Broker"]["VNRG"] \in Nat
    BY <1>1, MarketIsBook
  <2> QED
    BY <2>1
<1>3. PICK static : static = Least(s, SatSub(required, v))
  OBVIOUS
<1>4. PICK liquid : liquid = Least(l, SatSub(required, v + static))
  OBVIOUS
<1>5. Split(required, v, s, l, static, liquid)
  BY <1>3, <1>4, SplitIs
<1>6. static \in Nat /\ liquid \in Nat /\ static <= market.of["User"].SNRG /\ liquid <= market.of["User"].LNRG
  BY <1>2, <1>5 DEF Split
<1>7. PICK m : m = Turned(market, static, liquid)
  OBVIOUS
<1>8. /\ Gains(market, m, 0, 0) /\ m.of["User"].VNRG = v + (static + liquid)
      /\ m.of["User"].VTRS = native /\ m.of["Broker"].VNRG = stock
  BY <1>2, <1>6, <1>7, TurnedIs
<1>9. m \in Markets /\ m.rate = market.rate /\ market.rate \in Rates /\ m \in Books
  <2>1. m \in Markets /\ m.rate = market.rate
    BY <1>8 DEF Gains
  <2> QED
    BY <2>1, MarketIsBook
<1>10. PICK missing \in Nat : missing = SatSub(required, v + static + liquid) /\ missing = Short(required)
  <2>1. SatSub(required, v + s + l) \in Nat
    BY DEF SatSub
  <2> QED
    BY <1>2, <1>5, <2>1 DEF Split, Short, Owned
<1>11. PICK amounts : amounts = GetAmountIn(m.rate, Buy, "User", missing)
  OBVIOUS
<1>12. amounts = Price(required)
  BY <1>9, <1>10, <1>11 DEF Price
<1>13. PICK swap : swap = DoSwap(m, "User", "User", Buy, amounts, TRUE)
  OBVIOUS
<1>14. EnsureSufficientEnergy(required) =
         IF missing = 0 THEN [ok |-> TRUE, m |-> m]
         ELSE IF amounts.out = 0 THEN [ok |-> FALSE, m |-> m] ELSE swap
  BY <1>2, <1>3, <1>4, <1>7, <1>10, <1>11, <1>13 DEF EnsureSufficientEnergy, Turned
<1>15. PICK result : result = EnsureSufficientEnergy(required)
  OBVIOUS
<1>16. CASE missing = 0
  <2>1. result = [ok |-> TRUE, m |-> m]
    BY <1>14, <1>15, <1>16
  <2>2. m.of["User"].VNRG >= required
    <3>1. SatSub(required, v + s + l) = 0
      BY <1>5, <1>10, <1>16 DEF Split
    <3>2. v + static + liquid >= required
      BY <1>5, <3>1 DEF Split
    <3> QED
      BY <1>6, <1>8, <3>2
  <2>3. Short(required) = 0 /\ ~(Short(required) > 0)
    BY <1>10, <1>16
  <2> QED
    BY <1>2, <1>8, <1>15, <2>1, <2>2, <2>3 DEF Ensured
<1>17. CASE missing > 0
  <2>1. Buy \in Paths
    BY DEF Buy, Paths
  <2>2. Fair(Buy, amounts) \/ amounts.out = 0
    BY <1>9, <1>11, <1>17, <2>1, AmountInFair
  <2>3. amounts.out \in {0, missing} /\ amounts.in \in Nat /\ amounts.in >= 1
    BY <1>9, <1>11, <1>17, <2>1, AmountInFair
  <2>4. Short(required) > 0 /\ Short(required) # 0
    BY <1>10, <1>17
  <2>5. CASE amounts.out = 0
    <3>1. result = [ok |-> FALSE, m |-> m]
      BY <1>14, <1>15, <1>17, <2>5
    <3>2. ~(Price(required).out > 0)
      BY <1>12, <2>5
    <3>3. ~result.ok /\ Gains(market, result.m, 0, 0)
      BY <1>8, <3>1
    <3> QED
      BY <1>15, <2>4, <3>2, <3>3, Zenon DEF Ensured
  <2>6. CASE amounts.out # 0
    <3>1. result = swap /\ amounts.out = missing /\ Fair(Buy, amounts)
      BY <1>14, <1>15, <1>17, <2>2, <2>3, <2>6
    <3>2. PICK keep : keep = TRUE
      OBVIOUS
    <3>3. /\ swap.ok <=> /\ amounts.in <= Spendable(m, "User", "VTRS", TRUE)
                         /\ amounts.out <= Spendable(m, "Broker", "VNRG", TRUE)
          /\ swap.ok => /\ swap.m.of["User"].VTRS = m.of["User"].VTRS - amounts.in
                        /\ swap.m.of["User"].VNRG = m.of["User"].VNRG + amounts.out
      <4>1. swap = DoSwap(m, "User", "User", Buy, amounts, keep)
        BY <1>13, <3>2
      <4> QED
        BY <1>9, <3>1, <4>1, BuyIs
    <3>4. Gains(m, swap.m, 0, 0)
      <4>1. PICK user \in Accounts, path \in Paths : user = "User" /\ path = Buy
        BY <1>1, <2>1
      <4>2. Fair(path, amounts)
        BY <3>1, <4>1
      <4>3. Gains(m, DoSwap(m, user, user, path, amounts, keep).m, 0, 0)
        BY <1>9, <4>2, DoSwapGains
      <4> QED
        BY <1>13, <3>2, <4>1, <4>3
    <3>5. Gains(market, swap.m, 0, 0)
      <4>1. 0 + 0 = 0 /\ 0 \in Int
        OBVIOUS
      <4>2. Gains(market, swap.m, 0 + 0, 0 + 0)
        BY <1>8, <3>4, <4>1, GainsAdd, Zenon
      <4> QED
        BY <4>1, <4>2
    <3>6. /\ Spendable(m, "User", "VTRS", TRUE) = Spendable(market, "User", "VTRS", TRUE)
          /\ Spendable(m, "Broker", "VNRG", TRUE) = Spendable(market, "Broker", "VNRG", TRUE)
      BY <1>2, <1>8 DEF Spendable
    <3>7. m.of["User"].VNRG + missing = required
      <4>1. v + static + liquid + SatSub(required, v + s + l) = required
        BY <1>5, <1>10, <1>17 DEF Split
      <4>2. SatSub(required, v + s + l) = missing
        BY <1>5, <1>10 DEF Split
      <4> QED
        BY <1>6, <1>8, <4>1, <4>2
    <3>8. Price(required).out > 0 /\ Price(required) = amounts /\ Short(required) = amounts.out
      BY <1>10, <1>12, <1>17, <3>1
    <3>9. swap.ok => swap.m.of["User"].VNRG >= required
      BY <3>1, <3>3, <3>7
    <3>10. swap.ok => swap.m.of["User"].VTRS = market.of["User"].VTRS - amounts.in
      BY <1>2, <1>8, <3>3
    <3>11. swap.ok <=> /\ Price(required).out > 0
                       /\ Price(required).in <= Spendable(market, "User", "VTRS", TRUE)
                       /\ Short(required) <= Spendable(market, "Broker", "VNRG", TRUE)
      BY <3>3, <3>6, <3>8
    <3> QED
      BY <1>15, <2>4, <3>1, <3>5, <3>8, <3>9, <3>10, <3>11 DEF Ensured
  <2> QED
    BY <2>5, <2>6
<1> QED
  BY <1>15, <1>16, <1>17

(* What wallets show of a fee is what withdraw_fee takes.                  *)
LEMMA QuoteIsKept == market \in Markets => QuoteHolds
<1> SUFFICES ASSUME market \in Markets, NEW fee \in Fees
             PROVE  LET quote   == FeeParts(fee)
                        result  == EnsureSufficientEnergy(fee)
                        native  == market.of["User"].VTRS - result.m.of["User"].VTRS
                        enough  == /\ quote.native <= Spendable(market, "User", "VTRS", TRUE)
                                   /\ fee - quote.energy <= Spendable(market, "Broker", "VNRG", TRUE)
                    IN  /\ result.ok <=> quote.ok /\ (quote.native = 0 \/ enough)
                        /\ result.ok => native = quote.native
  BY DEF QuoteHolds
<1>1. fee \in Nat /\ "User" \in Accounts /\ "VTRS" \in Assets /\ "VNRG" \in Assets /\ "SNRG" \in Assets
      /\ "LNRG" \in Assets
  BY MarketAssumption DEF Accounts, Assets
<1>2. /\ market.of["User"]["VTRS"] \in Nat /\ market.of["User"]["VNRG"] \in Nat
      /\ market.of["User"]["SNRG"] \in Nat /\ market.of["User"]["LNRG"] \in Nat /\ market.rate \in Rates
  BY <1>1, MarketIsBook
<1>3. PICK owned \in Nat, native \in Nat : owned = Owned /\ native = market.of["User"].VTRS
  BY <1>2 DEF Owned
<1>4. PICK missing \in Nat : missing = SatSub(fee, owned) /\ missing = Short(fee)
  BY <1>1, <1>3 DEF SatSub, Short
<1>5. PICK amounts : amounts = GetAmountIn(market.rate, Buy, "User", missing)
  OBVIOUS
<1>6. amounts = Price(fee)
  BY <1>4, <1>5 DEF Price
<1>7. PICK quote : quote = FeeParts(fee)
  OBVIOUS
<1>8. quote = IF owned >= fee THEN [ok |-> TRUE, energy |-> fee, native |-> 0]
              ELSE [ok |-> amounts.out > 0, energy |-> owned, native |-> amounts.in]
  BY <1>3, <1>4, <1>5, <1>7 DEF FeeParts, Quoted, Owned
<1>9. PICK result : result = EnsureSufficientEnergy(fee)
  OBVIOUS
<1>10. Ensured(fee, result)
  BY <1>1, <1>9, EnsureIs
<1>11. CASE owned >= fee
  <2>1. missing = 0 /\ quote = [ok |-> TRUE, energy |-> fee, native |-> 0]
    BY <1>1, <1>4, <1>8, <1>11 DEF SatSub
  <2>2. result.ok /\ result.m.of["User"].VTRS = native
    BY <1>3, <1>4, <1>10, <2>1 DEF Ensured
  <2>3. native - native = 0
    OBVIOUS
  <2> QED
    BY <1>3, <1>7, <1>9, <2>1, <2>2, <2>3
<1>12. CASE owned < fee
  <2>1. /\ missing = fee - owned /\ missing > 0
        /\ quote = [ok |-> amounts.out > 0, energy |-> owned, native |-> amounts.in]
    BY <1>1, <1>4, <1>8, <1>12 DEF SatSub
  <2>2. Buy \in Paths
    BY DEF Buy, Paths
  <2>3. amounts.in \in Nat /\ amounts.in >= 1
    BY <1>2, <1>5, <2>1, <2>2, AmountInFair
  <2>4. /\ result.ok <=> /\ amounts.out > 0
                         /\ amounts.in <= Spendable(market, "User", "VTRS", TRUE)
                         /\ missing <= Spendable(market, "Broker", "VNRG", TRUE)
        /\ result.ok => result.m.of["User"].VTRS = native - amounts.in
    BY <1>3, <1>4, <1>6, <1>10, <2>1 DEF Ensured
  <2>5. quote.native # 0 /\ quote.native = amounts.in /\ fee - quote.energy = missing
        /\ (quote.ok <=> amounts.out > 0)
    <3>1. quote.native = amounts.in /\ quote.energy = owned /\ (quote.ok <=> amounts.out > 0)
      BY <2>1
    <3> QED
      BY <1>1, <2>1, <2>3, <3>1
  <2>6. native - (native - amounts.in) = amounts.in
    BY <2>3
  <2> QED
    BY <1>3, <1>7, <1>9, <2>4, <2>5, <2>6
<1>13. owned >= fee \/ owned < fee
  BY <1>1, <1>3
<1> QED
  BY <1>11, <1>12, <1>13, Zenon

-----------------------------------------------------------------------------
(* Nothing is minted                                                       *)

(* What is recycled is part of what is left of a fee.                      *)
LEMMA PercentFits ==
  ASSUME NEW pct \in 0..100, NEW amount \in Nat
  PROVE  Percent(pct, amount) \in Nat /\ Percent(pct, amount) <= amount
<1>1. PICK p \in Nat : p = pct * amount /\ p <= 100 * amount
  OBVIOUS
<1>2. (p + 49) \div 100 \in Nat /\ (p + 49) \div 100 <= amount
  BY <1>1
<1> QED
  BY <1>1, <1>2 DEF Percent

(* What was paid is given back, recycled or burnt.                         *)
LEMMA SettledGains ==
  ASSUME NEW m \in Markets, NEW paid \in Nat, NEW tip \in Nat, NEW refund \in Nat,
         refund <= paid, recycling \in 0..100
  PROVE  /\ Settled(m, paid, tip, refund).burnt \in Nat
         /\ Gains(m, Settled(m, paid, tip, refund).m, 0, paid - Settled(m, paid, tip, refund).burnt)
<1>1. PICK left \in Nat : left = paid - refund
  OBVIOUS
<1>2. PICK shared \in Nat : shared = left - Least(tip, left) /\ shared <= left
  <2>1. left - Least(tip, left) \in Nat /\ left - Least(tip, left) <= left
    BY DEF Least
  <2> QED
    BY <2>1
<1>3. PICK recycled \in Nat : recycled = Percent(recycling, shared) /\ recycled <= shared
  <2>1. Percent(recycling, shared) \in Nat /\ Percent(recycling, shared) <= shared
    BY PercentFits
  <2> QED
    BY <2>1
<1>4. PICK user \in Accounts, treasury \in Accounts, vnrg \in Assets :
        user = "User" /\ treasury = "Treasury" /\ vnrg = "VNRG"
  <2>1. "User" \in Accounts /\ "Treasury" \in Accounts /\ "VNRG" \in Assets
    BY DEF Accounts, Assets
  <2> QED
    BY <2>1
<1>5. PICK one : one = Credit(m, user, vnrg, refund)
  OBVIOUS
<1>6. Gains(m, one, 0, refund) /\ one \in Markets
  <2>1. Gains(m, one, Native(vnrg, refund), Energy(vnrg, refund))
    BY <1>5, CreditOfGains
  <2> QED
    BY <1>4, <2>1 DEF Gains, Native, Energy
<1>7. PICK two : two = Credit(one, treasury, vnrg, recycled)
  OBVIOUS
<1>8. Gains(one, two, 0, recycled)
  <2>1. Gains(one, two, Native(vnrg, recycled), Energy(vnrg, recycled))
    BY <1>6, <1>7, CreditOfGains
  <2> QED
    BY <1>4, <2>1 DEF Native, Energy
<1>9. Settled(m, paid, tip, refund) = [m |-> two, burnt |-> left - recycled]
  BY <1>1, <1>2, <1>3, <1>4, <1>5, <1>7 DEF Settled
<1>10. left - recycled \in Nat /\ refund + recycled = paid - (left - recycled)
  BY <1>1, <1>2, <1>3
<1>11. Gains(m, two, 0, refund + recycled)
  <2>1. 0 \in Int /\ 0 + 0 = 0 /\ refund \in Int /\ recycled \in Int
    OBVIOUS
  <2>2. Gains(m, two, 0 + 0, refund + recycled)
    BY <1>6, <1>8, <2>1, GainsAdd, Zenon
  <2> QED
    BY <2>1, <2>2
<1> QED
  BY <1>9, <1>10, <1>11

(* The treasury sells for what the broker has.                             *)
LEMMA SellGains ==
  ASSUME NEW m \in Markets, NEW asset \in {"SNRG", "LNRG"}
  PROVE  Gains(m, Sell(m, asset), 0, 0)
<1>1. PICK path \in Paths, treasury \in Accounts, own \in Assets :
        path = <<asset, "VTRS">> /\ treasury = "Treasury" /\ own = asset
  <2>1. <<asset, "VTRS">> \in Paths /\ "Treasury" \in Accounts /\ asset \in Assets
    BY DEF Paths, Accounts, Assets
  <2> QED
    BY <2>1
<1>2. m.rate \in Rates /\ m.of[treasury][own] \in Nat
  BY MarketIsBook
<1>3. PICK amounts, keep :
        amounts = GetAmountOut(m.rate, path, treasury, m.of[treasury][own]) /\ keep = FALSE
  OBVIOUS
<1>4. Fair(path, amounts)
  BY <1>2, <1>3, AmountOutFair
<1>5. Gains(m, DoSwap(m, treasury, treasury, path, amounts, keep).m, 0, 0)
  BY <1>4, DoSwapGains
<1>6. Sell(m, asset) = IF amounts.out = 0 THEN m
                       ELSE DoSwap(m, treasury, treasury, path, amounts, keep).m
  BY <1>1, <1>3 DEF Sell
<1> QED
  BY <1>5, <1>6, GainsNone

(* It makes LNRG of the VNRG it was paid, one for one.                     *)
LEMMA ExchangeEnergyGains ==
  ASSUME NEW m \in Markets
  PROVE  Gains(m, ExchangeEnergy(m), 0, 0)
<1>1. PICK treasury \in Accounts, vnrg \in Assets, lnrg \in Assets :
        treasury = "Treasury" /\ vnrg = "VNRG" /\ lnrg = "LNRG"
  <2>1. "Treasury" \in Accounts /\ "LNRG" \in Assets /\ "VNRG" \in Assets
    BY DEF Accounts, Assets
  <2> QED
    BY <2>1
<1>2. PICK energy \in Nat : energy = m.of[treasury][vnrg]
  BY MarketIsBook
<1>3. PICK less \in Int : less = -energy
  OBVIOUS
<1>4. PICK one : one = Credit(m, treasury, vnrg, less)
  OBVIOUS
<1>5. Gains(m, one, 0, less) /\ one \in Markets
  <2>1. m.of[treasury][vnrg] + less >= 0
    BY <1>2, <1>3
  <2>2. Gains(m, one, Native(vnrg, less), Energy(vnrg, less))
    BY <1>4, <2>1, CreditGains
  <2> QED
    BY <1>1, <2>2 DEF Gains, Native, Energy
<1>6. PICK liquid : liquid = Credit(one, treasury, lnrg, energy)
  OBVIOUS
<1>7. Gains(one, liquid, 0, energy)
  <2>1. Gains(one, liquid, Native(lnrg, energy), Energy(lnrg, energy))
    BY <1>5, <1>6, CreditOfGains
  <2> QED
    BY <1>1, <2>1 DEF Native, Energy
<1>8. 0 \in Int /\ 0 + 0 = 0 /\ less + energy = 0 /\ energy \in Int
  BY <1>3
<1>9. Gains(m, liquid, 0, 0) /\ liquid \in Markets
  <2>1. Gains(m, liquid, 0 + 0, less + energy)
    BY <1>5, <1>7, <1>8, GainsAdd, Zenon
  <2>2. Gains(m, liquid, 0, 0)
    BY <1>8, <2>1
  <2> QED
    BY <2>2 DEF Gains
<1>10. PICK first : first = Sell(liquid, "SNRG")
  OBVIOUS
<1>11. Gains(m, first, 0, 0) /\ first \in Markets
  <2>1. Gains(liquid, first, 0, 0)
    BY <1>9, <1>10, SellGains
  <2>2. Gains(m, first, 0 + 0, 0 + 0)
    BY <1>8, <1>9, <2>1, GainsAdd, Zenon
  <2>3. Gains(m, first, 0, 0)
    BY <1>8, <2>2
  <2> QED
    BY <2>3 DEF Gains
<1>12. PICK last : last = Sell(first, "LNRG")
  OBVIOUS
<1>13. Gains(m, last, 0, 0)
  <2>1. Gains(first, last, 0, 0)
    BY <1>11, <1>12, SellGains
  <2>2. Gains(m, last, 0 + 0, 0 + 0)
    BY <1>8, <1>11, <2>1, GainsAdd, Zenon
  <2> QED
    BY <1>8, <2>2
<1>14. ExchangeEnergy(m) = last
  BY <1>1, <1>2, <1>3, <1>4, <1>6, <1>10, <1>12 DEF ExchangeEnergy
<1> QED
  BY <1>13, <1>14

-----------------------------------------------------------------------------
(* The invariant of what there is                                          *)

Supply(m, told, paid) ==
  /\ Total(m, "VTRS") = Total([of |-> Start], "VTRS")
  /\ Power(m) + told + paid = EnergyOf([of |-> Start])

(* The rules are in their ranges, nobody owes, and all energy is accounted *)
(* for.                                                                    *)
SupplyInv ==
  /\ market \in Markets
  /\ override \in Nat \cup {None} /\ recycling \in 0..100
  /\ burned \in Nat /\ reported \in Nat /\ unchecked \in Nat
  /\ Supply(market, reported, tx.paid)

(* From market m to market n, whose rate and capacity may differ.          *)
Adds(m, n, energy) ==
  n \in Markets /\ Total(n, "VTRS") = Total(m, "VTRS") /\ Power(n) = Power(m) + energy

(* What is gained was paid, or is told to OnEnergyBurn.                    *)
LEMMA SupplyKept ==
  ASSUME NEW m \in Markets, NEW n, NEW energy \in Int, NEW told \in Int, NEW paid \in Int,
         NEW toldNow \in Int, NEW paidNow \in Int, Adds(m, n, energy), Supply(m, told, paid),
         energy + toldNow + paidNow = told + paid
  PROVE  n \in Markets /\ Supply(n, toldNow, paidNow)
<1>1. Power(m) \in Int
  BY MarketNumbers
<1> QED
  BY <1>1 DEF Adds, Supply

(* Gains of energy alone.                                                  *)
LEMMA GainsAdds ==
  ASSUME NEW m \in Markets, NEW n, NEW energy, Gains(m, n, 0, energy)
  PROVE  Adds(m, n, energy)
<1>1. Total(m, "VTRS") \in Int
  BY MarketNumbers
<1> QED
  BY <1>1 DEF Gains, Adds

(* What stays, stays.                                                      *)
LEMMA AddsNone == ASSUME NEW m \in Markets PROVE Adds(m, m, 0)
<1>1. Gains(m, m, 0, 0)
  BY GainsNone
<1> QED
  BY <1>1, GainsAdds

(* A transaction that has been neither charged nor settled owes nothing.   *)
LEMMA PaidIs ==
  ASSUME MarketInv
  PROVE  tx.paid \in Nat /\ tx.tip \in Nat /\ (tx.stage = "none" => tx.paid = 0)
BY DEF MarketInv, RulesOK, Txs

(* Genesis has what it starts from.                                        *)
LEMMA InitSupply == Init => SupplyInv
<1> SUFFICES ASSUME Init PROVE SupplyInv
  OBVIOUS
<1>1. PICK rate \in Rates, capacity \in Capacities :
        market = [of |-> Start, rate |-> rate, capacity |-> capacity, gone |-> 0] /\ override = capacity
  BY DEF Init
<1>2. capacity \in Nat /\ Start \in [Accounts -> [Assets -> Nat]]
  BY MarketAssumption
<1>3. market \in Markets /\ market.of = Start /\ market.gone = 0
  BY <1>1, <1>2 DEF Markets
<1>4. tx.paid = 0 /\ reported = 0 /\ burned = 0 /\ unchecked = 0 /\ recycling = 0
  BY DEF Init, NoTx
<1>5. PICK start : start = [of |-> Start]
  OBVIOUS
<1>6. \A asset : Total(market, asset) = Total(start, asset)
  BY <1>3, <1>5 DEF Total
<1>7. EnergyOf(market) = EnergyOf(start) /\ EnergyOf(market) \in Int
  BY <1>3, <1>6, MarketNumbers DEF EnergyOf
<1>8. Supply(market, reported, tx.paid)
  BY <1>3, <1>4, <1>5, <1>6, <1>7 DEF Supply, Power
<1> QED
  BY <1>1, <1>2, <1>3, <1>4, <1>8 DEF SupplyInv

(* Charging takes a fee that the user now has.                             *)
LEMMA ChargeSupply ==
  ASSUME MarketInv, SupplyInv, NEW kind \in Kinds, NEW amount \in Fees, NEW tip \in Tips,
         Charge(kind, amount, tip)
  PROVE  SupplyInv'
<1>1. amount \in Nat /\ tip \in Nat /\ EvmFee \in Nat
  BY MarketAssumption
<1>2. PICK fee \in Nat : fee = IF kind \in {"batch", "evm"} THEN EvmFee ELSE amount
  BY <1>1
<1>3. PICK whole \in Nat : whole = (IF kind = "weighed" THEN fee + tip ELSE fee) /\ whole >= fee
  BY <1>1
<1>4. PICK paid \in Nat : paid = (IF kind = "evm" THEN 0 ELSE whole) /\ paid <= whole
  OBVIOUS
<1>5. PICK result : result = EnsureSufficientEnergy(whole)
  OBVIOUS
<1>6. /\ tx.stage = "none" /\ result.ok
      /\ market' = Credit(result.m, "User", "VNRG", -paid)
      /\ tx' = [stage |-> "charged", kind |-> kind, paid |-> paid, tip |-> tip]
      /\ unchecked' = unchecked + (whole - fee)
      /\ UNCHANGED <<ruleVars, burned, reported, rounds, allowed>>
  BY <1>2, <1>3, <1>4, <1>5 DEF Charge
<1>7. market \in Markets /\ reported \in Nat /\ Supply(market, reported, tx.paid) /\ unchecked \in Nat
  BY DEF SupplyInv
<1>8. Gains(market, result.m, 0, 0) /\ result.m.of["User"].VNRG >= whole /\ result.m \in Markets
  <2>1. Ensured(whole, result)
    BY <1>5, <1>7, EnsureIs
  <2> QED
    BY <1>6, <2>1 DEF Ensured, Gains
<1>9. PICK user \in Accounts, vnrg \in Assets, less \in Int : user = "User" /\ vnrg = "VNRG" /\ less = -paid
  <2>1. "User" \in Accounts /\ "VNRG" \in Assets /\ -paid \in Int
    BY DEF Accounts, Assets
  <2> QED
    BY <2>1
<1>10. result.m.of[user][vnrg] \in Nat
  BY <1>8, MarketIsBook
<1>11. result.m.of[user][vnrg] + less >= 0
  BY <1>4, <1>8, <1>9, <1>10
<1>12. Gains(result.m, market', Native(vnrg, less), Energy(vnrg, less))
  BY <1>6, <1>8, <1>9, <1>11, CreditGains
<1>13. Gains(market, market', 0, less)
  <2>1. Gains(result.m, market', 0, less)
    BY <1>9, <1>12 DEF Native, Energy
  <2>2. 0 \in Int /\ 0 + 0 = 0 /\ 0 + less = less
    OBVIOUS
  <2>3. Gains(market, market', 0 + 0, 0 + less)
    BY <1>7, <1>8, <2>1, <2>2, GainsAdd, Zenon
  <2> QED
    BY <2>2, <2>3
<1>14. Adds(market, market', less)
  BY <1>7, <1>13, GainsAdds
<1>15. tx.paid = 0 /\ tx'.paid = paid /\ reported' = reported
  BY <1>6, PaidIs
<1>16. PICK told \in Int, before \in Int, now \in Int :
         told = reported /\ before = tx.paid /\ now = paid /\ less + told + now = told + before
  BY <1>7, <1>9, <1>15
<1>17. market' \in Markets /\ Supply(market', told, now)
  <2>1. PICK m \in Markets : m = market
    BY <1>7
  <2>2. Adds(m, market', less) /\ Supply(m, told, before)
    BY <1>7, <1>14, <1>16, <2>1
  <2> QED
    BY <1>16, <2>2, SupplyKept
<1>18. unchecked' \in Nat
  BY <1>3, <1>6, <1>7
<1> QED
  BY <1>6, <1>15, <1>16, <1>17, <1>18 DEF SupplyInv, ruleVars

(* A step between transactions, or a call, that only moves what there is.  *)
LEMMA MoveSupply ==
  ASSUME SupplyInv, Adds(market, market', 0), tx'.paid = tx.paid, tx.paid \in Nat, reported' = reported,
         override' \in Nat \cup {None}, recycling' \in 0..100, burned' \in Nat, unchecked' \in Nat
  PROVE  SupplyInv'
<1>1. PICK m \in Markets, told \in Int, paid \in Int :
        m = market /\ told = reported /\ paid = tx.paid /\ 0 + told + paid = told + paid
  BY DEF SupplyInv
<1>2. Adds(m, market', 0) /\ Supply(m, told, paid) /\ 0 \in Int
  BY <1>1 DEF SupplyInv
<1>3. market' \in Markets /\ Supply(market', told, paid)
  BY <1>1, <1>2, SupplyKept
<1> QED
  BY <1>1, <1>3 DEF SupplyInv

(* A call that has nothing to do with energy.                              *)
LEMMA OtherCallSupply == ASSUME MarketInv, SupplyInv, OtherCall PROVE SupplyInv'
<1>1. /\ market' = market /\ burned' = burned /\ unchecked' = unchecked /\ reported' = reported
      /\ override' = override /\ recycling' = recycling /\ tx' = [tx EXCEPT !.stage = "ran"] /\ tx \in Txs
  BY DEF OtherCall, Dispatch, ruleVars, feeVars, MarketInv, RulesOK
<1>2. tx'.paid = tx.paid
  BY <1>1 DEF Txs
<1>3. Adds(market, market', 0)
  BY <1>1, AddsNone DEF SupplyInv
<1> QED
  BY <1>1, <1>2, <1>3, PaidIs, MoveSupply DEF SupplyInv

(* A swap by a user.                                                       *)
LEMMA SwapSupply ==
  ASSUME MarketInv, SupplyInv, NEW path \in Paths, NEW recipient \in Accounts, NEW amounts, NEW keep,
         amounts.out > 0 => Fair(path, amounts), Swap(path, recipient, amounts, keep)
  PROVE  SupplyInv'
<1>1. PICK result : result = DoSwap(market, "User", recipient, path, amounts, keep)
  OBVIOUS
<1>2. Dispatch /\ amounts.out > 0 /\ market' = result.m /\ UNCHANGED feeVars
  BY <1>1 DEF Swap
<1>3. /\ burned' = burned /\ unchecked' = unchecked /\ reported' = reported
      /\ override' = override /\ recycling' = recycling /\ tx' = [tx EXCEPT !.stage = "ran"] /\ tx \in Txs
  BY <1>2 DEF Dispatch, ruleVars, feeVars, MarketInv, RulesOK
<1>4. tx'.paid = tx.paid
  BY <1>3 DEF Txs
<1>5. Adds(market, market', 0)
  <2>1. PICK user \in Accounts, m \in Markets : user = "User" /\ m = market
    BY DEF Accounts, SupplyInv
  <2>2. Fair(path, amounts)
    BY <1>2
  <2>3. Gains(m, DoSwap(m, user, recipient, path, amounts, keep).m, 0, 0)
    BY <2>2, DoSwapGains
  <2>4. Gains(m, market', 0, 0)
    BY <1>1, <1>2, <2>1, <2>3
  <2> QED
    BY <2>1, <2>4, GainsAdds
<1> QED
  BY <1>3, <1>4, <1>5, PaidIs, MoveSupply DEF SupplyInv

(* Its two forms.                                                          *)
LEMMA SwapsSupply ==
  ASSUME MarketInv, SupplyInv, NEW path \in Paths, NEW recipient \in {"User", "Broker"},
         NEW amount \in Amounts, NEW keep \in BOOLEAN,
         \/ SwapExactTokensForTokens(path, recipient, amount, keep)
         \/ SwapTokensForExactTokens(path, recipient, amount, keep)
  PROVE  SupplyInv'
<1>1. amount \in Nat /\ amount > 0 /\ recipient \in Accounts /\ market.rate \in Rates
  <2>1. market.rate \in Rates
    BY MarketIsBook DEF SupplyInv
  <2> QED
    BY <2>1, MarketAssumption DEF Accounts
<1>2. CASE SwapExactTokensForTokens(path, recipient, amount, keep)
  <2>1. PICK amounts : amounts = GetAmountOut(market.rate, path, "User", amount)
    OBVIOUS
  <2>2. amounts.out > 0 => Fair(path, amounts)
    BY <1>1, <2>1, AmountOutFair
  <2>3. Swap(path, recipient, amounts, keep)
    BY <1>2, <2>1 DEF SwapExactTokensForTokens
  <2> QED
    BY <1>1, <2>2, <2>3, SwapSupply
<1>3. CASE SwapTokensForExactTokens(path, recipient, amount, keep)
  <2>1. PICK amounts : amounts = GetAmountIn(market.rate, path, "User", amount)
    OBVIOUS
  <2>2. Fair(path, amounts) \/ amounts.out = 0
    BY <1>1, <2>1, AmountInFair
  <2>3. Swap(path, recipient, amounts, keep) /\ (amounts.out > 0 => Fair(path, amounts))
    BY <1>3, <2>1, <2>2 DEF SwapTokensForExactTokens
  <2> QED
    BY <1>1, <2>3, SwapSupply
<1> QED
  BY <1>2, <1>3

(* A step that burns.                                                      *)
LEMMA BurnSupply ==
  ASSUME SupplyInv, NEW burnt \in Nat, NEW paid \in Nat, Adds(market, market', paid - burnt),
         tx.paid \in Nat, tx'.paid = tx.paid - paid, Burn(burnt),
         override' = override, recycling' = recycling, unchecked' \in Nat
  PROVE  SupplyInv'
<1>1. burned' = burned + burnt /\ reported' = reported + burnt /\ burned \in Nat /\ reported \in Nat
  BY DEF Burn, SupplyInv
<1>2. PICK m \in Markets, energy \in Int, told \in Int, before \in Int, toldNow \in Int, now \in Int :
        /\ m = market /\ energy = paid - burnt /\ told = reported /\ before = tx.paid
        /\ toldNow = reported' /\ now = tx'.paid /\ energy + toldNow + now = told + before
  BY <1>1 DEF SupplyInv
<1>3. Adds(m, market', energy) /\ Supply(m, told, before)
  BY <1>2 DEF SupplyInv
<1>4. market' \in Markets /\ Supply(market', toldNow, now)
  BY <1>2, <1>3, SupplyKept
<1> QED
  BY <1>1, <1>2, <1>4 DEF SupplyInv

(* An Ethereum call is charged and settled at once.                        *)
LEMMA EvmCallSupply == ASSUME MarketInv, SupplyInv, EvmCall PROVE SupplyInv'
<1>1. EvmFee \in Nat /\ market \in Markets /\ recycling \in 0..100
  BY MarketAssumption DEF SupplyInv
<1>2. PICK result : result = EnsureSufficientEnergy(EvmFee)
  OBVIOUS
<1>3. PICK user \in Accounts, vnrg \in Assets, less \in Int :
        user = "User" /\ vnrg = "VNRG" /\ less = -EvmFee
  <2>1. "User" \in Accounts /\ "VNRG" \in Assets /\ -EvmFee \in Int
    BY <1>1 DEF Accounts, Assets
  <2> QED
    BY <2>1
<1>4. PICK charged, zero : charged = Credit(result.m, user, vnrg, less) /\ zero = 0
  OBVIOUS
<1>5. PICK settled : settled = Settled(charged, EvmFee, zero, zero)
  OBVIOUS
<1>6. /\ Dispatch /\ result.ok /\ market' = settled.m /\ Burn(settled.burnt)
      /\ unchecked' = unchecked + IF tx.kind = "batch" THEN EvmFee ELSE 0
  BY <1>2, <1>3, <1>4, <1>5 DEF EvmCall
<1>7. Gains(market, result.m, 0, 0) /\ result.m \in Markets /\ result.m.of["User"].VNRG >= EvmFee
  <2>1. Ensured(EvmFee, result)
    BY <1>1, <1>2, EnsureIs
  <2> QED
    BY <1>6, <2>1 DEF Ensured, Gains
<1>8. Gains(result.m, charged, 0, less) /\ charged \in Markets
  <2>1. result.m.of[user][vnrg] \in Nat
    BY <1>7, MarketIsBook
  <2>2. result.m.of[user][vnrg] + less >= 0
    BY <1>1, <1>3, <1>7, <2>1
  <2>3. Gains(result.m, charged, Native(vnrg, less), Energy(vnrg, less))
    BY <1>4, <1>7, <2>2, CreditGains
  <2> QED
    BY <1>3, <2>3 DEF Gains, Native, Energy
<1>9. PICK burnt \in Nat : burnt = settled.burnt /\ Gains(charged, market', 0, EvmFee - burnt)
  <2>1. zero \in Nat /\ zero <= EvmFee
    BY <1>1, <1>4
  <2>2. settled.burnt \in Nat /\ Gains(charged, settled.m, 0, EvmFee - settled.burnt)
    BY <1>1, <1>5, <1>8, <2>1, SettledGains
  <2> QED
    BY <1>6, <2>2
<1>10. Gains(market, market', 0, 0 - burnt)
  <2>1. /\ 0 \in Int /\ 0 + 0 = 0 /\ 0 + less = less /\ EvmFee - burnt \in Int
        /\ less + (EvmFee - burnt) = 0 - burnt
    BY <1>1, <1>3
  <2>2. Gains(market, charged, 0 + 0, 0 + less)
    BY <1>1, <1>7, <1>8, <2>1, GainsAdd, Zenon
  <2>3. Gains(market, charged, 0, less)
    BY <2>1, <2>2
  <2>4. Gains(market, market', 0 + 0, less + (EvmFee - burnt))
    BY <1>1, <1>9, <2>1, <2>3, GainsAdd, Zenon
  <2> QED
    BY <2>1, <2>4
<1>11. PICK paid \in Nat : paid = 0 /\ Adds(market, market', paid - burnt)
  BY <1>1, <1>10, GainsAdds
<1>12. override' = override /\ recycling' = recycling /\ tx' = [tx EXCEPT !.stage = "ran"] /\ tx \in Txs
  BY <1>6 DEF Dispatch, ruleVars, MarketInv, RulesOK
<1>13. tx.paid \in Nat /\ tx'.paid = tx.paid - paid
  BY <1>11, <1>12 DEF Txs
<1>14. unchecked' \in Nat /\ Burn(burnt)
  BY <1>1, <1>6, <1>9 DEF SupplyInv
<1> QED
  BY <1>11, <1>12, <1>13, <1>14, BurnSupply

(* Of what was paid, what is not given back or recycled is burnt.          *)
LEMMA SettleSupply == ASSUME MarketInv, SupplyInv, NEW paysFee \in BOOLEAN, Settle(paysFee) PROVE SupplyInv'
<1>1. tx.paid \in Nat /\ tx.tip \in Nat /\ market \in Markets /\ recycling \in 0..100
  BY PaidIs DEF SupplyInv
<1>2. PICK refund \in Nat :
        refund = (IF paysFee THEN 0 ELSE SatSub(tx.paid, tx.tip)) /\ refund <= tx.paid
  <2>1. SatSub(tx.paid, tx.tip) \in Nat /\ SatSub(tx.paid, tx.tip) <= tx.paid
    BY <1>1 DEF SatSub
  <2> QED
    BY <1>1, <2>1
<1>3. PICK settled : settled = Settled(market, tx.paid, tx.tip, refund)
  OBVIOUS
<1>4. settled.burnt \in Nat /\ Gains(market, settled.m, 0, tx.paid - settled.burnt)
  BY <1>1, <1>2, <1>3, SettledGains
<1>5. /\ tx' = NoTx /\ market' = settled.m /\ Burn(settled.burnt)
      /\ override' = override /\ recycling' = recycling /\ unchecked' = unchecked
  BY <1>2, <1>3 DEF Settle, ruleVars
<1>6. PICK burnt \in Nat, paid \in Nat :
        burnt = settled.burnt /\ paid = tx.paid /\ tx'.paid = tx.paid - paid
  BY <1>1, <1>4, <1>5 DEF NoTx
<1>7. Adds(market, market', paid - burnt)
  BY <1>1, <1>4, <1>5, <1>6, GainsAdds
<1>8. unchecked' \in Nat /\ Burn(burnt)
  BY <1>5, <1>6 DEF SupplyInv
<1> QED
  BY <1>1, <1>5, <1>6, <1>7, <1>8, BurnSupply

(* Root and the council set rules.                                         *)
LEMMA RulesSupply ==
  ASSUME MarketInv, SupplyInv,
         \/ \E amount \in Thresholds : UpdateBurnedEnergyThreshold(amount)
         \/ \E amount \in Capacities \cup {None} : ForceSetCapacity(amount)
  PROVE  SupplyInv'
<1>1. /\ market' = market /\ recycling' = recycling /\ burned' = burned /\ unchecked' = unchecked
      /\ reported' = reported /\ tx' = tx
  BY DEF UpdateBurnedEnergyThreshold, ForceSetCapacity, Privileged, feeVars
<1>2. override' \in Nat \cup {None}
  BY MarketAssumption DEF UpdateBurnedEnergyThreshold, ForceSetCapacity, SupplyInv
<1>3. Adds(market, market', 0)
  BY <1>1, AddsNone DEF SupplyInv
<1> QED
  BY <1>1, <1>2, <1>3, PaidIs, MoveSupply DEF SupplyInv

(* Liquidity is added out of what the user has.                            *)
LEMMA ForceAddLiquiditySupply ==
  ASSUME MarketInv, SupplyInv, NEW asset \in {"VTRS", "VNRG"}, NEW amount \in Amounts, NEW keep \in BOOLEAN,
         ForceAddLiquidity("User", asset, amount, keep)
  PROVE  SupplyInv'
<1>1. /\ override' = override /\ recycling' = recycling /\ burned' = burned
      /\ unchecked' = unchecked /\ tx' = tx /\ reported' = reported
      /\ amount <= Spendable(market, "User", asset, keep)
      /\ market' = Credit(Credit(market, "User", asset, -amount), "Broker", asset, amount)
  BY DEF ForceAddLiquidity, Privileged, feeVars
<1>2. PICK user \in Accounts, broker \in Accounts, own \in Assets, add \in Nat, less \in Int :
        user = "User" /\ broker = "Broker" /\ own = asset /\ add = amount /\ less = -amount
  <2>1. /\ "User" \in Accounts /\ "Broker" \in Accounts /\ asset \in Assets /\ amount \in Nat
        /\ -amount \in Int
    BY MarketAssumption DEF Accounts, Assets
  <2> QED
    BY <2>1
<1>3. PICK m \in Markets : m = market
  BY DEF SupplyInv
<1>4. m.of[user][own] \in Nat
  BY MarketIsBook
<1>5. m.of[user][own] + less >= 0
  <2>1. add <= SatSub(m.of[user][own], 1) \/ add <= SatSub(m.of[user][own], 0)
    BY <1>1, <1>2, <1>3 DEF Spendable
  <2> QED
    BY <1>2, <1>4, <2>1 DEF SatSub
<1>6. PICK one : one = Credit(m, user, own, less)
  OBVIOUS
<1>7. Gains(m, one, Native(own, less), Energy(own, less)) /\ one \in Markets
  BY <1>5, <1>6, CreditGains DEF Gains
<1>8. market' = Credit(one, broker, own, add)
  BY <1>1, <1>2, <1>3, <1>6
<1>9. Gains(one, market', Native(own, add), Energy(own, add))
  BY <1>7, <1>8, CreditOfGains
<1>10. /\ Native(own, less) \in Int /\ Native(own, add) \in Int
       /\ Energy(own, less) \in Int /\ Energy(own, add) \in Int
       /\ Native(own, less) + Native(own, add) = 0 /\ Energy(own, less) + Energy(own, add) = 0
  BY <1>2 DEF Native, Energy
<1>11. Gains(m, market', Native(own, less) + Native(own, add), Energy(own, less) + Energy(own, add))
  BY <1>7, <1>9, <1>10, GainsAdd, Zenon
<1>12. Adds(market, market', 0)
  BY <1>3, <1>10, <1>11, GainsAdds
<1> QED
  BY <1>1, <1>12, PaidIs, MoveSupply DEF SupplyInv

(* A new block.                                                            *)
LEMMA NewBlockSupply ==
  ASSUME MarketInv, SupplyInv, NewBlock, Adds(market, market', 0), recycling' \in 0..100
  PROVE  SupplyInv'
<1>1. burned' = 0 /\ unchecked' = 0 /\ override' = override /\ tx' = tx /\ reported' = reported
  BY DEF NewBlock
<1> QED
  BY <1>1, PaidIs, MoveSupply DEF SupplyInv

(* A new capacity or rate moves nothing by itself.                         *)
LEMMA SettingsAdd ==
  ASSUME NEW m \in Markets, NEW n \in Markets, n.of = m.of, n.gone = m.gone
  PROVE  Adds(m, n, 0)
<1>1. \A asset : Total(n, asset) = Total(m, asset)
  BY DEF Total
<1>2. EnergyOf(n) = EnergyOf(m)
  BY <1>1 DEF EnergyOf
<1>3. Power(m) \in Int
  BY MarketNumbers
<1> QED
  BY <1>1, <1>2, <1>3 DEF Adds, Power

(* One after the other.                                                    *)
LEMMA AddsAdd ==
  ASSUME NEW m \in Markets, NEW n, NEW o, Adds(m, n, 0), Adds(n, o, 0)
  PROVE  Adds(m, o, 0)
<1>1. Power(m) \in Int
  BY MarketNumbers
<1> QED
  BY <1>1 DEF Adds

(* The first block of a session.                                           *)
LEMMA SessionBlockSupply ==
  ASSUME MarketInv, SupplyInv, NEW total \in Capacities, NEW rate \in Rates, SessionBlock(total, rate)
  PROVE  SupplyInv'
<1>1. NewBlock /\ recycling' = recycling /\ market' = OnNewSession(total, rate)
  BY DEF SessionBlock
<1>2. PICK m \in Markets : m = market
  BY DEF SupplyInv
<1>3. PICK capacity \in Nat \cup {None} : capacity = IF override = None THEN total ELSE override
  BY MarketAssumption DEF SupplyInv
<1>4. capacity \in Nat
  BY <1>3, MarketAssumption DEF SupplyInv
<1>5. PICK wider \in Markets : wider = [m EXCEPT !.capacity = capacity]
                               /\ wider.of = m.of /\ wider.gone = m.gone
  <2>1. [m EXCEPT !.capacity = capacity] \in Markets
        /\ [m EXCEPT !.capacity = capacity].of = m.of /\ [m EXCEPT !.capacity = capacity].gone = m.gone
    BY <1>4 DEF Markets
  <2> QED
    BY <2>1
<1>6. PICK zero : zero = 0
  OBVIOUS
<1>7. PICK resized : resized = IF capacity = 0 THEN m ELSE BurnSurplus(wider, zero)
  OBVIOUS
<1>8. Adds(m, resized, 0) /\ resized \in Markets
  <2>1. Adds(m, wider, 0)
    BY <1>5, SettingsAdd
  <2>2. Gains(wider, BurnSurplus(wider, zero), 0, 0)
    BY BurnSurplusGains
  <2>3. Adds(wider, BurnSurplus(wider, zero), 0)
    BY <2>2, GainsAdds
  <2>4. Adds(m, BurnSurplus(wider, zero), 0)
    BY <2>1, <2>3, AddsAdd
  <2>5. Adds(m, m, 0)
    BY AddsNone
  <2>6. Adds(m, resized, 0)
    BY <1>7, <2>4, <2>5
  <2> QED
    BY <2>6 DEF Adds
<1>9. PICK rated \in Markets : rated = [resized EXCEPT !.rate = rate]
                               /\ rated.of = resized.of /\ rated.gone = resized.gone
  <2>1. [resized EXCEPT !.rate = rate] \in Markets
        /\ [resized EXCEPT !.rate = rate].of = resized.of /\ [resized EXCEPT !.rate = rate].gone = resized.gone
    BY <1>8 DEF Markets
  <2> QED
    BY <2>1
<1>10. OnNewSession(total, rate) = ExchangeEnergy(rated)
  BY <1>2, <1>3, <1>5, <1>6, <1>7, <1>9 DEF OnNewSession
<1>11. Adds(market, market', 0)
  <2>1. Adds(resized, rated, 0)
    BY <1>8, <1>9, SettingsAdd
  <2>2. Gains(rated, ExchangeEnergy(rated), 0, 0)
    BY ExchangeEnergyGains
  <2>3. Adds(rated, market', 0)
    BY <1>1, <1>10, <2>2, GainsAdds
  <2>4. Adds(m, rated, 0)
    BY <1>8, <2>1, AddsAdd
  <2> QED
    BY <1>2, <2>3, <2>4, AddsAdd
<1> QED
  BY <1>1, <1>11, NewBlockSupply DEF SupplyInv

(* The treasury spends no more than it has.                                *)
LEMMA SpendBlockSupply ==
  ASSUME MarketInv, SupplyInv, NEW spent \in Amounts \cup {0}, SpendBlock(spent)
  PROVE  SupplyInv'
<1>1. PICK m \in Markets : m = market
  BY DEF SupplyInv
<1>2. PICK treasury \in Accounts, user \in Accounts, rewards \in Accounts, vtrs \in Assets :
        treasury = "Treasury" /\ user = "User" /\ rewards = "Rewards" /\ vtrs = "VTRS"
  <2>1. "Treasury" \in Accounts /\ "User" \in Accounts /\ "Rewards" \in Accounts /\ "VTRS" \in Assets
    BY DEF Accounts, Assets
  <2> QED
    BY <2>1
<1>3. /\ SpendThreshold \in 0..100 /\ ScalingFactor \in Nat /\ BaseRate \in Nat
      /\ TargetBalance \in Nat /\ TargetBalance > 0 /\ spent \in Nat
  BY MarketAssumption
<1>4. m.of[treasury][vtrs] \in Nat
  BY MarketIsBook
<1>5. PICK pot \in Nat : pot = SatSub(market.of["Treasury"].VTRS, 1) /\ pot <= m.of[treasury][vtrs]
  <2>1. SatSub(m.of[treasury][vtrs], 1) \in Nat /\ SatSub(m.of[treasury][vtrs], 1) <= m.of[treasury][vtrs]
    BY <1>4 DEF SatSub
  <2> QED
    BY <1>1, <1>2, <2>1
<1>6. PICK share \in Nat : share = (SpendThreshold * pot + 99) \div 100 /\ share <= pot
  <2>1. PICK p \in Nat : p = SpendThreshold * pot /\ p <= 100 * pot
    BY <1>3
  <2>2. (p + 99) \div 100 \in Nat /\ (p + 99) \div 100 <= pot
    BY <2>1
  <2> QED
    BY <2>1, <2>2
<1>7. PICK left \in Nat : left = SatSub(share, spent)
  <2>1. SatSub(share, spent) \in Nat
    BY <1>3 DEF SatSub
  <2> QED
    BY <2>1
<1>8. /\ NewBlock /\ spent <= pot
      /\ market' = Credit(Credit(Credit(market, "Treasury", "VTRS", -(spent + left)),
                                 "User", "VTRS", spent), "Rewards", "VTRS", left)
      /\ recycling' = IF left = 0 THEN recycling
                      ELSE Least(100, SatSub(BaseRate + ScalingFactor, (ScalingFactor * pot) \div TargetBalance))
  BY <1>5, <1>6, <1>7 DEF SpendBlock
<1>9. PICK less \in Int : less = -(spent + left) /\ m.of[treasury][vtrs] + less >= 0
  <2>1. spent + left <= pot
    BY <1>3, <1>6, <1>7, <1>8 DEF SatSub
  <2> QED
    BY <1>3, <1>4, <1>5, <2>1
<1>10. PICK one : one = Credit(m, treasury, vtrs, less)
  OBVIOUS
<1>11. Gains(m, one, less, 0) /\ one \in Markets
  <2>1. Gains(m, one, Native(vtrs, less), Energy(vtrs, less))
    BY <1>9, <1>10, CreditGains
  <2> QED
    BY <1>2, <2>1 DEF Gains, Native, Energy
<1>12. PICK two : two = Credit(one, user, vtrs, spent)
  OBVIOUS
<1>13. Gains(one, two, spent, 0) /\ two \in Markets
  <2>1. Gains(one, two, Native(vtrs, spent), Energy(vtrs, spent))
    BY <1>3, <1>11, <1>12, CreditOfGains
  <2> QED
    BY <1>2, <2>1 DEF Gains, Native, Energy
<1>14. PICK three : three = Credit(two, rewards, vtrs, left)
  OBVIOUS
<1>15. Gains(two, three, left, 0)
  <2>1. Gains(two, three, Native(vtrs, left), Energy(vtrs, left))
    BY <1>13, <1>14, CreditOfGains
  <2> QED
    BY <1>2, <2>1 DEF Native, Energy
<1>16. Gains(m, three, 0, 0)
  <2>1. /\ 0 \in Int /\ 0 + 0 = 0 /\ less + spent \in Int /\ (less + spent) + left = 0
        /\ spent \in Int /\ left \in Int
    BY <1>3, <1>9
  <2>2. Gains(m, two, less + spent, 0 + 0)
    BY <1>11, <1>13, <2>1, GainsAdd, Zenon
  <2>3. Gains(m, two, less + spent, 0)
    BY <2>1, <2>2
  <2>4. Gains(m, three, (less + spent) + left, 0 + 0)
    BY <1>15, <2>1, <2>3, GainsAdd, Zenon
  <2> QED
    BY <2>1, <2>4
<1>17. market' = three
  BY <1>1, <1>2, <1>8, <1>9, <1>10, <1>12, <1>14
<1>18. Adds(market, market', 0)
  BY <1>1, <1>16, <1>17, GainsAdds
<1>19. recycling' \in 0..100
  <2>1. PICK part \in Nat : part = (ScalingFactor * pot) \div TargetBalance
    <3>1. (ScalingFactor * pot) \div TargetBalance \in Nat
      BY <1>3, NatQuotient
    <3> QED
      BY <3>1
  <2>2. PICK most \in Nat : most = BaseRate + ScalingFactor
    BY <1>3
  <2>3. SatSub(most, part) \in Nat
    BY DEF SatSub
  <2>4. Least(100, SatSub(most, part)) \in 0..100
    BY <2>3 DEF Least
  <2>5. recycling' = IF left = 0 THEN recycling ELSE Least(100, SatSub(most, part))
    BY <1>8, <2>1, <2>2
  <2> QED
    BY <2>4, <2>5 DEF SupplyInv
<1> QED
  BY <1>8, <1>18, <1>19, NewBlockSupply

-----------------------------------------------------------------------------
(* The theorems about what there is                                        *)

(* Every step keeps it.                                                    *)
LEMMA NextSupply ==
  ASSUME MarketInv, SupplyInv, Next
  PROVE  SupplyInv'
<1>1. ASSUME NEW kind \in Kinds, NEW fee \in Fees, NEW tip \in Tips, Charge(kind, fee, tip)
      PROVE  SupplyInv'
  BY <1>1, ChargeSupply
<1>2. ASSUME NEW path \in Paths, NEW to \in {"User", "Broker"}, NEW amount \in Amounts,
             NEW keep \in BOOLEAN,
             \/ SwapExactTokensForTokens(path, to, amount, keep)
             \/ SwapTokensForExactTokens(path, to, amount, keep)
      PROVE  SupplyInv'
  BY <1>2, SwapsSupply
<1>3. ASSUME NEW paysFee \in BOOLEAN, Settle(paysFee)
      PROVE  SupplyInv'
  BY <1>3, SettleSupply
<1>4. ASSUME NEW asset \in {"VTRS", "VNRG"}, NEW amount \in Amounts, NEW keep \in BOOLEAN,
             ForceAddLiquidity("User", asset, amount, keep)
      PROVE  SupplyInv'
  BY <1>4, ForceAddLiquiditySupply
<1>5. CASE QuietBlock
  <2>1. NewBlock /\ market' = market /\ recycling' = recycling
    BY <1>5 DEF QuietBlock
  <2>2. Adds(market, market', 0) /\ recycling' \in 0..100
    BY <2>1, AddsNone DEF SupplyInv
  <2> QED
    BY <2>1, <2>2, NewBlockSupply
<1>6. ASSUME NEW total \in Capacities, NEW rate \in Rates, SessionBlock(total, rate)
      PROVE  SupplyInv'
  BY <1>6, SessionBlockSupply
<1>7. ASSUME NEW spent \in Amounts \cup {0}, SpendBlock(spent)
      PROVE  SupplyInv'
  BY <1>7, SpendBlockSupply
<1>8. CASE OtherCall
  BY <1>8, OtherCallSupply
<1>9. CASE EvmCall
  BY <1>9, EvmCallSupply
<1>10. CASE \/ \E amount \in Thresholds : UpdateBurnedEnergyThreshold(amount)
            \/ \E amount \in Capacities \cup {None} : ForceSetCapacity(amount)
  BY <1>10, RulesSupply
<1> QED
  BY <1>1, <1>2, <1>3, <1>4, <1>5, <1>6, <1>7, <1>8, <1>9, <1>10 DEF Next

(* All energy is accounted for and nobody owes any, always.                *)
THEOREM SupplyInvariant == Spec => []SupplyInv
<1>1. MarketInv /\ SupplyInv /\ [Next]_vars => SupplyInv'
  <2>1. MarketInv /\ SupplyInv /\ Next => SupplyInv'
    BY NextSupply
  <2>2. SupplyInv /\ UNCHANGED vars => SupplyInv'
    BY DEF vars, ruleVars, feeVars, SupplyInv
  <2> QED
    BY <2>1, <2>2
<1> QED
  BY InitSupply, <1>1, MarketInvariant, PTL DEF Spec

(* No energy comes from nowhere and none is lost: what accounts hold, what *)
(* is in flight, what was told as burnt and what left as surplus or static *)
(* energy is what there was at the start, and VTRS only move.              *)
THEOREM NoEnergyFromNowhere == Spec => []NothingMinted
<1>1. MarketInv /\ SupplyInv => NothingMinted
  <2> SUFFICES ASSUME MarketInv, SupplyInv PROVE NothingMinted
    OBVIOUS
  <2>1. tx.paid \in Nat
    BY PaidIs
  <2>2. MarketTypeOK
    BY <2>1 DEF SupplyInv, MarketTypeOK
  <2>3. EnergyOf(market) \in Int /\ market.gone \in Int
    BY MarketNumbers DEF SupplyInv
  <2>4. reported \in Nat
    BY DEF SupplyInv
  <2>5. Total(market, "VTRS") = Total([of |-> Start], "VTRS")
        /\ EnergyOf(market) + market.gone + reported + tx.paid = EnergyOf([of |-> Start])
    BY DEF SupplyInv, Supply, Power
  <2> QED
    BY <2>2, <2>5 DEF NothingMinted
<1> QED
  BY <1>1, MarketInvariant, SupplyInvariant, PTL

(* A fee that can be paid costs what wallets were told, and what they were *)
(* told can be paid if VTRS of the user and energy of the broker suffice.  *)
THEOREM FeesCostWhatWasQuoted == Spec => []QuoteHolds
<1>1. SupplyInv => QuoteHolds
  BY QuoteIsKept DEF SupplyInv
<1> QED
  BY <1>1, SupplyInvariant, PTL
=============================================================================
