----------------------------- MODULE MCEnergyMarket -----------------------------
(* Model of EnergyMarket for TLC: one user with a little of each energy, a  *)
(* broker that runs dry on both sides, and a rate of two energy for one.    *)
EXTENDS EnergyMarket

MCStart == [who \in Accounts |->
  CASE who = "User"     -> [VTRS |-> 4, VNRG |-> 1, SNRG |-> 1, LNRG |-> 3]
    [] who = "Broker"   -> [VTRS |-> 2, VNRG |-> 3, SNRG |-> 0, LNRG |-> 0]
    [] who = "Treasury" -> [VTRS |-> 3, VNRG |-> 0, SNRG |-> 1, LNRG |-> 0]
    [] who = "Rewards"  -> [VTRS |-> 1, VNRG |-> 0, SNRG |-> 0, LNRG |-> 0]]

MCStaticRate == <<1, 1>>
MCRates == {<<2, 1>>, <<0, 1>>}
=============================================================================
