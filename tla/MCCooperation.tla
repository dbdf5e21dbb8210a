----------------------------- MODULE MCCooperation -----------------------------
(* Two validators that are alike and a cooperator of both, which may also take their side. *)
EXTENDS Cooperation, TLC
CONSTANTS v, w, c
MCMaxStake == [s \in Stashes |-> IF s = c THEN 2 ELSE 1]
MCMaxLevel == [s \in Stashes |-> IF s = c THEN 1 ELSE 2]
\* Stake of one and of two get a unit more at the levels 2 and 1 each.
MCBonusPart == [level \in 0 .. 2 |-> 50 * level]
MCSymmetry == Permutations({v, w})
=============================================================================
