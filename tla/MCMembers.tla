-------------------------------- MODULE MCMembers --------------------------------
(***************************************************************************)
(* Modules Membership and Privileges in one run. They share no variable: a  *)
(* behaviour is one of either, chosen at the start, and the other module    *)
(* stays at its initial state.                                             *)
(***************************************************************************)
EXTENDS Membership, Privileges, TLC

CONSTANT x  \* a collectible

VARIABLE part

MCSymmetry == Permutations(Members)

(* Item 2 comes before item 0, and item 0 before the rest.                 *)
MCHashOrder == [i \in Blocks |-> CASE i = 2 -> 0 [] i = 0 -> 1 [] OTHER -> i + 2]

NewClaim(instance, amount, schedule, item) ==
  [instance |-> instance, amount |-> amount, schedule |-> schedule, item |-> item]

MCNewClaims ==
  {NewClaim("VTRS", 2, FALSE, NoItem), NewClaim("VTRS", 3, TRUE, NoItem),
   NewClaim("Kickstart", 2, FALSE, x)}

MCInit ==
  /\ part \in {"membership", "years"}
  /\ Init /\ (part = "years" => total = [i \in Accounts |-> 0])
  /\ PrivilegesInit /\ (part = "membership" => date = 0)

MCNext ==
  /\ UNCHANGED part
  /\ \/ part = "membership" /\ Next /\ UNCHANGED privilegesVars
     \/ part = "years" /\ PrivilegesNext /\ UNCHANGED vars

MCSpec == MCInit /\ [][MCNext]_<<part, vars, privilegesVars>>
================================================================================
