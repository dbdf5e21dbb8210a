--------------------------------- MODULE MCParts ---------------------------------
(***************************************************************************)
(* Five parts of the chain that share no variable, in one run: reputation,  *)
(* the disabling of offenders, the staking ledger, slashing spans and the   *)
(* ways tokens move. A behaviour is one of a single part, chosen at the     *)
(* start; the others stay at an initial state.                             *)
(***************************************************************************)
EXTENDS Reputation, Disabling, Tokens, LedgerCalls, SlashingSpans

CONSTANTS
  a, b,         \* accounts
  u, v, w, x, y \* validators

VARIABLE part

(* Two points to a rank, so that a threshold, the point above it and the    *)
(* one below differ.                                                       *)
MCFromRank == [r \in 0 .. MaxRank |-> 2 * r]

(* A large set and a smaller one that shares two validators with it, at     *)
(* other places.                                                           *)
MCElections == {<<v, w, x, y>>, <<y, x, u>>}

(* One schedule that ends with the run, and one whose product overflows.    *)
MCSchedules == {[locked |-> 2, perBlock |-> 1, start |-> 1], [locked |-> 1, perBlock |-> 4, start |-> 0]}

MCEndowed == [i \in {a, b} |-> IF i = a THEN 3 ELSE 1]

MCInit ==
  /\ part \in {"reputation", "disabling", "ledger", "spans", "tokens"}
  /\ ReputationInit /\ (part # "reputation" => live = {})
  /\ DisablingInit /\ (part # "disabling" => Len(validators) = 4)
  /\ CallInit /\ (part # "ledger" => after = [active |-> 0, total |-> 0, unlocking |-> <<>>])
  /\ SpansInit
  /\ part # "spans" => \A era \in DOMAIN role : exposed[era] = 0 /\ role[era] = "validator"
  /\ TokensInit

MCNext ==
  /\ UNCHANGED part
  /\ \/ /\ part = "reputation" /\ ReputationNext
        /\ UNCHANGED <<disablingVars, callVars, spansVars, tokensVars>>
     \/ /\ part = "disabling" /\ DisablingNext
        /\ UNCHANGED <<reputationVars, callVars, spansVars, tokensVars>>
     \/ /\ part = "ledger" /\ CallNext
        /\ UNCHANGED <<reputationVars, disablingVars, spansVars, tokensVars>>
     \/ /\ part = "spans" /\ SpansNext
        /\ UNCHANGED <<reputationVars, disablingVars, callVars, tokensVars>>
     \/ /\ part = "tokens" /\ TokensNext
        /\ UNCHANGED <<reputationVars, disablingVars, callVars, spansVars>>

MCSpec == MCInit /\ [][MCNext]_<<part, reputationVars, disablingVars, callVars, spansVars, tokensVars>>

================================================================================
