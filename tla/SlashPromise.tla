---------------------------- MODULE SlashPromise ----------------------------
(***************************************************************************)
(* What the deferral of slashes promises the people who may be slashed,    *)
(* with no queue, no sessions and no ledger: a case is opened within       *)
(* Window eras of the offence, it stays open to be dropped until the era   *)
(* that comes Defer + 1 eras after the offence, and it is closed there,    *)
(* punishing each victim at most once.  With Defer = 0 the sentence and    *)
(* the report are one.  Who is spared when a sentence cannot be carried    *)
(* out, and what happens to a case opened after its day, is left open: the *)
(* first may be anybody, the second stays on file and punishes nobody.     *)
(*                                                                         *)
(* SlashQueue is shown to keep this promise.                               *)
(***************************************************************************)
EXTENDS Integers

CONSTANTS
  Defer,     \* eras from the offence to the last one without punishment
  Window,    \* eras an offence can be reported in
  Stashes,   \* who can be punished
  Ids        \* the names of cases

VARIABLES
  era,       \* the era that runs, -1 before the first
  open,      \* the cases on file
  punished   \* who was punished, in which case and when

vars == <<era, open, punished>>

Fresh(id) == \A r \in open \cup punished : r.id # id

Reportable(since) == 0 <= since /\ since <= era /\ era <= since + Window

Day(case) == case.since + Defer + 1

(* The sentences that can be carried out for some cases in an era.         *)
Sentences(cases, at) ==
  {[id |-> c.id, victim |-> v, since |-> c.since, at |-> at] : c \in cases, v \in Stashes}

Init == era = -1 /\ open = {} /\ punished = {}

(* An offence is reported.                                                 *)
File(id, since) ==
  /\ Fresh(id)
  /\ Reportable(since)
  /\ IF Defer = 0
     THEN /\ \E some \in SUBSET Sentences({[id |-> id, since |-> since]}, era) :
               punished' = punished \cup some
          /\ UNCHANGED open
     ELSE /\ open' = open \cup {[id |-> id, since |-> since]}
          /\ UNCHANGED punished
  /\ UNCHANGED era

(* Cases are dropped.                                                      *)
Drop(cases) ==
  /\ open' = open \ cases
  /\ UNCHANGED <<era, punished>>

(* An era starts, and the cases whose day it is are closed.                *)
NextEra ==
  LET due == {c \in open : Day(c) = era + 1}
  IN  /\ era' = era + 1
      /\ open' = open \ due
      /\ \E some \in SUBSET Sentences(due, era + 1) : punished' = punished \cup some

Next ==
  \/ \E id \in Ids, since \in 0..era : File(id, since)
  \/ \E cases \in SUBSET open : Drop(cases)
  \/ NextEra

Spec == Init /\ [][Next]_vars
=============================================================================
