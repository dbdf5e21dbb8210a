----------------------------- MODULE SlashQueue -----------------------------
(***************************************************************************)
(* Deferred slashes: from an offence report, through UnappliedSlashes, to  *)
(* the era start that enacts them, on top of the era life cycle of Eras.   *)
(*                                                                         *)
(* A slash names its victims in the order apply_slash visits them: the     *)
(* validator, then its cooperators.  What is taken from a victim is left   *)
(* to other modules; here a victim matters only for being bonded or not.   *)
(* on_initialize is not transactional, so what was written before an error *)
(* stays written.                                                          *)
(***************************************************************************)
EXTENDS Eras, Sequences

CONSTANTS
  SlashDeferDuration,   \* T::SlashDeferDuration, in eras
  Stashes,              \* stash accounts
  Exposures,            \* the victim sequences reports can name
  MaxReports            \* bound on the slashes filed

(* integrity_test asserts the second conjunct.                             *)
ASSUME SlashAssumption ==
  /\ SlashDeferDuration \in Nat
  /\ SlashDeferDuration < BondingDuration \/ BondingDuration = 0
  /\ Exposures \subseteq Seq(Stashes)
  /\ MaxReports \in Nat

VARIABLES
  bonded,      \* the stashes with an entry in Bonded
  unapplied,   \* UnappliedSlashes: the slashes of all its eras
  filed,       \* how many slashes were filed; numbers them in push order
  notified,    \* the last session SessionChangeListeners was told of
  enacted      \* history: what do_slash took, from whom and when

slashVars == <<bonded, unapplied, filed, notified, enacted>>
vars == <<eraVars, slashVars>>

Slash == [id : Nat, victims : Exposures, slashEra : Nat, due : Nat, reported : Nat]

-----------------------------------------------------------------------------
(***************************************************************************)
(* Enacting slashes.                                                       *)
(***************************************************************************)

(* The j-th victim of s is reached no later than the k-th of t.            *)
NotAfter(s, j, t, k) == s.id < t.id \/ (s.id = t.id /\ j <= k)

(* do_slash fails on a victim that is no longer bonded.  The error leaves  *)
(* apply_slash and apply_unapplied_slashes, so that victim and every later *)
(* one of the same queue go unpunished.                                    *)
Reached(queue, t, k) ==
  \A s \in queue : \A j \in DOMAIN s.victims :
    NotAfter(s, j, t, k) => s.victims[j] \in bonded

Aborts(queue) ==
  \E s \in queue : \E j \in DOMAIN s.victims : s.victims[j] \notin bonded

(* What enacting `queue` in era `at` takes; `arg` is the slash era that    *)
(* apply_slash is given, the boundary for proportional slashing.           *)
Enactments(queue, at, arg) ==
  UNION {{[id |-> t.id, victim |-> t.victims[k], at |-> at, slashEra |-> t.slashEra, arg |-> arg] :
            k \in {j \in DOMAIN t.victims : Reached(queue, t, j)}} : t \in queue}

(* Mutant: drains everything that is due or overdue.                       *)
DueOrOverdue(era) == {s \in unapplied : s.due <= era}

Due(era) == {s \in unapplied : s.due = era}

(* UnappliedSlashes::take empties the entry of the era.                    *)
Take(era) == unapplied \ Due(era)

-----------------------------------------------------------------------------
Init ==
  /\ EraInit
  /\ bonded = Stashes
  /\ unapplied = {}
  /\ filed = 0
  /\ notified = -1
  /\ enacted = {}

EndSessionS == EndSession /\ UNCHANGED slashVars

PlanEraS == PlanEra /\ UNCHANGED slashVars

PlanSessionS == PlanSession /\ UNCHANGED slashVars

(* start_session: when an era starts its slashes are taken out of storage  *)
(* and enacted; on an error start_session returns before it announces the  *)
(* session.                                                                *)
StartSessionS ==
  /\ StartSession
  /\ IF StartsEra
     THEN LET era   == activeEra + 1
              queue == Due(era)
          IN  /\ unapplied' = Take(era)
              /\ enacted' = enacted \cup
                   Enactments(queue, era, SatSub(era, SlashDeferDuration))
              /\ notified' = IF Aborts(queue) THEN notified ELSE session + 1
     ELSE /\ notified' = session + 1
          /\ UNCHANGED <<unapplied, enacted>>
  /\ UNCHANGED <<bonded, filed>>

ForceErasS == \E mode \in Forcing : ForceEras(mode) /\ UNCHANGED slashVars

(* Mutant: defers from the report instead of the offence.                  *)
DueEraFromNow(slashEra) == activeEra + SlashDeferDuration + 1

DueEra(slashEra) == slashEra + SlashDeferDuration + 1

EnactNow(slash) ==
  enacted' = enacted \cup Enactments({slash}, activeEra, slash.slashEra)

Enqueue(slash) == unapplied' = unapplied \cup {slash}

(* With no deferral the slash is enacted at once, and an error is only     *)
(* logged.                                                                 *)
Handle(slash) ==
  IF SlashDeferDuration = 0
  THEN EnactNow(slash) /\ UNCHANGED unapplied
  ELSE Enqueue(slash) /\ UNCHANGED enacted

(* on_offence for one offender, behind FilterHistoricalOffences, when      *)
(* compute_slash finds something to slash.                                 *)
Report(s, victims) ==
  /\ phase = "idle"
  /\ filed < MaxReports
  /\ Reportable(s)
  /\ OffenceEra(s) # None
  /\ filed' = filed + 1
  /\ Handle([id |-> filed, victims |-> victims, slashEra |-> OffenceEra(s),
             due |-> DueEra(OffenceEra(s)), reported |-> activeEra])
  /\ UNCHANGED <<eraVars, bonded, notified>>

(* cancel_deferred_slash: any non-empty choice of one era's slashes.       *)
CancelDeferredSlash(era, slashes) ==
  /\ phase = "idle"
  /\ slashes # {} /\ slashes \subseteq Due(era)
  /\ unapplied' = unapplied \ slashes
  /\ UNCHANGED <<eraVars, bonded, filed, notified, enacted>>

(* kill_stash, which force_unstake reaches at any time, reap_stash after a *)
(* full slash, and withdraw_unbonded once everything is unlocked.          *)
KillStash(stash) ==
  /\ phase = "idle"
  /\ stash \in bonded
  /\ bonded' = bonded \ {stash}
  /\ UNCHANGED <<eraVars, unapplied, filed, notified, enacted>>

(* bond, as far as the Bonded map goes.                                    *)
Bond(stash) ==
  /\ phase = "idle"
  /\ stash \notin bonded
  /\ bonded' = bonded \cup {stash}
  /\ UNCHANGED <<eraVars, unapplied, filed, notified, enacted>>

Next ==
  \/ EndSessionS
  \/ StartSessionS
  \/ PlanEraS
  \/ PlanSessionS
  \/ ForceErasS
  \/ \E s \in 0..session, victims \in Exposures : Report(s, victims)
  \/ \E era \in {s.due : s \in unapplied} : \E slashes \in SUBSET Due(era) :
       CancelDeferredSlash(era, slashes)
  \/ \E stash \in Stashes : KillStash(stash)
  \/ \E stash \in Stashes : Bond(stash)

Spec == Init /\ [][Next]_vars

-----------------------------------------------------------------------------
(***************************************************************************)
(* Properties.                                                             *)
(***************************************************************************)
Enactment == [id : Nat, victim : Stashes, at : Nat, slashEra : Nat, arg : Nat]

TypeOK ==
  /\ EraTypeOK
  /\ bonded \subseteq Stashes
  /\ unapplied \subseteq Slash
  /\ filed \in Nat
  /\ notified \in Int
  /\ enacted \subseteq Enactment

(* A report is timely when it is filed no later than SlashDeferDuration    *)
(* eras after the offence.                                                 *)
Timely(s) == s.reported <= s.slashEra + SlashDeferDuration

(***************************************************************************)
(* What the queue and the history hold: the inductive invariant. The       *)
(* boundary apply_slash gets is the era after the offence for a deferred    *)
(* slash (impls.rs:852) and the era of the offence for one enacted at once. *)
(***************************************************************************)
QueueInv ==
  /\ \A s \in unapplied :
       /\ SlashDeferDuration > 0
       /\ s.id < filed
       /\ s.slashEra <= s.reported /\ s.reported <= activeEra
       /\ s.due = s.slashEra + SlashDeferDuration + 1
       /\ Timely(s) => s.due > activeEra
  /\ \A s, t \in unapplied : s.id = t.id => s = t
  /\ \A x \in enacted :
       /\ x.id < filed
       /\ \A s \in unapplied : s.id # x.id
       /\ \A y \in enacted : x.id = y.id /\ x.victim = y.victim => x = y
       /\ IF SlashDeferDuration = 0
          THEN x.at \in x.slashEra..(x.slashEra + BondingDuration) /\ x.arg = x.slashEra
          ELSE x.at = x.slashEra + SlashDeferDuration + 1 /\ x.arg = x.slashEra + 1

(* A slash reported in time is still ahead of the active era: the one era  *)
(* start that will take it out of UnappliedSlashes has not happened yet.   *)
TimelySlashesStillDue == \A s \in unapplied : Timely(s) => s.due > activeEra

(* Each slash is enacted on a victim at most once, and is out of the queue *)
(* by then: no era start, late report or cancellation makes it run twice.  *)
EnactedOnce ==
  /\ \A x, y \in enacted : x.id = y.id /\ x.victim = y.victim => x = y
  /\ \A x \in enacted : \A s \in unapplied : s.id # x.id

(* A deferred slash runs exactly SlashDeferDuration + 1 eras after the     *)
(* offence; without deferral it runs inside the reporting window.          *)
EnactedWhenDue ==
  \A x \in enacted :
    IF SlashDeferDuration = 0
    THEN x.at \in x.slashEra..(x.slashEra + BondingDuration)
    ELSE x.at = x.slashEra + SlashDeferDuration + 1

(* The abstract view: the era, the slashes that wait and what was taken.   *)
CaseOf(slash) == [id |-> slash.id, since |-> slash.slashEra]
SentenceOf(x) == [id |-> x.id, victim |-> x.victim, since |-> x.slashEra, at |-> x.at]

Promise == INSTANCE SlashPromise WITH
  Defer    <- SlashDeferDuration,
  Window   <- BondingDuration,
  Ids      <- 0..MaxReports,
  era      <- activeEra,
  open     <- {CaseOf(s) : s \in unapplied},
  punished <- {SentenceOf(x) : x \in enacted}

(* The queue, its sessions and the failures of do_slash in between keep    *)
(* the promise of SlashPromise: every step opens, drops or closes cases as *)
(* promised, or changes nothing of them.  So a slash can still be          *)
(* cancelled until its day, runs on that day only, and on no one twice.    *)
KeepsPromise == Promise!Spec

(* "Apply previously-unapplied slashes on the beginning of a new era": a   *)
(* slash an era start takes out of the queue is enacted on each of its     *)
(* victims that is still bonded.                                           *)
TakenIsEnacted ==
  [][phase = "start" =>
       \A s \in unapplied \ unapplied' : \A j \in DOMAIN s.victims :
         s.victims[j] \in bonded =>
           \E x \in enacted' : x.id = s.id /\ x.victim = s.victims[j]]_vars
=============================================================================
