---------------------------- MODULE StakingLedger ----------------------------
(***************************************************************************)
(* The ledger of one stash in pallet energy-generation, and the arithmetic *)
(* of consolidate_unlocked, rebond and slash_stake.                        *)
(*                                                                         *)
(* A ledger is [total, active, unlocking]; unlocking is the queue of       *)
(* chunks [value, era], the newest one last.  Perquintill ratios, in parts *)
(* of 10^18, are ratios in parts of Accuracy, a power of ten as well, so   *)
(* that the same ratios are exact and the others rounded up.               *)
(***************************************************************************)
EXTENDS Integers, FiniteSetsExt, SequencesExt

CONSTANT Accuracy

ASSUME AccuracyAssumption == Accuracy \in Nat \ {0}

Less(a, b)  == IF a >= b THEN a - b ELSE 0         \* saturating_sub
CeilDiv(a, b) == (a + b - 1) \div b

(* The sum of the chunks with the given indices, and of all of them.       *)
UnlockingAt(chunks, indices) ==
  SumFunctionOnSet([i \in DOMAIN chunks |-> chunks[i].value], indices)
Unlocking(chunks) == UnlockingAt(chunks, DOMAIN chunks)

(* filter and retain: the chunks that are in `kept`, in their order.       *)
Keep(chunks, kept) ==
  FoldLeft(LAMBDA left, chunk : IF chunk \in kept THEN Append(left, chunk) ELSE left,
           <<>>, chunks)

NotEmpty(chunks) == Keep(chunks, {chunk \in Range(chunks) : chunk.value # 0})

-----------------------------------------------------------------------------
(* consolidate_unlocked: drops the chunks whose era has come.              *)
Consolidate(ledger, currentEra) ==
  LET due == {chunk \in Range(ledger.unlocking) : chunk.era <= currentEra}
  IN  [ledger EXCEPT !.total     = Less(@, Unlocking(Keep(ledger.unlocking, due))),
                     !.unlocking = Keep(@, Range(@) \ due)]

(* Mutant: the chunks come back oldest first.                              *)
RebondedOldest(chunks, value, i) ==
  Min({chunks[i].value, Less(value, UnlockingAt(chunks, 1 .. i - 1))})

(* What rebond takes back out of chunk i: the newest chunks come first.    *)
Rebonded(chunks, value, i) ==
  Min({chunks[i].value, Less(value, UnlockingAt(chunks, i + 1 .. Len(chunks)))})

(* rebond, on chunks that are not empty.                                   *)
Rebond(ledger, value) ==
  LET chunks == ledger.unlocking
  IN  [ledger EXCEPT
        !.active    = @ + Min({value, Unlocking(chunks)}),
        !.unlocking = NotEmpty([i \in DOMAIN chunks |->
                                  [chunks[i] EXCEPT !.value = @ - Rebonded(chunks, value, i)]])]

-----------------------------------------------------------------------------
(***************************************************************************)
(* slash_stake.                                                            *)
(***************************************************************************)

(* The first chunk that was still bonded in the era of the offence, and    *)
(* one past the queue if there is none.                                    *)
FirstSlashable(chunks, boundary) ==
  Min({i \in DOMAIN chunks : chunks[i].era >= boundary} \cup {Len(chunks) + 1})

(* Mutant: the chunks of the time before the offence come first.           *)
PriorityOldFirst(chunks, first) ==
  [i \in DOMAIN chunks |->
     IF i < first THEN first - i ELSE i]

(* The order the chunks are slashed in: those of the time of the offence,  *)
(* oldest first, then the others, newest first.                            *)
Priority(chunks, first) ==
  [i \in DOMAIN chunks |->
     IF i <= Len(chunks) - first + 1 THEN first + i - 1 ELSE Len(chunks) - i + 1]

(* Proportional when some chunk is affected: the ratio, rounded up and at  *)
(* most one, of the slash to the active stake and the affected chunks.     *)
Ratio(ledger, amount, first) ==
  LET affected == ledger.active + UnlockingAt(ledger.unlocking, first .. Len(ledger.unlocking))
  IN  IF amount >= affected THEN Accuracy ELSE CeilDiv(amount * Accuracy, affected)

Share(target, ratio) == CeilDiv(target * ratio, Accuracy)         \* mul_ceil

(* What slash_out_of takes out of a target: no more than wanted, present   *)
(* and remaining, but the whole target if less than the minimum were left. *)
Cut(target, wanted, remaining, minimum) ==
  LET cut == Min({wanted, target, remaining})
  IN  IF target - cut < minimum THEN target ELSE cut

SlashStake(ledger, amount, minimum, boundary) ==
  LET chunks   == ledger.unlocking
      first    == FirstSlashable(chunks, boundary)
      ratio    == Ratio(ledger, amount, first)
      Wanted(target, remaining) ==
        IF first <= Len(chunks) THEN Share(target, ratio) ELSE remaining
      CutOf(target, remaining) == Cut(target, Wanted(target, remaining), remaining, minimum)
      activeCut == CutOf(ledger.active, amount)
      step(acc, i) ==
        IF acc.remaining = 0 THEN acc
        ELSE LET cut == CutOf(acc.chunks[i].value, acc.remaining)
             IN  [remaining |-> Less(acc.remaining, cut),
                  taken     |-> acc.taken + cut,
                  chunks    |-> [acc.chunks EXCEPT ![i].value = @ - cut]]
      end == FoldLeft(step,
                      [remaining |-> Less(amount, activeCut), taken |-> activeCut,
                       chunks |-> chunks],
                      Priority(chunks, first))
  IN  IF amount = 0 THEN ledger
      ELSE [ledger EXCEPT !.active    = @ - activeCut,
                          !.total     = Less(@, end.taken),
                          !.unlocking = NotEmpty(end.chunks)]
=============================================================================
