---------------------------- MODULE BondingProofs ----------------------------
(***************************************************************************)
(* Theorems about Bonding, for every supply, bonding duration and deferral *)
(* of slashes: the stake of the stash is backed by its balance, it cannot  *)
(* leave before it is slashed, and a stash that goes owes no more than     *)
(* dust.  They rest on what filtering, rebonding and slashing do to a      *)
(* queue of chunks of any length.  Theorems about LedgerCalls follow: what *)
(* slash_stake takes and spares, and what rebond and consolidate_unlocked  *)
(* give back, are exact for every ledger.                                  *)
(***************************************************************************)
EXTENDS Bonding, ErasProofs, LedgerCalls, RecursionTheorems

Chunk == [value : Nat, era : Nat]
Queue == Seq(Chunk)

-----------------------------------------------------------------------------
(* Folds over the numbers from 1 to n, the greatest last *)

(* A nonempty set of numbers up to n has a greatest one.                   *)
LEMMA GreatestNumber ==
  ASSUME NEW n \in Nat, NEW s \in SUBSET (1..n), s # {}
  PROVE  Max(s) \in s /\ \A x \in s : x <= Max(s)
<1> DEFINE T == {n - x : x \in s}
<1>1. T \subseteq Nat /\ T # {}
  <2>1. ASSUME NEW x \in s PROVE n - x \in Nat /\ n - x \in T
    <3>1. x \in 1..n
      OBVIOUS
    <3> QED
      BY <3>1
  <2>2. PICK x \in s : TRUE
    OBVIOUS
  <2> QED
    BY <2>1, <2>2
<1>2. PICK t \in T : \A y \in T : t <= y
  <2> HIDE DEF T
  <2> QED
    BY <1>1, LeastNatural
<1>3. PICK m \in s : t = n - m
  OBVIOUS
<1>4. \A x \in s : x <= m
  <2> SUFFICES ASSUME NEW x \in s PROVE x <= m
    OBVIOUS
  <2>1. n - x \in T
    OBVIOUS
  <2>2. n - m <= n - x /\ x \in Nat /\ m \in Nat
    BY <1>2, <1>3, <2>1
  <2> QED
    BY <2>2
<1>5. s \subseteq Int
  OBVIOUS
<1>6. Max(s) = m
  BY <1>4, <1>5, MaxIs
<1> QED
  BY <1>4, <1>6

LEMMA GreatestOfPrefix ==
  ASSUME NEW n \in Nat, n > 0
  PROVE  1..n # {} /\ Max(1..n) = n /\ (1..n) \ {n} = 1..(n - 1)
<1>1. n \in 1..n /\ 1..n \subseteq Int /\ \A x \in 1..n : x <= n
  OBVIOUS
<1>2. Max(1..n) = n
  BY <1>1, MaxIs
<1> QED
  BY <1>1, <1>2

IsFoldLeft(h, n, D, base, G) ==
  /\ h \in [SUBSET (1..n) -> D]
  /\ \A s \in SUBSET (1..n) : h[s] = IF s = {} THEN base ELSE G[<<Max(s), h[s \ {Max(s)}]>>]

(* What goes through the prefixes.                                         *)
StepsTo(K, n, D, base, G, end) ==
  /\ K \in [0..n -> D]
  /\ K[0] = base
  /\ K[n] = end
  /\ \A k \in 1..n : K[k] = G[<<k, K[k - 1]>>]

FollowsPrefixes(h, n, D, G) ==
  \A k \in 1..n : \A d \in D : h[1..(k - 1)] = d => h[1..k] = G[<<k, d>>]

(* The recursive function in FoldLeft exists.                              *)
LEMMA FoldLeftExists ==
  ASSUME NEW n \in Nat, NEW D, NEW base \in D, NEW G, G \in [(1..n) \X D -> D]
  PROVE  \E h : IsFoldLeft(h, n, D, base, G)
<1> DEFINE C == [s \in SUBSET (1..n) |-> Max(s)]
<1>1. IsFiniteSet(1..n)
  BY FS_Interval
<1>2. \A s \in SUBSET (1..n) : s # {} => C[s] \in s
  BY GreatestNumber
<1>3. \E h : IsFold(h, 1..n, D, base, G, C)
  <2> HIDE DEF C
  <2> QED
    BY <1>1, <1>2, FoldExists
<1>4. PICK h : IsFold(h, 1..n, D, base, G, C)
  BY <1>3
<1>5. \A s \in SUBSET (1..n) : h[s] = IF s = {} THEN base ELSE G[<<Max(s), h[s \ {Max(s)}]>>]
  BY <1>4 DEF IsFold
<1>6. h \in [SUBSET (1..n) -> D]
  BY <1>4 DEF IsFold
<1>7. IsFoldLeft(h, n, D, base, G)
  BY <1>5, <1>6 DEF IsFoldLeft
<1> QED
  BY <1>7

(* Whatever satisfies its equation goes through the prefixes.              *)
LEMMA FoldLeftSteps ==
  ASSUME NEW n \in Nat, NEW D, NEW base \in D, NEW G, G \in [(1..n) \X D -> D],
         NEW h, h[{}] = base, FollowsPrefixes(h, n, D, G)
  PROVE  \E K : StepsTo(K, n, D, base, G, h[1..n])
<1> DEFINE K == [k \in 0..n |-> h[1..k]]
           Good == {k \in Nat : k <= n => h[1..k] \in D}
<1>1. 0 \in Good
  <2>1. 1..0 = {}
    OBVIOUS
  <2> QED
    BY <2>1
<1>2. ASSUME NEW k \in Nat, k \in Good PROVE k + 1 \in Good
  <2> SUFFICES ASSUME k + 1 <= n PROVE h[1..(k + 1)] \in D
    OBVIOUS
  <2>1. PICK d \in D : h[1..k] = d
    BY <1>2
  <2>2. k + 1 \in 1..n /\ (k + 1) - 1 = k
    OBVIOUS
  <2>3. h[1..(k + 1)] = G[<<k + 1, d>>]
    BY <2>1, <2>2 DEF FollowsPrefixes
  <2> QED
    BY <2>2, <2>3
<1>3. Nat \subseteq Good
  <2> HIDE DEF Good
  <2> QED
    BY <1>1, <1>2, NatSetInduction
<1>4. \A k \in 0..n : h[1..k] \in D
  BY <1>3
<1>5. K \in [0..n -> D]
  BY <1>4
<1>6. K[0] = base
  <2>1. 1..0 = {}
    OBVIOUS
  <2> QED
    BY <2>1
<1>7. \A k \in 1..n : K[k] = G[<<k, K[k - 1]>>]
  <2> SUFFICES ASSUME NEW k \in 1..n PROVE K[k] = G[<<k, K[k - 1]>>]
    OBVIOUS
  <2>1. k - 1 \in 0..n /\ k \in 0..n
    OBVIOUS
  <2>2. PICK d \in D : h[1..(k - 1)] = d
    BY <1>4, <2>1
  <2>3. K[k] = h[1..k] /\ K[k - 1] = d
    BY <2>1, <2>2
  <2> QED
    BY <2>2, <2>3 DEF FollowsPrefixes
<1>8. K[n] = h[1..n]
  OBVIOUS
<1> HIDE DEF K
<1> QED
  BY <1>5, <1>6, <1>7, <1>8 DEF StepsTo

-----------------------------------------------------------------------------
(* Queues *)

(* What the chunks that are in T are worth together.                       *)
Held(c, T) == UnlockingAt(c, {i \in DOMAIN c : c[i] \in T})

Values(c) == [i \in DOMAIN c |-> c[i].value]

LEMMA QueueTypes ==
  ASSUME NEW c \in Queue
  PROVE  /\ Len(c) \in Nat /\ DOMAIN c = 1..Len(c)
         /\ \A i \in DOMAIN c : c[i] \in Chunk /\ c[i].value \in Nat /\ c[i].era \in Nat
         /\ IsFiniteSet(DOMAIN c)
<1>1. Len(c) \in Nat /\ DOMAIN c = 1..Len(c) /\ \A i \in 1..Len(c) : c[i] \in Chunk
  BY DEF Queue
<1>2. IsFiniteSet(1..Len(c))
  BY <1>1, FS_Interval
<1>3. \A x \in Chunk : x.value \in Nat /\ x.era \in Nat
  BY DEF Chunk
<1> QED
  BY <1>1, <1>2, <1>3

(* A sum over some of the chunks is a natural number.                      *)
LEMMA UnlockingAtType ==
  ASSUME NEW c \in Queue, NEW s \in SUBSET DOMAIN c
  PROVE  /\ UnlockingAt(c, s) \in Nat
         /\ UnlockingAt(c, s) <= Unlocking(c)
         /\ IsFiniteSet(s) /\ IntegersOn(Values(c), s)
         /\ UnlockingAt(c, s) = SumFunctionOnSet(Values(c), s)
<1>1. IsFiniteSet(s) /\ IsFiniteSet(DOMAIN c)
  BY QueueTypes, FS_Subset
<1>2. \A i \in DOMAIN c : Values(c)[i] \in Nat
  BY QueueTypes DEF Values
<1>3. IntegersOn(Values(c), s)
  BY <1>2 DEF IntegersOn
<1>4. UnlockingAt(c, s) = SumFunctionOnSet(Values(c), s) /\ Unlocking(c) = SumFunctionOnSet(Values(c), DOMAIN c)
  BY DEF UnlockingAt, Unlocking, Values
<1>5. \A i \in s : Values(c)[i] \in Nat
  BY <1>2
<1>6. SumFunctionOnSet(Values(c), s) \in Nat
  BY <1>1, <1>5, SumOfNaturals
<1>7. SumFunctionOnSet(Values(c), s) <= SumFunctionOnSet(Values(c), DOMAIN c)
  BY <1>1, <1>2, SumOfMore
<1> QED
  BY <1>1, <1>3, <1>4, <1>6, <1>7

LEMMA HeldType ==
  ASSUME NEW c \in Queue, NEW T
  PROVE  Held(c, T) \in Nat /\ Held(c, T) <= Unlocking(c) /\ Unlocking(c) \in Nat
<1>1. {i \in DOMAIN c : c[i] \in T} \in SUBSET DOMAIN c /\ DOMAIN c \in SUBSET DOMAIN c
  OBVIOUS
<1>2. UnlockingAt(c, {i \in DOMAIN c : c[i] \in T}) \in Nat
      /\ UnlockingAt(c, {i \in DOMAIN c : c[i] \in T}) <= Unlocking(c)
  BY <1>1, UnlockingAtType
<1>3. UnlockingAt(c, DOMAIN c) \in Nat
  BY <1>1, UnlockingAtType
<1> QED
  BY <1>2, <1>3 DEF Held, Unlocking

(* The empty queue holds nothing.                                          *)
LEMMA HeldByNone ==
  ASSUME NEW T
  PROVE  <<>> \in Queue /\ Held(<<>>, T) = 0 /\ Unlocking(<<>>) = 0
<1>1. <<>> \in Queue /\ DOMAIN <<>> = {} /\ {i \in DOMAIN <<>> : <<>>[i] \in T} = {}
  BY DEF Queue
<1>2. UnlockingAt(<<>>, {}) = 0
  BY SumEmpty DEF UnlockingAt
<1> QED
  BY <1>1, <1>2 DEF Held, Unlocking

(* All chunks of a set that has them all.                                  *)
LEMMA HeldByAll ==
  ASSUME NEW c \in Queue, NEW T, \A i \in DOMAIN c : c[i] \in T
  PROVE  Held(c, T) = Unlocking(c)
<1>1. {i \in DOMAIN c : c[i] \in T} = DOMAIN c
  OBVIOUS
<1> QED
  BY <1>1 DEF Held, Unlocking

(* Two sets that agree on the chunks.                                      *)
LEMMA HeldCongruence ==
  ASSUME NEW c, NEW S, NEW T, \A i \in DOMAIN c : c[i] \in S <=> c[i] \in T
  PROVE  Held(c, S) = Held(c, T)
<1>1. {i \in DOMAIN c : c[i] \in S} = {i \in DOMAIN c : c[i] \in T}
  OBVIOUS
<1> QED
  BY <1>1 DEF Held

(* Chunks of two kinds.                                                    *)
LEMMA HeldSplit ==
  ASSUME NEW c \in Queue, NEW S, NEW T,
         \A i \in DOMAIN c : (c[i] \in S) # (c[i] \in T)
  PROVE  Unlocking(c) = Held(c, S) + Held(c, T)
<1>1. PICK R \in SUBSET DOMAIN c : R = {i \in DOMAIN c : c[i] \in S}
  OBVIOUS
<1>2. PICK Q \in SUBSET DOMAIN c : Q = {i \in DOMAIN c : c[i] \in T}
  OBVIOUS
<1>3. R \cap Q = {} /\ R \cup Q = DOMAIN c
  BY <1>1, <1>2
<1>4. IsFiniteSet(R) /\ IsFiniteSet(Q) /\ IntegersOn(Values(c), DOMAIN c)
  BY UnlockingAtType
<1>5. SumFunctionOnSet(Values(c), DOMAIN c)
        = SumFunctionOnSet(Values(c), R) + SumFunctionOnSet(Values(c), Q)
  BY <1>3, <1>4, SumSplit
<1> QED
  BY <1>1, <1>2, <1>5 DEF Held, Unlocking, UnlockingAt, Values

-----------------------------------------------------------------------------
(* Appending *)

LEMMA HeldAppend ==
  ASSUME NEW c \in Queue, NEW x \in Chunk, NEW T
  PROVE  /\ Append(c, x) \in Queue
         /\ Held(Append(c, x), T) = Held(c, T) + (IF x \in T THEN x.value ELSE 0)
<1> DEFINE d == Append(c, x)
<1>1. PICK n \in Nat : n = Len(c)
  BY QueueTypes
<1>2. d \in Queue /\ DOMAIN d = 1..(n + 1) /\ DOMAIN c = 1..n /\ d[n + 1] = x
      /\ \A i \in 1..n : d[i] = c[i]
  BY <1>1 DEF Queue
<1> HIDE DEF d
<1>3. PICK J \in SUBSET DOMAIN c : J = {i \in DOMAIN c : c[i] \in T}
  OBVIOUS
<1>4. J \in SUBSET DOMAIN d /\ n + 1 \notin J /\ J \cup {n + 1} \in SUBSET DOMAIN d
  BY <1>2
<1>5. SumFunctionOnSet(Values(d), J) = SumFunctionOnSet(Values(c), J)
  <2>1. IsFiniteSet(J) /\ IntegersOn(Values(d), J)
    BY <1>2, <1>4, UnlockingAtType
  <2>2. \A i \in J : Values(d)[i] = Values(c)[i]
    BY <1>2 DEF Values
  <2> QED
    BY <2>1, <2>2, SumCongruence
<1>6. Held(c, T) = SumFunctionOnSet(Values(d), J)
  BY <1>3, <1>5, UnlockingAtType DEF Held
<1>7. CASE x \in T
  <2>1. {i \in DOMAIN d : d[i] \in T} = J \cup {n + 1}
    BY <1>2, <1>3, <1>7
  <2>2. IsFiniteSet(J) /\ IntegersOn(Values(d), J \cup {n + 1})
    BY <1>2, <1>4, UnlockingAtType
  <2>3. SumFunctionOnSet(Values(d), J \cup {n + 1}) = SumFunctionOnSet(Values(d), J) + Values(d)[n + 1]
    BY <1>4, <2>2, SumAdd
  <2>4. Values(d)[n + 1] = x.value
    BY <1>2 DEF Values
  <2>5. Held(d, T) = SumFunctionOnSet(Values(d), J \cup {n + 1})
    BY <2>1, <1>2, <1>4, UnlockingAtType DEF Held
  <2> QED
    BY <1>2, <1>6, <1>7, <2>3, <2>4, <2>5 DEF d
<1>8. CASE x \notin T
  <2>1. {i \in DOMAIN d : d[i] \in T} = J
    BY <1>2, <1>3, <1>8
  <2>2. Held(d, T) = SumFunctionOnSet(Values(d), J)
    BY <2>1, <1>2, <1>4, UnlockingAtType DEF Held
  <2>3. Held(c, T) \in Nat
    BY HeldType
  <2> QED
    BY <1>2, <1>6, <1>8, <2>2, <2>3 DEF d
<1> QED
  BY <1>7, <1>8

(* The sum of all chunks after an append.                                  *)
LEMMA UnlockingAppend ==
  ASSUME NEW c \in Queue, NEW x \in Chunk
  PROVE  Unlocking(Append(c, x)) = Unlocking(c) + x.value
<1>1. Append(c, x) \in Queue
  BY HeldAppend
<1>2. Held(Append(c, x), Chunk) = Unlocking(Append(c, x)) /\ Held(c, Chunk) = Unlocking(c)
  BY <1>1, HeldByAll, QueueTypes
<1>3. Held(Append(c, x), Chunk) = Held(c, Chunk) + x.value
  BY HeldAppend
<1> QED
  BY <1>2, <1>3

-----------------------------------------------------------------------------
(* Keep *)

KeepStep(h, c, S, s) ==
  IF s = {} THEN <<>>
  ELSE LET x == Max(s)
       IN  IF c[x] \in S THEN Append(h[s \ {x}], c[x]) ELSE h[s \ {x}]

(* Filtering goes through the queue chunk by chunk.                        *)
IsKeep(K, c, S) ==
  /\ K \in [0..Len(c) -> Queue]
  /\ K[0] = <<>>
  /\ \A k \in 1..Len(c) : K[k] = IF c[k] \in S THEN Append(K[k - 1], c[k]) ELSE K[k - 1]
  /\ Keep(c, S) = K[Len(c)]

LEMMA KeepSteps ==
  ASSUME NEW c \in Queue, NEW S
  PROVE  \E K : IsKeep(K, c, S)
<1>1. PICK n \in Nat : n = Len(c) /\ DOMAIN c = 1..n /\ \A i \in 1..n : c[i] \in Chunk
  BY QueueTypes
<1> DEFINE G == [p \in (1..n) \X Queue |-> IF c[p[1]] \in S THEN Append(p[2], c[p[1]]) ELSE p[2]]
<1>2. \A k \in 1..n : \A d \in Queue :
        /\ G[<<k, d>>] = IF c[k] \in S THEN Append(d, c[k]) ELSE d
        /\ G[<<k, d>>] \in Queue
  BY <1>1, HeldAppend
<1>3. G \in [(1..n) \X Queue -> Queue]
  <2>1. \A p \in (1..n) \X Queue : (IF c[p[1]] \in S THEN Append(p[2], c[p[1]]) ELSE p[2]) \in Queue
    BY <1>1, HeldAppend
  <2> QED
    BY <2>1
<1> HIDE DEF G
<1>4. <<>> \in Queue
  BY DEF Queue
<1> DEFINE h == CHOOSE h : h = [s \in SUBSET (DOMAIN c) |-> KeepStep(h, c, S, s)]
<1>5. \E g : g = [s \in SUBSET (DOMAIN c) |-> KeepStep(g, c, S, s)]
  <2>1. PICK g : IsFoldLeft(g, n, Queue, <<>>, G)
    BY <1>3, <1>4, FoldLeftExists
  <2>2. g \in [SUBSET (1..n) -> Queue] /\
          \A s \in SUBSET (1..n) : g[s] = IF s = {} THEN <<>> ELSE G[<<Max(s), g[s \ {Max(s)}]>>]
    BY <2>1 DEF IsFoldLeft
  <2>3. ASSUME NEW s \in SUBSET (1..n) PROVE g[s] = KeepStep(g, c, S, s)
    <3>1. CASE s = {}
      BY <2>2, <3>1 DEF KeepStep
    <3>2. CASE s # {}
      <4>1. PICK m \in 1..n : m = Max(s)
        BY <3>2, GreatestNumber
      <4>2. PICK d \in Queue : d = g[s \ {m}]
        BY <2>2
      <4>3. g[s] = G[<<m, d>>]
        BY <2>2, <3>2, <4>1, <4>2
      <4> QED
        BY <1>2, <3>2, <4>1, <4>2, <4>3 DEF KeepStep
    <3> QED
      BY <3>1, <3>2
  <2>4. g = [s \in SUBSET (DOMAIN c) |-> KeepStep(g, c, S, s)]
    BY <1>1, <2>2, <2>3
  <2> QED
    BY <2>4
<1>6. h = [s \in SUBSET (DOMAIN c) |-> KeepStep(h, c, S, s)]
  BY <1>5
<1>7. Keep(c, S) = h[DOMAIN c]
  BY DEF Keep, FoldLeft, MapThenFoldSet, KeepStep
<1> HIDE DEF h
<1>8. \A s \in SUBSET (1..n) : h[s] = KeepStep(h, c, S, s)
  <2>1. \A s \in SUBSET (DOMAIN c) : [r \in SUBSET (DOMAIN c) |-> KeepStep(h, c, S, r)][s] = KeepStep(h, c, S, s)
    OBVIOUS
  <2> QED
    BY <1>1, <1>6, <2>1
<1>9. h[{}] = <<>>
  BY <1>8 DEF KeepStep
<1>10. ASSUME NEW k \in 1..n, NEW d \in Queue, h[1..(k - 1)] = d
       PROVE  h[1..k] = G[<<k, d>>]
  <2>1. 1..k # {} /\ Max(1..k) = k /\ (1..k) \ {k} = 1..(k - 1) /\ 1..k \in SUBSET (1..n)
    BY GreatestOfPrefix
  <2>2. h[1..k] = IF c[k] \in S THEN Append(d, c[k]) ELSE d
    BY <1>8, <1>10, <2>1 DEF KeepStep
  <2> QED
    BY <1>2, <2>2
<1>11. FollowsPrefixes(h, n, Queue, G)
  BY <1>10 DEF FollowsPrefixes
<1>12. PICK K : StepsTo(K, n, Queue, <<>>, G, h[1..n])
  BY <1>3, <1>4, <1>9, <1>11, FoldLeftSteps
<1>13. K \in [0..n -> Queue] /\
         K[0] = <<>> /\ (\A k \in 1..n : K[k] = G[<<k, K[k - 1]>>]) /\ K[n] = h[1..n]
  BY <1>12 DEF StepsTo
<1>14. \A k \in 1..n : K[k] = IF c[k] \in S THEN Append(K[k - 1], c[k]) ELSE K[k - 1]
  <2> SUFFICES ASSUME NEW k \in 1..n PROVE K[k] = IF c[k] \in S THEN Append(K[k - 1], c[k]) ELSE K[k - 1]
    OBVIOUS
  <2>1. K[k - 1] \in Queue
    BY <1>13
  <2> QED
    BY <1>2, <1>13, <2>1
<1> QED
  BY <1>1, <1>7, <1>13, <1>14 DEF IsKeep

LEMMA UnlockingAdd ==
  ASSUME NEW c \in Queue, NEW J \in SUBSET DOMAIN c, NEW k \in DOMAIN c, k \notin J
  PROVE  UnlockingAt(c, J \cup {k}) = UnlockingAt(c, J) + c[k].value
<1>1. J \cup {k} \in SUBSET DOMAIN c
  OBVIOUS
<1>2. IsFiniteSet(J) /\ IntegersOn(Values(c), J \cup {k})
  BY <1>1, UnlockingAtType
<1>3. SumFunctionOnSet(Values(c), J \cup {k}) = SumFunctionOnSet(Values(c), J) + Values(c)[k]
  BY <1>2, SumAdd
<1>4. Values(c)[k] = c[k].value
  BY DEF Values
<1> QED
  BY <1>1, <1>3, <1>4, UnlockingAtType

(* What is kept is worth what it was worth.                                *)
LEMMA HeldKeep ==
  ASSUME NEW c \in Queue, NEW S, NEW T
  PROVE  Held(Keep(c, S), T) = Held(c, S \cap T)
<1>1. PICK K : IsKeep(K, c, S)
  BY KeepSteps
<1>2. PICK n \in Nat : n = Len(c) /\ DOMAIN c = 1..n /\ \A i \in 1..n : c[i] \in Chunk /\ c[i].value \in Nat
  BY QueueTypes
<1> DEFINE At(k) == {i \in 1..k : c[i] \in S \cap T}
           Good == {k \in Nat : k <= n => Held(K[k], T) = UnlockingAt(c, At(k))}
<1>3. 0 \in Good
  <2>1. K[0] = <<>> /\ At(0) = {}
    BY <1>1 DEF IsKeep
  <2>2. UnlockingAt(c, {}) = 0
    BY SumEmpty DEF UnlockingAt
  <2> QED
    BY <2>1, <2>2, HeldByNone
<1>4. ASSUME NEW k \in Nat, k \in Good PROVE k + 1 \in Good
  <2> SUFFICES ASSUME k + 1 <= n PROVE Held(K[k + 1], T) = UnlockingAt(c, At(k + 1))
    OBVIOUS
  <2>1. Held(K[k], T) = UnlockingAt(c, At(k))
    BY <1>4
  <2>2. K[k] \in Queue /\ k + 1 \in 1..n /\ (k + 1) - 1 = k
    <3>1. k \in 0..n /\ k + 1 \in 1..n /\ (k + 1) - 1 = k
      OBVIOUS
    <3>2. K \in [0..n -> Queue]
      BY <1>1, <1>2 DEF IsKeep
    <3> QED
      BY <3>1, <3>2
  <2>3. K[k + 1] = IF c[k + 1] \in S THEN Append(K[k], c[k + 1]) ELSE K[k]
    BY <1>1, <1>2, <2>2 DEF IsKeep
  <2>4. c[k + 1] \in Chunk /\ c[k + 1].value \in Nat /\ At(k) \in SUBSET DOMAIN c /\ k + 1 \notin At(k)
    BY <1>2, <2>2
  <2>5. UnlockingAt(c, At(k)) \in Nat
    BY <2>4, UnlockingAtType
  <2>6. CASE c[k + 1] \in S /\ c[k + 1] \in T
    <3>1. At(k + 1) = At(k) \cup {k + 1}
      BY <2>6
    <3>2. UnlockingAt(c, At(k) \cup {k + 1}) = UnlockingAt(c, At(k)) + c[k + 1].value
      BY <1>2, <2>2, <2>4, UnlockingAdd
    <3>3. Held(Append(K[k], c[k + 1]), T) = Held(K[k], T) + c[k + 1].value
      BY <2>2, <2>4, <2>6, HeldAppend
    <3> QED
      BY <2>1, <2>3, <2>6, <3>1, <3>2, <3>3
  <2>7. CASE c[k + 1] \in S /\ c[k + 1] \notin T
    <3>1. At(k + 1) = At(k)
      BY <2>7
    <3>2. Held(Append(K[k], c[k + 1]), T) = Held(K[k], T) + 0
      BY <2>2, <2>4, <2>7, HeldAppend
    <3>3. Held(K[k], T) + 0 = Held(K[k], T)
      BY <2>1, <2>5
    <3>4. Held(K[k + 1], T) = Held(K[k], T)
      BY <2>3, <2>7, <3>2, <3>3, Zenon
    <3> QED
      BY <2>1, <3>1, <3>4
  <2>8. CASE c[k + 1] \notin S
    <3>1. At(k + 1) = At(k)
      BY <2>8
    <3> QED
      BY <2>1, <2>3, <2>8, <3>1
  <2> QED
    BY <2>6, <2>7, <2>8
<1>5. n \in Good
  <2> HIDE DEF Good
  <2>1. Nat \subseteq Good
    BY <1>3, <1>4, NatSetInduction
  <2> QED
    BY <2>1
<1>6. Held(K[n], T) = UnlockingAt(c, At(n))
  BY <1>5
<1>7. Keep(c, S) = K[n] /\ At(n) = {i \in DOMAIN c : c[i] \in S \cap T}
  BY <1>1, <1>2 DEF IsKeep
<1> QED
  BY <1>6, <1>7 DEF Held

LEMMA UnlockingKeep ==
  ASSUME NEW c \in Queue, NEW S
  PROVE  Keep(c, S) \in Queue /\ Unlocking(Keep(c, S)) = Held(c, S)
<1>1. Keep(c, S) \in Queue
  <2>1. PICK K : IsKeep(K, c, S)
    BY KeepSteps
  <2>2. Len(c) \in Nat
    BY QueueTypes
  <2> QED
    BY <2>1, <2>2 DEF IsKeep
<1>2. Held(Keep(c, S), Chunk) = Unlocking(Keep(c, S))
  BY <1>1, HeldByAll, QueueTypes
<1>3. Held(Keep(c, S), Chunk) = Held(c, S \cap Chunk)
  BY HeldKeep
<1>4. Held(c, S \cap Chunk) = Held(c, S)
  BY HeldCongruence, QueueTypes
<1> QED
  BY <1>1, <1>2, <1>3, <1>4

(* What is kept was there, in that order.                                  *)
Ascending(c) == \A i \in DOMAIN c : \A j \in 1..(i - 1) : c[j].era < c[i].era

From(d, c, k, S) == \A j \in DOMAIN d : d[j] \in S /\ \E i \in 1..k : d[j] = c[i]

LEMMA KeepFrom ==
  ASSUME NEW c \in Queue, NEW S
  PROVE  /\ From(Keep(c, S), c, Len(c), S)
         /\ Ascending(c) => Ascending(Keep(c, S))
<1>1. PICK K : IsKeep(K, c, S)
  BY KeepSteps
<1>2. PICK n \in Nat : n = Len(c) /\ DOMAIN c = 1..n
                       /\ \A i \in 1..n : c[i] \in Chunk /\ c[i].era \in Nat
  BY QueueTypes
<1> DEFINE Good == {k \in Nat : k <= n => From(K[k], c, k, S) /\ (Ascending(c) => Ascending(K[k]))}
<1>3. 0 \in Good
  <2>1. K[0] = <<>>
    BY <1>1 DEF IsKeep
  <2> QED
    BY <2>1 DEF From, Ascending
<1>4. ASSUME NEW k \in Nat, k \in Good PROVE k + 1 \in Good
  <2> SUFFICES ASSUME k + 1 <= n
               PROVE  From(K[k + 1], c, k + 1, S) /\ (Ascending(c) => Ascending(K[k + 1]))
    OBVIOUS
  <2>1. From(K[k], c, k, S) /\ (Ascending(c) => Ascending(K[k]))
    BY <1>4
  <2>2. K[k] \in Queue /\ k + 1 \in 1..n /\ (k + 1) - 1 = k
    <3>1. k \in 0..n /\ k + 1 \in 1..n /\ (k + 1) - 1 = k
      OBVIOUS
    <3>2. K \in [0..n -> Queue]
      BY <1>1, <1>2 DEF IsKeep
    <3> QED
      BY <3>1, <3>2
  <2>3. K[k + 1] = IF c[k + 1] \in S THEN Append(K[k], c[k + 1]) ELSE K[k]
    BY <1>1, <1>2, <2>2 DEF IsKeep
  <2>4. From(K[k], c, k + 1, S)
    <3>1. ASSUME NEW j \in DOMAIN K[k] PROVE K[k][j] \in S /\ \E i \in 1..(k + 1) : K[k][j] = c[i]
      <4>1. PICK i \in 1..k : K[k][j] = c[i]
        BY <2>1 DEF From
      <4>2. i \in 1..(k + 1)
        OBVIOUS
      <4> QED
        BY <2>1, <4>1, <4>2 DEF From
    <3> QED
      BY <3>1 DEF From
  <2>5. CASE c[k + 1] \in S
    <3>1. PICK m \in Nat : m = Len(K[k]) /\ DOMAIN K[k] = 1..m
      BY <2>2, QueueTypes
    <3>2. PICK d : d = Append(K[k], c[k + 1])
      OBVIOUS
    <3>3. DOMAIN d = 1..(m + 1) /\ d[m + 1] = c[k + 1] /\ \A j \in 1..m : d[j] = K[k][j]
      BY <1>2, <2>2, <3>1, <3>2 DEF Queue
    <3>4. From(d, c, k + 1, S)
      <4>1. ASSUME NEW j \in 1..(m + 1) PROVE d[j] \in S /\ \E i \in 1..(k + 1) : d[j] = c[i]
        <5>1. CASE j = m + 1
          BY <2>5, <3>3, <5>1
        <5>2. CASE j # m + 1
          <6>1. j \in DOMAIN K[k] /\ d[j] = K[k][j]
            BY <3>1, <3>3, <5>2
          <6> QED
            BY <2>4, <6>1 DEF From
        <5> QED
          BY <5>1, <5>2
      <4> QED
        BY <3>3, <4>1 DEF From
    <3>5. ASSUME Ascending(c) PROVE Ascending(d)
      <4>1. ASSUME NEW i \in 1..(m + 1), NEW j \in 1..(i - 1) PROVE d[j].era < d[i].era
        <5>1. j \in 1..m /\ d[j] = K[k][j]
          BY <3>3
        <5>2. CASE i = m + 1
          <6>1. PICK x \in 1..k : K[k][j] = c[x]
            BY <2>1, <3>1, <5>1 DEF From
          <6>2. x \in 1..((k + 1) - 1) /\ k + 1 \in DOMAIN c
            BY <1>2, <2>2
          <6>3. c[x].era < c[k + 1].era
            BY <3>5, <6>2 DEF Ascending
          <6> QED
            BY <3>3, <5>1, <5>2, <6>1, <6>3
        <5>3. CASE i # m + 1
          <6>1. i \in DOMAIN K[k] /\ d[i] = K[k][i]
            BY <3>1, <3>3, <5>3
          <6>2. K[k][j].era < K[k][i].era
            BY <2>1, <3>5, <6>1 DEF Ascending
          <6> QED
            BY <5>1, <6>1, <6>2
        <5> QED
          BY <5>2, <5>3
      <4> QED
        BY <3>3, <4>1 DEF Ascending
    <3> QED
      BY <2>3, <2>5, <3>2, <3>4, <3>5
  <2>6. CASE c[k + 1] \notin S
    BY <2>1, <2>3, <2>4, <2>6
  <2> QED
    BY <2>5, <2>6
<1>5. n \in Good
  <2> HIDE DEF Good
  <2>1. Nat \subseteq Good
    BY <1>3, <1>4, NatSetInduction
  <2> QED
    BY <2>1
<1>6. Keep(c, S) = K[n]
  BY <1>1, <1>2 DEF IsKeep
<1> QED
  BY <1>2, <1>5, <1>6

-----------------------------------------------------------------------------
(* Shapes *)

Since(b) == {x \in Chunk : x.era >= b}

(* Not empty, one for each era, and none beyond `bound`.                    *)
Shape(c, bound) ==
  /\ Ascending(c)
  /\ \A i \in DOMAIN c : c[i].value > 0 /\ c[i].era <= bound

(* The same chunks, worth less.                                            *)
Trimmed(c, d) ==
  /\ d \in Queue
  /\ DOMAIN d = DOMAIN c
  /\ \A i \in DOMAIN c : d[i].era = c[i].era /\ d[i].value <= c[i].value

LEMMA KeepShape ==
  ASSUME NEW c \in Queue, NEW S, NEW bound, Shape(c, bound)
  PROVE  Shape(Keep(c, S), bound)
<1>1. From(Keep(c, S), c, Len(c), S) /\ Ascending(Keep(c, S))
  BY KeepFrom DEF Shape
<1>2. ASSUME NEW j \in DOMAIN Keep(c, S) PROVE Keep(c, S)[j].value > 0 /\ Keep(c, S)[j].era <= bound
  <2>1. PICK i \in 1..Len(c) : Keep(c, S)[j] = c[i]
    BY <1>1 DEF From
  <2>2. i \in DOMAIN c
    BY QueueTypes
  <2> QED
    BY <2>1, <2>2 DEF Shape
<1> QED
  BY <1>1, <1>2 DEF Shape

(* Of what is lost, no chunk loses more than all chunks together.          *)
LEMMA TrimmedHeld ==
  ASSUME NEW c \in Queue, NEW d, Trimmed(c, d), NEW b \in Int
  PROVE  /\ Unlocking(d) <= Unlocking(c)
         /\ Held(c, Since(b)) - Held(d, Since(b)) <= Unlocking(c) - Unlocking(d)
<1> DEFINE Older == {x \in Chunk : x.era < b}
<1>1. d \in Queue /\ DOMAIN d = DOMAIN c
  BY DEF Trimmed
<1>2. \A x \in Chunk : (x \in Since(b)) # (x \in Older)
  BY DEF Since, Chunk
<1>3. Unlocking(c) = Held(c, Since(b)) + Held(c, Older) /\ Unlocking(d) = Held(d, Since(b)) + Held(d, Older)
  <2>1. \A i \in DOMAIN c : (c[i] \in Since(b)) # (c[i] \in Older)
    BY <1>2, QueueTypes
  <2>2. \A i \in DOMAIN d : (d[i] \in Since(b)) # (d[i] \in Older)
    BY <1>1, <1>2, QueueTypes
  <2> HIDE DEF Older
  <2> QED
    BY <1>1, <2>1, <2>2, HeldSplit
<1>4. ASSUME NEW T, \A i \in DOMAIN c : c[i] \in T <=> d[i] \in T
      PROVE  Held(d, T) <= Held(c, T)
  <2>1. PICK s \in SUBSET DOMAIN c : s = {i \in DOMAIN c : c[i] \in T}
    OBVIOUS
  <2>2. s = {i \in DOMAIN d : d[i] \in T}
    BY <1>1, <1>4, <2>1
  <2>3. IsFiniteSet(s) /\ IntegersOn(Values(c), s) /\ IntegersOn(Values(d), s)
    BY <1>1, UnlockingAtType
  <2>4. \A i \in s : Values(d)[i] <= Values(c)[i]
    BY <1>1 DEF Trimmed, Values
  <2>5. SumFunctionOnSet(Values(d), s) <= SumFunctionOnSet(Values(c), s)
    BY <2>3, <2>4, SumMonotone
  <2> QED
    BY <2>1, <2>2, <2>5 DEF Held, UnlockingAt, Values
<1>5. Held(d, Since(b)) <= Held(c, Since(b))
  <2>1. \A i \in DOMAIN c : c[i] \in Since(b) <=> d[i] \in Since(b)
    BY <1>1, QueueTypes DEF Since, Trimmed
  <2> QED
    BY <1>4, <2>1
<1>6. Held(d, Older) <= Held(c, Older)
  <2>1. \A i \in DOMAIN c : c[i] \in Older <=> d[i] \in Older
    BY <1>1, QueueTypes DEF Trimmed
  <2> QED
    BY <1>4, <2>1
<1>7. Held(c, Since(b)) \in Nat /\ Held(d, Since(b)) \in Nat /\ Held(c, Older) \in Nat /\ Held(d, Older) \in Nat
  BY <1>1, HeldType
<1> HIDE DEF Older
<1> QED
  BY <1>3, <1>5, <1>6, <1>7

(* Empty chunks are worth nothing.                                         *)
LEMMA NotEmptyHeld ==
  ASSUME NEW d \in Queue
  PROVE  /\ NotEmpty(d) \in Queue
         /\ Unlocking(NotEmpty(d)) = Unlocking(d)
         /\ \A b : Held(NotEmpty(d), Since(b)) = Held(d, Since(b))
<1> DEFINE S == {x \in Range(d) : x.value # 0}
<1>1. NotEmpty(d) = Keep(d, S)
  BY DEF NotEmpty
<1>2. \A i \in DOMAIN d : d[i] \in S <=> d[i].value # 0
  BY DEF Range
<1> HIDE DEF S
<1>3. ASSUME NEW T PROVE Held(d, S \cap T) = Held(d, T)
  <2>1. PICK s \in SUBSET DOMAIN d : s = {i \in DOMAIN d : d[i] \in S \cap T}
    OBVIOUS
  <2>2. PICK r \in SUBSET DOMAIN d : r = {i \in DOMAIN d : d[i] \in T /\ d[i] \notin S}
    OBVIOUS
  <2>3. s \cap r = {} /\ s \cup r = {i \in DOMAIN d : d[i] \in T} /\ s \cup r \in SUBSET DOMAIN d
    BY <2>1, <2>2
  <2>4. IsFiniteSet(s) /\ IsFiniteSet(r) /\ IntegersOn(Values(d), s \cup r)
    BY <2>3, UnlockingAtType
  <2>5. SumFunctionOnSet(Values(d), s \cup r) = SumFunctionOnSet(Values(d), s) + SumFunctionOnSet(Values(d), r)
    BY <2>3, <2>4, SumSplit
  <2>6. SumFunctionOnSet(Values(d), r) = 0
    <3>1. \A i \in r : Values(d)[i] = 0
      BY <1>2, <2>2 DEF Values
    <3> QED
      BY <2>4, <3>1, SumOfZeros
  <2>7. UnlockingAt(d, s) \in Nat /\ UnlockingAt(d, s) = SumFunctionOnSet(Values(d), s)
        /\ UnlockingAt(d, s \cup r) = SumFunctionOnSet(Values(d), s \cup r)
    BY <2>3, UnlockingAtType
  <2>8. UnlockingAt(d, s \cup r) = UnlockingAt(d, s)
    BY <2>5, <2>6, <2>7
  <2> QED
    BY <2>1, <2>3, <2>8 DEF Held
<1>4. Held(d, S) = Unlocking(d)
  <2>1. Held(d, S \cap Chunk) = Held(d, Chunk)
    BY <1>3
  <2>2. Held(d, S \cap Chunk) = Held(d, S)
    BY HeldCongruence, QueueTypes
  <2>3. Held(d, Chunk) = Unlocking(d)
    BY HeldByAll, QueueTypes
  <2> QED
    BY <2>1, <2>2, <2>3
<1>5. Keep(d, S) \in Queue /\ Unlocking(Keep(d, S)) = Held(d, S)
  BY UnlockingKeep
<1>6. \A b : Held(Keep(d, S), Since(b)) = Held(d, Since(b))
  <2> SUFFICES ASSUME NEW b PROVE Held(Keep(d, S), Since(b)) = Held(d, Since(b))
    OBVIOUS
  <2>1. PICK T : T = Since(b)
    OBVIOUS
  <2>2. Held(Keep(d, S), T) = Held(d, S \cap T)
    BY HeldKeep
  <2> QED
    BY <1>3, <2>1, <2>2
<1> QED
  BY <1>1, <1>4, <1>5, <1>6

LEMMA NotEmptyShape ==
  ASSUME NEW c \in Queue, NEW bound, Shape(c, bound), NEW d, Trimmed(c, d)
  PROVE  Shape(NotEmpty(d), bound)
<1> DEFINE S == {x \in Range(d) : x.value # 0}
<1>1. NotEmpty(d) = Keep(d, S)
  BY DEF NotEmpty
<1>2. d \in Queue /\ DOMAIN d = DOMAIN c
  BY DEF Trimmed
<1>3. Ascending(d)
  <2>1. ASSUME NEW i \in DOMAIN d, NEW j \in 1..(i - 1) PROVE d[j].era < d[i].era
    <3>1. i \in DOMAIN c /\ j \in DOMAIN c
      <4>1. Len(c) \in Nat /\ DOMAIN c = 1..Len(c)
        BY QueueTypes
      <4> QED
        BY <1>2, <4>1
    <3>2. c[j].era < c[i].era
      BY <3>1 DEF Shape, Ascending
    <3> QED
      BY <3>1, <3>2 DEF Trimmed
  <2> QED
    BY <2>1 DEF Ascending
<1>4. From(Keep(d, S), d, Len(d), S) /\ Ascending(Keep(d, S))
  <2> HIDE DEF S
  <2> QED
    BY <1>2, <1>3, KeepFrom
<1>5. ASSUME NEW j \in DOMAIN Keep(d, S) PROVE Keep(d, S)[j].value > 0 /\ Keep(d, S)[j].era <= bound
  <2>1. PICK i \in 1..Len(d) : Keep(d, S)[j] = d[i]
    BY <1>4 DEF From
  <2>2. Keep(d, S)[j] \in S
    BY <1>4 DEF From
  <2>3. i \in DOMAIN d /\ d[i].value \in Nat /\ d[i].value # 0
    BY <1>2, <2>1, <2>2, QueueTypes
  <2>4. d[i].era <= bound
    BY <1>2, <2>3 DEF Trimmed, Shape
  <2> QED
    BY <2>1, <2>3, <2>4
<1> QED
  BY <1>1, <1>4, <1>5 DEF Shape

(* Eras that grow leave room for no more chunks than there are eras.       *)
LEMMA ShapeLeavesRoom ==
  ASSUME NEW c \in Queue, NEW e \in Nat, NEW duration \in Nat, Shape(c, e + duration),
         \A i \in DOMAIN c : c[i].era > e
  PROVE  Len(c) <= duration
<1>1. PICK n \in Nat : n = Len(c) /\ DOMAIN c = 1..n /\ \A i \in 1..n : c[i].era \in Nat
  BY QueueTypes
<1> DEFINE Good == {k \in Nat : k \in 1..n => c[k].era >= e + k}
<1>2. 0 \in Good
  OBVIOUS
<1>3. ASSUME NEW k \in Nat, k \in Good PROVE k + 1 \in Good
  <2> SUFFICES ASSUME k + 1 \in 1..n PROVE c[k + 1].era >= e + (k + 1)
    OBVIOUS
  <2>1. c[k + 1].era \in Nat /\ c[k + 1].era > e
    BY <1>1
  <2>2. CASE k = 0
    BY <2>1, <2>2
  <2>3. CASE k # 0
    <3>1. k \in 1..n /\ k \in 1..((k + 1) - 1)
      BY <2>3
    <3>2. c[k].era < c[k + 1].era
      BY <1>1, <3>1 DEF Shape, Ascending
    <3>3. c[k].era >= e + k /\ c[k].era \in Nat
      BY <1>1, <1>3, <3>1
    <3> QED
      BY <2>1, <3>2, <3>3
  <2> QED
    BY <2>2, <2>3
<1>4. Nat \subseteq Good
  <2> HIDE DEF Good
  <2> QED
    BY <1>2, <1>3, NatSetInduction
<1>5. CASE n = 0
  BY <1>1, <1>5
<1>6. CASE n # 0
  <2>1. n \in 1..n /\ n \in Good
    BY <1>4, <1>6
  <2>2. c[n].era >= e + n /\ c[n].era <= e + duration /\ c[n].era \in Nat
    BY <1>1, <2>1 DEF Shape
  <2> QED
    BY <1>1, <2>2
<1> QED
  BY <1>5, <1>6

-----------------------------------------------------------------------------
(* Ledgers *)

LedgerType == [total : Nat, active : Nat, unlocking : Queue]

Sound(l, bound) ==
  /\ l \in LedgerType
  /\ l.total = l.active + Unlocking(l.unlocking)
  /\ Shape(l.unlocking, bound)

(* The stake that was not yet unlocking when b was the era to unlock in.    *)
StakeSince(l, b) == l.active + Held(l.unlocking, Since(b))

LEMMA SoundTypes ==
  ASSUME NEW l, NEW bound, Sound(l, bound)
  PROVE  /\ l.total \in Nat /\ l.active \in Nat /\ l.unlocking \in Queue
         /\ Unlocking(l.unlocking) \in Nat /\ l.total = l.active + Unlocking(l.unlocking)
         /\ Shape(l.unlocking, bound)
         /\ \A b : StakeSince(l, b) \in Nat /\ StakeSince(l, b) <= l.total
<1>1. l.total \in Nat /\ l.active \in Nat /\ l.unlocking \in Queue
  BY DEF Sound, LedgerType
<1>2. Unlocking(l.unlocking) \in Nat
  BY <1>1, HeldType
<1>3. ASSUME NEW b PROVE StakeSince(l, b) \in Nat /\ StakeSince(l, b) <= l.total
  <2>1. Held(l.unlocking, Since(b)) \in Nat /\ Held(l.unlocking, Since(b)) <= Unlocking(l.unlocking)
    BY <1>1, HeldType
  <2>2. l.total = l.active + Unlocking(l.unlocking)
    BY DEF Sound
  <2> QED
    BY <1>1, <1>2, <2>1, <2>2 DEF StakeSince
<1> QED
  BY <1>1, <1>2, <1>3 DEF Sound

(* What the calls that change a ledger leave of it.                        *)
LEMMA ConsolidateSound ==
  ASSUME NEW l, NEW bound, Sound(l, bound), NEW e \in Nat, NEW r, r = Consolidate(l, e)
  PROVE  /\ Sound(r, bound)
         /\ r.total <= l.total /\ r.active = l.active
         /\ \A i \in DOMAIN r.unlocking : r.unlocking[i].era > e
         /\ \A b \in Nat : b > e => StakeSince(r, b) = StakeSince(l, b)
<1>1. PICK c \in Queue : c = l.unlocking
  BY SoundTypes
<1> DEFINE due == {x \in Range(c) : x.era <= e}
           later == Range(c) \ due
<1>2. r = [l EXCEPT !.total = Less(l.total, Unlocking(Keep(c, due))), !.unlocking = Keep(c, later)]
  BY <1>1 DEF Consolidate
<1>3. l.total \in Nat /\ l.active \in Nat /\ l \in LedgerType /\ l.total = l.active + Unlocking(c)
      /\ Unlocking(c) \in Nat /\ Shape(c, bound)
  BY <1>1, SoundTypes DEF Sound
<1>4. \A i \in DOMAIN c : /\ (c[i] \in due <=> c[i].era <= e) /\ (c[i] \in later <=> ~(c[i].era <= e))
                          /\ c[i] \in Chunk /\ c[i].era \in Nat
  BY QueueTypes DEF Range
<1> HIDE DEF due, later
<1>5. Unlocking(c) = Held(c, due) + Held(c, later)
  BY <1>4, HeldSplit
<1>6. Unlocking(Keep(c, due)) = Held(c, due) /\ Unlocking(Keep(c, later)) = Held(c, later)
      /\ Keep(c, later) \in Queue
  BY UnlockingKeep
<1>7. Held(c, due) \in Nat /\ Held(c, later) \in Nat
  BY HeldType
<1>8. Less(l.total, Unlocking(Keep(c, due))) = l.active + Held(c, later)
  BY <1>3, <1>5, <1>6, <1>7 DEF Less
<1>9. r.total = l.active + Held(c, later) /\ r.active = l.active /\ r.unlocking = Keep(c, later)
      /\ r \in LedgerType
  <2>1. PICK q \in Queue : q = Keep(c, later)
    BY <1>6
  <2>2. PICK x \in Nat : x = l.active + Held(c, later)
    BY <1>3, <1>7
  <2>3. r = [l EXCEPT !.total = x, !.unlocking = q]
    BY <1>2, <1>8, <2>1, <2>2
  <2>4. r.total = x /\ r.active = l.active /\ r.unlocking = q /\ r \in LedgerType
    BY <1>3, <2>3 DEF LedgerType
  <2> QED
    BY <2>1, <2>2, <2>4
<1>10. Shape(r.unlocking, bound)
  BY <1>3, <1>9, KeepShape
<1>11. Sound(r, bound)
  BY <1>6, <1>9, <1>10 DEF Sound
<1>12. \A i \in DOMAIN r.unlocking : r.unlocking[i].era > e
  <2>1. From(Keep(c, later), c, Len(c), later)
    BY KeepFrom
  <2>2. ASSUME NEW j \in DOMAIN Keep(c, later) PROVE Keep(c, later)[j].era > e
    <3>1. PICK i \in 1..Len(c) : Keep(c, later)[j] = c[i]
      BY <2>1 DEF From
    <3>2. Keep(c, later)[j] \in later /\ i \in DOMAIN c
      BY <2>1, QueueTypes DEF From
    <3> QED
      BY <1>4, <3>1, <3>2
  <2> QED
    BY <1>9, <2>2
<1>13. ASSUME NEW b \in Nat, b > e PROVE StakeSince(r, b) = StakeSince(l, b)
  <2>1. PICK T : T = Since(b)
    OBVIOUS
  <2>2. Held(Keep(c, later), T) = Held(c, later \cap T)
    BY HeldKeep
  <2>3. \A i \in DOMAIN c : c[i] \in later \cap T <=> c[i] \in T
    BY <1>4, <1>13, <2>1 DEF Since
  <2>4. Held(c, later \cap T) = Held(c, T)
    BY <2>3, HeldCongruence
  <2> QED
    BY <1>1, <1>9, <2>1, <2>2, <2>4 DEF StakeSince
<1>14. r.total <= l.total
  BY <1>3, <1>5, <1>7, <1>9
<1> QED
  BY <1>9, <1>11, <1>12, <1>13, <1>14

(* What rebond leaves of the chunks: the last ones are taken first.         *)
RebondLeaves(c, value) == [i \in DOMAIN c |-> [c[i] EXCEPT !.value = @ - Rebonded(c, value, i)]]

LEMMA RebondTrims ==
  ASSUME NEW c \in Queue, NEW value \in Nat
  PROVE  /\ Trimmed(c, RebondLeaves(c, value))
         /\ Unlocking(RebondLeaves(c, value)) = Less(Unlocking(c), value)
<1> DEFINE d == RebondLeaves(c, value)
<1>1. PICK n \in Nat : n = Len(c) /\ DOMAIN c = 1..n
                       /\ \A i \in 1..n : c[i] \in Chunk /\ c[i].value \in Nat /\ c[i].era \in Nat
  BY QueueTypes
<1> DEFINE Behind(i) == UnlockingAt(c, i .. n)
<1>2. \A i \in 1..(n + 1) : Behind(i) \in Nat
  <2>1. \A i \in 1..(n + 1) : i..n \in SUBSET DOMAIN c
    BY <1>1
  <2> QED
    BY <2>1, UnlockingAtType
<1>3. ASSUME NEW i \in 1..n
      PROVE  /\ Rebonded(c, value, i)
                  = IF c[i].value <= Less(value, Behind(i + 1)) THEN c[i].value ELSE Less(value, Behind(i + 1))
             /\ Less(value, Behind(i + 1)) \in Nat
  <2>1. Behind(i + 1) \in Nat
    BY <1>2
  <2>2. Less(value, Behind(i + 1)) \in Nat /\ c[i].value \in Nat
    BY <1>1, <2>1 DEF Less
  <2>3. Rebonded(c, value, i) = Min({c[i].value, Less(value, Behind(i + 1))})
    BY <1>1 DEF Rebonded
  <2> HIDE DEF Behind
  <2> QED
    BY <2>2, <2>3, MinOfTwo
<1>4. \A i \in 1..n : /\ d[i] = [c[i] EXCEPT !.value = @ - Rebonded(c, value, i)]
                      /\ d[i].value = c[i].value - Rebonded(c, value, i) /\ d[i].era = c[i].era
                      /\ d[i].value \in Nat /\ d[i].value <= c[i].value /\ d[i] \in Chunk
  <2> SUFFICES ASSUME NEW i \in 1..n
               PROVE  /\ d[i] = [c[i] EXCEPT !.value = @ - Rebonded(c, value, i)]
                      /\ d[i].value = c[i].value - Rebonded(c, value, i) /\ d[i].era = c[i].era
                      /\ d[i].value \in Nat /\ d[i].value <= c[i].value /\ d[i] \in Chunk
    OBVIOUS
  <2>1. d[i] = [c[i] EXCEPT !.value = @ - Rebonded(c, value, i)]
    BY <1>1 DEF RebondLeaves
  <2>2. c[i] \in Chunk /\ c[i].value \in Nat /\ c[i].era \in Nat
    BY <1>1
  <2>3. PICK m \in Nat : m = Rebonded(c, value, i) /\ m <= c[i].value
    BY <1>3, <2>2
  <2>4. d[i] = [c[i] EXCEPT !.value = @ - m]
    BY <2>1, <2>3
  <2> HIDE DEF d
  <2>5. d[i].value = c[i].value - m /\ d[i].era = c[i].era /\ d[i] \in Chunk
    BY <2>2, <2>3, <2>4 DEF Chunk
  <2> QED
    BY <2>1, <2>2, <2>3, <2>5
<1>5. d \in Queue /\ DOMAIN d = 1..n
  <2>1. d = [i \in 1..n |-> d[i]] /\ DOMAIN d = 1..n
    BY <1>1 DEF RebondLeaves
  <2>2. d \in [1..n -> Chunk]
    <3> HIDE DEF d
    <3> QED
      BY <1>4, <2>1
  <2> HIDE DEF d
  <2> QED
    BY <2>1, <2>2 DEF Queue
<1>6. Trimmed(c, d)
  <2> HIDE DEF d
  <2> QED
    BY <1>1, <1>4, <1>5 DEF Trimmed
<1> DEFINE Left(i) == UnlockingAt(d, i .. n)
           Good == {k \in Nat : k <= n => Left(n + 1 - k) = Less(Behind(n + 1 - k), value)}
<1>7. 0 \in Good
  <2>1. (n + 1 - 0)..n = {}
    OBVIOUS
  <2>2. UnlockingAt(c, {}) = 0 /\ UnlockingAt(d, {}) = 0
    BY SumEmpty DEF UnlockingAt
  <2>3. Left(n + 1 - 0) = 0 /\ Behind(n + 1 - 0) = 0
    BY <2>1, <2>2
  <2>4. Less(0, value) = 0
    BY DEF Less
  <2> QED
    BY <2>3, <2>4
<1> HIDE DEF d
<1>8. ASSUME NEW k \in Nat, k \in Good PROVE k + 1 \in Good
  <2> SUFFICES ASSUME k + 1 <= n
               PROVE  Left(n + 1 - (k + 1)) = Less(Behind(n + 1 - (k + 1)), value)
    OBVIOUS
  <2>1. PICK i \in 1..n : i = n - k
    OBVIOUS
  <2>2. n + 1 - k = i + 1 /\ n + 1 - (k + 1) = i /\ i + 1 \in 1..(n + 1)
    BY <2>1
  <2>3. Left(i + 1) = Less(Behind(i + 1), value)
    BY <1>8, <2>1, <2>2
  <2>4. (i..n) = ((i + 1)..n) \cup {i} /\ i \notin (i + 1)..n
        /\ (i + 1)..n \in SUBSET DOMAIN c /\ (i + 1)..n \in SUBSET DOMAIN d /\ i \in DOMAIN c /\ i \in DOMAIN d
    BY <1>1, <1>5
  <2>5. Behind(i) = Behind(i + 1) + c[i].value
    BY <2>4, UnlockingAdd
  <2>6. Left(i) = Left(i + 1) + d[i].value
    BY <1>5, <2>4, UnlockingAdd
  <2>7. Behind(i + 1) \in Nat /\ c[i].value \in Nat /\ d[i].value = c[i].value - Rebonded(c, value, i)
    BY <1>1, <1>2, <1>4, <2>2
  <2>8. Rebonded(c, value, i)
                  = IF c[i].value <= Less(value, Behind(i + 1)) THEN c[i].value ELSE Less(value, Behind(i + 1))
    BY <1>3
  <2> HIDE DEF Behind, Left
  <2>9. Left(i) = Less(Behind(i), value)
    BY <2>3, <2>5, <2>6, <2>7, <2>8 DEF Less
  <2> QED
    BY <2>2, <2>9
<1>9. n \in Good
  <2> HIDE DEF Good
  <2>1. Nat \subseteq Good
    BY <1>7, <1>8, NatSetInduction
  <2> QED
    BY <2>1
<1>10. n + 1 - n = 1
  OBVIOUS
<1>11. Left(1) = Less(Behind(1), value)
  BY <1>9, <1>10
<1>12. Left(1) = Unlocking(d) /\ Behind(1) = Unlocking(c)
  BY <1>1, <1>5 DEF Unlocking
<1> QED
  BY <1>6, <1>11, <1>12 DEF d

LEMMA RebondSound ==
  ASSUME NEW l, NEW bound, Sound(l, bound), NEW value \in Nat, NEW r, r = Rebond(l, value)
  PROVE  /\ Sound(r, bound)
         /\ r.total = l.total
         /\ \A b \in Nat : StakeSince(r, b) >= StakeSince(l, b)
<1>1. PICK c \in Queue : c = l.unlocking
  BY SoundTypes
<1>2. PICK d : d = RebondLeaves(c, value)
  OBVIOUS
<1>3. r = [l EXCEPT !.active = @ + Min({value, Unlocking(c)}), !.unlocking = NotEmpty(d)]
  BY <1>1, <1>2 DEF Rebond, RebondLeaves
<1>4. l.total \in Nat /\ l.active \in Nat /\ l \in LedgerType /\ l.total = l.active + Unlocking(c)
      /\ Unlocking(c) \in Nat /\ Shape(c, bound)
  BY <1>1, SoundTypes DEF Sound
<1>5. Trimmed(c, d) /\ Unlocking(d) = Less(Unlocking(c), value) /\ d \in Queue
  BY <1>2, RebondTrims DEF Trimmed
<1>6. NotEmpty(d) \in Queue /\ Unlocking(NotEmpty(d)) = Unlocking(d)
      /\ \A b : Held(NotEmpty(d), Since(b)) = Held(d, Since(b))
  BY <1>5, NotEmptyHeld
<1>7. Shape(NotEmpty(d), bound)
  BY <1>4, <1>5, NotEmptyShape
<1>8. PICK m \in Nat : m = Min({value, Unlocking(c)}) /\ m = IF value <= Unlocking(c) THEN value ELSE Unlocking(c)
  BY <1>4, MinOfTwo
<1>9. r.total = l.total /\ r.active = l.active + m /\ r.unlocking = NotEmpty(d) /\ r \in LedgerType
  <2>1. PICK q \in Queue : q = NotEmpty(d)
    BY <1>6
  <2>2. PICK x \in Nat : x = l.active + m
    BY <1>4
  <2>3. r = [l EXCEPT !.active = x, !.unlocking = q]
    BY <1>3, <1>8, <2>1, <2>2
  <2>4. r.total = l.total /\ r.active = x /\ r.unlocking = q /\ r \in LedgerType
    BY <1>4, <2>3 DEF LedgerType
  <2> QED
    BY <2>1, <2>2, <2>4
<1>10. Unlocking(d) = Unlocking(c) - m
  BY <1>4, <1>5, <1>8 DEF Less
<1>11. Sound(r, bound)
  <2>1. r.total = r.active + Unlocking(r.unlocking)
    BY <1>4, <1>6, <1>9, <1>10
  <2> QED
    BY <1>7, <1>9, <2>1 DEF Sound
<1>12. ASSUME NEW b \in Nat PROVE StakeSince(r, b) >= StakeSince(l, b)
  <2>1. Held(c, Since(b)) - Held(d, Since(b)) <= Unlocking(c) - Unlocking(d)
    BY <1>5, TrimmedHeld
  <2>2. Held(c, Since(b)) \in Nat /\ Held(d, Since(b)) \in Nat
    BY <1>5, HeldType
  <2>3. StakeSince(r, b) = l.active + m + Held(d, Since(b)) /\ StakeSince(l, b) = l.active + Held(c, Since(b))
    BY <1>1, <1>6, <1>9 DEF StakeSince
  <2> QED
    BY <1>4, <1>10, <2>1, <2>2, <2>3
<1> QED
  BY <1>9, <1>11, <1>12

-----------------------------------------------------------------------------
(* Slashing *)

LEMMA MinOfThree ==
  ASSUME NEW x \in Nat, NEW y \in Nat, NEW z \in Nat
  PROVE  Min({x, y, z}) \in Nat /\ Min({x, y, z}) <= y
<1>1. ASSUME NEW m \in {x, y, z}, \A v \in {x, y, z} : m <= v
      PROVE  Min({x, y, z}) = m
  <2>1. {x, y, z} \subseteq Int
    OBVIOUS
  <2> QED
    BY <1>1, <2>1, MinIs
<1>2. PICK m \in {x, y, z} : \A v \in {x, y, z} : m <= v
  <2>1. {x, y, z} \subseteq Nat /\ {x, y, z} # {}
    OBVIOUS
  <2>2. PICK T : T = {x, y, z}
    OBVIOUS
  <2>3. \E m \in T : \A v \in T : m <= v
    BY <2>1, <2>2, LeastNatural
  <2> QED
    BY <2>2, <2>3
<1>3. Min({x, y, z}) = m
  BY <1>1, <1>2
<1>4. m <= y /\ m \in Nat
  BY <1>2
<1> QED
  BY <1>3, <1>4

LEMMA CeilDivType ==
  ASSUME NEW x \in Nat, NEW y \in Nat, y > 0
  PROVE  CeilDiv(x, y) \in Nat
<1>1. PICK z \in Nat : z = x + y - 1
  OBVIOUS
<1>2. z \div y \in Nat
  OBVIOUS
<1> QED
  BY <1>1, <1>2 DEF CeilDiv

LEMMA CutBounds ==
  ASSUME NEW target \in Nat, NEW wanted \in Nat, NEW remaining \in Nat, NEW minimum \in Nat
  PROVE  /\ Cut(target, wanted, remaining, minimum) \in Nat
         /\ Cut(target, wanted, remaining, minimum) <= target
<1>1. PICK m \in Nat : m = Min({wanted, target, remaining}) /\ m <= target
  BY MinOfThree
<1> QED
  BY <1>1 DEF Cut

LEMMA ShareType ==
  ASSUME NEW target \in Nat, NEW ratio \in Nat
  PROVE  Share(target, ratio) \in Nat
<1>1. target * ratio \in Nat /\ Accuracy \in Nat /\ Accuracy > 0
  BY AccuracyAssumption
<1> QED
  BY <1>1, CeilDivType DEF Share

LEMMA FirstSlashableIsPlace ==
  ASSUME NEW c \in Queue, NEW boundary \in Nat
  PROVE  FirstSlashable(c, boundary) \in 1..(Len(c) + 1)
<1>1. PICK n \in Nat : n = Len(c) /\ DOMAIN c = 1..n
  BY QueueTypes
<1>2. PICK T : T = {i \in DOMAIN c : c[i].era >= boundary} \cup {n + 1}
  OBVIOUS
<1>3. T \subseteq Nat /\ T # {} /\ T \subseteq 1..(n + 1)
  BY <1>1, <1>2
<1>4. PICK m \in T : \A y \in T : m <= y
  BY <1>3, LeastNatural
<1>5. T \subseteq Int
  BY <1>3
<1>6. Min(T) = m
  BY <1>4, <1>5, MinIs
<1>7. FirstSlashable(c, boundary) = m
  BY <1>1, <1>2, <1>6 DEF FirstSlashable
<1> QED
  BY <1>1, <1>3, <1>7

LEMMA PriorityIsOfChunks ==
  ASSUME NEW c \in Queue, NEW first \in 1..(Len(c) + 1)
  PROVE  /\ DOMAIN Priority(c, first) = 1..Len(c)
         /\ \A k \in 1..Len(c) : Priority(c, first)[k] \in 1..Len(c)
<1>1. PICK n \in Nat : n = Len(c) /\ DOMAIN c = 1..n
  BY QueueTypes
<1> QED
  BY <1>1 DEF Priority

LEMMA RatioType ==
  ASSUME NEW l \in LedgerType, NEW amount \in Nat, NEW first \in 1..(Len(l.unlocking) + 1)
  PROVE  Ratio(l, amount, first) \in Nat
<1>1. l.active \in Nat /\ l.unlocking \in Queue
  BY DEF LedgerType
<1>2. first .. Len(l.unlocking) \in SUBSET DOMAIN l.unlocking
  BY <1>1, QueueTypes
<1>3. PICK affected \in Nat : affected = l.active + UnlockingAt(l.unlocking, first .. Len(l.unlocking))
  BY <1>1, <1>2, UnlockingAtType
<1>4. Accuracy \in Nat /\ amount * Accuracy \in Nat
  BY AccuracyAssumption
<1>5. CASE amount >= affected
  BY <1>3, <1>4, <1>5 DEF Ratio
<1>6. CASE ~(amount >= affected)
  <2>1. affected > 0
    BY <1>6
  <2>2. CeilDiv(amount * Accuracy, affected) \in Nat
    BY <1>4, <2>1, CeilDivType
  <2> QED
    BY <1>3, <1>6, <2>2 DEF Ratio
<1> QED
  BY <1>5, <1>6

(* CutOf and step of SlashStake.                                           *)
CutOfStake(l, amount, minimum, boundary, target, remaining) ==
  Cut(target,
      IF FirstSlashable(l.unlocking, boundary) <= Len(l.unlocking)
      THEN Share(target, Ratio(l, amount, FirstSlashable(l.unlocking, boundary))) ELSE remaining,
      remaining, minimum)

LEMMA CutOfStakeBounds ==
  ASSUME NEW l \in LedgerType, NEW amount \in Nat, NEW minimum \in Nat, NEW boundary \in Nat,
         NEW target \in Nat, NEW remaining \in Nat
  PROVE  /\ CutOfStake(l, amount, minimum, boundary, target, remaining) \in Nat
         /\ CutOfStake(l, amount, minimum, boundary, target, remaining) <= target
<1>1. PICK first \in 1..(Len(l.unlocking) + 1) : first = FirstSlashable(l.unlocking, boundary)
  BY FirstSlashableIsPlace DEF LedgerType
<1>2. PICK ratio \in Nat : ratio = Ratio(l, amount, first)
  BY RatioType
<1>3. PICK wanted \in Nat : wanted = IF first <= Len(l.unlocking) THEN Share(target, ratio) ELSE remaining
  BY ShareType
<1>4. CutOfStake(l, amount, minimum, boundary, target, remaining) = Cut(target, wanted, remaining, minimum)
  BY <1>1, <1>2, <1>3 DEF CutOfStake
<1> QED
  BY <1>4, CutBounds

SlashStep(l, amount, minimum, boundary, acc, i) ==
  IF acc.remaining = 0 THEN acc
  ELSE LET cut == CutOfStake(l, amount, minimum, boundary, acc.chunks[i].value, acc.remaining)
       IN  [remaining |-> Less(acc.remaining, cut),
            taken     |-> acc.taken + cut,
            chunks    |-> [acc.chunks EXCEPT ![i].value = @ - cut]]

(* What has been taken is what the chunks, and the active stake, lost.      *)
Slashes(c, activeCut) ==
  {acc \in [remaining : Nat, taken : Nat, chunks : Queue] :
     Trimmed(c, acc.chunks) /\ acc.taken + Unlocking(acc.chunks) = activeCut + Unlocking(c)}

Lowered(d, i, cut) == [d EXCEPT ![i].value = @ - cut]

(* A chunk that is worth less takes the difference from the sum.           *)
LEMMA CutFromChunk ==
  ASSUME NEW d \in Queue, NEW i \in DOMAIN d, NEW cut \in Nat, cut <= d[i].value,
         NEW q, q = Lowered(d, i, cut)
  PROVE  /\ Trimmed(d, q)
         /\ Unlocking(q) = Unlocking(d) - cut
<1>1. PICK n \in Nat : n = Len(d) /\ DOMAIN d = 1..n
                       /\ \A j \in 1..n : d[j] \in Chunk /\ d[j].value \in Nat /\ d[j].era \in Nat
  BY QueueTypes
<1>2. PICK x : x = [d[i] EXCEPT !.value = @ - cut]
  OBVIOUS
<1>3. x \in Chunk /\ x.value = d[i].value - cut /\ x.era = d[i].era /\ x.value <= d[i].value
  BY <1>1, <1>2 DEF Chunk
<1>4. q = [d EXCEPT ![i] = x]
  BY <1>2 DEF Lowered
<1>5. DOMAIN q = 1..n /\ \A j \in 1..n : q[j] = IF j = i THEN x ELSE d[j]
  BY <1>1, <1>4
<1>6. q \in Queue
  <2>1. d \in [1..n -> Chunk]
    BY <1>1 DEF Queue
  <2>2. q \in [1..n -> Chunk]
    BY <1>1, <1>3, <1>4, <2>1
  <2> QED
    BY <2>2 DEF Queue
<1>7. Trimmed(d, q)
  <2>1. \A j \in 1..n : q[j].era = d[j].era /\ q[j].value <= d[j].value
    BY <1>1, <1>3, <1>5
  <2> QED
    BY <1>1, <1>5, <1>6, <2>1 DEF Trimmed
<1>8. SumFunctionOnSet(Values(q), 1..n) = SumFunctionOnSet(Values(d), 1..n) + Values(q)[i] - Values(d)[i]
  <2>1. IsFiniteSet(1..n) /\ IntegersOn(Values(d), 1..n) /\ IntegersOn(Values(q), 1..n)
    BY <1>1, <1>5, <1>6, UnlockingAtType
  <2>2. \A j \in 1..n : j # i => Values(q)[j] = Values(d)[j]
    BY <1>1, <1>5 DEF Values
  <2>3. PICK S : S = 1..n
    OBVIOUS
  <2>4. i \in S /\ IsFiniteSet(S) /\ IntegersOn(Values(d), S) /\ IntegersOn(Values(q), S)
        /\ \A j \in S : j # i => Values(q)[j] = Values(d)[j]
    BY <1>1, <2>1, <2>2, <2>3
  <2>5. SumFunctionOnSet(Values(q), S) = SumFunctionOnSet(Values(d), S) + Values(q)[i] - Values(d)[i]
    BY <2>4, SumUpdate
  <2> QED
    BY <2>3, <2>5
<1>9. Values(q)[i] = d[i].value - cut /\ Values(d)[i] = d[i].value
  BY <1>1, <1>3, <1>5 DEF Values
<1>10. Unlocking(q) = SumFunctionOnSet(Values(q), 1..n) /\ Unlocking(d) = SumFunctionOnSet(Values(d), 1..n)
  BY <1>1, <1>5 DEF Unlocking, UnlockingAt, Values
<1>11. Unlocking(d) \in Nat /\ d[i].value \in Nat
  BY <1>1, HeldType
<1> QED
  BY <1>7, <1>8, <1>9, <1>10, <1>11

LEMMA TrimmedTwice ==
  ASSUME NEW c \in Queue, NEW d, NEW q, Trimmed(c, d), Trimmed(d, q)
  PROVE  Trimmed(c, q)
<1>1. d \in Queue /\ q \in Queue /\ DOMAIN d = DOMAIN c /\ DOMAIN q = DOMAIN c
  BY DEF Trimmed
<1>2. ASSUME NEW i \in DOMAIN c PROVE q[i].era = c[i].era /\ q[i].value <= c[i].value
  <2>1. q[i].value \in Nat /\ d[i].value \in Nat /\ c[i].value \in Nat
    BY <1>1, QueueTypes
  <2>2. q[i].value <= d[i].value /\ d[i].value <= c[i].value /\ q[i].era = d[i].era /\ d[i].era = c[i].era
    BY <1>1 DEF Trimmed
  <2> QED
    BY <2>1, <2>2
<1> QED
  BY <1>1, <1>2 DEF Trimmed

LEMMA SlashStepKeeps ==
  ASSUME NEW l \in LedgerType, NEW amount \in Nat, NEW minimum \in Nat, NEW boundary \in Nat,
         NEW activeCut \in Nat, NEW acc \in Slashes(l.unlocking, activeCut),
         NEW i \in DOMAIN l.unlocking
  PROVE  SlashStep(l, amount, minimum, boundary, acc, i) \in Slashes(l.unlocking, activeCut)
<1>1. PICK c \in Queue : c = l.unlocking
  BY DEF LedgerType
<1>2. PICK d \in Queue : d = acc.chunks
  BY DEF Slashes
<1>3. acc.remaining \in Nat /\ acc.taken \in Nat /\ Trimmed(c, d)
      /\ acc.taken + Unlocking(d) = activeCut + Unlocking(c)
  BY <1>1, <1>2 DEF Slashes
<1>4. i \in DOMAIN d /\ d[i].value \in Nat
  BY <1>1, <1>3, QueueTypes DEF Trimmed
<1>5. CASE acc.remaining = 0
  BY <1>5 DEF SlashStep
<1>6. CASE acc.remaining # 0
  <2>1. PICK cut \in Nat : /\ cut = CutOfStake(l, amount, minimum, boundary, d[i].value, acc.remaining)
                           /\ cut <= d[i].value
    BY <1>3, <1>4, CutOfStakeBounds
  <2>2. PICK q : q = Lowered(d, i, cut)
    OBVIOUS
  <2>3. PICK a : a = SlashStep(l, amount, minimum, boundary, acc, i)
    OBVIOUS
  <2>4. a = [remaining |-> Less(acc.remaining, cut), taken |-> acc.taken + cut, chunks |-> q]
    BY <1>2, <1>6, <2>1, <2>2, <2>3 DEF SlashStep, Lowered
  <2>5. Trimmed(d, q) /\ Unlocking(q) = Unlocking(d) - cut
    BY <1>4, <2>1, <2>2, CutFromChunk
  <2>6. Trimmed(c, q) /\ q \in Queue
    BY <1>3, <2>5, TrimmedTwice DEF Trimmed
  <2>7. Less(acc.remaining, cut) \in Nat /\ acc.taken + cut \in Nat
    BY <1>3 DEF Less
  <2>8. (acc.taken + cut) + Unlocking(q) = activeCut + Unlocking(c)
    <3>1. Unlocking(d) \in Nat /\ Unlocking(c) \in Nat
      BY HeldType
    <3> QED
      BY <1>3, <2>5, <3>1
  <2>9. a \in [remaining : Nat, taken : Nat, chunks : Queue] /\ a.chunks = q /\ a.taken = acc.taken + cut
    BY <2>4, <2>6, <2>7
  <2> QED
    BY <1>1, <2>3, <2>6, <2>8, <2>9 DEF Slashes
<1> QED
  BY <1>5, <1>6

OrderOf(l, boundary) == Priority(l.unlocking, FirstSlashable(l.unlocking, boundary))

BaseOf(l, amount, minimum, boundary) ==
  LET activeCut == CutOfStake(l, amount, minimum, boundary, l.active, amount)
  IN  [remaining |-> Less(amount, activeCut), taken |-> activeCut, chunks |-> l.unlocking]

SlashFoldStep(h, l, amount, minimum, boundary, s) ==
  IF s = {} THEN BaseOf(l, amount, minimum, boundary)
  ELSE LET x == Max(s)
       IN  SlashStep(l, amount, minimum, boundary, h[s \ {x}], OrderOf(l, boundary)[x])

SlashFold(l, amount, minimum, boundary) ==
  CHOOSE h : h = [s \in SUBSET (DOMAIN OrderOf(l, boundary)) |->
                    SlashFoldStep(h, l, amount, minimum, boundary, s)]

SlashEnd(l, amount, minimum, boundary) ==
  SlashFold(l, amount, minimum, boundary)[DOMAIN OrderOf(l, boundary)]

SlashIsFold(l, amount, minimum, boundary) ==
  SlashStake(l, amount, minimum, boundary)
    = [l EXCEPT !.active    = @ - CutOfStake(l, amount, minimum, boundary, l.active, amount),
                !.total     = Less(@, SlashEnd(l, amount, minimum, boundary).taken),
                !.unlocking = NotEmpty(SlashEnd(l, amount, minimum, boundary).chunks)]

LEMMA SlashStakeIsFold ==
  ASSUME NEW l, NEW amount, NEW minimum, NEW boundary, amount # 0
  PROVE  SlashIsFold(l, amount, minimum, boundary)
BY Zenon
   DEF SlashIsFold, SlashStake, FoldLeft, MapThenFoldSet, SlashFoldStep, SlashStep, CutOfStake, SlashEnd, SlashFold,
       BaseOf, OrderOf

(* slash_stake goes through the chunks one by one.                         *)
SlashSteps(K, l, amount, minimum, boundary, activeCut) ==
  /\ activeCut = CutOfStake(l, amount, minimum, boundary, l.active, amount)
  /\ K \in [0..Len(l.unlocking) -> Slashes(l.unlocking, activeCut)]
  /\ K[0] = BaseOf(l, amount, minimum, boundary)
  /\ \A k \in 1..Len(l.unlocking) :
       K[k] = SlashStep(l, amount, minimum, boundary, K[k - 1], OrderOf(l, boundary)[k])

SlashHistory(l, amount, minimum, boundary, r) ==
  \E activeCut \in 0..l.active : \E K :
    /\ SlashSteps(K, l, amount, minimum, boundary, activeCut)
    /\ r = [l EXCEPT !.active = @ - activeCut, !.total = Less(@, K[Len(l.unlocking)].taken),
                     !.unlocking = NotEmpty(K[Len(l.unlocking)].chunks)]

(* What slash_stake leaves of the active stake and the chunks.             *)
SlashOutcome(l, r) ==
  \E activeCut \in 0..l.active : \E end \in Slashes(l.unlocking, activeCut) :
    r = [l EXCEPT !.active = @ - activeCut, !.total = Less(@, end.taken),
                  !.unlocking = NotEmpty(end.chunks)]

LEMMA SlashGoes ==
  ASSUME NEW l \in LedgerType, NEW amount \in Nat, NEW minimum \in Nat, NEW boundary \in Nat,
         amount # 0, NEW r, r = SlashStake(l, amount, minimum, boundary)
  PROVE  SlashHistory(l, amount, minimum, boundary, r)
<1>1. PICK c \in Queue : c = l.unlocking
  BY DEF LedgerType
<1>2. PICK n \in Nat : n = Len(c) /\ DOMAIN c = 1..n
  BY QueueTypes
<1>3. l.active \in Nat
  BY DEF LedgerType
<1>4. PICK activeCut \in Nat : /\ activeCut = CutOfStake(l, amount, minimum, boundary, l.active, amount)
                               /\ activeCut <= l.active
  BY <1>3, CutOfStakeBounds
<1>5. PICK order : /\ order = OrderOf(l, boundary)
                   /\ DOMAIN order = 1..n /\ \A k \in 1..n : order[k] \in 1..n
  BY <1>1, <1>2, FirstSlashableIsPlace, PriorityIsOfChunks DEF OrderOf
<1>6. PICK D : D = Slashes(c, activeCut)
  OBVIOUS
<1>7. PICK base \in D : base = BaseOf(l, amount, minimum, boundary)
  <2>1. Less(amount, activeCut) \in Nat
    BY DEF Less
  <2>2. Trimmed(c, c)
    <3>1. \A i \in DOMAIN c : c[i].value \in Nat
      BY QueueTypes
    <3> QED
      BY <3>1 DEF Trimmed
  <2>3. [remaining |-> Less(amount, activeCut), taken |-> activeCut, chunks |-> c] \in Slashes(c, activeCut)
    BY <2>1, <2>2 DEF Slashes
  <2> QED
    BY <1>1, <1>4, <1>6, <2>3 DEF BaseOf
<1> DEFINE G == [p \in (1..n) \X D |-> SlashStep(l, amount, minimum, boundary, p[2], order[p[1]])]
<1>8. \A k \in 1..n : \A a \in D :
        /\ G[<<k, a>>] = SlashStep(l, amount, minimum, boundary, a, order[k])
        /\ G[<<k, a>>] \in D
  <2> SUFFICES ASSUME NEW k \in 1..n, NEW a \in D
               PROVE  /\ G[<<k, a>>] = SlashStep(l, amount, minimum, boundary, a, order[k])
                      /\ G[<<k, a>>] \in D
    OBVIOUS
  <2>1. order[k] \in DOMAIN l.unlocking
    BY <1>1, <1>2, <1>5
  <2>2. SlashStep(l, amount, minimum, boundary, a, order[k]) \in D
    BY <1>1, <1>6, <2>1, SlashStepKeeps
  <2>3. G[<<k, a>>] = SlashStep(l, amount, minimum, boundary, a, order[k])
    OBVIOUS
  <2> QED
    BY <2>2, <2>3
<1>9. G \in [(1..n) \X D -> D]
  <2>1. ASSUME NEW p \in (1..n) \X D PROVE SlashStep(l, amount, minimum, boundary, p[2], order[p[1]]) \in D
    <3>1. p[1] \in 1..n /\ p[2] \in D /\ order[p[1]] \in DOMAIN l.unlocking
      BY <1>1, <1>2, <1>5
    <3> QED
      BY <1>1, <1>6, <3>1, SlashStepKeeps
  <2> QED
    BY <2>1
<1> HIDE DEF G
<1> DEFINE Step(g, s) == SlashFoldStep(g, l, amount, minimum, boundary, s)
<1>10. \E g : g = [s \in SUBSET (DOMAIN order) |-> Step(g, s)]
  <2>1. PICK g : IsFoldLeft(g, n, D, base, G)
    BY <1>9, FoldLeftExists
  <2>2. g \in [SUBSET (1..n) -> D] /\
          \A s \in SUBSET (1..n) : g[s] = IF s = {} THEN base ELSE G[<<Max(s), g[s \ {Max(s)}]>>]
    BY <2>1 DEF IsFoldLeft
  <2>3. ASSUME NEW s \in SUBSET (1..n) PROVE g[s] = Step(g, s)
    <3>1. CASE s = {}
      BY <1>7, <2>2, <3>1 DEF SlashFoldStep
    <3>2. CASE s # {}
      <4>1. PICK m \in 1..n : m = Max(s)
        BY <3>2, GreatestNumber
      <4>2. PICK a \in D : a = g[s \ {m}]
        BY <2>2
      <4>3. g[s] = G[<<m, a>>]
        BY <2>2, <3>2, <4>1, <4>2
      <4> QED
        BY <1>5, <1>8, <3>2, <4>1, <4>2, <4>3 DEF SlashFoldStep
    <3> QED
      BY <3>1, <3>2
  <2> HIDE DEF Step
  <2>4. g = [s \in SUBSET (DOMAIN order) |-> Step(g, s)]
    BY <1>5, <2>2, <2>3
  <2> QED
    BY <2>4
<1>11. PICK h : /\ h = SlashFold(l, amount, minimum, boundary)
                /\ h = [s \in SUBSET (DOMAIN order) |-> Step(h, s)]
  BY <1>5, <1>10 DEF SlashFold
<1>12. SlashEnd(l, amount, minimum, boundary) = h[1..n]
  BY <1>5, <1>11 DEF SlashEnd
<1>13. \A s \in SUBSET (1..n) : h[s] = Step(h, s)
  <2> HIDE DEF Step
  <2>1. \A s \in SUBSET (DOMAIN order) : [t \in SUBSET (DOMAIN order) |-> Step(h, t)][s] = Step(h, s)
    OBVIOUS
  <2> QED
    BY <1>5, <1>11, <2>1
<1>14. h[{}] = base
  BY <1>7, <1>13 DEF SlashFoldStep
<1>15. ASSUME NEW k \in 1..n, NEW a \in D, h[1..(k - 1)] = a
       PROVE  h[1..k] = G[<<k, a>>]
  <2>1. 1..k # {} /\ Max(1..k) = k /\ (1..k) \ {k} = 1..(k - 1) /\ 1..k \in SUBSET (1..n)
    <3>1. k \in Nat /\ k > 0 /\ 1..k \in SUBSET (1..n)
      OBVIOUS
    <3> QED
      BY <3>1, GreatestOfPrefix
  <2>2. h[1..k] = SlashStep(l, amount, minimum, boundary, a, order[k])
    BY <1>5, <1>13, <1>15, <2>1 DEF SlashFoldStep
  <2> QED
    BY <1>8, <2>2
<1>16. FollowsPrefixes(h, n, D, G)
  BY <1>15 DEF FollowsPrefixes
<1>17. PICK K : StepsTo(K, n, D, base, G, h[1..n])
  BY <1>9, <1>14, <1>16, FoldLeftSteps
<1>18. h[1..n] \in D
  BY <1>17 DEF StepsTo
<1>19. PICK end \in Slashes(l.unlocking, activeCut) : end = h[1..n]
  BY <1>1, <1>6, <1>18
<1>20. r = [l EXCEPT !.active = @ - activeCut, !.total = Less(@, end.taken),
                     !.unlocking = NotEmpty(end.chunks)]
  <2>1. SlashEnd(l, amount, minimum, boundary) = end
    BY <1>12, <1>19
  <2>2. SlashIsFold(l, amount, minimum, boundary)
    BY SlashStakeIsFold
  <2> QED
    BY <1>4, <2>1, <2>2, Zenon DEF SlashIsFold
<1>21. activeCut \in 0..l.active
  BY <1>3, <1>4
<1>22. K \in [0..n -> D] /\ K[0] = base /\ K[n] = end /\ \A k \in 1..n : K[k] = G[<<k, K[k - 1]>>]
  BY <1>17, <1>19 DEF StepsTo
<1>23. ASSUME NEW k \in 1..n
       PROVE  K[k] = SlashStep(l, amount, minimum, boundary, K[k - 1], OrderOf(l, boundary)[k])
  <2>1. k - 1 \in 0..n
    OBVIOUS
  <2>2. PICK a \in D : a = K[k - 1]
    BY <1>22, <2>1
  <2> QED
    BY <1>5, <1>8, <1>22, <2>2
<1>24. SlashSteps(K, l, amount, minimum, boundary, activeCut)
  BY <1>1, <1>2, <1>4, <1>6, <1>7, <1>22, <1>23 DEF SlashSteps
<1>25. Len(l.unlocking) = n /\ K[n] = end
  BY <1>1, <1>2, <1>22
<1> QED
  BY <1>20, <1>21, <1>24, <1>25 DEF SlashHistory

LEMMA SlashEnds ==
  ASSUME NEW l \in LedgerType, NEW amount \in Nat, NEW minimum \in Nat, NEW boundary \in Nat,
         amount # 0, NEW r, r = SlashStake(l, amount, minimum, boundary)
  PROVE  SlashOutcome(l, r)
<1>1. PICK activeCut, K :
        /\ activeCut \in 0..l.active
        /\ SlashSteps(K, l, amount, minimum, boundary, activeCut)
        /\ r = [l EXCEPT !.active = @ - activeCut, !.total = Less(@, K[Len(l.unlocking)].taken),
                         !.unlocking = NotEmpty(K[Len(l.unlocking)].chunks)]
  <2>1. SlashHistory(l, amount, minimum, boundary, r)
    BY SlashGoes
  <2> QED
    BY <2>1, Zenon DEF SlashHistory
<1>2. PICK n \in Nat : n = Len(l.unlocking)
  BY QueueTypes DEF LedgerType
<1>3. K[n] \in Slashes(l.unlocking, activeCut)
  BY <1>1, <1>2 DEF SlashSteps
<1> QED
  BY <1>1, <1>2, <1>3 DEF SlashOutcome

(* A slash takes from stake and chunks what it takes from the total, and    *)
(* no group of them loses more than that.                                  *)
LEMMA SlashSound ==
  ASSUME NEW l, NEW bound, Sound(l, bound), NEW amount \in Nat, NEW minimum \in Nat,
         NEW boundary \in Nat, NEW r, r = SlashStake(l, amount, minimum, boundary)
  PROVE  /\ Sound(r, bound)
         /\ r.total <= l.total
         /\ \A b \in Nat : StakeSince(l, b) - StakeSince(r, b) <= l.total - r.total
<1>1. CASE amount = 0
  <2>1. r = l
    BY <1>1 DEF SlashStake
  <2> QED
    BY <2>1, SoundTypes
<1>2. CASE amount # 0
  <2>1. PICK c \in Queue : c = l.unlocking
    BY SoundTypes
  <2>2. l.total \in Nat /\ l.active \in Nat /\ l \in LedgerType /\ l.total = l.active + Unlocking(c)
        /\ Unlocking(c) \in Nat /\ Shape(c, bound)
    BY <2>1, SoundTypes DEF Sound
  <2>3. SlashOutcome(l, r)
    BY <1>2, <2>2, SlashEnds
  <2>4. PICK cut \in 0..l.active : \E end \in Slashes(l.unlocking, cut) :
           r = [l EXCEPT !.active = @ - cut, !.total = Less(@, end.taken),
                         !.unlocking = NotEmpty(end.chunks)]
    BY <2>3 DEF SlashOutcome
  <2>5. PICK end \in Slashes(l.unlocking, cut) :
           r = [l EXCEPT !.active = @ - cut, !.total = Less(@, end.taken),
                         !.unlocking = NotEmpty(end.chunks)]
    BY <2>4
  <2>6. PICK d \in Queue : d = end.chunks
    BY DEF Slashes
  <2>7. PICK taken \in Nat : taken = end.taken
    BY DEF Slashes
  <2>8. Trimmed(c, d) /\ taken + Unlocking(d) = cut + Unlocking(c)
    BY <2>1, <2>6, <2>7 DEF Slashes
  <2>9. NotEmpty(d) \in Queue /\ Unlocking(NotEmpty(d)) = Unlocking(d)
        /\ \A b : Held(NotEmpty(d), Since(b)) = Held(d, Since(b))
    BY NotEmptyHeld
  <2>10. Shape(NotEmpty(d), bound)
    BY <2>2, <2>8, NotEmptyShape
  <2>11. Unlocking(d) \in Nat /\ Unlocking(d) <= Unlocking(c)
    <3>1. Unlocking(d) <= Unlocking(c)
      BY <2>8, TrimmedHeld
    <3> QED
      BY <3>1, HeldType
  <2>12. Less(l.total, taken) = l.total - taken /\ l.total - taken \in Nat
         /\ l.total - taken = (l.active - cut) + Unlocking(d) /\ l.active - cut \in Nat
    BY <2>2, <2>8, <2>11 DEF Less
  <2>13. r.total = l.total - taken /\ r.active = l.active - cut /\ r.unlocking = NotEmpty(d)
         /\ r \in LedgerType
    <3>1. PICK q \in Queue : q = NotEmpty(d)
      BY <2>9
    <3>2. PICK x \in Nat : x = l.active - cut
      BY <2>12
    <3>3. PICK y \in Nat : y = l.total - taken
      BY <2>12
    <3>4. r = [l EXCEPT !.active = x, !.total = y, !.unlocking = q]
      BY <2>5, <2>6, <2>7, <2>12, <3>1, <3>2, <3>3
    <3>5. r.total = y /\ r.active = x /\ r.unlocking = q /\ r \in LedgerType
      BY <2>2, <3>4 DEF LedgerType
    <3> QED
      BY <3>1, <3>2, <3>3, <3>5
  <2>14. Sound(r, bound)
    <3>1. r.total = r.active + Unlocking(r.unlocking)
      BY <2>9, <2>12, <2>13
    <3> QED
      BY <2>10, <2>13, <3>1 DEF Sound
  <2>15. ASSUME NEW b \in Nat PROVE StakeSince(l, b) - StakeSince(r, b) <= l.total - r.total
    <3>1. Held(c, Since(b)) - Held(d, Since(b)) <= Unlocking(c) - Unlocking(d)
      BY <2>8, TrimmedHeld
    <3>2. Held(c, Since(b)) \in Nat /\ Held(d, Since(b)) \in Nat
      BY HeldType
    <3>3. StakeSince(r, b) = (l.active - cut) + Held(d, Since(b)) /\ StakeSince(l, b) = l.active + Held(c, Since(b))
      BY <2>1, <2>9, <2>13 DEF StakeSince
    <3>4. l.total - r.total = taken
      BY <2>2, <2>13
    <3> QED
      BY <2>2, <2>8, <2>11, <3>1, <3>2, <3>3, <3>4
  <2>16. r.total <= l.total
    BY <2>2, <2>13
  <2> QED
    BY <2>14, <2>15, <2>16
<1> QED
  BY <1>1, <1>2

-----------------------------------------------------------------------------
(* Unbonding *)

LEMMA PercentBounds ==
  ASSUME NEW pct \in 0..30, NEW amount \in Nat
  PROVE  /\ Percent(pct, amount) \in Nat /\ Percent(pct, amount) <= amount
         /\ amount > 0 => Percent(pct, amount) < amount
<1>1. PICK p \in Nat : p = pct * amount
  OBVIOUS
<1>2. p <= 30 * amount
  BY <1>1
<1>3. PICK q : q = (p + 49) \div 100
  OBVIOUS
<1>4. q \in Nat /\ 100 * q <= p + 49
  BY <1>3
<1>5. q <= amount /\ (amount > 0 => q < amount)
  BY <1>2, <1>4
<1> QED
  BY <1>1, <1>3, <1>4, <1>5 DEF Percent

(* The new chunk is in its place.                                          *)
LEMMA WithChunkSound ==
  ASSUME NEW c \in Queue, NEW era \in Nat, Shape(c, era), NEW value \in Nat, value > 0,
         NEW d, d = WithChunk(c, value, era)
  PROVE  /\ d \in Queue /\ Shape(d, era)
         /\ Unlocking(d) = Unlocking(c) + value
         /\ \A b \in Nat : b <= era => Held(d, Since(b)) = Held(c, Since(b)) + value
<1>1. PICK n \in Nat : n = Len(c) /\ DOMAIN c = 1..n
                       /\ \A j \in 1..n : c[j] \in Chunk /\ c[j].value \in Nat /\ c[j].era \in Nat
  BY QueueTypes
<1>2. [value |-> value, era |-> era] \in Chunk
  BY DEF Chunk
<1>3. PICK x \in Chunk : x = [value |-> value, era |-> era]
  BY <1>2
<1>4. x = [value |-> value, era |-> era] /\ x.value = value /\ x.era = era
  BY <1>3
<1>5. CASE c # <<>> /\ Last(c).era = era
  <2>1. n \in 1..n /\ c[n].era = era
    BY <1>1, <1>5 DEF Last
  <2>2. d = [c EXCEPT ![n].value = @ + value]
    BY <1>1, <1>5 DEF WithChunk
  <2>3. PICK y : y = [c[n] EXCEPT !.value = @ + value]
    OBVIOUS
  <2>4. y \in Chunk /\ y.value = c[n].value + value /\ y.era = era /\ y.value > 0
    BY <1>1, <2>1, <2>3 DEF Chunk
  <2>5. d = [c EXCEPT ![n] = y]
    BY <2>2, <2>3
  <2>6. DOMAIN d = 1..n /\ \A j \in 1..n : d[j] = IF j = n THEN y ELSE c[j]
    BY <1>1, <2>5
  <2>7. d \in Queue
    <3>1. c \in [1..n -> Chunk]
      BY <1>1 DEF Queue
    <3>2. d \in [1..n -> Chunk]
      BY <1>1, <2>4, <2>5, <3>1
    <3> QED
      BY <3>2 DEF Queue
  <2>8. Trimmed(d, c) /\ c = Lowered(d, n, value)
    <3>1. \A j \in 1..n : d[j].era = c[j].era /\ c[j].value <= d[j].value
      BY <1>1, <2>1, <2>4, <2>6
    <3>2. Trimmed(d, c)
      BY <1>1, <2>6, <3>1 DEF Trimmed
    <3>3. [y EXCEPT !.value = @ - value] = c[n]
      <4>1. PICK z \in Chunk : z = c[n]
        BY <1>1, <2>1
      <4>2. z = [value |-> z.value, era |-> z.era] /\ z.value \in Nat
        BY DEF Chunk
      <4>3. y = [value |-> z.value + value, era |-> z.era]
        BY <2>3, <4>1, <4>2
      <4>4. (z.value + value) - value = z.value
        BY <4>2
      <4> QED
        BY <4>1, <4>2, <4>3, <4>4
    <3>4. Lowered(d, n, value) = [d EXCEPT ![n] = c[n]]
      BY <2>1, <2>6, <3>3 DEF Lowered
    <3>5. c = [d EXCEPT ![n] = c[n]]
      <4>1. c = [j \in 1..n |-> c[j]]
        BY <1>1 DEF Queue
      <4> QED
        BY <1>1, <2>6, <4>1
    <3> QED
      BY <3>2, <3>4, <3>5
  <2>9. Unlocking(d) = Unlocking(c) + value
    <3>1. n \in DOMAIN d /\ value <= d[n].value
      BY <1>1, <2>1, <2>4, <2>6
    <3>2. Unlocking(c) = Unlocking(d) - value
      BY <2>7, <2>8, <3>1, CutFromChunk
    <3> QED
      BY <2>7, <3>2, HeldType
  <2>10. Shape(d, era)
    <3>1. \A j \in 1..n : d[j].era = c[j].era
      BY <1>1, <2>1, <2>4, <2>6
    <3>2. \A j \in 1..n : d[j].value > 0 /\ d[j].era <= era
      BY <1>1, <2>4, <2>6 DEF Shape
    <3>3. ASSUME NEW i \in 1..n, NEW j \in 1..(i - 1) PROVE d[j].era < d[i].era
      <4>1. j \in 1..n /\ i \in DOMAIN c
        BY <1>1
      <4>2. c[j].era < c[i].era
        BY <4>1 DEF Shape, Ascending
      <4> QED
        BY <3>1, <4>1, <4>2
    <3> QED
      BY <2>6, <3>2, <3>3 DEF Shape, Ascending
  <2>11. ASSUME NEW b \in Nat, b <= era PROVE Held(d, Since(b)) = Held(c, Since(b)) + value
    <3>1. PICK T \in SUBSET (1..n) : T = {i \in DOMAIN c : c[i] \in Since(b)}
      BY <1>1
    <3>2. T = {i \in DOMAIN d : d[i] \in Since(b)}
      <4>1. \A j \in 1..n : d[j] \in Since(b) <=> c[j] \in Since(b)
        BY <1>1, <2>1, <2>4, <2>6 DEF Since
      <4> QED
        BY <1>1, <2>6, <3>1, <4>1
    <3>3. n \in T
      BY <1>1, <2>1, <2>11, <3>1 DEF Since
    <3>4. IsFiniteSet(T) /\ IntegersOn(Values(c), T) /\ IntegersOn(Values(d), T)
      BY <1>1, <2>6, <2>7, UnlockingAtType
    <3>5. \A j \in T : j # n => Values(d)[j] = Values(c)[j]
      BY <1>1, <2>6 DEF Values
    <3>6. PICK S : S = T
      OBVIOUS
    <3>7. PICK z : z = n
      OBVIOUS
    <3>8. z \in S /\ IsFiniteSet(S) /\ IntegersOn(Values(c), S) /\ IntegersOn(Values(d), S)
            /\ \A j \in S : j # z => Values(d)[j] = Values(c)[j]
      BY <3>3, <3>4, <3>5, <3>6, <3>7
    <3>9. SumFunctionOnSet(Values(d), S) = SumFunctionOnSet(Values(c), S) + Values(d)[z] - Values(c)[z]
      BY <3>8, SumUpdate
    <3>10. SumFunctionOnSet(Values(d), T) = SumFunctionOnSet(Values(c), T) + Values(d)[n] - Values(c)[n]
      BY <3>6, <3>7, <3>9
    <3>11. Values(d)[n] = c[n].value + value /\ Values(c)[n] = c[n].value /\ c[n].value \in Nat
      BY <1>1, <2>1, <2>4, <2>6 DEF Values
    <3>12. Held(d, Since(b)) = SumFunctionOnSet(Values(d), T) /\ Held(c, Since(b)) = SumFunctionOnSet(Values(c), T)
      BY <3>1, <3>2 DEF Held, UnlockingAt, Values
    <3>13. Held(c, Since(b)) \in Nat
      BY HeldType
    <3> QED
      BY <3>10, <3>11, <3>12, <3>13
  <2> QED
    BY <2>7, <2>9, <2>10, <2>11
<1>6. CASE ~(c # <<>> /\ Last(c).era = era)
  <2>1. d = Append(c, x)
    BY <1>4, <1>6 DEF WithChunk
  <2>2. d \in Queue /\ Unlocking(d) = Unlocking(c) + value
    BY <1>4, <2>1, HeldAppend, UnlockingAppend
  <2>3. DOMAIN d = 1..(n + 1) /\ d[n + 1] = x /\ \A j \in 1..n : d[j] = c[j]
    BY <1>1, <2>1 DEF Queue
  <2>4. ASSUME NEW j \in 1..n PROVE c[j].era < era
    <3>1. c[n].era # era /\ n \in 1..n
      BY <1>1, <1>6 DEF Last
    <3>2. c[n].era <= era /\ c[n].era \in Nat /\ c[j].era \in Nat
      BY <1>1, <3>1 DEF Shape
    <3>3. j # n => c[j].era < c[n].era
      <4>1. j # n => j \in 1..(n - 1)
        OBVIOUS
      <4> QED
        BY <1>1, <3>1, <4>1 DEF Shape, Ascending
    <3> QED
      BY <3>1, <3>2, <3>3
  <2>5. Shape(d, era)
    <3>1. ASSUME NEW i \in 1..(n + 1), NEW j \in 1..(i - 1) PROVE d[j].era < d[i].era
      <4>1. j \in 1..n
        OBVIOUS
      <4>2. CASE i = n + 1
        BY <1>4, <2>3, <2>4, <4>1, <4>2
      <4>3. CASE i # n + 1
        <5>1. i \in 1..n
          BY <4>3
        <5>2. c[j].era < c[i].era
          BY <1>1, <5>1 DEF Shape, Ascending
        <5> QED
          BY <2>3, <4>1, <5>1, <5>2
      <4> QED
        BY <4>2, <4>3
    <3>2. ASSUME NEW i \in 1..(n + 1) PROVE d[i].value > 0 /\ d[i].era <= era
      <4>1. CASE i = n + 1
        BY <1>4, <2>3, <4>1
      <4>2. CASE i # n + 1
        <5>1. i \in 1..n /\ d[i] = c[i]
          BY <2>3, <4>2
        <5> QED
          BY <1>1, <5>1 DEF Shape
      <4> QED
        BY <4>1, <4>2
    <3> QED
      BY <2>3, <3>1, <3>2 DEF Shape, Ascending
  <2>6. ASSUME NEW b \in Nat, b <= era PROVE Held(d, Since(b)) = Held(c, Since(b)) + value
    <3>1. x \in Since(b)
      BY <1>4, <2>6 DEF Since
    <3>2. Held(Append(c, x), Since(b)) = Held(c, Since(b)) + (IF x \in Since(b) THEN x.value ELSE 0)
      BY HeldAppend
    <3> QED
      BY <1>4, <2>1, <3>1, <3>2
  <2> QED
    BY <2>2, <2>5, <2>6
<1> QED
  BY <1>5, <1>6

-----------------------------------------------------------------------------
(* The inductive invariant *)

(* A history of debts that starts no earlier than the slashes still to     *)
(* come, and ends with the planned era.                                    *)
Owes(debts, oldest, newest) ==
  \A e \in DOMAIN debts : /\ e \in Nat /\ debts[e] \in Nat
                         /\ oldest <= e /\ e <= newest

(* For each era the ledger holds what it owes in stake which was not yet   *)
(* unlocking then, so that no withdrawal before the slash can touch it.     *)
Covered(l, debts) ==
  \A e \in DOMAIN debts : StakeSince(l, e + BondingDuration) >= debts[e]

Dust(debts) == \A e \in DOMAIN debts : debts[e] < MinBalance

StashInv ==
  /\ bonded \in BOOLEAN
  /\ validating \in BOOLEAN
  /\ free \in 0..Supply
  /\ Sound(ledger, currentEra + BondingDuration)
  /\ lock = ledger.total
  /\ ledger.total <= free

DebtInv ==
  /\ Owes(owed, activeEra - SlashDeferDuration, currentEra)
  /\ bonded => Covered(ledger, owed)
  /\ ~bonded => ledger = NoLedger /\ ~validating /\ Dust(owed)

BondInv == ErasInv /\ StashInv /\ DebtInv

(* Between two rotations at most one era is planned ahead.                  *)
LEMMA ErasBetween ==
  ASSUME ErasInv, phase = "idle"
  PROVE  /\ currentEra \in Nat /\ activeEra \in Nat
         /\ activeEra <= currentEra /\ currentEra <= activeEra + 1
<1>1. session >= 0 /\ session \in Int /\ activeEra \in Int /\ currentEra \in Nat /\ activeEra >= -1
      /\ (session = -1 <=> activeEra = -1)
  BY DEF ErasInv, EraTypeOK, Counters
<1>2. currentEra \in {activeEra, activeEra + 1}
  BY <1>1 DEF ErasInv, Planning
<1> QED
  BY <1>1, <1>2

LEMMA StashTypes ==
  ASSUME BondInv
  PROVE  /\ Sound(ledger, currentEra + BondingDuration)
         /\ ledger.total \in Nat /\ ledger.active \in Nat /\ ledger.unlocking \in Queue
         /\ Unlocking(ledger.unlocking) \in Nat
         /\ ledger.total = ledger.active + Unlocking(ledger.unlocking)
         /\ free \in 0..Supply /\ free \in Nat /\ lock = ledger.total /\ ledger.total <= free
         /\ MinBalance \in Nat /\ MinBalance > 0 /\ BondingDuration \in Nat /\ SlashDeferDuration \in Nat
         /\ SlashDeferDuration <= BondingDuration - 2 /\ Supply \in Nat
         /\ currentEra \in Nat /\ activeEra \in Int
<1>1. Sound(ledger, currentEra + BondingDuration) /\ free \in 0..Supply /\ lock = ledger.total
      /\ ledger.total <= free
  BY DEF BondInv, StashInv
<1>2. ledger.total \in Nat /\ ledger.active \in Nat /\ ledger.unlocking \in Queue
      /\ Unlocking(ledger.unlocking) \in Nat
      /\ ledger.total = ledger.active + Unlocking(ledger.unlocking)
  BY <1>1, SoundTypes
<1>3. currentEra \in Nat /\ activeEra \in Int
  BY DEF BondInv, ErasInv, EraTypeOK
<1> QED
  BY <1>1, <1>2, <1>3, BondingAssumption, ErasAssumption

(* The era part of a step.                                                 *)
LEMMA ErasStay ==
  ASSUME BondInv, UNCHANGED eraVars
  PROVE  ErasInv' /\ currentEra' = currentEra /\ activeEra' = activeEra
<1>1. ErasInv'
  BY NextInv DEF BondInv
<1> QED
  BY <1>1 DEF eraVars

(* What Currency::slash leaves of the balance.                             *)
LEMMA FreeAfterBounds ==
  ASSUME free \in 0..Supply, Supply \in Nat, MinBalance \in Nat, NEW taken \in Nat
  PROVE  FreeAfter(taken) \in 0..Supply /\ FreeAfter(taken) >= free - taken
<1>1. Less(free, MinBalance) \in Nat /\ Less(free, MinBalance) <= free
  BY DEF Less
<1>2. PICK q \in Nat : q = Less(free, MinBalance) /\ q <= free
  BY <1>1
<1>3. Min({taken, q}) \in Nat /\ Min({taken, q}) <= taken /\ Min({taken, q}) <= q
  BY MinOfTwo
<1>4. PICK m \in Nat : m = Min({taken, q})
  BY <1>3
<1>5. FreeAfter(taken) = free - m
  BY <1>2, <1>4 DEF FreeAfter
<1> QED
  BY <1>2, <1>3, <1>4, <1>5

(* Debts shrink by whatever the stake lost.                                *)
LossBounded(l, r, taken) == \A b \in Nat : StakeSince(l, b) - StakeSince(r, b) <= taken

SettledBy(debts, rest, taken) ==
  DOMAIN rest \subseteq DOMAIN debts /\ \A e \in DOMAIN rest : rest[e] = Less(debts[e], taken)

LEMMA LossCovered ==
  ASSUME NEW l, NEW r, NEW bound, Sound(l, bound), Sound(r, bound), NEW taken \in Nat,
         LossBounded(l, r, taken), NEW debts, NEW rest, SettledBy(debts, rest, taken),
         NEW oldest, NEW newest, Owes(debts, oldest, newest), Covered(l, debts)
  PROVE  Covered(r, rest) /\ Owes(rest, oldest, newest)
<1>1. ASSUME NEW e \in DOMAIN rest PROVE StakeSince(r, e + BondingDuration) >= rest[e]
                                         /\ rest[e] \in Nat
  <2>1. e \in Nat /\ debts[e] \in Nat /\ e + BondingDuration \in Nat /\ e \in DOMAIN debts
    BY ErasAssumption DEF Owes, SettledBy
  <2>2. PICK b \in Nat : b = e + BondingDuration
    BY <2>1
  <2>3. StakeSince(l, b) \in Nat /\ StakeSince(r, b) \in Nat
    BY SoundTypes
  <2>4. StakeSince(l, b) - StakeSince(r, b) <= taken
    BY DEF LossBounded
  <2>5. StakeSince(l, b) >= debts[e]
    BY <2>1, <2>2 DEF Covered
  <2>6. rest[e] = Less(debts[e], taken)
    BY DEF SettledBy
  <2> QED
    BY <2>1, <2>2, <2>3, <2>4, <2>5, <2>6 DEF Less
<1>2. Covered(r, rest)
  BY <1>1 DEF Covered
<1>3. Owes(rest, oldest, newest)
  BY <1>1 DEF Owes, SettledBy
<1> QED
  BY <1>2, <1>3

(* A debt that is not settled at all.                                      *)
LEMMA NothingSettled ==
  ASSUME NEW debts, NEW oldest, NEW newest, Owes(debts, oldest, newest)
  PROVE  SettledBy(debts, debts, 0)
<1>1. ASSUME NEW e \in DOMAIN debts PROVE debts[e] = Less(debts[e], 0)
  BY DEF Owes, Less
<1> QED
  BY <1>1 DEF SettledBy

LEMMA SettleSettles ==
  ASSUME NEW taken
  PROVE  SettledBy(owed, Settle(taken), taken)
BY DEF Settle, SettledBy

(* A step after which the stash is bonded.                                 *)
LEMMA StaysBonded ==
  ASSUME ErasInv', bonded' = TRUE, validating' \in BOOLEAN, free' \in 0..Supply,
         NEW r, ledger' = r, lock' = r.total, r.total <= free',
         Sound(r, currentEra' + BondingDuration),
         NEW debts, owed' = debts, Covered(r, debts),
         Owes(debts, activeEra' - SlashDeferDuration, currentEra')
  PROVE  BondInv'
<1>1. StashInv'
  BY DEF StashInv
<1>2. DebtInv'
  BY DEF DebtInv
<1> QED
  BY <1>1, <1>2 DEF BondInv

(* A step after which it is not.                                           *)
LEMMA LeftUnbonded ==
  ASSUME ErasInv', bonded' = FALSE, validating' = FALSE, free' \in 0..Supply, Supply \in Nat,
         ledger' = NoLedger, lock' = 0, NEW debts, owed' = debts, Dust(debts),
         Owes(debts, activeEra' - SlashDeferDuration, currentEra')
  PROVE  BondInv'
<1>1. PICK r : r = NoLedger
  OBVIOUS
<1>2. <<>> \in Queue /\ Len(<<>>) = 0 /\ DOMAIN <<>> = {}
  BY DEF Queue
<1>3. Unlocking(<<>>) = 0
  BY <1>2, HeldByAll, HeldByNone
<1>4. Shape(<<>>, currentEra' + BondingDuration)
  BY <1>2 DEF Shape, Ascending
<1>5. r \in LedgerType /\ r.total = 0 /\ r.active = 0 /\ r.unlocking = <<>>
  BY <1>1, <1>2 DEF NoLedger, LedgerType
<1>6. Sound(r, currentEra' + BondingDuration)
  BY <1>3, <1>4, <1>5 DEF Sound
<1>7. StashInv'
  <2>1. bonded' \in BOOLEAN /\ validating' \in BOOLEAN
    OBVIOUS
  <2>2. ledger' = r /\ lock' = ledger'.total /\ ledger'.total = 0
    BY <1>1, <1>5
  <2>3. ledger'.total <= free'
    BY <2>2
  <2> QED
    BY <1>6, <2>1, <2>2, <2>3 DEF StashInv
<1>8. DebtInv'
  BY DEF DebtInv
<1> QED
  BY <1>7, <1>8 DEF BondInv

LEMMA BondInitInv == BondInit => BondInv
<1> SUFFICES ASSUME BondInit PROVE BondInv
  OBVIOUS
<1>1. ErasInv
  BY InitInv DEF BondInit
<1>2. <<>> \in Queue /\ Len(<<>>) = 0 /\ DOMAIN <<>> = {}
  BY DEF Queue
<1>3. Unlocking(<<>>) = 0
  BY <1>2, HeldByAll, HeldByNone
<1>4. Shape(<<>>, currentEra + BondingDuration)
  BY <1>2 DEF Shape, Ascending
<1>5. PICK r : r = NoLedger
  OBVIOUS
<1>6. r \in LedgerType /\ r.total = 0 /\ r.active = 0 /\ r.unlocking = <<>>
  BY <1>5, <1>2 DEF NoLedger, LedgerType
<1>7. Sound(r, currentEra + BondingDuration)
  BY <1>3, <1>4, <1>6 DEF Sound
<1>8. StashInv
  <2>1. bonded \in BOOLEAN /\ validating \in BOOLEAN
    BY DEF BondInit
  <2>2. ledger = r /\ lock = ledger.total /\ ledger.total = 0
    BY <1>5, <1>6 DEF BondInit
  <2>3. free \in 0..Supply /\ ledger.total <= free
    BY <2>2, BondingAssumption DEF BondInit
  <2> QED
    BY <1>7, <2>1, <2>2, <2>3 DEF StashInv
<1>9. DebtInv
  <2>1. DOMAIN owed = {}
    BY DEF BondInit
  <2> QED
    BY <2>1 DEF DebtInv, BondInit, Owes, Dust, Covered
<1> QED
  BY <1>1, <1>8, <1>9 DEF BondInv

-----------------------------------------------------------------------------
(* One step *)

(* What a call finds when it runs between two rotations.                   *)
CallFinds ==
  /\ ErasInv' /\ currentEra' = currentEra /\ activeEra' = activeEra
  /\ activeEra <= currentEra /\ currentEra <= activeEra + 1
  /\ activeEra \in Nat
  /\ Owes(owed, activeEra - SlashDeferDuration, currentEra)
  /\ bonded => Covered(ledger, owed)

LEMMA CallContext ==
  ASSUME BondInv, Extrinsic
  PROVE  CallFinds
<1>1. ErasInv' /\ currentEra' = currentEra /\ activeEra' = activeEra
  BY ErasStay DEF Extrinsic
<1>2. activeEra <= currentEra /\ currentEra <= activeEra + 1 /\ activeEra \in Nat
  BY ErasBetween DEF BondInv, Extrinsic
<1>3. Owes(owed, activeEra - SlashDeferDuration, currentEra) /\ (bonded => Covered(ledger, owed))
  BY DEF BondInv, DebtInv
<1> QED
  BY <1>1, <1>2, <1>3 DEF CallFinds

(* The chunks a withdrawal drops were unlocking before any slash to come.  *)
LEMMA WithdrawalLeaves ==
  ASSUME BondInv, CallFinds, NEW r, r = Consolidate(ledger, currentEra)
  PROVE  /\ Sound(r, currentEra + BondingDuration)
         /\ r.total <= ledger.total /\ r.active = ledger.active
         /\ bonded => Covered(r, owed)
<1>1. Sound(ledger, currentEra + BondingDuration) /\ currentEra \in Nat /\ BondingDuration \in Nat
      /\ SlashDeferDuration \in Nat /\ SlashDeferDuration <= BondingDuration - 2
  BY StashTypes
<1>2. /\ Sound(r, currentEra + BondingDuration)
      /\ r.total <= ledger.total /\ r.active = ledger.active
      /\ \A b \in Nat : b > currentEra => StakeSince(r, b) = StakeSince(ledger, b)
  BY <1>1, ConsolidateSound
<1>3. ASSUME bonded, NEW e \in DOMAIN owed PROVE StakeSince(r, e + BondingDuration) >= owed[e]
  <2>1. e \in Nat /\ e >= activeEra - SlashDeferDuration /\ activeEra \in Nat /\ currentEra <= activeEra + 1
    BY DEF CallFinds, Owes
  <2>2. e + BondingDuration \in Nat /\ e + BondingDuration > currentEra
    BY <1>1, <2>1
  <2>3. StakeSince(ledger, e + BondingDuration) >= owed[e]
    BY <1>3 DEF CallFinds, Covered
  <2> QED
    BY <1>2, <2>2, <2>3
<1> QED
  BY <1>2, <1>3 DEF Covered

LEMMA BondKeeps ==
  ASSUME BondInv, NEW value \in Nat, Bond(value)
  PROVE  BondInv'
<1>1. CallFinds
  BY CallContext DEF Bond
<1>2. free \in Nat /\ free \in 0..Supply /\ MinBalance \in Nat /\ currentEra \in Nat /\ BondingDuration \in Nat
  BY StashTypes
<1>3. ~bonded /\ value >= MinBalance /\ free >= MinBalance /\ bonded' = TRUE
      /\ free' = free /\ validating' = validating /\ owed' = owed
  BY DEF Bond
<1>4. Min({value, free}) \in Nat /\ Min({value, free}) <= free /\ Min({value, free}) >= MinBalance
  BY <1>2, <1>3, MinOfTwo
<1>5. PICK v \in Nat : v = Min({value, free}) /\ v <= free /\ v >= MinBalance
  BY <1>4
<1>6. PICK r : r = [total |-> v, active |-> v, unlocking |-> <<>>]
  OBVIOUS
<1>7. ledger' = r /\ lock' = r.total
  BY <1>5, <1>6 DEF Bond, UpdateLedger
<1>8. <<>> \in Queue /\ Unlocking(<<>>) = 0 /\ Len(<<>>) = 0 /\ DOMAIN <<>> = {}
  BY HeldByNone
<1>9. r \in LedgerType /\ r.total = v /\ r.active = v /\ r.unlocking = <<>>
  BY <1>6, <1>8 DEF LedgerType
<1>10. Sound(r, currentEra' + BondingDuration)
  <2>1. Shape(<<>>, currentEra' + BondingDuration)
    BY <1>8 DEF Shape, Ascending
  <2> QED
    BY <1>8, <1>9, <2>1 DEF Sound
<1>11. Owes(owed, activeEra' - SlashDeferDuration, currentEra')
  BY <1>1 DEF CallFinds
<1>12. Covered(r, owed)
  <2>1. ASSUME NEW e \in DOMAIN owed PROVE StakeSince(r, e + BondingDuration) >= owed[e]
    <3>1. owed[e] < MinBalance /\ owed[e] \in Nat
      BY <1>1, <1>3 DEF BondInv, DebtInv, Dust, CallFinds, Owes
    <3>2. Held(<<>>, Since(e + BondingDuration)) = 0
      BY HeldByNone
    <3> QED
      BY <1>2, <1>5, <1>9, <3>1, <3>2 DEF StakeSince
  <2> QED
    BY <2>1 DEF Covered
<1>13. validating' \in BOOLEAN /\ free' \in 0..Supply /\ r.total <= free' /\ ErasInv'
  BY <1>1, <1>2, <1>3, <1>5, <1>9 DEF BondInv, StashInv, CallFinds
<1> QED
  BY <1>3, <1>7, <1>10, <1>11, <1>12, <1>13, StaysBonded

(* More stake, active: as much more for every era.                         *)
LEMMA BondExtraKeeps ==
  ASSUME BondInv, NEW value \in Nat, BondExtra(value)
  PROVE  BondInv'
<1>1. CallFinds
  BY CallContext DEF BondExtra
<1>2. /\ Sound(ledger, currentEra + BondingDuration)
      /\ ledger.total \in Nat /\ ledger.active \in Nat /\ ledger.unlocking \in Queue
      /\ ledger.total = ledger.active + Unlocking(ledger.unlocking) /\ Unlocking(ledger.unlocking) \in Nat
      /\ free \in 0..Supply /\ free \in Nat /\ ledger.total <= free
      /\ currentEra \in Nat /\ BondingDuration \in Nat
  BY StashTypes
<1>3. bonded /\ bonded' = bonded /\ free' = free /\ validating' = validating /\ owed' = owed
  BY DEF BondExtra
<1>4. free - ledger.total \in Nat
  BY <1>2
<1>5. Min({value, free - ledger.total}) \in Nat /\ Min({value, free - ledger.total}) <= free - ledger.total
  BY <1>4, MinOfTwo
<1>6. PICK x \in Nat : x = Min({value, free - ledger.total}) /\ x <= free - ledger.total
  BY <1>5
<1>7. PICK r : r = [ledger EXCEPT !.total = @ + x, !.active = @ + x]
  OBVIOUS
<1>8. ledger' = r /\ lock' = r.total
  BY <1>6, <1>7 DEF BondExtra, UpdateLedger
<1>9. r \in LedgerType /\ r.total = ledger.total + x /\ r.active = ledger.active + x
      /\ r.unlocking = ledger.unlocking
  <2>1. ledger \in LedgerType
    BY <1>2 DEF Sound
  <2>2. PICK y \in Nat : y = ledger.total + x
    BY <1>2
  <2>3. PICK z \in Nat : z = ledger.active + x
    BY <1>2
  <2>4. r = [ledger EXCEPT !.total = y, !.active = z]
    BY <1>7, <2>2, <2>3
  <2> QED
    BY <2>1, <2>2, <2>3, <2>4 DEF LedgerType
<1>10. Sound(r, currentEra' + BondingDuration)
  <2>1. Shape(r.unlocking, currentEra' + BondingDuration)
    BY <1>1, <1>2, <1>9 DEF Sound, CallFinds
  <2>2. r.total = r.active + Unlocking(r.unlocking)
    BY <1>2, <1>9
  <2> QED
    BY <1>9, <2>1, <2>2 DEF Sound
<1>11. Owes(owed, activeEra' - SlashDeferDuration, currentEra')
  BY <1>1 DEF CallFinds
<1>12. Covered(r, owed)
  <2>1. ASSUME NEW e \in DOMAIN owed PROVE StakeSince(r, e + BondingDuration) >= owed[e]
    <3>1. StakeSince(ledger, e + BondingDuration) >= owed[e] /\ owed[e] \in Nat
      BY <1>1, <1>3 DEF CallFinds, Covered, Owes
    <3>2. Held(ledger.unlocking, Since(e + BondingDuration)) \in Nat
      BY <1>2, HeldType
    <3> QED
      BY <1>2, <1>9, <3>1, <3>2 DEF StakeSince
  <2> QED
    BY <2>1 DEF Covered
<1>13. validating' \in BOOLEAN /\ free' \in 0..Supply /\ r.total <= free' /\ ErasInv'
  BY <1>1, <1>2, <1>3, <1>6, <1>9 DEF BondInv, StashInv, CallFinds
<1>14. bonded' = TRUE
  BY <1>3 DEF BondInv, StashInv
<1> QED
  BY <1>3, <1>8, <1>10, <1>11, <1>12, <1>13, <1>14, StaysBonded

LEMMA WithdrawKeeps ==
  ASSUME BondInv, WithdrawUnbonded
  PROVE  BondInv'
<1>1. CallFinds
  BY CallContext DEF WithdrawUnbonded
<1>2. /\ ledger.total \in Nat /\ free \in 0..Supply /\ ledger.total <= free /\ Supply \in Nat
      /\ currentEra \in Nat /\ BondingDuration \in Nat /\ free \in Nat
  BY StashTypes
<1>3. PICK r : r = Consolidate(ledger, currentEra)
  OBVIOUS
<1>4. bonded /\ free' = free /\ owed' = owed /\ validating \in BOOLEAN /\ ErasInv'
  BY <1>1 DEF WithdrawUnbonded, BondInv, StashInv, CallFinds
<1>5. Sound(r, currentEra + BondingDuration) /\ r.total <= ledger.total /\ Covered(r, owed)
  BY <1>1, <1>3, <1>4, WithdrawalLeaves
<1>6. r.total \in Nat /\ r.active \in Nat
  BY <1>5, SoundTypes
<1>7. Owes(owed, activeEra' - SlashDeferDuration, currentEra')
  BY <1>1 DEF CallFinds
<1>8. CASE Spent(r)
  <2>1. Kill
    BY <1>3, <1>8 DEF WithdrawUnbonded
  <2>2. ASSUME NEW e \in DOMAIN owed PROVE owed[e] < MinBalance
    <3>1. StakeSince(r, e + BondingDuration) >= owed[e] /\ owed[e] \in Nat
      BY <1>1, <1>5 DEF CallFinds, Covered, Owes
    <3>2. Held(<<>>, Since(e + BondingDuration)) = 0
      BY HeldByNone
    <3>3. StakeSince(r, e + BondingDuration) = r.active /\ r.active < MinBalance
      BY <1>6, <1>8, <3>2 DEF Spent, StakeSince
    <3>4. MinBalance \in Nat
      BY StashTypes
    <3> QED
      BY <1>6, <3>1, <3>3, <3>4
  <2>3. Dust(owed)
    BY <2>2 DEF Dust
  <2> QED
    BY <1>2, <1>4, <1>7, <2>1, <2>3, LeftUnbonded DEF Kill
<1>9. CASE ~Spent(r)
  <2>1. ledger' = r /\ lock' = r.total /\ bonded' = bonded /\ validating' = validating
    BY <1>3, <1>9 DEF WithdrawUnbonded, UpdateLedger
  <2>2. Sound(r, currentEra' + BondingDuration)
    BY <1>1, <1>5 DEF CallFinds
  <2>3. r.total <= free' /\ free' \in 0..Supply /\ validating' \in BOOLEAN
    BY <1>2, <1>4, <1>5, <1>6, <2>1
  <2>4. bonded' = TRUE
    BY <1>4, <2>1 DEF BondInv, StashInv
  <2> QED
    BY <1>4, <1>5, <1>7, <2>1, <2>2, <2>3, <2>4, StaysBonded
<1> QED
  BY <1>8, <1>9

LEMMA RebondKeeps ==
  ASSUME BondInv, NEW value \in Nat, RebondStake(value)
  PROVE  BondInv'
<1>1. CallFinds
  BY CallContext DEF RebondStake
<1>2. /\ Sound(ledger, currentEra + BondingDuration) /\ ledger.total \in Nat
      /\ free \in 0..Supply /\ ledger.total <= free
      /\ currentEra \in Nat /\ BondingDuration \in Nat
  BY StashTypes
<1>3. PICK r : r = Rebond(ledger, value)
  OBVIOUS
<1>4. bonded /\ bonded' = bonded /\ free' = free /\ owed' = owed /\ validating' = validating
      /\ ledger' = r /\ lock' = r.total
  BY <1>3 DEF RebondStake, UpdateLedger
<1>5. /\ Sound(r, currentEra + BondingDuration) /\ r.total = ledger.total
      /\ \A b \in Nat : StakeSince(r, b) >= StakeSince(ledger, b)
  BY <1>2, <1>3, RebondSound
<1>6. Owes(owed, activeEra' - SlashDeferDuration, currentEra')
  BY <1>1 DEF CallFinds
<1>7. Covered(r, owed)
  <2>1. ASSUME NEW e \in DOMAIN owed PROVE StakeSince(r, e + BondingDuration) >= owed[e]
    <3>1. StakeSince(ledger, e + BondingDuration) >= owed[e] /\ owed[e] \in Nat /\ e \in Nat
      BY <1>1, <1>4 DEF CallFinds, Covered, Owes
    <3>2. PICK b \in Nat : b = e + BondingDuration
      BY <1>2, <3>1
    <3>3. StakeSince(ledger, b) \in Nat /\ StakeSince(r, b) \in Nat
      BY <1>2, <1>5, SoundTypes
    <3>4. StakeSince(r, b) >= StakeSince(ledger, b)
      BY <1>5
    <3> QED
      BY <3>1, <3>2, <3>3, <3>4
  <2> QED
    BY <2>1 DEF Covered
<1>8. Sound(r, currentEra' + BondingDuration) /\ ErasInv'
  BY <1>1, <1>5 DEF CallFinds
<1>9. r.total <= free' /\ free' \in 0..Supply /\ validating' \in BOOLEAN /\ bonded' = TRUE
  BY <1>2, <1>4, <1>5 DEF BondInv, StashInv
<1> QED
  BY <1>4, <1>6, <1>7, <1>8, <1>9, StaysBonded

(* Calls that leave the ledger and its debts alone.                        *)
LEMMA LedgerKept ==
  ASSUME BondInv, CallFinds, bonded, bonded' = bonded, validating' \in BOOLEAN,
         free' \in 0..Supply, ledger.total <= free',
         ledger' = ledger, lock' = lock, owed' = owed
  PROVE  BondInv'
<1>1. PICK r : r = ledger
  OBVIOUS
<1>2. Sound(r, currentEra + BondingDuration) /\ lock = r.total
  BY <1>1, StashTypes
<1>3. ledger' = r /\ lock' = r.total /\ r.total <= free' /\ bonded' = TRUE
  BY <1>1, <1>2 DEF BondInv, StashInv
<1>4. ErasInv' /\ Sound(r, currentEra' + BondingDuration) /\ Covered(r, owed)
      /\ Owes(owed, activeEra' - SlashDeferDuration, currentEra')
  BY <1>1, <1>2 DEF CallFinds
<1> QED
  BY <1>3, <1>4, StaysBonded

LEMMA ValidateChillKeep ==
  ASSUME BondInv, Validate \/ Chill
  PROVE  BondInv'
<1>1. Extrinsic /\ UNCHANGED <<bonded, ledger, free, lock, owed>> /\ validating' \in BOOLEAN
  BY DEF Validate, Chill
<1>2. CallFinds
  BY <1>1, CallContext
<1>3. free' \in 0..Supply /\ ledger.total <= free'
  BY <1>1, StashTypes
<1>4. bonded
  BY DEF Validate, Chill, BondInv, DebtInv, StashInv
<1> QED
  BY <1>1, <1>2, <1>3, <1>4, LedgerKept

LEMMA TransferKeeps ==
  ASSUME BondInv, NEW balance \in 0..Supply, Transfer(balance)
  PROVE  BondInv'
<1>1. CallFinds
  BY CallContext DEF Transfer
<1>2. UNCHANGED <<bonded, ledger, lock, validating, owed>> /\ free' = balance /\ balance >= lock
  BY DEF Transfer
<1>3. free' \in 0..Supply /\ ledger.total <= free' /\ validating' \in BOOLEAN /\ lock = ledger.total
      /\ ErasInv' /\ Supply \in Nat /\ currentEra' = currentEra /\ activeEra' = activeEra
  <2>1. lock = ledger.total /\ ledger.total \in Nat /\ Supply \in Nat
    BY StashTypes
  <2>2. balance \in Nat /\ ledger.total <= balance
    BY <1>2, <2>1
  <2>3. ErasInv' /\ currentEra' = currentEra /\ activeEra' = activeEra
    BY <1>1 DEF CallFinds
  <2>4. validating' \in BOOLEAN
    BY <1>2 DEF BondInv, StashInv
  <2> QED
    BY <1>2, <2>1, <2>2, <2>3, <2>4
<1>4. CASE bonded
  BY <1>1, <1>2, <1>3, <1>4, LedgerKept
<1>5. CASE ~bonded
  <2>1. ledger = NoLedger /\ ~validating /\ Dust(owed)
    BY <1>5 DEF BondInv, DebtInv
  <2>2. bonded' = FALSE /\ validating' = FALSE
    BY <1>2, <1>5, <2>1 DEF BondInv, StashInv
  <2>3. ledger' = NoLedger /\ lock' = 0
    BY <1>2, <1>3, <2>1 DEF NoLedger
  <2>4. Owes(owed, activeEra' - SlashDeferDuration, currentEra')
    BY <1>1 DEF CallFinds
  <2> QED
    BY <1>2, <1>3, <2>1, <2>2, <2>3, <2>4, LeftUnbonded
<1> QED
  BY <1>4, <1>5

LEMMA ReapKeeps ==
  ASSUME BondInv, ReapStash
  PROVE  BondInv'
<1>1. CallFinds
  BY CallContext DEF ReapStash
<1>2. bonded /\ Kill /\ free' = free /\ owed' = owed
  BY DEF ReapStash
<1>3. /\ ledger.total \in Nat /\ free \in 0..Supply /\ free \in Nat /\ ledger.total <= free /\ Supply \in Nat
      /\ MinBalance \in Nat /\ Sound(ledger, currentEra + BondingDuration)
  BY StashTypes
<1>4. ledger.total < MinBalance
  BY <1>3 DEF ReapStash
<1>5. ASSUME NEW e \in DOMAIN owed PROVE owed[e] < MinBalance
  <2>1. StakeSince(ledger, e + BondingDuration) >= owed[e] /\ owed[e] \in Nat
    BY <1>1, <1>2 DEF CallFinds, Covered, Owes
  <2>2. StakeSince(ledger, e + BondingDuration) \in Nat /\ StakeSince(ledger, e + BondingDuration) <= ledger.total
    BY <1>3, SoundTypes
  <2> QED
    BY <1>3, <1>4, <2>1, <2>2
<1>6. Dust(owed) /\ Owes(owed, activeEra' - SlashDeferDuration, currentEra') /\ ErasInv'
  BY <1>1, <1>5 DEF Dust, CallFinds
<1> QED
  BY <1>2, <1>3, <1>6, LeftUnbonded DEF Kill

LEMMA ForceUnstakeKeeps ==
  ASSUME BondInv, ForceUnstake
  PROVE  BondInv'
<1>1. CallFinds
  BY CallContext DEF ForceUnstake
<1>2. PICK debts : debts = [e \in {} |-> 0]
  OBVIOUS
<1>3. Kill /\ free' = free /\ owed' = debts
  BY <1>2 DEF ForceUnstake
<1>4. free \in 0..Supply /\ Supply \in Nat
  BY StashTypes
<1>5. DOMAIN debts = {}
  BY <1>2
<1>6. Dust(debts) /\ Owes(debts, activeEra' - SlashDeferDuration, currentEra') /\ ErasInv'
  BY <1>1, <1>5 DEF Dust, Owes, CallFinds
<1> QED
  BY <1>3, <1>4, <1>6, LeftUnbonded DEF Kill

(* A slash or a tax that takes `l.total - r.total`, in any era.            *)
LEMMA SlashLeaves ==
  ASSUME BondInv, NEW amount \in Nat, NEW boundary \in Nat,
         NEW r, r = SlashStake(ledger, amount, MinBalance, boundary)
  PROVE  /\ Sound(r, currentEra + BondingDuration)
         /\ r.total \in Nat /\ r.total <= ledger.total /\ ledger.total - r.total \in Nat
         /\ LossBounded(ledger, r, ledger.total - r.total)
         /\ FreeAfter(ledger.total - r.total) \in 0..Supply
         /\ r.total <= FreeAfter(ledger.total - r.total)
<1>1. /\ Sound(ledger, currentEra + BondingDuration) /\ MinBalance \in Nat /\ ledger.total \in Nat
      /\ free \in 0..Supply /\ Supply \in Nat /\ free \in Nat /\ ledger.total <= free
  BY StashTypes
<1>2. /\ Sound(r, currentEra + BondingDuration) /\ r.total <= ledger.total
      /\ \A b \in Nat : StakeSince(ledger, b) - StakeSince(r, b) <= ledger.total - r.total
  BY <1>1, SlashSound
<1>3. r.total \in Nat
  BY <1>2, SoundTypes
<1>4. PICK taken \in Nat : taken = ledger.total - r.total
  BY <1>1, <1>2, <1>3
<1>5. FreeAfter(taken) \in 0..Supply /\ FreeAfter(taken) >= free - taken
  BY <1>1, FreeAfterBounds
<1>6. LossBounded(ledger, r, taken)
  BY <1>2, <1>4 DEF LossBounded
<1>7. r.total <= FreeAfter(taken)
  <2>1. PICK f \in Nat : f = FreeAfter(taken)
    BY <1>1, <1>5
  <2> QED
    BY <1>1, <1>3, <1>4, <1>5, <2>1
<1> QED
  BY <1>2, <1>3, <1>4, <1>5, <1>6, <1>7

(* update_ledger runs only if something was taken; nothing was otherwise.  *)
LEMMA SlashTaken ==
  ASSUME NEW l, NEW bound, Sound(l, bound), NEW r, Sound(r, bound),
         LossBounded(l, r, l.total - r.total), ~(l.total - r.total > 0), r.total <= l.total
  PROVE  LossBounded(l, l, l.total - r.total) /\ l.total = r.total
<1>1. l.total = r.total /\ l.total - r.total = 0
  BY SoundTypes
<1>2. \A b \in Nat : StakeSince(l, b) - StakeSince(l, b) <= 0
  BY SoundTypes
<1> QED
  BY <1>1, <1>2 DEF LossBounded

LEMMA TaxVipKeeps ==
  ASSUME BondInv, NEW pct \in 0..30, TaxVip(pct)
  PROVE  BondInv'
<1>1. CallFinds
  BY CallContext DEF TaxVip
<1>2. /\ Sound(ledger, currentEra + BondingDuration) /\ ledger.active \in Nat /\ currentEra \in Nat
      /\ BondingDuration \in Nat /\ lock = ledger.total /\ ledger.total \in Nat
  BY StashTypes
<1>3. PICK tax \in Nat : tax = Percent(pct, ledger.active)
  BY <1>2, PercentBounds
<1>4. PICK boundary \in Nat : boundary = UnlockEra
  BY <1>2 DEF UnlockEra
<1>5. PICK r : r = SlashStake(ledger, tax, MinBalance, boundary)
  OBVIOUS
<1>6. /\ Sound(r, currentEra + BondingDuration)
      /\ r.total \in Nat /\ r.total <= ledger.total /\ ledger.total - r.total \in Nat
      /\ LossBounded(ledger, r, ledger.total - r.total)
      /\ FreeAfter(ledger.total - r.total) \in 0..Supply
      /\ r.total <= FreeAfter(ledger.total - r.total)
  BY <1>5, SlashLeaves
<1>7. PICK taken \in Nat : taken = ledger.total - r.total
  BY <1>6
<1>8. /\ bonded /\ bonded' = bonded /\ free' = FreeAfter(taken) /\ owed' = Settle(taken)
      /\ validating' \in BOOLEAN
      /\ IF taken > 0 THEN UpdateLedger(r) ELSE UNCHANGED <<ledger, lock>>
  BY <1>3, <1>4, <1>5, <1>7 DEF TaxVip
<1>9. PICK s : /\ Sound(s, currentEra + BondingDuration) /\ s.total = r.total
               /\ LossBounded(ledger, s, taken) /\ ledger' = s /\ lock' = s.total
  <2>1. CASE taken > 0
    <3>1. ledger' = r /\ lock' = r.total
      BY <1>8, <2>1 DEF UpdateLedger
    <3> QED
      BY <1>6, <1>7, <3>1
  <2>2. CASE ~(taken > 0)
    <3>1. LossBounded(ledger, ledger, taken) /\ ledger.total = r.total
      BY <1>2, <1>6, <1>7, <2>2, SlashTaken
    <3>2. ledger' = ledger /\ lock' = ledger.total
      BY <1>2, <1>8, <2>2
    <3> QED
      BY <1>2, <3>1, <3>2
  <2> QED
    BY <2>1, <2>2
<1>10. PICK debts : debts = Settle(taken)
  OBVIOUS
<1>11. Covered(s, debts) /\ Owes(debts, activeEra - SlashDeferDuration, currentEra)
  <2>1. SettledBy(owed, debts, taken)
    BY <1>10, SettleSettles
  <2>2. Owes(owed, activeEra - SlashDeferDuration, currentEra) /\ Covered(ledger, owed)
    BY <1>1, <1>8 DEF CallFinds
  <2> QED
    BY <1>2, <1>9, <2>1, <2>2, LossCovered
<1>12. ErasInv' /\ Sound(s, currentEra' + BondingDuration)
       /\ Owes(debts, activeEra' - SlashDeferDuration, currentEra')
  BY <1>1, <1>9, <1>11 DEF CallFinds
<1>13. bonded' = TRUE /\ free' \in 0..Supply /\ s.total <= free' /\ owed' = debts
  BY <1>6, <1>7, <1>8, <1>9, <1>10 DEF BondInv, StashInv
<1> QED
  BY <1>8, <1>9, <1>11, <1>12, <1>13, StaysBonded

(* What unbond takes out of the active stake: what is asked for, the dust   *)
(* that would be left, and the tax on both, which leaves something.        *)
LEMMA UnbondAmounts ==
  ASSUME NEW active \in Nat, NEW asked \in Nat, asked <= active, asked > 0, NEW pct \in 0..30,
         NEW dust, dust = IF active - asked < MinBalance THEN active - asked ELSE 0,
         MinBalance \in Nat,
         NEW tax, tax = Percent(pct, asked) + Percent(pct, dust)
  PROVE  /\ dust \in Nat /\ asked + dust <= active
         /\ tax \in Nat /\ tax < asked + dust
<1>1. dust \in Nat /\ asked + dust <= active
  OBVIOUS
<1>2. Percent(pct, asked) \in Nat /\ Percent(pct, asked) < asked
  BY PercentBounds
<1>3. Percent(pct, dust) \in Nat /\ Percent(pct, dust) <= dust
  BY <1>1, PercentBounds
<1> QED
  BY <1>1, <1>2, <1>3

(* What moves from active into a chunk that unlocks after every slash to    *)
(* come is still there for all of them, but for the tax.                   *)
LEMMA UnbondLeaves ==
  ASSUME NEW l, NEW era \in Nat, Sound(l, era), NEW out \in Nat, out <= l.active,
         NEW tax \in Nat, tax < out,
         NEW r, r = [total     |-> l.total - tax,
                     active    |-> l.active - out,
                     unlocking |-> WithChunk(l.unlocking, out - tax, era)]
  PROVE  /\ Sound(r, era) /\ r.total = l.total - tax
         /\ \A b \in Nat : b <= era => StakeSince(r, b) = StakeSince(l, b) - tax
<1>1. PICK c \in Queue : c = l.unlocking
  BY SoundTypes
<1>2. l.total \in Nat /\ l.active \in Nat /\ l.total = l.active + Unlocking(c) /\ Unlocking(c) \in Nat
      /\ Shape(c, era)
  BY <1>1, SoundTypes
<1>3. PICK value \in Nat : value = out - tax /\ value > 0
  <2>1. out - tax \in Nat /\ out - tax > 0
    OBVIOUS
  <2> QED
    BY <2>1
<1>4. PICK d : d = WithChunk(c, value, era)
  OBVIOUS
<1>5. /\ d \in Queue /\ Shape(d, era)
      /\ Unlocking(d) = Unlocking(c) + value
      /\ \A b \in Nat : b <= era => Held(d, Since(b)) = Held(c, Since(b)) + value
  BY <1>2, <1>3, <1>4, WithChunkSound
<1>6. PICK y \in Nat : y = l.total - tax
  BY <1>2
<1>7. PICK z \in Nat : z = l.active - out
  BY <1>2
<1>8. r = [total |-> y, active |-> z, unlocking |-> d]
  BY <1>1, <1>3, <1>4, <1>6, <1>7
<1>9. r \in LedgerType /\ r.total = y /\ r.active = z /\ r.unlocking = d
  BY <1>5, <1>8 DEF LedgerType
<1>10. y = z + Unlocking(d)
  BY <1>2, <1>3, <1>5, <1>6, <1>7
<1>11. Sound(r, era)
  BY <1>5, <1>9, <1>10 DEF Sound
<1>12. ASSUME NEW b \in Nat, b <= era PROVE StakeSince(r, b) = StakeSince(l, b) - tax
  <2>1. Held(d, Since(b)) = Held(c, Since(b)) + value /\ Held(c, Since(b)) \in Nat
    BY <1>5, <1>12, HeldType
  <2>2. StakeSince(r, b) = z + Held(d, Since(b)) /\ StakeSince(l, b) = l.active + Held(c, Since(b))
    BY <1>1, <1>9 DEF StakeSince
  <2> QED
    BY <1>2, <1>3, <1>7, <2>1, <2>2
<1> QED
  BY <1>6, <1>9, <1>11, <1>12

LEMMA UnbondKeeps ==
  ASSUME BondInv, NEW value \in Nat, NEW pct \in 0..30, Unbond(value, pct)
  PROVE  BondInv'
<1>1. CallFinds /\ bonded
  BY CallContext DEF Unbond
<1>2. /\ Sound(ledger, currentEra + BondingDuration) /\ ledger.total \in Nat
      /\ free \in 0..Supply /\ free \in Nat /\ ledger.total <= free /\ Supply \in Nat
      /\ currentEra \in Nat /\ BondingDuration \in Nat /\ MinBalance \in Nat
  BY StashTypes
<1>3. PICK l : l = IF Len(ledger.unlocking) = MaxUnlockingChunks
                   THEN Consolidate(ledger, currentEra) ELSE ledger
  OBVIOUS
<1>4. Sound(l, currentEra + BondingDuration) /\ l.total <= ledger.total /\ Covered(l, owed)
  <2>1. CASE Len(ledger.unlocking) = MaxUnlockingChunks
    BY <1>1, <1>3, <2>1, WithdrawalLeaves
  <2>2. CASE Len(ledger.unlocking) # MaxUnlockingChunks
    <3>1. l = ledger
      BY <1>3, <2>2
    <3> QED
      BY <1>1, <1>2, <3>1 DEF CallFinds
  <2> QED
    BY <2>1, <2>2
<1>5. l.total \in Nat /\ l.active \in Nat /\ Unlocking(l.unlocking) \in Nat
      /\ l.total = l.active + Unlocking(l.unlocking)
  BY <1>4, SoundTypes
<1>6. PICK asked \in Nat : asked = Min({value, l.active}) /\ asked <= l.active
  <2>1. Min({value, l.active}) \in Nat /\ Min({value, l.active}) <= l.active
    BY <1>5, MinOfTwo
  <2> QED
    BY <2>1
<1>7. PICK dust : dust = IF l.active - asked < MinBalance THEN l.active - asked ELSE 0
  OBVIOUS
<1>8. PICK tax : tax = Percent(pct, asked) + Percent(pct, dust)
  OBVIOUS
<1>9. asked > 0
  BY <1>3, <1>6 DEF Unbond
<1>10. dust \in Nat /\ asked + dust <= l.active /\ tax \in Nat /\ tax < asked + dust
  BY <1>2, <1>5, <1>6, <1>7, <1>8, <1>9, UnbondAmounts
<1>11. PICK out \in Nat : out = asked + dust
  BY <1>10
<1>12. PICK era \in Nat : era = UnlockEra
  BY <1>2 DEF UnlockEra
<1>13. PICK r : r = [total     |-> l.total - tax,
                     active    |-> l.active - out,
                     unlocking |-> WithChunk(l.unlocking, out - tax, era)]
  OBVIOUS
<1>14. /\ UpdateLedger(r) /\ free' = FreeAfter(tax) /\ owed' = Settle(tax)
       /\ UNCHANGED <<bonded, validating>>
  BY <1>3, <1>6, <1>7, <1>8, <1>11, <1>12, <1>13 DEF Unbond
<1>15. ledger' = r /\ lock' = r.total
  BY <1>14 DEF UpdateLedger
<1>16. era = currentEra + BondingDuration /\ Sound(l, era)
  BY <1>4, <1>12 DEF UnlockEra
<1>17. /\ Sound(r, era) /\ r.total = l.total - tax
       /\ \A b \in Nat : b <= era => StakeSince(r, b) = StakeSince(l, b) - tax
  BY <1>10, <1>11, <1>13, <1>16, UnbondLeaves
<1>18. PICK debts : debts = Settle(tax)
  OBVIOUS
<1>19. Owes(owed, activeEra - SlashDeferDuration, currentEra)
  BY <1>1 DEF CallFinds
<1>20. ASSUME NEW e \in DOMAIN debts
       PROVE  /\ StakeSince(r, e + BondingDuration) >= debts[e]
              /\ e \in Nat /\ debts[e] \in Nat
              /\ activeEra - SlashDeferDuration <= e /\ e <= currentEra
  <2>1. e \in DOMAIN owed /\ debts[e] = Less(owed[e], tax)
    BY <1>18 DEF Settle
  <2>2. e \in Nat /\ owed[e] \in Nat /\ activeEra - SlashDeferDuration <= e /\ e <= currentEra
    BY <1>19, <2>1 DEF Owes
  <2>3. PICK b \in Nat : b = e + BondingDuration /\ b <= era
    <3>1. e + BondingDuration \in Nat /\ e + BondingDuration <= era
      BY <1>2, <1>16, <2>2
    <3> QED
      BY <3>1
  <2>4. StakeSince(r, b) = StakeSince(l, b) - tax
    BY <1>17, <2>3
  <2>5. StakeSince(l, b) >= owed[e] /\ StakeSince(l, b) \in Nat /\ StakeSince(r, b) \in Nat
    <3>1. StakeSince(l, b) \in Nat /\ StakeSince(r, b) \in Nat
      BY <1>16, <1>17, SoundTypes
    <3> QED
      BY <1>4, <2>1, <2>3, <3>1 DEF Covered
  <2> QED
    BY <1>10, <2>1, <2>2, <2>3, <2>4, <2>5 DEF Less
<1>21. Covered(r, debts)
  BY <1>20 DEF Covered
<1>22. Owes(debts, activeEra' - SlashDeferDuration, currentEra') /\ ErasInv'
       /\ Sound(r, currentEra' + BondingDuration)
  <2>1. Owes(debts, activeEra - SlashDeferDuration, currentEra)
    BY <1>20 DEF Owes
  <2> QED
    BY <1>1, <1>16, <1>17, <2>1 DEF CallFinds
<1>23. free' \in 0..Supply /\ r.total <= free'
  <2>1. FreeAfter(tax) \in 0..Supply /\ FreeAfter(tax) >= free - tax
    BY <1>2, <1>10, FreeAfterBounds
  <2>2. PICK f \in Nat : f = FreeAfter(tax)
    BY <1>2, <2>1
  <2> QED
    BY <1>2, <1>4, <1>5, <1>10, <1>14, <1>17, <2>1, <2>2
<1>24. bonded' = TRUE /\ validating' \in BOOLEAN /\ owed' = debts
  BY <1>1, <1>14, <1>18 DEF BondInv, StashInv
<1> QED
  BY <1>15, <1>21, <1>22, <1>23, <1>24, StaysBonded

(* The calls of a rotation.  All but a slash leave the stash as it is.      *)
LEMMA StashKept ==
  ASSUME BondInv, ErasInv', NEW bound, Sound(ledger, bound), bound = currentEra' + BondingDuration,
         UNCHANGED <<bonded, ledger, free, lock, validating>>, NEW debts, owed' = debts,
         bonded => Covered(ledger, debts), ~bonded => Dust(debts),
         Owes(debts, activeEra' - SlashDeferDuration, currentEra')
  PROVE  BondInv'
<1>1. StashInv'
  <2>1. /\ bonded' \in BOOLEAN /\ validating' \in BOOLEAN
        /\ free' \in 0..Supply /\ lock' = ledger'.total /\ ledger'.total <= free'
    BY DEF BondInv, StashInv
  <2>2. Sound(ledger', currentEra' + BondingDuration)
    OBVIOUS
  <2> QED
    BY <2>1, <2>2 DEF StashInv
<1>2. DebtInv'
  BY DEF BondInv, DebtInv
<1> QED
  BY <1>1, <1>2 DEF BondInv

LEMMA RotationKeeps ==
  ASSUME BondInv, EndSessionB \/ PlanSessionB \/ ForceErasB
  PROVE  BondInv'
<1>1. EraNext /\ currentEra' = currentEra /\ activeEra' = activeEra
      /\ UNCHANGED <<bonded, ledger, free, lock, validating>> /\ owed' = owed
  BY DEF EndSessionB, PlanSessionB, ForceErasB, EraNext, EndSession, PlanSession, PlanNext, ForceEras, bondVars
<1>2. ErasInv'
  BY <1>1, NextInv DEF BondInv
<1>3. Sound(ledger, currentEra' + BondingDuration)
  BY <1>1, StashTypes
<1>4. /\ bonded => Covered(ledger, owed)
      /\ ~bonded => Dust(owed)
      /\ Owes(owed, activeEra' - SlashDeferDuration, currentEra')
  BY <1>1 DEF BondInv, DebtInv
<1> QED
  BY <1>1, <1>2, <1>3, <1>4, StashKept

LEMMA PlanEraKeeps ==
  ASSUME BondInv, PlanEraB
  PROVE  BondInv'
<1>1. ErasInv' /\ currentEra' = currentEra + 1 /\ activeEra' = activeEra
      /\ UNCHANGED <<bonded, ledger, free, lock, validating>>
  <2>1. EraNext
    BY DEF PlanEraB, EraNext
  <2>2. ErasInv'
    BY <2>1, NextInv DEF BondInv
  <2> QED
    BY <2>2 DEF PlanEraB, PlanEra, PlanNext
<1>2. /\ Sound(ledger, currentEra + BondingDuration) /\ ledger.active \in Nat /\ ledger.unlocking \in Queue
      /\ currentEra \in Nat /\ activeEra \in Int /\ BondingDuration \in Nat /\ MinBalance \in Nat
      /\ SlashDeferDuration \in Nat /\ MinBalance > 0
  BY StashTypes
<1>3. activeEra <= currentEra
  <2>1. session \in Int /\ session >= -1 /\ (session = -1 <=> activeEra = -1)
    BY DEF BondInv, ErasInv, EraTypeOK, Counters
  <2>2. session >= 0 => currentEra \in {activeEra, activeEra + 1}
    BY DEF BondInv, ErasInv, Planning
  <2> QED
    BY <1>2, <2>1, <2>2
<1>4. PICK bound \in Nat : bound = currentEra + 1 + BondingDuration
  BY <1>2
<1>5. Sound(ledger, bound)
  <2>1. ASSUME NEW i \in DOMAIN ledger.unlocking PROVE ledger.unlocking[i].era <= bound
    <3>1. ledger.unlocking[i].era \in Nat /\ ledger.unlocking[i].era <= currentEra + BondingDuration
      BY <1>2, QueueTypes DEF Sound, Shape
    <3> QED
      BY <1>2, <1>4, <3>1
  <2>2. Shape(ledger.unlocking, bound)
    BY <1>2, <2>1 DEF Sound, Shape
  <2> QED
    BY <1>2, <2>2 DEF Sound
<1>6. PICK stake \in Nat : stake = IF validating THEN ledger.active ELSE 0
  BY <1>2
<1>7. PICK debts : debts = [e \in DOMAIN owed \cup {currentEra + 1} |->
                              IF e = currentEra + 1 THEN stake ELSE owed[e]]
  OBVIOUS
<1>8. owed' = debts
  BY <1>6, <1>7 DEF PlanEraB
<1>9. DOMAIN debts = DOMAIN owed \cup {currentEra + 1}
      /\ \A e \in DOMAIN debts : debts[e] = IF e = currentEra + 1 THEN stake ELSE owed[e]
  BY <1>7
<1>10. Owes(owed, activeEra - SlashDeferDuration, currentEra)
  BY DEF BondInv, DebtInv
<1>11. Owes(debts, activeEra' - SlashDeferDuration, currentEra')
  <2>1. ASSUME NEW e \in DOMAIN debts
        PROVE  /\ e \in Nat /\ debts[e] \in Nat
               /\ activeEra - SlashDeferDuration <= e /\ e <= currentEra + 1
    <3>1. CASE e = currentEra + 1
      BY <1>2, <1>3, <1>9, <3>1
    <3>2. CASE e # currentEra + 1
      <4>1. e \in DOMAIN owed /\ debts[e] = owed[e]
        BY <1>9, <3>2
      <4> QED
        BY <1>2, <1>10, <4>1 DEF Owes
    <3> QED
      BY <3>1, <3>2
  <2> QED
    BY <1>1, <2>1 DEF Owes
<1>12. ASSUME bonded PROVE Covered(ledger, debts)
  <2>1. ASSUME NEW e \in DOMAIN debts PROVE StakeSince(ledger, e + BondingDuration) >= debts[e]
    <3>1. CASE e = currentEra + 1
      <4>1. Held(ledger.unlocking, Since(e + BondingDuration)) \in Nat
        BY <1>2, HeldType
      <4>2. debts[e] = stake /\ stake <= ledger.active
        BY <1>2, <1>6, <1>9, <3>1
      <4> QED
        BY <1>2, <4>1, <4>2 DEF StakeSince
    <3>2. CASE e # currentEra + 1
      <4>1. e \in DOMAIN owed /\ debts[e] = owed[e]
        BY <1>9, <3>2
      <4> QED
        BY <1>12, <4>1 DEF BondInv, DebtInv, Covered
    <3> QED
      BY <3>1, <3>2
  <2> QED
    BY <2>1 DEF Covered
<1>13. ASSUME ~bonded PROVE Dust(debts)
  <2>1. stake = 0 /\ Dust(owed)
    BY <1>6, <1>13 DEF BondInv, DebtInv
  <2> QED
    BY <1>2, <1>9, <2>1 DEF Dust
<1> QED
  BY <1>1, <1>4, <1>5, <1>8, <1>11, <1>12, <1>13, StashKept

(* An era start takes its slash and forgets the debt; the debts of later   *)
(* eras lose what the slash took.                                          *)
LEMMA EnactKeeps ==
  ASSUME BondInv, ErasInv', bonded, currentEra' = currentEra, activeEra' = activeEra + 1,
         NEW era \in DOMAIN owed, era = activeEra - SlashDeferDuration,
         NEW amount \in Nat, EnactSlash(era, amount)
  PROVE  BondInv'
<1>1. /\ Owes(owed, activeEra - SlashDeferDuration, currentEra) /\ Covered(ledger, owed)
  BY DEF BondInv, DebtInv
<1>2. /\ Sound(ledger, currentEra + BondingDuration) /\ currentEra \in Nat /\ activeEra \in Int
      /\ BondingDuration \in Nat /\ lock = ledger.total /\ ledger.total \in Nat
      /\ SlashDeferDuration \in Nat
  BY StashTypes
<1>3. PICK boundary \in Nat : boundary = era + 1 + BondingDuration
  <2>1. era \in Nat
    BY <1>1 DEF Owes
  <2> QED
    BY <1>2, <2>1
<1>4. PICK r : r = SlashStake(ledger, amount, MinBalance, boundary)
  OBVIOUS
<1>5. /\ Sound(r, currentEra + BondingDuration)
      /\ r.total \in Nat /\ r.total <= ledger.total /\ ledger.total - r.total \in Nat
      /\ LossBounded(ledger, r, ledger.total - r.total)
      /\ FreeAfter(ledger.total - r.total) \in 0..Supply
      /\ r.total <= FreeAfter(ledger.total - r.total)
  BY <1>4, SlashLeaves
<1>6. PICK taken \in Nat : taken = ledger.total - r.total
  BY <1>5
<1>7. PICK debts : debts = [e \in DOMAIN owed \ {era} |-> Less(owed[e], taken)]
  OBVIOUS
<1>8. /\ bonded' = bonded /\ free' = FreeAfter(taken) /\ owed' = debts
      /\ validating' \in {validating, FALSE}
      /\ IF taken > 0 THEN UpdateLedger(r) ELSE UNCHANGED <<ledger, lock>>
  BY <1>3, <1>4, <1>6, <1>7 DEF EnactSlash
<1>9. PICK s : /\ Sound(s, currentEra + BondingDuration) /\ s.total = r.total
               /\ LossBounded(ledger, s, taken) /\ ledger' = s /\ lock' = s.total
  <2>1. CASE taken > 0
    <3>1. ledger' = r /\ lock' = r.total
      BY <1>8, <2>1 DEF UpdateLedger
    <3> QED
      BY <1>5, <1>6, <3>1
  <2>2. CASE ~(taken > 0)
    <3>1. LossBounded(ledger, ledger, taken) /\ ledger.total = r.total
      BY <1>2, <1>5, <1>6, <2>2, SlashTaken
    <3>2. ledger' = ledger /\ lock' = ledger.total
      BY <1>2, <1>8, <2>2
    <3> QED
      BY <1>2, <3>1, <3>2
  <2> QED
    BY <2>1, <2>2
<1>10. SettledBy(owed, debts, taken)
  BY <1>7 DEF SettledBy
<1>11. Covered(s, debts) /\ Owes(debts, activeEra - SlashDeferDuration, currentEra)
  BY <1>1, <1>2, <1>9, <1>10, LossCovered
<1>12. Owes(debts, activeEra' - SlashDeferDuration, currentEra')
  <2>1. ASSUME NEW e \in DOMAIN debts
        PROVE  /\ e \in Nat /\ debts[e] \in Nat
               /\ activeEra' - SlashDeferDuration <= e /\ e <= currentEra'
    <3>1. e # activeEra - SlashDeferDuration
      BY <1>7
    <3>2. e \in Nat /\ debts[e] \in Nat /\ activeEra - SlashDeferDuration <= e /\ e <= currentEra
      BY <1>11 DEF Owes
    <3> QED
      BY <1>2, <3>1, <3>2
  <2> QED
    BY <2>1 DEF Owes
<1>13. bonded' = TRUE /\ validating' \in BOOLEAN
  BY <1>8 DEF BondInv, StashInv
<1>14. free' \in 0..Supply /\ s.total <= free' /\ Sound(s, currentEra' + BondingDuration)
  BY <1>5, <1>6, <1>8, <1>9
<1> QED
  BY <1>8, <1>9, <1>11, <1>12, <1>13, <1>14, StaysBonded

LEMMA StartKeeps ==
  ASSUME BondInv, StartSessionB
  PROVE  BondInv'
<1>1. StartSession /\ ErasInv' /\ currentEra' = currentEra
  <2>1. StartSession /\ EraNext
    BY DEF StartSessionB, EraNext
  <2>2. ErasInv'
    BY <2>1, NextInv DEF BondInv
  <2> QED
    BY <2>1, <2>2 DEF StartSession
<1>2. activeEra' = IF StartsEra THEN activeEra + 1 ELSE activeEra
  BY <1>1 DEF StartSession, StartEra
<1>3. /\ Owes(owed, activeEra - SlashDeferDuration, currentEra)
      /\ bonded => Covered(ledger, owed)
      /\ ~bonded => Dust(owed)
  BY DEF BondInv, DebtInv
<1>4. /\ Sound(ledger, currentEra' + BondingDuration) /\ activeEra \in Int /\ SlashDeferDuration \in Nat
      /\ currentEra \in Nat
  BY <1>1, StashTypes
<1>5. PICK era : era = activeEra - SlashDeferDuration
  OBVIOUS
<1>6. CASE StartsEra /\ era \in DOMAIN owed /\ bonded
  <2>1. activeEra' = activeEra + 1
    BY <1>2, <1>6
  <2>2. \E amount \in 0..owed[era] : EnactSlash(era, amount)
    BY <1>5, <1>6 DEF StartSessionB
  <2>3. owed[era] \in Nat
    BY <1>3, <1>6 DEF Owes
  <2>4. PICK amount \in Nat : EnactSlash(era, amount)
    BY <2>2, <2>3
  <2> QED
    BY <1>1, <1>5, <1>6, <2>1, <2>4, EnactKeeps
<1>7. CASE StartsEra /\ era \in DOMAIN owed /\ ~bonded
  <2>1. PICK debts : debts = [e \in DOMAIN owed \ {era} |-> owed[e]]
    OBVIOUS
  <2>2. owed' = debts /\ UNCHANGED <<bonded, ledger, free, lock, validating>>
    BY <1>5, <1>7, <2>1 DEF StartSessionB
  <2>3. DOMAIN debts = DOMAIN owed \ {era} /\ \A e \in DOMAIN debts : debts[e] = owed[e]
    BY <2>1
  <2>4. Dust(debts)
    BY <1>3, <1>7, <2>3 DEF Dust
  <2>5. ASSUME NEW e \in DOMAIN debts
        PROVE  /\ e \in Nat /\ debts[e] \in Nat
               /\ activeEra' - SlashDeferDuration <= e /\ e <= currentEra'
    <3>1. e # activeEra - SlashDeferDuration /\ e \in DOMAIN owed /\ debts[e] = owed[e]
      BY <1>5, <2>3
    <3>2. e \in Nat /\ owed[e] \in Nat /\ activeEra - SlashDeferDuration <= e /\ e <= currentEra
      BY <1>3, <3>1 DEF Owes
    <3> QED
      BY <1>1, <1>2, <1>4, <1>7, <3>1, <3>2
  <2>6. Owes(debts, activeEra' - SlashDeferDuration, currentEra')
    BY <2>5 DEF Owes
  <2> QED
    BY <1>1, <1>4, <1>7, <2>2, <2>4, <2>6, StashKept
<1>8. CASE ~(StartsEra /\ era \in DOMAIN owed)
  <2>1. UNCHANGED bondVars
    BY <1>5, <1>8 DEF StartSessionB
  <2>2. owed' = owed /\ UNCHANGED <<bonded, ledger, free, lock, validating>>
    BY <2>1 DEF bondVars
  <2>3. ASSUME NEW e \in DOMAIN owed PROVE activeEra' - SlashDeferDuration <= e
    <3>1. e \in Nat /\ activeEra - SlashDeferDuration <= e
      BY <1>3 DEF Owes
    <3>2. StartsEra => e # activeEra - SlashDeferDuration
      BY <1>5, <1>8
    <3> QED
      BY <1>2, <1>4, <3>1, <3>2
  <2>4. Owes(owed, activeEra' - SlashDeferDuration, currentEra')
    BY <1>1, <1>3, <2>3 DEF Owes
  <2> QED
    BY <1>1, <1>3, <1>4, <2>2, <2>4, StashKept
<1> QED
  BY <1>6, <1>7, <1>8

-----------------------------------------------------------------------------
(* The invariant and what follows from it *)

LEMMA BondStepInv == BondInv /\ [Next]_vars => BondInv'
<1> SUFFICES ASSUME BondInv, [Next]_vars PROVE BondInv'
  OBVIOUS
<1> USE BondingAssumption
<1>1. CASE EndSessionB \/ PlanSessionB \/ ForceErasB
  BY <1>1, RotationKeeps
<1>2. CASE StartSessionB
  BY <1>2, StartKeeps
<1>3. CASE PlanEraB
  BY <1>3, PlanEraKeeps
<1>4. CASE \E value \in Amounts : Bond(value)
  <2>1. PICK value \in Nat : Bond(value)
    BY <1>4 DEF Amounts
  <2> QED
    BY <2>1, BondKeeps
<1>5. CASE \E value \in Amounts : BondExtra(value)
  <2>1. PICK value \in Nat : BondExtra(value)
    BY <1>5 DEF Amounts
  <2> QED
    BY <2>1, BondExtraKeeps
<1>6. CASE \E value \in Amounts, pct \in TaxPercents : Unbond(value, pct)
  <2>1. PICK value \in Amounts, pct \in TaxPercents : Unbond(value, pct)
    BY <1>6
  <2>2. value \in Nat /\ pct \in 0..30
    BY DEF Amounts
  <2> QED
    BY <2>1, <2>2, UnbondKeeps
<1>7. CASE WithdrawUnbonded
  BY <1>7, WithdrawKeeps
<1>8. CASE \E value \in Amounts : RebondStake(value)
  <2>1. PICK value \in Nat : RebondStake(value)
    BY <1>8 DEF Amounts
  <2> QED
    BY <2>1, RebondKeeps
<1>9. CASE Validate \/ Chill
  BY <1>9, ValidateChillKeep
<1>10. CASE \E pct \in TaxPercents : TaxVip(pct)
  <2>1. PICK pct \in 0..30 : TaxVip(pct)
    BY <1>10
  <2> QED
    BY <2>1, TaxVipKeeps
<1>11. CASE ReapStash
  BY <1>11, ReapKeeps
<1>12. CASE ForceUnstake
  BY <1>12, ForceUnstakeKeeps
<1>13. CASE \E balance \in 0..Supply : Transfer(balance)
  BY <1>13, TransferKeeps
<1>14. CASE UNCHANGED vars
  <2>1. UNCHANGED eraVars /\ UNCHANGED bondVars
    BY <1>14 DEF vars
  <2>2. ErasInv' /\ currentEra' = currentEra /\ activeEra' = activeEra
    BY <2>1, ErasStay
  <2>3. UNCHANGED <<bonded, ledger, free, lock, validating>> /\ owed' = owed
    BY <2>1 DEF bondVars
  <2>4. /\ bonded => Covered(ledger, owed)
        /\ ~bonded => Dust(owed)
        /\ Owes(owed, activeEra' - SlashDeferDuration, currentEra')
        /\ Sound(ledger, currentEra' + BondingDuration)
    BY <2>2 DEF BondInv, DebtInv, StashInv
  <2> QED
    BY <2>2, <2>3, <2>4, StashKept
<1> QED
  BY <1>1, <1>2, <1>3, <1>4, <1>5, <1>6, <1>7, <1>8, <1>9, <1>10, <1>11, <1>12, <1>13, <1>14 DEF Next

(* The ledger is sound and backed, and of the stake that was not yet        *)
(* unlocking in an era, the ledger still holds what the era is owed.        *)
THEOREM BondingInvariant == Spec => []BondInv
<1>1. BondInit => BondInv
  BY BondInitInv
<1>2. BondInv /\ [Next]_vars => BondInv'
  BY BondStepInv
<1> QED
  BY <1>1, <1>2, PTL DEF Spec

LEMMA BackedFromInv == BondInv => StakeIsBacked
<1> SUFFICES ASSUME BondInv PROVE StakeIsBacked
  OBVIOUS
<1>1. /\ Sound(ledger, currentEra + BondingDuration)
      /\ ledger.total \in Nat /\ ledger.active \in Nat /\ ledger.unlocking \in Queue
      /\ ledger.total = ledger.active + Unlocking(ledger.unlocking)
      /\ free \in 0..Supply /\ lock = ledger.total /\ ledger.total <= free
      /\ currentEra \in Nat /\ BondingDuration \in Nat
  BY StashTypes
<1>2. TypeOK
  <2>1. \A i \in DOMAIN ledger.unlocking :
          ledger.unlocking[i].value \in Nat /\ ledger.unlocking[i].era \in Nat
    BY <1>1, QueueTypes
  <2>2. \A e \in DOMAIN owed : owed[e] \in Nat
    BY DEF BondInv, DebtInv, Owes
  <2>3. bonded \in BOOLEAN /\ validating \in BOOLEAN
    BY DEF BondInv, StashInv
  <2>4. ASSUME ~bonded PROVE ledger = NoLedger /\ lock = 0 /\ ~validating
    <3>1. ledger = NoLedger /\ ~validating
      BY <2>4 DEF BondInv, DebtInv
    <3> QED
      BY <1>1, <3>1 DEF NoLedger
  <2> QED
    BY <1>1, <2>1, <2>2, <2>3, <2>4 DEF TypeOK
<1>3. ChunksInOrder
  BY <1>1 DEF ChunksInOrder, Sound, Shape, Ascending
<1>4. RoomToUnbond
  <2>1. PICK r : r = Consolidate(ledger, currentEra)
    OBVIOUS
  <2>2. Sound(r, currentEra + BondingDuration) /\ \A i \in DOMAIN r.unlocking : r.unlocking[i].era > currentEra
    BY <1>1, <2>1, ConsolidateSound
  <2>3. PICK c \in Queue : c = r.unlocking
    BY <2>2, SoundTypes
  <2>4. Shape(c, currentEra + BondingDuration) /\ \A i \in DOMAIN c : c[i].era > currentEra
    BY <2>2, <2>3, SoundTypes
  <2>5. Len(c) <= BondingDuration
    BY <1>1, <2>4, ShapeLeavesRoom
  <2> QED
    BY <2>1, <2>3, <2>5 DEF RoomToUnbond
<1> QED
  BY <1>1, <1>2, <1>3, <1>4 DEF StakeIsBacked

(* Whatever calls, taxes, slashes and transfers come, in whatever order:    *)
(* the ledger adds up, is locked and is held, its chunks are in the shape   *)
(* every call relies on, and a withdrawal always makes room to unbond.      *)
THEOREM StakeIsAlwaysBacked == Spec => []StakeIsBacked
BY BondingInvariant, BackedFromInv, PTL

LEMMA AwaitsFromInv == BondInv => StakeAwaitsSlash
<1> SUFFICES ASSUME BondInv, bonded, NEW e \in DOMAIN owed PROVE ledger.total >= owed[e]
  BY DEF StakeAwaitsSlash
<1>1. Sound(ledger, currentEra + BondingDuration)
  BY StashTypes
<1>2. StakeSince(ledger, e + BondingDuration) >= owed[e] /\ owed[e] \in Nat
  BY DEF BondInv, DebtInv, Covered, Owes
<1>3. StakeSince(ledger, e + BondingDuration) \in Nat /\ ledger.total \in Nat
      /\ StakeSince(ledger, e + BondingDuration) <= ledger.total
  BY <1>1, SoundTypes
<1> QED
  BY <1>2, <1>3

(* Nobody unbonds past a slash: no order of calls and eras withdraws stake  *)
(* that an era start can still take for an offence.                        *)
THEOREM StakeAlwaysAwaitsSlash == Spec => []StakeAwaitsSlash
BY BondingInvariant, AwaitsFromInv, PTL

(* A stash that leaves while it owes, by withdrawing or being reaped, owes  *)
(* less than a minimum balance for each era.                               *)
THEOREM OnlyDustEverEscapes == Spec => OnlyDustEscapes
<1>1. BondInv' => (bonded /\ ~bonded' => \A e \in DOMAIN owed' : owed'[e] < MinBalance)
  BY DEF BondInv, DebtInv, Dust
<1>2. BondInv /\ BondInv' /\ [Next]_vars
      => [bonded /\ ~bonded' => \A e \in DOMAIN owed' : owed'[e] < MinBalance]_vars
  BY <1>1
<1> QED
  BY <1>2, BondingInvariant, PTL DEF Spec, OnlyDustEscapes

-----------------------------------------------------------------------------
(* What a filter keeps of a queue *)

LEMMA AppendIs ==
  ASSUME NEW c \in Queue, NEW x \in Chunk
  PROVE  \E e \in Queue : /\ e = Append(c, x) /\ Len(e) = Len(c) + 1 /\ e[Len(c) + 1] = x
                          /\ \A j \in 1..Len(c) : e[j] = c[j]
<1>1. Append(c, x) \in Queue
  BY HeldAppend
<1>2. /\ Len(Append(c, x)) = Len(c) + 1 /\ Append(c, x)[Len(c) + 1] = x
      /\ \A j \in 1..Len(c) : Append(c, x)[j] = c[j]
  BY DEF Queue
<1> QED
  BY <1>1, <1>2

(* The first m chunks are kept, and those after them are not.              *)
KeptSoFar(d, c, m, k, S) ==
  /\ Len(d) <= k /\ (k <= m => Len(d) = k) /\ (k >= m => Len(d) >= m)
  /\ \A i \in 1..m : i <= k => d[i] = c[i]
  /\ (\A i \in (m + 1)..k : c[i] \notin S) => Len(d) <= m
  /\ \A i \in 1..k : c[i] \in S => \E j \in 1..Len(d) : d[j] = c[i]

LEMMA KeepPrefix ==
  ASSUME NEW c \in Queue, NEW S, NEW m \in 0..Len(c), \A i \in 1..m : c[i] \in S
  PROVE  KeptSoFar(Keep(c, S), c, m, Len(c), S)
<1>1. PICK K : IsKeep(K, c, S)
  BY KeepSteps
<1>2. PICK n \in Nat : n = Len(c) /\ DOMAIN c = 1..n /\ \A i \in 1..n : c[i] \in Chunk
  BY QueueTypes
<1> DEFINE Good == {k \in Nat : k <= n => KeptSoFar(K[k], c, m, k, S)}
<1>3. 0 \in Good
  <2>1. K[0] = <<>>
    BY <1>1 DEF IsKeep
  <2> QED
    BY <2>1 DEF KeptSoFar
<1>4. ASSUME NEW k \in Nat, k \in Good PROVE k + 1 \in Good
  <2> SUFFICES ASSUME k + 1 <= n
               PROVE  KeptSoFar(K[k + 1], c, m, k + 1, S)
    OBVIOUS
  <2>1. KeptSoFar(K[k], c, m, k, S)
    BY <1>4
  <2>2. PICK d \in Queue : d = K[k]
    BY <1>1, <1>2 DEF IsKeep
  <2>3. PICK x \in Chunk : x = c[k + 1]
    BY <1>2
  <2>4. K[k + 1] = IF x \in S THEN Append(d, x) ELSE d
    <3>1. k + 1 \in 1..n /\ (k + 1) - 1 = k
      OBVIOUS
    <3> QED
      BY <1>1, <1>2, <2>2, <2>3, <3>1 DEF IsKeep
  <2>5. PICK l \in Nat : l = Len(d)
    BY DEF Queue
  <2>6. /\ l <= k /\ (k <= m => l = k) /\ (k >= m => l >= m)
        /\ \A i \in 1..m : i <= k => d[i] = c[i]
        /\ (\A i \in (m + 1)..k : c[i] \notin S) => l <= m
        /\ \A i \in 1..k : c[i] \in S => \E j \in 1..l : d[j] = c[i]
    BY <2>1, <2>2, <2>5 DEF KeptSoFar
  <2>7. m \in Nat
    BY <1>2
  <2>8. CASE x \in S
    <3>1. PICK e \in Queue : e = Append(d, x) /\ Len(e) = l + 1 /\ e[l + 1] = x /\ \A j \in 1..l : e[j] = d[j]
      BY <2>5, AppendIs
    <3>2. Len(e) <= k + 1 /\ (k + 1 <= m => Len(e) = k + 1) /\ (k + 1 >= m => Len(e) >= m)
      BY <2>6, <2>7, <3>1
    <3>3. ASSUME NEW i \in 1..m, i <= k + 1 PROVE e[i] = c[i]
      <4>1. CASE i <= k
        <5>1. l >= i
          BY <2>6, <2>7, <4>1
        <5> QED
          BY <2>6, <3>1, <4>1, <5>1
      <4>2. CASE i = k + 1
        BY <2>3, <2>6, <2>7, <3>1, <4>2
      <4> QED
        BY <3>3, <4>1, <4>2
    <3>4. ASSUME \A i \in (m + 1)..(k + 1) : c[i] \notin S PROVE Len(e) <= m
      <4>1. k + 1 <= m
        BY <2>3, <2>7, <2>8, <3>4
      <4> QED
        BY <2>6, <3>1, <4>1
    <3>5. ASSUME NEW i \in 1..(k + 1), c[i] \in S PROVE \E j \in 1..Len(e) : e[j] = c[i]
      <4>1. CASE i <= k
        <5>1. PICK j \in 1..l : d[j] = c[i]
          BY <2>6, <3>5, <4>1
        <5>2. e[j] = c[i] /\ j \in 1..Len(e)
          BY <3>1, <5>1
        <5> QED
          BY <5>2
      <4>2. CASE i = k + 1
        BY <2>3, <3>1, <4>2
      <4> QED
        BY <3>5, <4>1, <4>2
    <3> QED
      BY <2>4, <2>8, <3>1, <3>2, <3>3, <3>4, <3>5 DEF KeptSoFar
  <2>9. CASE x \notin S
    <3>1. ~(k + 1 <= m)
      BY <2>3, <2>7, <2>9
    <3>2. l <= k + 1 /\ l >= m
      BY <2>6, <2>7, <3>1
    <3>3. ASSUME NEW i \in 1..m, i <= k + 1 PROVE d[i] = c[i]
      BY <2>6, <2>7, <3>1, <3>3
    <3>4. ASSUME \A i \in (m + 1)..(k + 1) : c[i] \notin S PROVE l <= m
      <4>1. \A i \in (m + 1)..k : c[i] \notin S
        BY <2>7, <3>4
      <4> QED
        BY <2>6, <4>1
    <3>5. ASSUME NEW i \in 1..(k + 1), c[i] \in S PROVE \E j \in 1..l : d[j] = c[i]
      <4>1. i <= k
        BY <2>3, <2>9, <3>5
      <4> QED
        BY <2>6, <3>5, <4>1
    <3> QED
      BY <2>4, <2>5, <2>9, <3>1, <3>2, <3>3, <3>4, <3>5 DEF KeptSoFar
  <2> QED
    BY <2>8, <2>9
<1>5. n \in Good
  <2> HIDE DEF Good
  <2>1. Nat \subseteq Good
    BY <1>3, <1>4, NatSetInduction
  <2> QED
    BY <2>1
<1> QED
  BY <1>1, <1>2, <1>5 DEF IsKeep

(* A filter keeps what is in S, and nothing else.                          *)
LEMMA KeepRange ==
  ASSUME NEW c \in Queue, NEW S
  PROVE  Range(Keep(c, S)) = Range(c) \cap S /\ Len(Keep(c, S)) <= Len(c)
<1>1. PICK d \in Queue : d = Keep(c, S)
  BY UnlockingKeep
<1>2. PICK n \in Nat, l \in Nat : n = Len(c) /\ DOMAIN c = 1..n /\ l = Len(d) /\ DOMAIN d = 1..l
  BY QueueTypes
<1>3. From(d, c, n, S)
  BY <1>1, <1>2, KeepFrom
<1>4. KeptSoFar(d, c, 0, n, S)
  <2>1. 0 \in 0..Len(c) /\ \A i \in 1..0 : c[i] \in S
    BY <1>2
  <2> QED
    BY <1>1, <1>2, <2>1, KeepPrefix
<1>5. \A j \in 1..l : d[j] \in S /\ \E i \in 1..n : d[j] = c[i]
  BY <1>2, <1>3 DEF From
<1>6. \A i \in 1..n : c[i] \in S => \E j \in 1..l : d[j] = c[i]
  BY <1>2, <1>4 DEF KeptSoFar
<1>7. Len(d) <= n
  BY <1>4 DEF KeptSoFar
<1>8. Range(d) = Range(c) \cap S
  <2>1. Range(d) = {d[j] : j \in 1..l} /\ Range(c) = {c[i] : i \in 1..n}
    BY <1>2 DEF Range
  <2>2. ASSUME NEW j \in 1..l PROVE d[j] \in {c[i] : i \in 1..n} /\ d[j] \in S
    BY <1>5
  <2>3. ASSUME NEW i \in 1..n, c[i] \in S PROVE c[i] \in {d[j] : j \in 1..l}
    BY <1>6, <2>3
  <2> QED
    BY <2>1, <2>2, <2>3
<1> QED
  BY <1>1, <1>2, <1>7, <1>8

-----------------------------------------------------------------------------
(* The ledgers of LedgerCalls *)

(* Chunks within the bounds.                                               *)
Small(q) == Len(q) <= MaxChunks /\ \A i \in DOMAIN q : q[i].value <= MaxValue /\ q[i].era >= 1

(* The queues of LedgerCalls are those with a shape.                       *)
LEMMA QueuesAreShaped ==
  ASSUME NEW q, q \in Queues
  PROVE  q \in Queue /\ Shape(q, MaxEra) /\ Small(q)
<1>1. /\ MaxValue \in Nat /\ MaxEra \in Nat /\ MaxChunks \in Nat
  BY CallAssumption
<1>2. PICK n \in 0..MaxChunks : q \in [1..n -> BoundedChunk]
  BY DEF Queues, BoundedSeq, SeqOf
<1>3. /\ n \in Nat /\ n <= MaxChunks /\ DOMAIN q = 1..n
      /\ \A i \in 1..n : q[i] \in BoundedChunk
  BY <1>1, <1>2
<1>4. \A i \in 1..n : /\ q[i] \in Chunk /\ q[i].value > 0 /\ q[i].value <= MaxValue
                      /\ q[i].era \in Nat /\ q[i].era >= 1 /\ q[i].era <= MaxEra
  BY <1>1, <1>3 DEF BoundedChunk, Chunk
<1>5. q \in Queue /\ Len(q) = n
  <2>1. q \in [1..n -> Chunk]
    BY <1>2, <1>4
  <2> QED
    BY <1>3, <2>1 DEF Queue
<1>6. \A i \in 2..n : q[i - 1].era < q[i].era
  BY <1>5 DEF Queues
<1> DEFINE Good == {k \in Nat : k <= n => \A i \in 1..k : \A j \in 1..(i - 1) : q[j].era < q[i].era}
<1>7. 0 \in Good
  OBVIOUS
<1>8. ASSUME NEW k \in Nat, k \in Good PROVE k + 1 \in Good
  <2> SUFFICES ASSUME k + 1 <= n, NEW i \in 1..(k + 1), NEW j \in 1..(i - 1)
               PROVE  q[j].era < q[i].era
    OBVIOUS
  <2>1. CASE i <= k
    BY <1>8, <2>1
  <2>2. CASE i = k + 1
    <3>1. k >= 1 /\ k + 1 \in 2..n /\ (k + 1) - 1 = k /\ k \in 1..n /\ j \in 1..n
      BY <2>2
    <3>2. q[k].era < q[k + 1].era /\ q[k].era \in Nat /\ q[k + 1].era \in Nat /\ q[j].era \in Nat
      BY <1>4, <1>6, <3>1
    <3>3. j = k \/ q[j].era < q[k].era
      BY <1>8, <2>2, <3>1
    <3> QED
      BY <2>2, <3>2, <3>3
  <2> QED
    BY <2>1, <2>2
<1>9. n \in Good
  <2> HIDE DEF Good
  <2>1. Nat \subseteq Good
    BY <1>7, <1>8, NatSetInduction
  <2> QED
    BY <1>3, <2>1
<1>10. Ascending(q)
  BY <1>3, <1>9 DEF Ascending
<1> QED
  BY <1>3, <1>4, <1>5, <1>10 DEF Shape, Small

(* And the other way round.                                                *)
LEMMA ShapedAreQueues ==
  ASSUME NEW q \in Queue, Shape(q, MaxEra), Small(q)
  PROVE  q \in Queues
<1>1. /\ MaxValue \in Nat /\ MaxEra \in Nat /\ MaxChunks \in Nat
  BY CallAssumption
<1>2. PICK n \in Nat : n = Len(q) /\ DOMAIN q = 1..n /\ \A i \in 1..n : q[i] \in Chunk
  BY QueueTypes
<1>3. n \in 0..MaxChunks
  BY <1>1, <1>2 DEF Small
<1>4. \A i \in 1..n : q[i] \in BoundedChunk
  <2> SUFFICES ASSUME NEW i \in 1..n PROVE q[i] \in BoundedChunk
    OBVIOUS
  <2>1. q[i].value > 0 /\ q[i].era <= MaxEra /\ q[i].value <= MaxValue /\ q[i].era >= 1
    BY <1>2 DEF Shape, Small
  <2>2. q[i] \in Chunk
    BY <1>2
  <2> QED
    BY <1>1, <2>1, <2>2 DEF Chunk, BoundedChunk
<1>5. q \in [1..n -> BoundedChunk]
  <2>1. q \in [1..n -> Chunk]
    BY <1>2 DEF Queue
  <2> QED
    BY <1>4, <2>1
<1>6. q \in BoundedSeq(BoundedChunk, MaxChunks)
  BY <1>3, <1>5 DEF BoundedSeq, SeqOf
<1>7. \A i \in 2..n : q[i - 1].era < q[i].era
  <2> SUFFICES ASSUME NEW i \in 2..n PROVE q[i - 1].era < q[i].era
    OBVIOUS
  <2>1. i \in DOMAIN q /\ i - 1 \in 1..(i - 1)
    BY <1>2
  <2> QED
    BY <2>1 DEF Shape, Ascending
<1> QED
  BY <1>2, <1>6, <1>7 DEF Queues

(* What is kept of chunks that are worth less is within the bounds.        *)
LEMMA KeepSmall ==
  ASSUME NEW c \in Queue, NEW d, Trimmed(c, d), Small(c), NEW S
  PROVE  Small(Keep(d, S))
<1>1. d \in Queue /\ DOMAIN d = DOMAIN c /\ Len(d) = Len(c)
  BY QueueTypes DEF Trimmed, Queue
<1>2. PICK r \in Queue : r = Keep(d, S)
  BY <1>1, UnlockingKeep
<1>3. Len(r) <= MaxChunks
  <2>1. Len(r) <= Len(c) /\ Len(c) <= MaxChunks
    BY <1>1, <1>2, KeepRange DEF Small
  <2> QED
    BY <2>1, QueueTypes, CallAssumption
<1>4. ASSUME NEW j \in DOMAIN r PROVE r[j].value <= MaxValue /\ r[j].era >= 1
  <2>1. PICK i \in DOMAIN c : r[j] = d[i]
    <3>1. From(r, d, Len(d), S) /\ 1..Len(d) = DOMAIN d
      BY <1>1, <1>2, KeepFrom, QueueTypes
    <3> QED
      BY <1>1, <3>1 DEF From
  <2>2. /\ d[i].era = c[i].era /\ d[i].value <= c[i].value
        /\ c[i].value <= MaxValue /\ c[i].era >= 1
    BY DEF Trimmed, Small
  <2>3. d[i].value \in Nat /\ c[i].value \in Nat /\ MaxValue \in Nat
    BY <1>1, QueueTypes, CallAssumption
  <2> QED
    BY <2>1, <2>2, <2>3
<1> QED
  BY <1>2, <1>3, <1>4 DEF Small

(* A ledger of module LedgerCalls, whose active stake may have grown.      *)
Fit(l) == Sound(l, MaxEra) /\ Small(l.unlocking)

LEMMA ConsolidateFits ==
  ASSUME NEW l, Fit(l), NEW e \in Nat, NEW r, r = Consolidate(l, e)
  PROVE  /\ Fit(r) /\ r.active = l.active
         /\ Range(r.unlocking) = {x \in Range(l.unlocking) : x.era > e}
<1>1. Sound(l, MaxEra) /\ Small(l.unlocking)
  BY DEF Fit
<1>2. Sound(r, MaxEra) /\ r.active = l.active
  BY <1>1, ConsolidateSound
<1>3. PICK c \in Queue : c = l.unlocking
  BY <1>1, SoundTypes
<1>4. PICK S : S = Range(c) \ {x \in Range(c) : x.era <= e}
  OBVIOUS
<1>5. r.unlocking = Keep(c, S)
  <2>1. l \in LedgerType
    BY <1>1 DEF Sound
  <2>2. PICK total, q : total = Less(l.total, Unlocking(Keep(c, {x \in Range(c) : x.era <= e}))) /\ q = Keep(c, S)
    OBVIOUS
  <2>3. r = [l EXCEPT !.total = total, !.unlocking = q]
    BY <1>3, <1>4, <2>2 DEF Consolidate
  <2> QED
    BY <2>1, <2>2, <2>3 DEF LedgerType
<1>6. Trimmed(c, c)
  BY QueueTypes DEF Trimmed
<1>7. Small(r.unlocking)
  BY <1>1, <1>3, <1>5, <1>6, KeepSmall
<1>8. S = {x \in Range(c) : x.era > e}
  <2>1. \A x \in Range(c) : x.era \in Nat
    BY QueueTypes DEF Range
  <2> QED
    BY <1>4, <2>1
<1>9. Range(r.unlocking) = {x \in Range(c) : x.era > e}
  BY <1>5, <1>8, KeepRange
<1> QED
  BY <1>2, <1>3, <1>7, <1>9 DEF Fit

-----------------------------------------------------------------------------
(* What rebond leaves *)

(* More chunks are worth no less, and those of two groups what both are.   *)
LEMMA UnlockingOfMore ==
  ASSUME NEW c \in Queue, NEW S \in SUBSET DOMAIN c, NEW R \in SUBSET S
  PROVE  UnlockingAt(c, R) <= UnlockingAt(c, S)
<1>1. IsFiniteSet(S) /\ R \in SUBSET DOMAIN c
  BY UnlockingAtType
<1>2. \A i \in S : Values(c)[i] \in Nat
  BY QueueTypes DEF Values
<1>3. SumFunctionOnSet(Values(c), R) <= SumFunctionOnSet(Values(c), S)
  BY <1>1, <1>2, SumOfMore
<1> QED
  BY <1>1, <1>3, UnlockingAtType

LEMMA UnlockingOfBoth ==
  ASSUME NEW c \in Queue, NEW R \in SUBSET DOMAIN c, NEW S \in SUBSET DOMAIN c, R \cap S = {}
  PROVE  UnlockingAt(c, R \cup S) = UnlockingAt(c, R) + UnlockingAt(c, S)
<1>1. IsFiniteSet(R) /\ IsFiniteSet(S) /\ R \cup S \in SUBSET DOMAIN c
  BY UnlockingAtType
<1>2. IntegersOn(Values(c), R \cup S)
  BY <1>1, UnlockingAtType
<1>3. SumFunctionOnSet(Values(c), R \cup S) = SumFunctionOnSet(Values(c), R) + SumFunctionOnSet(Values(c), S)
  BY <1>1, <1>2, SumSplit
<1> QED
  BY <1>1, <1>3, UnlockingAtType

(* rebond leaves the chunks before the m-th, and nothing after it.         *)
SplitAt(c, d, m) ==
  /\ \A i \in DOMAIN c : i < m => d[i] = c[i]
  /\ \A i \in DOMAIN c : i > m => d[i].value = 0
  /\ m > 0 => d[m].value # 0

LEMMA RebondSplits ==
  ASSUME NEW c \in Queue, NEW value \in Nat
  PROVE  \E m \in 0..Len(c) : SplitAt(c, RebondLeaves(c, value), m)
<1>1. PICK n \in Nat : n = Len(c) /\ DOMAIN c = 1..n
                       /\ \A i \in 1..n : c[i] \in Chunk /\ c[i].value \in Nat /\ c[i].era \in Nat
  BY QueueTypes
<1>2. PICK d \in Queue : d = RebondLeaves(c, value) /\ DOMAIN d = 1..n
                         /\ \A i \in 1..n : d[i].value \in Nat
  <2>1. PICK d : d = RebondLeaves(c, value)
    OBVIOUS
  <2>2. d \in Queue /\ DOMAIN d = 1..n
    BY <1>1, <2>1, RebondTrims DEF Trimmed
  <2> QED
    BY <2>1, <2>2, QueueTypes
<1>3. PICK behind : behind = [i \in 1..(n + 1) |-> UnlockingAt(c, i..n)]
  OBVIOUS
<1>4. \A i \in 1..(n + 1) : behind[i] \in Nat
  <2>1. \A i \in 1..(n + 1) : i..n \in SUBSET DOMAIN c
    BY <1>1
  <2> QED
    BY <1>3, <2>1, UnlockingAtType
<1>5. ASSUME NEW i \in 1..n PROVE behind[i] = behind[i + 1] + c[i].value
  <2>1. PICK R \in SUBSET DOMAIN c : R = (i + 1)..n /\ i..n = R \cup {i} /\ i \notin R /\ i \in DOMAIN c
    BY <1>1
  <2>2. UnlockingAt(c, R \cup {i}) = UnlockingAt(c, R) + c[i].value
    BY <2>1, UnlockingAdd
  <2>3. i \in 1..(n + 1) /\ i + 1 \in 1..(n + 1)
    OBVIOUS
  <2> QED
    BY <1>3, <2>1, <2>2, <2>3
<1>6. ASSUME NEW i \in 1..(n + 1), NEW j \in 1..(n + 1), i <= j PROVE behind[j] <= behind[i]
  <2>1. PICK R, S : S = i..n /\ R = j..n
    OBVIOUS
  <2>2. S \in SUBSET DOMAIN c /\ R \in SUBSET S
    BY <1>1, <1>6, <2>1
  <2>3. UnlockingAt(c, R) <= UnlockingAt(c, S)
    BY <2>2, UnlockingOfMore
  <2> QED
    BY <1>3, <2>1, <2>3
<1>7. ASSUME NEW i \in 1..n
      PROVE  /\ d[i] = [c[i] EXCEPT !.value = @ - Rebonded(c, value, i)]
             /\ Rebonded(c, value, i) \in Nat
             /\ Rebonded(c, value, i) = IF c[i].value <= Less(value, behind[i + 1])
                                        THEN c[i].value ELSE Less(value, behind[i + 1])
  <2>1. PICK b \in Nat : b = behind[i + 1] /\ b = UnlockingAt(c, i + 1 .. n)
    BY <1>3, <1>4
  <2>2. PICK x \in Nat, y \in Nat : x = c[i].value /\ y = Less(value, b)
    <3>1. c[i].value \in Nat
      BY <1>1
    <3>2. Less(value, b) \in Nat
      BY DEF Less
    <3> QED
      BY <3>1, <3>2
  <2>3. Rebonded(c, value, i) = Min({x, y})
    BY <1>1, <2>1, <2>2 DEF Rebonded
  <2>4. Rebonded(c, value, i) = IF x <= y THEN x ELSE y
    BY <2>3, MinOfTwo
  <2>5. d[i] = [c[i] EXCEPT !.value = @ - Rebonded(c, value, i)]
    BY <1>1, <1>2 DEF RebondLeaves
  <2> QED
    BY <2>1, <2>2, <2>4, <2>5
<1>8. ASSUME NEW i \in 1..n, Rebonded(c, value, i) = 0 PROVE d[i] = c[i]
  <2>1. PICK x \in Chunk : x = c[i] /\ x.value \in Nat
    BY <1>1
  <2>2. d[i] = [x EXCEPT !.value = x.value - 0]
    BY <1>7, <1>8, <2>1
  <2> QED
    BY <2>1, <2>2 DEF Chunk
<1>9. ASSUME NEW m \in 1..n, d[m].value # 0, NEW j \in 1..n, j < m
      PROVE  d[j] = c[j]
  <2>1. PICK x \in Nat : x = c[m].value
    BY <1>1
  <2>2. d[m].value = x - Rebonded(c, value, m)
    <3>1. c[m] \in Chunk
      BY <1>1
    <3>2. d[m] = [c[m] EXCEPT !.value = @ - Rebonded(c, value, m)]
      BY <1>7
    <3> QED
      BY <2>1, <3>1, <3>2 DEF Chunk
  <2>3. PICK a \in Nat, b \in Nat : a = behind[m] /\ b = behind[m + 1] /\ a = b + x
    BY <1>4, <1>5, <2>1
  <2>4. Rebonded(c, value, m) = IF x <= Less(value, b) THEN x ELSE Less(value, b)
    BY <1>7, <2>1, <2>3
  <2>5. ~(x <= Less(value, b))
    BY <1>9, <2>2, <2>4
  <2>6. value < a
    BY <2>3, <2>5 DEF Less
  <2>7. PICK f \in Nat : f = behind[j + 1] /\ a <= f
    <3>1. PICK k \in 1..(n + 1) : k = j + 1 /\ k <= m /\ m \in 1..(n + 1)
      BY <1>9
    <3>2. behind[m] <= behind[k] /\ behind[k] \in Nat
      BY <1>4, <1>6, <3>1
    <3> QED
      BY <2>3, <3>1, <3>2
  <2>8. Less(value, f) = 0
    BY <2>6, <2>7 DEF Less
  <2>9. Rebonded(c, value, j) = 0
    <3>1. PICK y \in Nat : y = c[j].value
      BY <1>1
    <3>2. Rebonded(c, value, j) = IF c[j].value <= Less(value, behind[j + 1])
                                  THEN c[j].value ELSE Less(value, behind[j + 1])
      BY <1>7
    <3>3. Rebonded(c, value, j) = IF y <= 0 THEN y ELSE 0
      BY <2>7, <2>8, <3>1, <3>2
    <3> QED
      BY <3>3
  <2> QED
    BY <1>8, <2>9
<1>10. PICK T \in SUBSET (1..n) : T = {i \in 1..n : d[i].value # 0}
  OBVIOUS
<1>11. CASE T = {}
  <2>1. SplitAt(c, d, 0)
    BY <1>1, <1>10, <1>11 DEF SplitAt
  <2> QED
    BY <1>1, <1>2, <2>1
<1>12. CASE T # {}
  <2>1. PICK m \in T : \A i \in T : i <= m
    BY <1>12, GreatestNumber
  <2>2. m \in 1..n /\ d[m].value # 0
    BY <1>10, <2>1
  <2>3. \A i \in 1..n : i > m => d[i].value = 0
    BY <1>10, <2>1, <2>2
  <2>4. \A i \in 1..n : i < m => d[i] = c[i]
    BY <1>9, <2>2
  <2>5. SplitAt(c, d, m)
    BY <1>1, <2>2, <2>3, <2>4 DEF SplitAt
  <2> QED
    BY <1>1, <1>2, <2>2, <2>5
<1> QED
  BY <1>11, <1>12

(* The first m chunks, if none is empty, stay where they are; and they are  *)
(* all that stays if the others are.                                       *)
LEMMA NotEmptyPrefix ==
  ASSUME NEW d \in Queue, NEW m \in 0..Len(d), \A i \in 1..m : d[i].value # 0
  PROVE  \E r \in Queue : /\ r = NotEmpty(d) /\ Len(r) >= m /\ \A i \in 1..m : r[i] = d[i]
                          /\ (\A i \in (m + 1)..Len(d) : d[i].value = 0) => Len(r) = m
<1>1. PICK n \in Nat : n = Len(d) /\ DOMAIN d = 1..n
  BY QueueTypes
<1>2. PICK S : S = {x \in Range(d) : x.value # 0}
  OBVIOUS
<1>3. PICK r \in Queue : r = NotEmpty(d) /\ r = Keep(d, S)
  BY <1>2, UnlockingKeep DEF NotEmpty
<1>4. \A i \in 1..n : d[i] \in S <=> d[i].value # 0
  BY <1>1, <1>2 DEF Range
<1>5. \A i \in 1..m : d[i] \in S /\ i <= n
  BY <1>1, <1>4
<1>6. KeptSoFar(r, d, m, n, S)
  BY <1>1, <1>3, <1>5, KeepPrefix
<1>7. m \in Nat /\ m <= n /\ Len(r) \in Nat
  BY <1>1, QueueTypes
<1>8. Len(r) >= m /\ \A i \in 1..m : r[i] = d[i]
  BY <1>5, <1>6, <1>7 DEF KeptSoFar
<1>9. ASSUME \A i \in (m + 1)..n : d[i].value = 0 PROVE Len(r) = m
  <2>1. \A i \in (m + 1)..n : i \in 1..n
    BY <1>7
  <2>2. \A i \in (m + 1)..n : d[i] \notin S
    BY <1>4, <1>9, <2>1
  <2>3. Len(r) <= m
    BY <1>6, <2>2 DEF KeptSoFar
  <2> QED
    BY <1>7, <1>8, <2>3
<1> QED
  BY <1>1, <1>3, <1>8, <1>9

(* Queues with the same first chunks.                                      *)
LEMMA PrefixOf ==
  ASSUME NEW p \in Queue, NEW q \in Queue, Len(p) <= Len(q), \A i \in 1..Len(p) : p[i] = q[i]
  PROVE  IsPrefix(p, q)
<1>1. PICK n \in Nat, m \in Nat : n = Len(p) /\ m = Len(q) /\ n <= m
  BY QueueTypes
<1>2. SubSeq(p, 1, n) = [i \in 1..n |-> p[i]] /\ SubSeq(q, 1, n) = [i \in 1..n |-> q[i]]
  BY <1>1 DEF Queue
<1>3. [i \in 1..n |-> p[i]] = [i \in 1..n |-> q[i]]
  BY <1>1
<1> QED
  BY <1>1, <1>2, <1>3 DEF IsPrefix

LEMMA FirstChunks ==
  ASSUME NEW q \in Queue, NEW m \in 0..Len(q)
  PROVE  \E p \in Queue : p = SubSeq(q, 1, m) /\ Len(p) = m /\ \A i \in 1..m : p[i] = q[i]
<1>1. PICK n \in Nat : n = Len(q) /\ DOMAIN q = 1..n /\ \A i \in 1..n : q[i] \in Chunk
  BY QueueTypes
<1>2. m \in Nat /\ m <= n
  BY <1>1
<1>3. PICK p : p = [i \in 1..m |-> q[i]]
  OBVIOUS
<1>4. p \in [1..m -> Chunk]
  BY <1>1, <1>2, <1>3
<1>5. p \in Queue /\ Len(p) = m
  BY <1>2, <1>3, <1>4 DEF Queue
<1>6. SubSeq(q, 1, m) = p
  BY <1>1, <1>2, <1>3 DEF Queue
<1> QED
  BY <1>3, <1>5, <1>6

LEMMA RebondFits ==
  ASSUME NEW l, Fit(l), NEW value \in Nat, NEW r, r = Rebond(l, value)
  PROVE  /\ Fit(r) /\ r.total = l.total
         /\ r.active = l.active + Min({value, Unlocking(l.unlocking)})
         /\ r.unlocking # <<>> => IsPrefix(Front(r.unlocking), l.unlocking)
<1>1. Sound(l, MaxEra) /\ Small(l.unlocking)
  BY DEF Fit
<1>2. Sound(r, MaxEra) /\ r.total = l.total
  BY <1>1, RebondSound
<1>3. PICK c \in Queue : c = l.unlocking
  BY <1>1, SoundTypes
<1>4. PICK d \in Queue : d = RebondLeaves(c, value) /\ Trimmed(c, d)
  BY RebondTrims DEF Trimmed
<1>5. r.unlocking = NotEmpty(d) /\ r.active = l.active + Min({value, Unlocking(c)})
  <2>1. l \in LedgerType
    BY <1>1 DEF Sound
  <2>2. PICK x, q : x = l.active + Min({value, Unlocking(c)}) /\ q = NotEmpty(d)
    OBVIOUS
  <2>3. r = [l EXCEPT !.active = x, !.unlocking = q]
    BY <1>3, <1>4, <2>2 DEF Rebond, RebondLeaves
  <2> QED
    BY <2>1, <2>2, <2>3 DEF LedgerType
<1>6. Small(r.unlocking)
  BY <1>1, <1>3, <1>4, <1>5, KeepSmall DEF NotEmpty
<1>7. PICK n \in Nat : n = Len(c) /\ DOMAIN c = 1..n /\ Len(d) = n
  BY <1>4, QueueTypes DEF Trimmed, Queue
<1>8. PICK m \in 0..n : SplitAt(c, d, m)
  BY <1>4, <1>7, RebondSplits
<1>9. \A i \in 1..n : c[i].value > 0 /\ c[i].value \in Nat
  BY <1>1, <1>3, <1>7, SoundTypes, QueueTypes DEF Shape
<1>10. \A i \in 1..m : d[i].value # 0
  <2> SUFFICES ASSUME NEW i \in 1..m PROVE d[i].value # 0
    OBVIOUS
  <2>1. m \in Nat /\ i \in 1..n /\ m > 0
    BY <1>7
  <2>2. CASE i = m
    BY <1>8, <2>1, <2>2 DEF SplitAt
  <2>3. CASE i < m
    <3>1. d[i] = c[i]
      BY <1>7, <1>8, <2>1, <2>3 DEF SplitAt
    <3> QED
      BY <1>9, <2>1, <3>1
  <2> QED
    BY <2>1, <2>2, <2>3
<1>11. \A i \in (m + 1)..n : d[i].value = 0
  <2>1. \A i \in (m + 1)..n : i \in 1..n /\ i > m
    BY <1>7
  <2> QED
    BY <1>7, <1>8, <2>1 DEF SplitAt
<1>12. PICK e \in Queue : e = NotEmpty(d) /\ Len(e) = m /\ \A i \in 1..m : e[i] = d[i]
  BY <1>7, <1>10, <1>11, NotEmptyPrefix
<1>13. ASSUME e # <<>> PROVE IsPrefix(Front(e), c)
  <2>1. m \in Nat /\ m > 0 /\ m - 1 \in Nat /\ m <= n
    <3>1. m # 0
      BY <1>12, <1>13 DEF Queue
    <3> QED
      BY <1>7, <3>1
  <2>2. PICK f \in Queue : f = Front(e) /\ Len(f) = m - 1 /\ \A i \in 1..(m - 1) : f[i] = e[i]
    <3>1. m - 1 \in 0..Len(e) /\ Front(e) = SubSeq(e, 1, m - 1)
      BY <1>12, <2>1 DEF Front
    <3> QED
      BY <3>1, FirstChunks
  <2>3. \A i \in 1..(m - 1) : f[i] = c[i]
    <3> SUFFICES ASSUME NEW i \in 1..(m - 1) PROVE f[i] = c[i]
      OBVIOUS
    <3>1. i \in 1..m /\ i \in 1..n /\ i < m
      BY <2>1
    <3>2. d[i] = c[i]
      BY <1>7, <1>8, <3>1 DEF SplitAt
    <3> QED
      BY <1>12, <2>2, <3>1, <3>2
  <2> QED
    BY <1>7, <2>1, <2>2, <2>3, PrefixOf
<1> QED
  BY <1>2, <1>3, <1>5, <1>6, <1>12, <1>13 DEF Fit

-----------------------------------------------------------------------------
(* How much slash_stake takes, and in which order *)

(* Division that rounds up.                                                *)
LEMMA CeilDivIs ==
  ASSUME NEW a \in Nat, NEW b \in Nat \ {0}, NEW c \in Nat
  PROVE  /\ CeilDiv(a, b) \in Nat /\ b * CeilDiv(a, b) \in Nat /\ b * CeilDiv(a, b) >= a
         /\ a <= b * c => CeilDiv(a, b) <= c
<1>1. PICK x \in Nat : x = a + b - 1
  OBVIOUS
<1>2. PICK q \in Nat : q = CeilDiv(a, b) /\ b * q <= x /\ x < b * q + b
  <2>1. x \div b \in Nat /\ b * (x \div b) <= x /\ x < b * (x \div b) + b
    BY DivIs
  <2> QED
    BY <1>1, <2>1 DEF CeilDiv
<1>3. PICK y \in Nat : y = b * q
  BY ProductIs
<1>4. y >= a
  BY <1>1, <1>2, <1>3
<1>5. ASSUME a <= b * c PROVE q <= c
  <2>1. PICK z \in Nat : z = b * c
    BY ProductIs
  <2>2. SUFFICES ASSUME c + 1 <= q PROVE FALSE
    OBVIOUS
  <2>3. b * (c + 1) <= b * q
    BY <2>2, ProductLess
  <2>4. b * (c + 1) = b * c + b
    BY Z3
  <2> QED
    BY <1>1, <1>2, <1>3, <1>5, <2>1, <2>3, <2>4
<1> QED
  BY <1>2, <1>3, <1>4, <1>5

(* A part in a proportion w to u, and one to v, are one to both.            *)
LEMMA ProportionsAdd ==
  ASSUME NEW a \in Nat, NEW w \in Nat, NEW x \in Nat, NEW y \in Nat, NEW u \in Nat, NEW v \in Nat,
         a * x >= w * u, a * y >= w * v
  PROVE  a * (x + y) >= w * (u + v)
<1>1. a * (x + y) = a * x + a * y /\ w * (u + v) = w * u + w * v
  BY Z3
<1>2. a * x \in Nat /\ a * y \in Nat /\ w * u \in Nat /\ w * v \in Nat
  BY ProductIs
<1> QED
  BY <1>1, <1>2

(* The least of three is one of them.                                      *)
LEMMA MinIsOne ==
  ASSUME NEW x \in Nat, NEW y \in Nat, NEW z \in Nat
  PROVE  Min({x, y, z}) = x \/ Min({x, y, z}) = y \/ Min({x, y, z}) = z
<1>1. PICK T : T = {x, y, z}
  OBVIOUS
<1>2. T \subseteq Nat /\ T \subseteq Int /\ T # {}
  BY <1>1
<1>3. PICK m \in T : \A v \in T : m <= v
  BY <1>2, LeastNatural
<1>4. Min(T) = m
  BY <1>2, <1>3, MinIs
<1> QED
  BY <1>1, <1>3, <1>4

(* A cut takes the proportion w, unless what remains is less.               *)
LEMMA CutBites ==
  ASSUME NEW w \in Nat, w <= Accuracy, NEW target \in Nat, NEW remaining \in Nat, NEW minimum \in Nat,
         NEW wanted \in Nat, wanted = remaining \/ wanted = Share(target, w),
         NEW cut \in Nat, cut = Cut(target, wanted, remaining, minimum)
  PROVE  cut >= remaining \/ Accuracy * cut >= w * target
<1>1. Accuracy \in Nat \ {0} /\ Accuracy \in Nat
  BY AccuracyAssumption
<1>2. PICK m \in Nat : m = Min({wanted, target, remaining})
  BY MinOfThree
<1>3. m = wanted \/ m = target \/ m = remaining
  BY <1>2, MinIsOne
<1>4. cut = target \/ cut = m
  BY <1>2 DEF Cut
<1>5. CASE cut = target
  <2>1. target * w <= target * Accuracy
    BY <1>1, ProductLess
  <2>2. target * w = w * target /\ target * Accuracy = Accuracy * target
    BY <1>1, ProductIs
  <2> QED
    BY <1>5, <2>1, <2>2
<1>6. CASE cut = remaining
  BY <1>6
<1>7. CASE cut = Share(target, w)
  <2>1. PICK p \in Nat : p = target * w /\ p = w * target
    BY ProductIs
  <2>2. Accuracy * CeilDiv(p, Accuracy) >= p
    BY <1>1, CeilDivIs
  <2> QED
    BY <1>7, <2>1, <2>2 DEF Share
<1> QED
  BY <1>3, <1>4, <1>5, <1>6, <1>7

(* What a slash is spread over, and in which proportion.                    *)
Affected(l, boundary) ==
  l.active + UnlockingAt(l.unlocking, FirstSlashable(l.unlocking, boundary) .. Len(l.unlocking))

Proportion(l, amount, boundary) ==
  IF FirstSlashable(l.unlocking, boundary) <= Len(l.unlocking)
  THEN Ratio(l, amount, FirstSlashable(l.unlocking, boundary)) ELSE Accuracy

LEMMA ProportionIs ==
  ASSUME NEW l \in LedgerType, NEW amount \in Nat, NEW boundary \in Nat
  PROVE  /\ Affected(l, boundary) \in Nat
         /\ Proportion(l, amount, boundary) \in Nat
         /\ Proportion(l, amount, boundary) <= Accuracy
         /\ amount <= Affected(l, boundary) =>
              Proportion(l, amount, boundary) * Affected(l, boundary) >= Accuracy * amount
         /\ amount >= Affected(l, boundary) => Proportion(l, amount, boundary) = Accuracy
<1>1. Accuracy \in Nat \ {0} /\ Accuracy \in Nat
  BY AccuracyAssumption
<1>2. PICK c \in Queue : c = l.unlocking
  BY DEF LedgerType
<1>3. PICK first \in 1..(Len(c) + 1) : first = FirstSlashable(c, boundary)
  BY FirstSlashableIsPlace
<1>4. first .. Len(c) \in SUBSET DOMAIN c
  BY QueueTypes
<1>5. l.active \in Nat
  BY DEF LedgerType
<1>6. PICK u \in Nat : u = Affected(l, boundary) /\ u = l.active + UnlockingAt(c, first .. Len(c))
  BY <1>2, <1>3, <1>4, <1>5, UnlockingAtType DEF Affected
<1>7. PICK w : w = Proportion(l, amount, boundary)
  OBVIOUS
<1>8. w = IF first <= Len(c) /\ ~(amount >= u) THEN CeilDiv(amount * Accuracy, u) ELSE Accuracy
  BY <1>2, <1>3, <1>6, <1>7 DEF Proportion, Ratio
<1>9. CASE w = Accuracy
  <2>1. ASSUME amount <= u PROVE w * u >= Accuracy * amount
    BY <1>1, <1>9, <2>1, ProductLess
  <2> QED
    BY <1>1, <1>6, <1>7, <1>9, <2>1
<1>10. CASE w # Accuracy
  <2>1. ~(amount >= u) /\ w = CeilDiv(amount * Accuracy, u)
    BY <1>8, <1>10
  <2>2. u \in Nat \ {0}
    BY <2>1
  <2>3. PICK p \in Nat : p = amount * Accuracy /\ p = Accuracy * amount
    BY <1>1, ProductIs
  <2>4. p <= u * Accuracy
    <3>1. Accuracy * amount <= Accuracy * u /\ Accuracy * u = u * Accuracy
      BY <1>1, <2>1, ProductLess, ProductIs
    <3> QED
      BY <2>3, <3>1
  <2>5. w \in Nat /\ u * w >= p /\ w <= Accuracy
    BY <1>1, <2>1, <2>2, <2>3, <2>4, CeilDivIs
  <2>6. u * w = w * u
    BY <2>5, ProductIs
  <2> QED
    BY <1>6, <1>7, <2>1, <2>3, <2>5, <2>6
<1> QED
  BY <1>9, <1>10

(* Slashed so far: what is in P, in the proportion w, unless nothing remains. *)
Bites(acc, c, amount, w, active, P) ==
  /\ acc.remaining + acc.taken >= amount
  /\ acc.remaining # 0 => /\ acc.remaining + acc.taken = amount
                          /\ Accuracy * acc.taken >= w * (active + UnlockingAt(c, P))
  /\ \A i \in DOMAIN c \ P : acc.chunks[i] = c[i]

LEMMA CutOfStakeBites ==
  ASSUME NEW l \in LedgerType, NEW amount \in Nat, NEW minimum \in Nat, NEW boundary \in Nat,
         NEW target \in Nat, NEW remaining \in Nat,
         NEW w, w = Proportion(l, amount, boundary),
         NEW cut, cut = CutOfStake(l, amount, minimum, boundary, target, remaining)
  PROVE  /\ cut \in Nat /\ cut <= target
         /\ cut >= remaining \/ Accuracy * cut >= w * target
<1>1. cut \in Nat /\ cut <= target
  BY CutOfStakeBounds
<1>2. w \in Nat /\ w <= Accuracy
  BY ProportionIs
<1>3. PICK c, first : c = l.unlocking /\ first = FirstSlashable(c, boundary)
  OBVIOUS
<1>4. PICK wanted : /\ wanted = IF first <= Len(c) THEN Share(target, Ratio(l, amount, first)) ELSE remaining
                    /\ cut = Cut(target, wanted, remaining, minimum)
  BY <1>3 DEF CutOfStake
<1>5. wanted = remaining \/ wanted = Share(target, w)
  BY <1>3, <1>4 DEF Proportion
<1>6. wanted \in Nat
  <2>1. Share(target, w) \in Nat
    BY <1>2, ShareType
  <2> QED
    BY <1>5, <2>1
<1> QED
  BY <1>1, <1>2, <1>4, <1>5, <1>6, CutBites

LEMMA BitesBase ==
  ASSUME NEW l \in LedgerType, NEW amount \in Nat, NEW minimum \in Nat, NEW boundary \in Nat
  PROVE  Bites(BaseOf(l, amount, minimum, boundary), l.unlocking, amount,
               Proportion(l, amount, boundary), l.active, {})
<1>1. PICK c \in Queue, active \in Nat : c = l.unlocking /\ active = l.active
  BY DEF LedgerType
<1>2. PICK w \in Nat : w = Proportion(l, amount, boundary)
  BY ProportionIs
<1>3. PICK cut \in Nat : /\ cut = CutOfStake(l, amount, minimum, boundary, active, amount)
                         /\ cut >= amount \/ Accuracy * cut >= w * active
  <2>1. PICK cut : cut = CutOfStake(l, amount, minimum, boundary, active, amount)
    OBVIOUS
  <2>2. cut \in Nat /\ (cut >= amount \/ Accuracy * cut >= w * active)
    BY <1>2, <2>1, CutOfStakeBites
  <2> QED
    BY <2>1, <2>2
<1>4. PICK acc : acc = BaseOf(l, amount, minimum, boundary)
  OBVIOUS
<1>5. acc.remaining = Less(amount, cut) /\ acc.taken = cut /\ acc.chunks = c
  BY <1>1, <1>3, <1>4 DEF BaseOf
<1>6. UnlockingAt(c, {}) = 0
  BY SumEmpty DEF UnlockingAt
<1>7. acc.remaining + acc.taken >= amount /\ (acc.remaining # 0 => acc.remaining + acc.taken = amount)
  BY <1>5 DEF Less
<1>8. acc.remaining # 0 => Accuracy * acc.taken >= w * (active + UnlockingAt(c, {}))
  BY <1>3, <1>5, <1>6 DEF Less
<1> QED
  BY <1>1, <1>2, <1>4, <1>5, <1>7, <1>8 DEF Bites

LEMMA BitesStep ==
  ASSUME NEW l \in LedgerType, NEW amount \in Nat, NEW minimum \in Nat, NEW boundary \in Nat,
         NEW activeCut \in Nat, NEW acc \in Slashes(l.unlocking, activeCut),
         NEW P \in SUBSET DOMAIN l.unlocking, NEW i \in DOMAIN l.unlocking \ P,
         Bites(acc, l.unlocking, amount, Proportion(l, amount, boundary), l.active, P)
  PROVE  Bites(SlashStep(l, amount, minimum, boundary, acc, i), l.unlocking, amount,
               Proportion(l, amount, boundary), l.active, P \cup {i})
<1>1. PICK c \in Queue, active \in Nat : c = l.unlocking /\ active = l.active
  BY DEF LedgerType
<1>2. PICK w \in Nat : w = Proportion(l, amount, boundary)
  BY ProportionIs
<1>3. PICK d \in Queue, rem \in Nat, taken \in Nat :
         d = acc.chunks /\ rem = acc.remaining /\ taken = acc.taken /\ Trimmed(c, d)
  BY <1>1 DEF Slashes
<1>4. PICK target \in Nat : target = c[i].value /\ i \in DOMAIN c
  BY <1>1, QueueTypes
<1>5. /\ rem + taken >= amount
      /\ rem # 0 => /\ rem + taken = amount
                    /\ Accuracy * taken >= w * (active + UnlockingAt(c, P))
      /\ \A j \in DOMAIN c \ P : d[j] = c[j]
  BY <1>1, <1>2, <1>3 DEF Bites
<1>6. PICK a : a = SlashStep(l, amount, minimum, boundary, acc, i)
  OBVIOUS
<1>7. CASE rem = 0
  <2>1. a = acc
    BY <1>3, <1>6, <1>7 DEF SlashStep
  <2>2. \A j \in DOMAIN c \ (P \cup {i}) : d[j] = c[j]
    BY <1>5
  <2> QED
    BY <1>1, <1>2, <1>3, <1>5, <1>6, <1>7, <2>1, <2>2 DEF Bites
<1>8. CASE rem # 0
  <2>1. d[i].value = target
    BY <1>1, <1>4, <1>5
  <2>2. PICK cut \in Nat : /\ cut = CutOfStake(l, amount, minimum, boundary, target, rem)
                           /\ cut >= rem \/ Accuracy * cut >= w * target
    <3>1. PICK cut : cut = CutOfStake(l, amount, minimum, boundary, target, rem)
      OBVIOUS
    <3>2. cut \in Nat /\ (cut >= rem \/ Accuracy * cut >= w * target)
      BY <1>2, <3>1, CutOfStakeBites
    <3> QED
      BY <3>1, <3>2
  <2>3. PICK q : q = Lowered(d, i, cut)
    OBVIOUS
  <2>4. a = [remaining |-> Less(rem, cut), taken |-> taken + cut, chunks |-> q]
    BY <1>3, <1>6, <1>8, <2>1, <2>2, <2>3 DEF SlashStep, Lowered
  <2>5. a.remaining = Less(rem, cut) /\ a.taken = taken + cut /\ a.chunks = q
    BY <2>4
  <2>6. ASSUME NEW j \in DOMAIN c \ (P \cup {i}) PROVE q[j] = c[j]
    <3>1. j \in DOMAIN c \ P /\ j # i /\ j \in DOMAIN d
      BY <1>3 DEF Trimmed
    <3>2. d[j] = c[j]
      BY <1>5, <3>1
    <3>3. PICK x : q = [d EXCEPT ![i] = x]
      BY <2>3 DEF Lowered
    <3> QED
      BY <3>1, <3>2, <3>3
  <2>7. a.remaining + a.taken >= amount /\ (a.remaining # 0 => a.remaining + a.taken = amount)
    BY <1>5, <1>8, <2>5 DEF Less
  <2>8. ASSUME a.remaining # 0
        PROVE  Accuracy * a.taken >= w * (active + UnlockingAt(c, P \cup {i}))
    <3>1. Accuracy * cut >= w * target
      BY <2>2, <2>5, <2>8 DEF Less
    <3>2. PICK u \in Nat : u = active + UnlockingAt(c, P) /\ UnlockingAt(c, P) \in Nat
      BY <1>1, UnlockingAtType
    <3>3. UnlockingAt(c, P \cup {i}) = UnlockingAt(c, P) + target
      BY <1>1, <1>4, UnlockingAdd
    <3>4. Accuracy * taken >= w * u
      BY <1>5, <1>8, <3>2
    <3>5. Accuracy * (taken + cut) >= w * (u + target)
      BY <3>1, <3>4, AccuracyAssumption, ProportionsAdd
    <3>6. active + UnlockingAt(c, P \cup {i}) = u + target
      BY <3>2, <3>3
    <3> QED
      BY <2>5, <3>5, <3>6
  <2> QED
    BY <1>1, <1>2, <1>6, <2>5, <2>6, <2>7, <2>8 DEF Bites
<1> QED
  BY <1>3, <1>7, <1>8

(* The first k places of an order.                                         *)
FirstOf(order, k) == {order[j] : j \in 1..k}

LEMMA PriorityIs ==
  ASSUME NEW c \in Queue, NEW first \in 1..(Len(c) + 1), NEW order, order = Priority(c, first)
  PROVE  /\ \A k \in 1..Len(c) : order[k] \in DOMAIN c \ FirstOf(order, k - 1)
         /\ FirstOf(order, Len(c) - first + 1) = first .. Len(c)
         /\ FirstOf(order, Len(c)) = DOMAIN c
<1>1. PICK n \in Nat : n = Len(c) /\ DOMAIN c = 1..n
  BY QueueTypes
<1>2. PICK q \in 0..n : q = n - first + 1 /\ first = n - q + 1
  <2>1. first \in 1..(n + 1)
    BY <1>1
  <2>2. n - first + 1 \in 0..n /\ first = n - (n - first + 1) + 1
    BY <2>1
  <2> QED
    BY <2>2
<1>3. /\ first \in Int
      /\ \A i \in 1..n : order[i] = IF i <= q THEN first + i - 1 ELSE n - i + 1
  BY <1>1, <1>2 DEF Priority
<1>4. ASSUME NEW k \in 1..n PROVE order[k] \in 1..n
  BY <1>2, <1>3
<1>5. ASSUME NEW k \in 1..n, NEW j \in 1..(k - 1) PROVE order[k] # order[j]
  <2>1. j \in 1..n /\ j < k
    OBVIOUS
  <2> QED
    BY <1>2, <1>3, <2>1
<1>6. ASSUME NEW k \in 1..n PROVE order[k] \in DOMAIN c \ FirstOf(order, k - 1)
  BY <1>1, <1>4, <1>5 DEF FirstOf
<1>7. FirstOf(order, q) = first .. n
  <2>1. ASSUME NEW j \in 1..q PROVE order[j] \in first .. n
    <3>1. j \in 1..n /\ q \in Nat
      BY <1>2
    <3> QED
      BY <1>2, <1>3, <3>1
  <2>2. ASSUME NEW x \in first .. n PROVE \E j \in 1..q : x = order[j]
    <3>1. PICK j \in 1..q : j = x - first + 1
      BY <1>2
    <3>2. j \in 1..n
      BY <1>2
    <3>3. order[j] = x
      BY <1>2, <1>3, <3>1, <3>2
    <3> QED
      BY <3>3
  <2> QED
    BY <2>1, <2>2 DEF FirstOf
<1>8. FirstOf(order, n) = 1..n
  <2>1. ASSUME NEW x \in 1..n PROVE \E j \in 1..n : x = order[j]
    <3>1. CASE x >= first
      <4>1. PICK j \in 1..q : j = x - first + 1
        BY <1>2, <3>1
      <4>2. j \in 1..n /\ j <= q
        BY <1>2
      <4>3. order[j] = x
        BY <1>2, <1>3, <4>1, <4>2
      <4> QED
        BY <4>2, <4>3
    <3>2. CASE ~(x >= first)
      <4>1. PICK j \in 1..n : j = n - x + 1 /\ ~(j <= q)
        BY <1>2, <3>2
      <4>2. order[j] = x
        BY <1>2, <1>3, <4>1
      <4> QED
        BY <4>2
    <3> QED
      BY <3>1, <3>2
  <2> QED
    BY <1>4, <2>1 DEF FirstOf
<1> QED
  BY <1>1, <1>2, <1>6, <1>7, <1>8

LEMMA SlashBites ==
  ASSUME NEW l \in LedgerType, NEW amount \in Nat, NEW minimum \in Nat, NEW boundary \in Nat,
         NEW activeCut \in Nat, NEW K, SlashSteps(K, l, amount, minimum, boundary, activeCut),
         NEW k \in 0..Len(l.unlocking)
  PROVE  Bites(K[k], l.unlocking, amount, Proportion(l, amount, boundary), l.active,
               FirstOf(OrderOf(l, boundary), k))
<1>1. PICK c \in Queue : c = l.unlocking
  BY DEF LedgerType
<1>2. PICK n \in Nat : n = Len(c) /\ DOMAIN c = 1..n
  BY QueueTypes
<1>3. PICK first \in 1..(Len(c) + 1) : first = FirstSlashable(c, boundary)
  BY FirstSlashableIsPlace
<1>4. PICK order : order = OrderOf(l, boundary) /\ order = Priority(c, first)
  BY <1>1, <1>3 DEF OrderOf
<1>5. \A j \in 1..n : order[j] \in DOMAIN c \ FirstOf(order, j - 1)
  BY <1>2, <1>4, PriorityIs
<1>6. PICK w : w = Proportion(l, amount, boundary)
  OBVIOUS
<1> DEFINE Good == {j \in Nat : j <= n => Bites(K[j], c, amount, w, l.active, FirstOf(order, j))}
<1>7. 0 \in Good
  <2>1. FirstOf(order, 0) = {} /\ K[0] = BaseOf(l, amount, minimum, boundary)
    BY DEF FirstOf, SlashSteps
  <2> QED
    BY <1>1, <1>6, <2>1, BitesBase
<1>8. ASSUME NEW j \in Nat, j \in Good PROVE j + 1 \in Good
  <2> SUFFICES ASSUME j + 1 <= n PROVE Bites(K[j + 1], c, amount, w, l.active, FirstOf(order, j + 1))
    OBVIOUS
  <2>1. Bites(K[j], c, amount, w, l.active, FirstOf(order, j))
    BY <1>8
  <2>2. j + 1 \in 1..n /\ (j + 1) - 1 = j /\ j \in 0..n
    OBVIOUS
  <2>3. PICK acc \in Slashes(c, activeCut) : acc = K[j]
    BY <1>1, <1>2, <2>2 DEF SlashSteps
  <2>4. PICK P, i : P = FirstOf(order, j) /\ i = order[j + 1]
    OBVIOUS
  <2>5. i \in DOMAIN c \ P
    BY <1>5, <2>2, <2>4
  <2>6. P \in SUBSET DOMAIN c
    <3>1. \A m \in 1..j : order[m] \in DOMAIN c
      BY <1>5, <2>2
    <3> QED
      BY <2>4, <3>1 DEF FirstOf
  <2>7. FirstOf(order, j + 1) = P \cup {i}
    <3>1. 1..(j + 1) = (1..j) \cup {j + 1}
      OBVIOUS
    <3> QED
      BY <2>4, <3>1 DEF FirstOf
  <2>8. K[j + 1] = SlashStep(l, amount, minimum, boundary, acc, i)
    BY <1>1, <1>2, <1>4, <2>2, <2>3, <2>4 DEF SlashSteps
  <2>9. Bites(SlashStep(l, amount, minimum, boundary, acc, i), c, amount, w, l.active, P \cup {i})
    BY <1>1, <1>6, <2>1, <2>3, <2>4, <2>5, <2>6, BitesStep
  <2> QED
    BY <2>7, <2>8, <2>9
<1>9. k \in Good
  <2> HIDE DEF Good
  <2>1. Nat \subseteq Good
    BY <1>7, <1>8, NatSetInduction
  <2> QED
    BY <2>1
<1> QED
  BY <1>1, <1>2, <1>4, <1>6, <1>9

(* Once nothing remains to be taken, nothing is.                           *)
LEMMA SlashStops ==
  ASSUME NEW l \in LedgerType, NEW amount \in Nat, NEW minimum \in Nat, NEW boundary \in Nat,
         NEW activeCut \in Nat, NEW K, SlashSteps(K, l, amount, minimum, boundary, activeCut),
         NEW q \in 0..Len(l.unlocking), K[q].remaining = 0
  PROVE  K[Len(l.unlocking)] = K[q]
<1>1. PICK n \in Nat : n = Len(l.unlocking)
  BY QueueTypes DEF LedgerType
<1> DEFINE Good == {j \in Nat : q <= j /\ j <= n => K[j] = K[q]}
<1>2. 0 \in Good
  <2>1. q <= 0 => q = 0
    BY <1>1
  <2> QED
    BY <2>1
<1>3. ASSUME NEW j \in Nat, j \in Good PROVE j + 1 \in Good
  <2> SUFFICES ASSUME q <= j + 1, j + 1 <= n PROVE K[j + 1] = K[q]
    OBVIOUS
  <2>1. CASE q = j + 1
    BY <2>1
  <2>2. CASE q <= j
    <3>1. K[j] = K[q]
      BY <1>1, <1>3, <2>2
    <3>2. j + 1 \in 1..n /\ (j + 1) - 1 = j
      OBVIOUS
    <3>3. K[j + 1] = SlashStep(l, amount, minimum, boundary, K[j], OrderOf(l, boundary)[j + 1])
      BY <1>1, <3>2 DEF SlashSteps
    <3> QED
      BY <3>1, <3>3 DEF SlashStep
  <2> QED
    BY <1>1, <2>1, <2>2
<1>4. n \in Good
  <2> HIDE DEF Good
  <2>1. Nat \subseteq Good
    BY <1>2, <1>3, NatSetInduction
  <2> QED
    BY <2>1
<1> QED
  BY <1>1, <1>4

SlashLeft(l, cut, end, r) ==
  r = [l EXCEPT !.active = @ - cut, !.total = Less(@, end.taken), !.unlocking = NotEmpty(end.chunks)]

LEMMA SlashLeavesTotal ==
  ASSUME NEW l, NEW bound, Sound(l, bound), NEW cut \in 0..l.active,
         NEW end \in Slashes(l.unlocking, cut),
         NEW r, SlashLeft(l, cut, end, r)
  PROVE  /\ r.unlocking = NotEmpty(end.chunks)
         /\ r.total = l.total - end.taken
<1>1. PICK c \in Queue : c = l.unlocking
  BY SoundTypes
<1>2. l.total \in Nat /\ l.active \in Nat /\ l \in LedgerType /\ l.total = l.active + Unlocking(c)
      /\ Unlocking(c) \in Nat
  BY <1>1, SoundTypes DEF Sound
<1>3. PICK d \in Queue, taken \in Nat : d = end.chunks /\ taken = end.taken
  BY DEF Slashes
<1>4. Trimmed(c, d) /\ taken + Unlocking(d) = cut + Unlocking(c)
  BY <1>1, <1>3 DEF Slashes
<1>5. Unlocking(d) \in Nat
  BY HeldType
<1>6. Less(l.total, taken) = l.total - taken
  BY <1>2, <1>4, <1>5 DEF Less
<1>7. PICK q, x, y : q = NotEmpty(d) /\ x = l.active - cut /\ y = l.total - taken
  OBVIOUS
<1>8. r = [l EXCEPT !.active = x, !.total = y, !.unlocking = q]
  BY <1>3, <1>6, <1>7 DEF SlashLeft
<1>9. r.total = y /\ r.unlocking = q
  BY <1>2, <1>8 DEF LedgerType
<1> QED
  BY <1>3, <1>7, <1>9

(* The chunks before the m-th are worth what the sum over them says.       *)
LEMMA UnlockingOfFirst ==
  ASSUME NEW c \in Queue, NEW m \in 0..Len(c), NEW p \in Queue, Len(p) = m,
         \A i \in 1..m : p[i] = c[i]
  PROVE  Unlocking(p) = UnlockingAt(c, 1..m)
<1>1. PICK n \in Nat : n = Len(c) /\ DOMAIN c = 1..n /\ m <= n /\ m \in Nat
  BY QueueTypes
<1>2. DOMAIN p = 1..m
  BY QueueTypes
<1>3. PICK S : S = 1..m /\ S \in SUBSET DOMAIN c /\ S \in SUBSET DOMAIN p
  BY <1>1, <1>2
<1>4. IsFiniteSet(S) /\ IntegersOn(Values(c), S) /\ IntegersOn(Values(p), S)
  BY <1>3, UnlockingAtType
<1>5. \A i \in S : Values(p)[i] = Values(c)[i]
  BY <1>1, <1>2, <1>3 DEF Values
<1>6. SumFunctionOnSet(Values(p), S) = SumFunctionOnSet(Values(c), S)
  BY <1>4, <1>5, SumCongruence
<1> QED
  BY <1>2, <1>3, <1>6 DEF Unlocking, UnlockingAt, Values

(* When a slash bites into what it is spread over, and that bears it,       *)
(* nothing remains; and it takes all of it in the end if it must.          *)
LEMMA BitesThrough ==
  ASSUME NEW amount \in Nat, NEW w \in Nat, NEW u \in Nat, NEW taken \in Nat,
         Accuracy * taken >= w * u, w * u >= Accuracy * amount
  PROVE  taken >= amount
<1>1. Accuracy * amount <= Accuracy * taken
  <2>1. Accuracy \in Nat /\ Accuracy * amount \in Nat /\ Accuracy * taken \in Nat /\ w * u \in Nat
    BY AccuracyAssumption, ProductIs
  <2> QED
    BY <2>1
<1> QED
  BY <1>1, AccuracyAssumption, CancelFactor

LEMMA AffectedIs ==
  ASSUME NEW l, NEW bound, Sound(l, bound), NEW boundary \in Nat,
         NEW first, first = FirstSlashable(l.unlocking, boundary)
  PROVE  /\ Affected(l, boundary) \in Nat /\ Affected(l, boundary) <= l.total
         /\ Affected(l, boundary) = l.total - Unlocking(SubSeq(l.unlocking, 1, first - 1))
<1>1. PICK c \in Queue : c = l.unlocking
  BY SoundTypes
<1>2. l.total \in Nat /\ l.active \in Nat /\ l.total = l.active + Unlocking(c)
  BY <1>1, SoundTypes
<1>3. PICK n \in Nat : n = Len(c) /\ DOMAIN c = 1..n
  BY QueueTypes
<1>4. first \in 1..(n + 1)
  BY <1>1, <1>3, FirstSlashableIsPlace
<1>5. PICK R, S : R = 1..(first - 1) /\ S = first .. n
  OBVIOUS
<1>6. R \in SUBSET DOMAIN c /\ S \in SUBSET DOMAIN c /\ R \cap S = {} /\ R \cup S = DOMAIN c
  BY <1>3, <1>4, <1>5
<1>7. Unlocking(c) = UnlockingAt(c, R) + UnlockingAt(c, S)
  <2>1. UnlockingAt(c, R \cup S) = UnlockingAt(c, R) + UnlockingAt(c, S)
    BY <1>6, UnlockingOfBoth
  <2> QED
    BY <1>6, <2>1 DEF Unlocking
<1>8. UnlockingAt(c, R) \in Nat /\ UnlockingAt(c, S) \in Nat
  BY <1>6, UnlockingAtType
<1>9. Affected(l, boundary) = l.active + UnlockingAt(c, S)
  BY <1>1, <1>3, <1>5 DEF Affected
<1>10. PICK m \in 0..n : m = first - 1
  BY <1>4
<1>11. PICK p \in Queue : p = SubSeq(c, 1, m) /\ Len(p) = m /\ \A i \in 1..m : p[i] = c[i]
  BY <1>3, FirstChunks
<1>12. Unlocking(p) = UnlockingAt(c, 1..m)
  BY <1>3, <1>11, UnlockingOfFirst
<1> QED
  BY <1>1, <1>2, <1>5, <1>7, <1>8, <1>9, <1>10, <1>11, <1>12

(* One stake or chunk can only be cut too much by what would be dust.       *)
LEMMA CutOver ==
  ASSUME NEW target \in Nat, NEW wanted \in Nat, NEW remaining \in Nat, NEW minimum \in Nat \ {0}
  PROVE  Cut(target, wanted, remaining, minimum) < remaining + minimum
<1>1. PICK m \in Nat : m = Min({wanted, target, remaining}) /\ m <= target /\ m <= remaining
  <2>1. {wanted, target, remaining} = {wanted, remaining, target}
    OBVIOUS
  <2>2. Min({wanted, target, remaining}) <= target
    BY MinOfThree
  <2>3. Min({wanted, remaining, target}) \in Nat /\ Min({wanted, remaining, target}) <= remaining
    BY MinOfThree
  <2> QED
    BY <2>1, <2>2, <2>3
<1>2. Cut(target, wanted, remaining, minimum) = IF target - m < minimum THEN target ELSE m
  BY <1>1 DEF Cut
<1> QED
  BY <1>1, <1>2

LEMMA CutOfStakeOver ==
  ASSUME NEW l \in LedgerType, NEW amount \in Nat, NEW minimum \in Nat \ {0}, NEW boundary \in Nat,
         NEW target \in Nat, NEW remaining \in Nat
  PROVE  CutOfStake(l, amount, minimum, boundary, target, remaining) < remaining + minimum
<1>1. PICK first \in 1..(Len(l.unlocking) + 1) : first = FirstSlashable(l.unlocking, boundary)
  BY FirstSlashableIsPlace DEF LedgerType
<1>2. PICK ratio \in Nat : ratio = Ratio(l, amount, first)
  BY RatioType
<1>3. PICK wanted \in Nat : wanted = IF first <= Len(l.unlocking) THEN Share(target, ratio) ELSE remaining
  BY ShareType
<1>4. CutOfStake(l, amount, minimum, boundary, target, remaining) = Cut(target, wanted, remaining, minimum)
  BY <1>1, <1>2, <1>3 DEF CutOfStake
<1> QED
  BY <1>4, CutOver

(* Taken so far: what does not remain, and at the end some dust more.       *)
Within(acc, amount, minimum) ==
  /\ acc.taken < amount + minimum
  /\ acc.remaining # 0 => acc.remaining + acc.taken = amount

LEMMA WithinBase ==
  ASSUME NEW l \in LedgerType, NEW amount \in Nat, NEW minimum \in Nat \ {0}, NEW boundary \in Nat
  PROVE  Within(BaseOf(l, amount, minimum, boundary), amount, minimum)
<1>1. PICK active \in Nat : active = l.active
  BY DEF LedgerType
<1>2. PICK cut \in Nat : /\ cut = CutOfStake(l, amount, minimum, boundary, active, amount)
                         /\ cut < amount + minimum
  BY CutOfStakeBounds, CutOfStakeOver
<1>3. PICK acc : acc = BaseOf(l, amount, minimum, boundary)
  OBVIOUS
<1>4. acc.remaining = Less(amount, cut) /\ acc.taken = cut
  BY <1>1, <1>2, <1>3 DEF BaseOf
<1> QED
  BY <1>2, <1>3, <1>4 DEF Within, Less

LEMMA WithinStep ==
  ASSUME NEW l \in LedgerType, NEW amount \in Nat, NEW minimum \in Nat \ {0}, NEW boundary \in Nat,
         NEW activeCut \in Nat, NEW acc \in Slashes(l.unlocking, activeCut),
         NEW i \in DOMAIN l.unlocking, Within(acc, amount, minimum)
  PROVE  Within(SlashStep(l, amount, minimum, boundary, acc, i), amount, minimum)
<1>1. PICK c \in Queue : c = l.unlocking
  BY DEF LedgerType
<1>2. PICK d \in Queue, rem \in Nat, taken \in Nat :
         d = acc.chunks /\ rem = acc.remaining /\ taken = acc.taken /\ Trimmed(c, d)
  BY <1>1 DEF Slashes
<1>3. PICK target \in Nat : target = d[i].value
  BY <1>1, <1>2, QueueTypes DEF Trimmed
<1>4. PICK a : a = SlashStep(l, amount, minimum, boundary, acc, i)
  OBVIOUS
<1>5. CASE rem = 0
  BY <1>2, <1>4, <1>5 DEF SlashStep
<1>6. CASE rem # 0
  <2>1. PICK cut \in Nat : /\ cut = CutOfStake(l, amount, minimum, boundary, target, rem)
                           /\ cut < rem + minimum
    BY CutOfStakeBounds, CutOfStakeOver
  <2>2. a.remaining = Less(rem, cut) /\ a.taken = taken + cut
    BY <1>2, <1>3, <1>4, <1>6, <2>1 DEF SlashStep
  <2>3. rem + taken = amount
    BY <1>2, <1>6 DEF Within
  <2> QED
    BY <1>4, <2>1, <2>2, <2>3 DEF Within, Less
<1> QED
  BY <1>5, <1>6

LEMMA SlashWithin ==
  ASSUME NEW l \in LedgerType, NEW amount \in Nat, NEW minimum \in Nat \ {0}, NEW boundary \in Nat,
         NEW activeCut \in Nat, NEW K, SlashSteps(K, l, amount, minimum, boundary, activeCut),
         NEW k \in 0..Len(l.unlocking)
  PROVE  Within(K[k], amount, minimum)
<1>1. PICK c \in Queue : c = l.unlocking
  BY DEF LedgerType
<1>2. PICK n \in Nat : n = Len(c) /\ DOMAIN c = 1..n
  BY QueueTypes
<1>3. PICK order : order = OrderOf(l, boundary) /\ \A j \in 1..n : order[j] \in 1..n
  BY <1>1, <1>2, FirstSlashableIsPlace, PriorityIsOfChunks DEF OrderOf
<1> DEFINE Good == {j \in Nat : j <= n => Within(K[j], amount, minimum)}
<1>4. 0 \in Good
  BY WithinBase DEF SlashSteps
<1>5. ASSUME NEW j \in Nat, j \in Good PROVE j + 1 \in Good
  <2> SUFFICES ASSUME j + 1 <= n PROVE Within(K[j + 1], amount, minimum)
    OBVIOUS
  <2>1. Within(K[j], amount, minimum)
    BY <1>5
  <2>2. j + 1 \in 1..n /\ (j + 1) - 1 = j /\ j \in 0..n
    OBVIOUS
  <2>3. PICK acc \in Slashes(c, activeCut) : acc = K[j]
    BY <1>1, <1>2, <2>2 DEF SlashSteps
  <2>4. PICK i : i = order[j + 1] /\ i \in DOMAIN c
    BY <1>2, <1>3, <2>2
  <2>5. K[j + 1] = SlashStep(l, amount, minimum, boundary, acc, i)
    BY <1>1, <1>2, <1>3, <2>2, <2>3, <2>4 DEF SlashSteps
  <2>6. Within(SlashStep(l, amount, minimum, boundary, acc, i), amount, minimum)
    BY <1>1, <2>1, <2>3, <2>4, WithinStep
  <2> QED
    BY <2>5, <2>6
<1>6. k \in Good
  <2> HIDE DEF Good
  <2>1. Nat \subseteq Good
    BY <1>4, <1>5, NatSetInduction
  <2> QED
    BY <2>1
<1> QED
  BY <1>1, <1>2, <1>6

LEMMA SlashFits ==
  ASSUME NEW l, Fit(l), NEW amount \in Nat, NEW minimum \in Nat \ {0}, NEW boundary \in Nat,
         NEW r, r = SlashStake(l, amount, minimum, boundary),
         NEW older, older = SubSeq(l.unlocking, 1, FirstSlashable(l.unlocking, boundary) - 1)
  PROVE  /\ Fit(r)
         /\ l.total - r.total >= Min({amount, l.total})
         /\ l.total - r.total < amount + minimum
         /\ l.total - Unlocking(older) >= amount => IsPrefix(older, r.unlocking)
<1>1. Sound(l, MaxEra) /\ Small(l.unlocking)
  BY DEF Fit
<1>2. PICK c \in Queue : c = l.unlocking
  BY <1>1, SoundTypes
<1>3. l.total \in Nat /\ l.active \in Nat /\ l \in LedgerType /\ l.total = l.active + Unlocking(c)
      /\ Unlocking(c) \in Nat /\ Shape(c, MaxEra)
  BY <1>1, <1>2, SoundTypes DEF Sound
<1>4. PICK n \in Nat : n = Len(c) /\ DOMAIN c = 1..n
  BY QueueTypes
<1>5. PICK first \in 1..(n + 1) : first = FirstSlashable(c, boundary)
  BY <1>4, FirstSlashableIsPlace
<1>6. PICK m \in 0..n : m = first - 1
  BY <1>5
<1>7. older \in Queue /\ Len(older) = m /\ \A i \in 1..m : older[i] = c[i]
  <2>1. PICK p \in Queue : p = SubSeq(c, 1, m) /\ Len(p) = m /\ \A i \in 1..m : p[i] = c[i]
    BY <1>4, FirstChunks
  <2> QED
    BY <1>2, <1>5, <1>6, <2>1
<1>8. Sound(r, MaxEra)
  BY <1>1, SlashSound
<1>9. Min({amount, l.total}) = IF amount <= l.total THEN amount ELSE l.total
  BY <1>3, MinOfTwo
<1>10. CASE amount = 0
  <2>1. r = l
    BY <1>10 DEF SlashStake
  <2>2. IsPrefix(older, c)
    <3>1. PICK p \in Queue : p = older /\ Len(p) = m /\ \A i \in 1..m : p[i] = c[i]
      BY <1>7
    <3>2. Len(p) <= Len(c)
      <4>1. Len(p) = m /\ Len(c) = n
        BY <1>4, <3>1, Zenon
      <4>2. m <= n
        OBVIOUS
      <4> QED
        BY <4>1, <4>2, Zenon
    <3>3. IsPrefix(p, c)
      BY <3>1, <3>2, PrefixOf
    <3> QED
      BY <3>1, <3>3
  <2>3. l.total - l.total >= Min({amount, l.total})
    BY <1>3, <1>9, <1>10
  <2>4. l.total - l.total < amount + minimum
    BY <1>3, <1>10
  <2> QED
    BY <1>2, <2>1, <2>2, <2>3, <2>4
<1>11. CASE amount # 0
  <2>1. PICK activeCut, K :
          /\ activeCut \in 0..l.active
          /\ SlashSteps(K, l, amount, minimum, boundary, activeCut)
          /\ r = [l EXCEPT !.active = @ - activeCut, !.total = Less(@, K[Len(l.unlocking)].taken),
                           !.unlocking = NotEmpty(K[Len(l.unlocking)].chunks)]
    <3>1. SlashHistory(l, amount, minimum, boundary, r)
      BY <1>3, <1>11, SlashGoes
    <3> QED
      BY <3>1, Zenon DEF SlashHistory
  <2>2. activeCut \in Nat /\ activeCut \in 0..l.active
    <3>1. activeCut \in 0..l.active
      BY <2>1, Zenon
    <3> QED
      BY <1>3, <3>1
  <2>3. \A k \in 0..n : K[k] \in Slashes(c, activeCut)
    BY <1>2, <1>4, <2>1 DEF SlashSteps
  <2>4. PICK end \in Slashes(c, activeCut) : end = K[n]
    BY <2>3
  <2>5. PICK d \in Queue, taken \in Nat, rem \in Nat :
          d = end.chunks /\ taken = end.taken /\ rem = end.remaining /\ Trimmed(c, d)
    BY DEF Slashes
  <2>6. r.unlocking = NotEmpty(d) /\ r.total = l.total - taken
    <3>1. SlashLeft(l, activeCut, end, r)
      BY <1>2, <1>4, <2>1, <2>4, Zenon DEF SlashLeft
    <3>2. r.unlocking = NotEmpty(end.chunks) /\ r.total = l.total - end.taken
      BY <1>1, <1>2, <2>2, <3>1, SlashLeavesTotal
    <3> QED
      BY <2>5, <3>2
  <2>7. Fit(r)
    <3>1. Small(NotEmpty(d))
      BY <1>1, <1>2, <2>5, KeepSmall DEF NotEmpty
    <3> QED
      BY <1>8, <2>6, <3>1 DEF Fit
  <2>8. PICK w \in Nat, u \in Nat : w = Proportion(l, amount, boundary) /\ u = Affected(l, boundary)
    BY <1>3, ProportionIs
  <2>9. /\ amount <= u => w * u >= Accuracy * amount
        /\ amount >= u => w = Accuracy
    BY <1>3, <2>8, ProportionIs
  <2>10. u <= l.total /\ u = l.total - Unlocking(older)
    BY <1>1, <1>2, <1>5, <2>8, AffectedIs
  <2>11. PICK order : order = OrderOf(l, boundary)
    OBVIOUS
  <2>12. PICK q \in 0..n : q = n - first + 1
    BY <1>5
  <2>13. FirstOf(order, q) = first .. n /\ FirstOf(order, n) = DOMAIN c
    BY <1>2, <1>4, <1>5, <2>11, <2>12, PriorityIs DEF OrderOf
  <2>14. \A k \in 0..n : Bites(K[k], c, amount, w, l.active, FirstOf(order, k))
    BY <1>2, <1>3, <1>4, <2>1, <2>2, <2>8, <2>11, SlashBites
  <2>15. l.total - r.total >= Min({amount, l.total})
    <3>1. l.total - r.total = taken
      BY <1>3, <2>6
    <3>2. Bites(end, c, amount, w, l.active, DOMAIN c)
      <4>1. n \in 0..n
        OBVIOUS
      <4>2. Bites(K[n], c, amount, w, l.active, FirstOf(order, n))
        BY <2>14, <4>1
      <4> QED
        BY <2>4, <2>13, <4>2
    <3>3. rem + taken >= amount /\ (rem # 0 => Accuracy * taken >= w * l.total)
      BY <1>3, <2>5, <3>2 DEF Bites, Unlocking
    <3>4. CASE rem = 0
      BY <1>3, <1>9, <3>1, <3>3, <3>4
    <3>5. CASE rem # 0 /\ amount <= u
      <4>1. w * u <= w * l.total
        BY <1>3, <2>10, ProductLess
      <4>2. Accuracy * taken >= w * u
        <5>1. Accuracy * taken \in Nat /\ w * u \in Nat /\ w * l.total \in Nat
          BY <1>3, AccuracyAssumption, ProductIs
        <5> QED
          BY <3>3, <3>5, <4>1, <5>1
      <4>3. taken >= amount
        BY <2>9, <3>5, <4>2, BitesThrough
      <4> QED
        BY <1>3, <1>9, <3>1, <4>3
    <3>6. CASE rem # 0 /\ ~(amount <= u)
      <4>1. w = Accuracy
        BY <2>9, <3>6
      <4>2. taken >= l.total
        BY <1>3, <3>3, <3>6, <4>1, AccuracyAssumption, CancelFactor
      <4> QED
        BY <1>3, <1>9, <3>1, <4>2
    <3> QED
      BY <3>4, <3>5, <3>6
  <2>16. ASSUME l.total - Unlocking(older) >= amount PROVE IsPrefix(older, r.unlocking)
    <3>1. w * u >= Accuracy * amount
      BY <2>9, <2>10, <2>16
    <3>2. PICK mid \in Slashes(c, activeCut) : mid = K[q]
      BY <2>3
    <3>3. Bites(mid, c, amount, w, l.active, first .. n)
      <4>1. Bites(K[q], c, amount, w, l.active, FirstOf(order, q))
        BY <2>14
      <4> QED
        BY <2>13, <3>2, <4>1
    <3>4. mid.taken \in Nat /\ mid.remaining \in Nat
      BY DEF Slashes
    <3>5. mid.remaining = 0
      <4> SUFFICES ASSUME mid.remaining # 0 PROVE FALSE
        OBVIOUS
      <4>1. mid.remaining + mid.taken = amount /\ Accuracy * mid.taken >= w * u
        BY <1>2, <1>4, <1>5, <2>8, <3>3 DEF Bites, Affected
      <4>2. mid.taken >= amount
        BY <3>1, <3>4, <4>1, BitesThrough
      <4> QED
        BY <3>4, <4>1, <4>2
    <3>6. end = mid
      <4>1. K[q].remaining = 0 /\ q \in 0..Len(l.unlocking)
        BY <1>2, <1>4, <3>2, <3>5
      <4>2. SlashSteps(K, l, amount, minimum, boundary, activeCut)
        BY <2>1, Zenon
      <4>3. K[Len(l.unlocking)] = K[q]
        BY <1>3, <2>2, <4>1, <4>2, SlashStops
      <4> QED
        BY <1>2, <1>4, <2>4, <3>2, <4>3
    <3>7. \A i \in 1..m : d[i] = c[i]
      <4>1. \A i \in 1..m : i \in DOMAIN c \ (first .. n)
        BY <1>4, <1>5, <1>6
      <4> QED
        BY <2>5, <3>3, <3>6, <4>1 DEF Bites
    <3>8. \A i \in 1..m : d[i].value # 0
      <4>1. \A i \in 1..m : i \in DOMAIN c
        BY <1>4, <1>6
      <4>2. \A i \in 1..m : c[i].value > 0 /\ c[i].value \in Nat
        BY <1>3, <4>1, QueueTypes DEF Shape
      <4> QED
        BY <3>7, <4>2
    <3>9. m \in 0..Len(d)
      <4>1. Len(d) = n
        BY <1>4, <2>5, QueueTypes DEF Trimmed, Queue
      <4> QED
        BY <4>1
    <3>10. PICK e \in Queue : e = NotEmpty(d) /\ Len(e) >= m /\ \A i \in 1..m : e[i] = d[i]
      BY <3>8, <3>9, NotEmptyPrefix
    <3>11. IsPrefix(older, e)
      BY <1>7, <3>7, <3>10, PrefixOf
    <3> QED
      BY <2>6, <3>10, <3>11
  <2>17. l.total - r.total < amount + minimum
    <3>1. Within(K[n], amount, minimum)
      <4>1. n \in 0..Len(l.unlocking)
        BY <1>2, <1>4
      <4> QED
        BY <1>3, <2>1, <2>2, <4>1, SlashWithin
    <3>2. taken < amount + minimum
      BY <2>4, <2>5, <3>1 DEF Within
    <3> QED
      BY <1>3, <2>6, <3>2
  <2> QED
    BY <2>7, <2>15, <2>16, <2>17
<1> QED
  BY <1>10, <1>11

-----------------------------------------------------------------------------
(* The calls on a ledger *)

(* Every ledger is fit, and the last call made it what it is.               *)
SlashCalled ==
  \E amount \in Nat, minimum \in Nat \ {0}, boundary \in Nat :
    /\ call = [op |-> "slash", amount |-> amount, minimum |-> minimum, boundary |-> boundary]
    /\ after = SlashStake(before, amount, minimum, boundary)

RebondCalled ==
  \E amount \in Nat : call = [op |-> "rebond", amount |-> amount] /\ after = Rebond(before, amount)

ConsolidateCalled ==
  \E era \in Nat : call = [op |-> "consolidate", era |-> era] /\ after = Consolidate(before, era)

CallInv ==
  /\ Fit(before) /\ Fit(after)
  /\ call = Idle \/ SlashCalled \/ RebondCalled \/ ConsolidateCalled

LEMMA CallInitInv == CallInit => CallInv
<1> SUFFICES ASSUME CallInit PROVE CallInv
  OBVIOUS
<1>1. PICK a \in 0..MaxActive, q \in Queues :
        after = [active |-> a, total |-> a + Unlocking(q), unlocking |-> q]
  BY DEF CallInit, Ledgers
<1>2. q \in Queue /\ Shape(q, MaxEra) /\ Small(q)
  BY QueuesAreShaped
<1>3. Unlocking(q) \in Nat /\ a \in Nat
  BY <1>2, HeldType, CallAssumption
<1>4. PICK u \in Nat : u = a + Unlocking(q)
  BY <1>3
<1>5. after \in LedgerType /\ after.total = u /\ after.active = a /\ after.unlocking = q
  BY <1>1, <1>2, <1>3, <1>4 DEF LedgerType
<1>6. Fit(after)
  BY <1>2, <1>4, <1>5 DEF Fit, Sound
<1> QED
  BY <1>6 DEF CallInit, CallInv

LEMMA CallArguments ==
  /\ \A amount \in CallAmounts : amount \in Nat
  /\ \A era \in 0..(MaxEra + 1) : era \in Nat
<1>1. MaxValue \in Nat /\ MaxActive \in Nat /\ MaxEra \in Nat /\ MaxChunks \in Nat
  BY CallAssumption
<1>2. PICK p \in Nat : p = MaxValue * MaxChunks
  BY <1>1, ProductIs
<1>3. CallAmounts = 0..(MaxActive + p + 1)
  BY <1>2 DEF CallAmounts
<1> QED
  BY <1>1, <1>3

LEMMA CallStepInv == CallInv /\ [CallNext]_callVars => CallInv'
<1> SUFFICES ASSUME CallInv, [CallNext]_callVars PROVE CallInv'
  OBVIOUS
<1>1. Fit(after)
  BY DEF CallInv
<1>2. ASSUME NEW amount \in CallAmounts, NEW minimum \in 1..3, NEW boundary \in 1..(MaxEra + 1),
             Slash(amount, minimum, boundary)
      PROVE  CallInv'
  <2>1. amount \in Nat /\ minimum \in Nat \ {0} /\ boundary \in Nat
    BY CallArguments
  <2>2. before' = after /\ after' = SlashStake(after, amount, minimum, boundary)
        /\ call' = [op |-> "slash", amount |-> amount, minimum |-> minimum, boundary |-> boundary]
    BY <1>2 DEF Slash
  <2>3. Fit(after')
    BY <1>1, <2>1, <2>2, SlashFits
  <2>4. SlashCalled'
    BY <2>1, <2>2 DEF SlashCalled
  <2> QED
    BY <1>1, <2>2, <2>3, <2>4 DEF CallInv, Fit
<1>3. ASSUME NEW amount \in CallAmounts, RebondCall(amount) PROVE CallInv'
  <2>1. amount \in Nat
    BY CallArguments
  <2>2. before' = after /\ after' = Rebond(after, amount) /\ call' = [op |-> "rebond", amount |-> amount]
    BY <1>3 DEF RebondCall
  <2>3. Fit(after')
    BY <1>1, <2>1, <2>2, RebondFits
  <2>4. RebondCalled'
    BY <2>1, <2>2 DEF RebondCalled
  <2> QED
    BY <1>1, <2>2, <2>3, <2>4 DEF CallInv, Fit
<1>4. ASSUME NEW era \in 0..MaxEra, ConsolidateCall(era) PROVE CallInv'
  <2>1. era \in Nat
    BY CallAssumption
  <2>2. before' = after /\ after' = Consolidate(after, era) /\ call' = [op |-> "consolidate", era |-> era]
    BY <1>4 DEF ConsolidateCall
  <2>3. Fit(after')
    BY <1>1, <2>1, <2>2, ConsolidateFits
  <2>4. ConsolidateCalled'
    BY <2>1, <2>2 DEF ConsolidateCalled
  <2> QED
    BY <1>1, <2>2, <2>3, <2>4 DEF CallInv, Fit
<1>5. ASSUME UNCHANGED callVars PROVE CallInv'
  BY <1>5 DEF callVars, CallInv, Fit, SlashCalled, RebondCalled, ConsolidateCalled
<1> QED
  BY <1>2, <1>3, <1>4, <1>5 DEF CallNext

(* Whatever calls are made on a ledger, its total is the sum of its active *)
(* stake and chunks, its chunks stay few, small and in order, and it is    *)
(* what the last call makes of the ledger before it.                       *)
THEOREM CallInvariant == CallSpec => []CallInv
<1>1. CallInit => CallInv
  BY CallInitInv
<1>2. CallInv /\ [CallNext]_callVars => CallInv'
  BY CallStepInv
<1> QED
  BY <1>1, <1>2, PTL DEF CallSpec

(* The total is the sum, and the queue is in order.                        *)
LEMMA FitKeepsSums == Fit(after) => SumsKept
<1> SUFFICES ASSUME Fit(after) PROVE SumsKept
  OBVIOUS
<1>1. Sound(after, MaxEra) /\ Small(after.unlocking)
  BY DEF Fit
<1>2. PICK q \in Queue : q = after.unlocking /\ Shape(q, MaxEra)
  BY <1>1, SoundTypes
<1>3. q \in Queues
  BY <1>1, <1>2, ShapedAreQueues
<1>4. after.total = after.active + Unlocking(after.unlocking)
  BY <1>1, SoundTypes
<1> QED
  BY <1>2, <1>3, <1>4 DEF SumsKept

LEMMA SlashFromInv == CallInv => SlashIsExact
<1> SUFFICES ASSUME CallInv, call.op = "slash" PROVE SlashIsExact
  BY DEF SlashIsExact, SlashTakesEnough, SlashTakesNoMore, SlashSparesOlder
<1>1. Fit(before) /\ SumsKept
  BY FitKeepsSums DEF CallInv
<1>2. SlashCalled
  BY DEF CallInv, Idle, RebondCalled, ConsolidateCalled
<1>3. PICK amount \in Nat, minimum \in Nat \ {0}, boundary \in Nat :
        /\ call = [op |-> "slash", amount |-> amount, minimum |-> minimum, boundary |-> boundary]
        /\ after = SlashStake(before, amount, minimum, boundary)
  BY <1>2 DEF SlashCalled
<1>4. call.amount = amount /\ call.minimum = minimum /\ call.boundary = boundary
  BY <1>3
<1>5. PICK older : older = SubSeq(before.unlocking, 1, FirstSlashable(before.unlocking, boundary) - 1)
  OBVIOUS
<1>6. /\ before.total - after.total >= Min({amount, before.total})
      /\ before.total - after.total < amount + minimum
      /\ before.total - Unlocking(older) >= amount => IsPrefix(older, after.unlocking)
  BY <1>1, <1>3, <1>5, SlashFits
<1>7. SlashTakesEnough
  BY <1>1, <1>4, <1>6 DEF SlashTakesEnough, Taken
<1>8. SlashSparesOlder
  BY <1>4, <1>5, <1>6 DEF SlashSparesOlder
<1>9. SlashTakesNoMore
  BY <1>4, <1>6 DEF SlashTakesNoMore, Taken
<1> QED
  BY <1>7, <1>8, <1>9 DEF SlashIsExact

(* slash_stake takes all that was asked for or all there is, and too much  *)
(* by less than one minimum; the chunks that were unbonding already are    *)
(* spared while the rest can bear it.                                      *)
THEOREM SlashesAreExact == CallSpec => []SlashIsExact
BY CallInvariant, SlashFromInv, PTL

LEMMA UnlockingFromInv == CallInv => UnlockingIsExact
<1> SUFFICES ASSUME CallInv PROVE UnlockingIsExact
  OBVIOUS
<1>1. Fit(before) /\ SumsKept
  BY FitKeepsSums DEF CallInv
<1>2. ASSUME call.op = "rebond"
      PROVE  /\ after.active = before.active + Min({call.amount, Unlocking(before.unlocking)})
             /\ after.total = before.total
             /\ after.unlocking # <<>> => IsPrefix(Front(after.unlocking), before.unlocking)
  <2>1. RebondCalled
    BY <1>2 DEF CallInv, Idle, SlashCalled, ConsolidateCalled
  <2>2. PICK amount \in Nat : call = [op |-> "rebond", amount |-> amount] /\ after = Rebond(before, amount)
    BY <2>1 DEF RebondCalled
  <2>3. call.amount = amount
    BY <2>2
  <2> QED
    BY <1>1, <2>2, <2>3, RebondFits
<1>3. ASSUME call.op = "consolidate"
      PROVE  /\ Range(after.unlocking) = {c \in Range(before.unlocking) : c.era > call.era}
             /\ after.active = before.active
  <2>1. ConsolidateCalled
    BY <1>3 DEF CallInv, Idle, SlashCalled, RebondCalled
  <2>2. PICK era \in Nat : call = [op |-> "consolidate", era |-> era] /\ after = Consolidate(before, era)
    BY <2>1 DEF ConsolidateCalled
  <2>3. call.era = era
    BY <2>2
  <2> QED
    BY <1>1, <2>2, <2>3, ConsolidateFits
<1> QED
  BY <1>1, <1>2, <1>3 DEF UnlockingIsExact, RebondNewestFirst, ConsolidateInTime

(* rebond brings back what was asked for from the newest chunks, and       *)
(* consolidate_unlocked releases the chunks whose era has come, no other.   *)
THEOREM UnlockingsAreExact == CallSpec => []UnlockingIsExact
BY CallInvariant, UnlockingFromInv, PTL
=============================================================================
