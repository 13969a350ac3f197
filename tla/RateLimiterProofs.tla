------------------------- MODULE RateLimiterProofs -------------------------
(***************************************************************************)
(* Proofs about RateLimiter for any addresses, clients, limits, windows and *)
(* room for keys.                                                          *)
(***************************************************************************)
EXTENDS RateLimiter, FiniteSetTheorems, SequenceTheorems, TLAPS

LEMMA UpTo ==
  ASSUME NEW n \in Nat, NEW T \in SUBSET (0..n), 0 \in T,
         \A m \in T : m < n => m + 1 \in T
  PROVE  n \in T
<1>1. SUFFICES ASSUME n \notin T PROVE FALSE
  OBVIOUS
<1>2. IsFiniteSet(T)
  <2>1. IsFiniteSet(0..n)
    BY FS_Interval
  <2>2. QED
    BY <2>1, FS_Subset
<1>3. IsFiniteSet(T \ {0}) /\ Cardinality(T \ {0}) = Cardinality(T) - 1
  BY <1>2, FS_RemoveElement
<1>4. Cardinality(T) \in Nat
  BY <1>2, FS_CardinalityType
<1> DEFINE f == [m \in T |-> m + 1]
<1>5. f \in [T -> T \ {0}]
  BY <1>1
<1>6. Cardinality(T \ {0}) < Cardinality(T)
  BY <1>3, <1>4
<1>7. \A x, y \in T : f[x] = f[y] => x = y
  OBVIOUS
<1> HIDE DEF f
<1>8. \E x, y \in T : x # y /\ f[x] = f[y]
  BY <1>2, <1>3, <1>5, <1>6, FS_PigeonHole
<1>9. QED
  BY <1>7, <1>8

---------------------------------------------------------------------------
(***************************************************************************)
(* Pruning.                                                                *)
(***************************************************************************)

LEMMA OutdatedOK ==
  ASSUME NEW q \in Seq(Nat), now \in Nat
  PROVE  /\ Outdated(q) \in 0..Len(q)
         /\ \A m \in 1..Outdated(q) : q[m] + window <= now
         /\ Outdated(q) < Len(q) => q[Outdated(q) + 1] + window > now
<1> DEFINE Ends(n) == /\ \A m \in 1..n : q[m] + window <= now
                      /\ n < Len(q) => q[n + 1] + window > now
           T == {n \in 0..Len(q) : \A m \in 1..n : q[m] + window <= now}
<1>1. \E n \in 0..Len(q) : Ends(n)
  <2>1. SUFFICES ASSUME \A n \in 0..Len(q) : ~Ends(n) PROVE FALSE
    OBVIOUS
  <2>2. Len(q) \in Nat
    OBVIOUS
  <2>3. 0 \in T
    BY <2>2
  <2>4. ASSUME NEW n \in T, n < Len(q) PROVE n + 1 \in T
    <3>1. ~(q[n + 1] + window > now)
      BY <2>1, <2>4
    <3>2. q[n + 1] + window <= now
      BY <2>4, <3>1, LimiterAssumption
    <3>3. \A m \in 1..n + 1 : m \in 1..n \/ m = n + 1
      BY <2>4
    <3>4. QED
      BY <2>2, <2>4, <3>2, <3>3
  <2>5. Len(q) \in T
    <3> HIDE DEF T
    <3>1. T \in SUBSET (0..Len(q))
      BY DEF T
    <3>2. QED
      BY <2>2, <2>3, <2>4, <3>1, UpTo
  <2>6. Ends(Len(q))
    BY <2>2, <2>5
  <2>7. QED
    BY <2>1, <2>2, <2>6
<1>2. Outdated(q) = CHOOSE n \in 0..Len(q) : Ends(n)
  BY DEF Outdated
<1>3. Outdated(q) \in 0..Len(q) /\ Ends(Outdated(q))
  <2> HIDE DEF Ends
  <2>1. QED
    BY <1>1, <1>2
<1>4. QED
  BY <1>3

LEMMA RecentOK ==
  ASSUME NEW q \in Seq(Nat), now \in Nat
  PROVE  /\ Recent(q) \in Seq(Nat) /\ Len(Recent(q)) = Len(q) - Outdated(q)
         /\ \A n \in 1..Len(Recent(q)) : Recent(q)[n] = q[n + Outdated(q)]
<1> DEFINE d == Outdated(q)
<1>1. d \in 0..Len(q) /\ Len(q) \in Nat
  BY OutdatedOK
<1> HIDE DEF d
<1>2. \A n \in d + 1..Len(q) : q[n] \in Nat
  BY <1>1
<1>3. /\ SubSeq(q, d + 1, Len(q)) \in Seq(Nat)
      /\ Len(SubSeq(q, d + 1, Len(q))) = IF d + 1 <= Len(q) THEN Len(q) - (d + 1) + 1 ELSE 0
      /\ \A n \in 1..Len(q) - (d + 1) + 1 : SubSeq(q, d + 1, Len(q))[n] = q[d + 1 + n - 1]
  BY <1>1, <1>2, SubSeqProperties
<1>4. \A n \in Nat : d + 1 + n - 1 = n + d
  BY <1>1
<1>5. Recent(q) = SubSeq(q, d + 1, Len(q))
  BY DEF Recent, d
<1>6. Len(Recent(q)) = Len(q) - d
  BY <1>1, <1>3, <1>5
<1>7. \A n \in 1..Len(Recent(q)) : Recent(q)[n] = q[n + d]
  <2> TAKE n \in 1..Len(Recent(q))
  <2>1. n \in 1..Len(q) - (d + 1) + 1 /\ n \in Nat
    BY <1>1, <1>6
  <2>2. QED
    BY <1>3, <1>4, <1>5, <2>1
<1>8. QED
  BY <1>3, <1>5, <1>6, <1>7 DEF d

---------------------------------------------------------------------------
(***************************************************************************)
(* What a queue stands for: after the first `from` calls, calls that       *)
(* concern one of `keys`, in their order, and all of those in the window.   *)
(***************************************************************************)

Concerns(c, keys) == c.keys \cap keys # {}

ChargedBy(f, q, from, keys, calls, t) ==
    /\ \A m, n \in 1..Len(q) : m < n => f[m] < f[n]
    /\ \A n \in 1..Len(q) : calls[f[n]].at = q[n] /\ Concerns(calls[f[n]], keys)
    /\ \A j \in from + 1..Len(calls) :
         calls[j].at + window > t /\ Concerns(calls[j], keys) => \E n \in 1..Len(q) : f[n] = j

Charged(q, from, keys, calls, t) ==
    /\ q \in Seq(Nat)
    /\ \E f \in [1..Len(q) -> from + 1..Len(calls)] : ChargedBy(f, q, from, keys, calls, t)

Call == [at : Nat, keys : SUBSET Keys]

\* The calls allowed are recorded as time goes by.
LogOK(calls, t) ==
    /\ calls \in Seq(Call)
    /\ \A m, n \in 1..Len(calls) : m <= n => calls[m].at <= calls[n].at
    /\ \A n \in 1..Len(calls) : calls[n].at <= t

LEMMA Pruned ==
  ASSUME NEW from \in Nat, NEW keys, NEW q, now \in Nat, LogOK(log, now),
         Charged(q, from, keys, log, now)
  PROVE  Charged(Recent(q), from, keys, log, now)
<1> DEFINE d == Outdated(q)
           r == Recent(q)
<1>0. q \in Seq(Nat)
  BY DEF Charged
<1>1. PICK f \in [1..Len(q) -> from + 1..Len(log)] : ChargedBy(f, q, from, keys, log, now)
  BY DEF Charged
<1>2. /\ d \in 0..Len(q) /\ Len(q) \in Nat
      /\ \A m \in 1..d : q[m] + window <= now
  BY <1>0, OutdatedOK
<1>3. /\ r \in Seq(Nat) /\ Len(r) = Len(q) - d
      /\ \A n \in 1..Len(r) : r[n] = q[n + d]
  BY <1>0, RecentOK
<1> DEFINE g == [n \in 1..Len(r) |-> f[n + d]]
<1> HIDE DEF d, r
<1>4. \A n \in 1..Len(r) : n + d \in 1..Len(q)
  BY <1>2, <1>3
<1>5. g \in [1..Len(r) -> from + 1..Len(log)]
  BY <1>1, <1>4
<1>6. \A m, n \in 1..Len(r) : m < n => g[m] < g[n]
  BY <1>1, <1>2, <1>4 DEF ChargedBy
<1>7. \A n \in 1..Len(r) : log[g[n]].at = r[n] /\ Concerns(log[g[n]], keys)
  BY <1>1, <1>3, <1>4 DEF ChargedBy
<1>8. ASSUME NEW j \in from + 1..Len(log), log[j].at + window > now, Concerns(log[j], keys)
      PROVE  \E n \in 1..Len(r) : g[n] = j
  <2>1. PICK n \in 1..Len(q) : f[n] = j
    BY <1>1, <1>8 DEF ChargedBy
  <2>2. q[n] = log[j].at /\ q[n] \in Nat
    BY <1>0, <1>1, <2>1 DEF ChargedBy
  <2>3. n \notin 1..d
    BY <1>2, <1>8, <2>2, LimiterAssumption
  <2>4. n - d \in 1..Len(r) /\ n - d + d = n
    BY <1>2, <1>3, <2>3
  <2>5. g[n - d] = j
    BY <2>1, <2>4
  <2>6. QED
    BY <2>4, <2>5
<1> HIDE DEF g
<1>9. ChargedBy(g, r, from, keys, log, now)
  BY <1>6, <1>7, <1>8 DEF ChargedBy
<1>10. QED
  BY <1>3, <1>5, <1>9 DEF Charged, r

\* What is left of a queue counts the calls in the window.
LEMMA Counts ==
  ASSUME NEW from \in Nat, NEW keys, NEW q, now \in Nat, LogOK(log, now),
         Charged(q, from, keys, log, now)
  PROVE  Len(Recent(q)) = Cardinality(Calls(from, keys)) /\ Len(Recent(q)) \in 0..Len(q)
<1> DEFINE r == Recent(q)
           C == Calls(from, keys)
<1>0. q \in Seq(Nat)
  BY DEF Charged
<1>1. /\ r \in Seq(Nat) /\ Len(r) = Len(q) - Outdated(q) /\ Outdated(q) \in 0..Len(q)
      /\ Len(r) > 0 => r[1] + window > now
  <2>1. /\ Outdated(q) \in 0..Len(q) /\ Len(q) \in Nat
        /\ Outdated(q) < Len(q) => q[Outdated(q) + 1] + window > now
    BY <1>0, OutdatedOK
  <2>2. /\ r \in Seq(Nat) /\ Len(r) = Len(q) - Outdated(q)
        /\ \A n \in 1..Len(r) : r[n] = q[n + Outdated(q)]
    BY <1>0, RecentOK
  <2>3. ASSUME Len(r) > 0 PROVE r[1] + window > now
    <3>1. 1 \in 1..Len(r) /\ Outdated(q) < Len(q) /\ 1 + Outdated(q) = Outdated(q) + 1
      BY <2>1, <2>2, <2>3
    <3>2. QED
      BY <2>1, <2>2, <3>1
  <2>4. QED
    BY <2>1, <2>2, <2>3
<1>2. Charged(r, from, keys, log, now)
  BY Pruned
<1>3. PICK f \in [1..Len(r) -> from + 1..Len(log)] : ChargedBy(f, r, from, keys, log, now)
  BY <1>2 DEF Charged
<1>4. C = {n \in from + 1..Len(log) : log[n].at + window > now /\ Concerns(log[n], keys)}
  BY DEF Calls, Window!Calls, Concerns
<1> HIDE DEF r, C
<1>5. Len(r) \in Nat /\ Len(log) \in Nat
  BY <1>1 DEF LogOK
<1>6. \A n \in 1..Len(r) : f[n] \in C
  <2> TAKE n \in 1..Len(r)
  <2>1. 1 \in 1..Len(r) /\ r[1] + window > now
    BY <1>1, <1>5
  <2>2. f[1] \in 1..Len(log) /\ f[n] \in 1..Len(log) /\ f[1] <= f[n]
    <3>1. f[1] \in from + 1..Len(log) /\ f[n] \in from + 1..Len(log)
      BY <1>3, <2>1
    <3>2. n = 1 \/ f[1] < f[n]
      BY <1>3, <2>1 DEF ChargedBy
    <3>3. QED
      BY <1>5, <3>1, <3>2
  <2>3. log[f[1]].at <= log[f[n]].at /\ log[f[1]].at = r[1]
    BY <1>3, <2>1, <2>2 DEF LogOK, ChargedBy
  <2>4. log[f[n]].at \in Nat /\ r[1] \in Nat
    <3>1. log[f[n]] \in Call /\ r[1] \in Nat
      BY <1>1, <2>1, <2>2, ElementOfSeq DEF LogOK
    <3>2. QED
      BY <3>1 DEF Call
  <2>5. log[f[n]].at + window > now /\ Concerns(log[f[n]], keys)
    BY <1>3, <2>1, <2>3, <2>4, LimiterAssumption DEF ChargedBy
  <2>6. QED
    BY <1>3, <1>4, <2>5
<1>7. f \in Bijection(1..Len(r), C)
  <2>1. f \in [1..Len(r) -> C]
    BY <1>3, <1>6
  <2>2. \A m, n \in 1..Len(r) : f[m] = f[n] => m = n
    <3> SUFFICES ASSUME NEW m \in 1..Len(r), NEW n \in 1..Len(r), m < n PROVE f[m] # f[n]
      BY <1>5
    <3>1. f[m] < f[n] /\ f[m] \in from + 1..Len(log)
      BY <1>3 DEF ChargedBy
    <3>2. QED
      BY <3>1
  <2>3. \A j \in C : \E n \in 1..Len(r) : f[n] = j
    BY <1>3, <1>4 DEF ChargedBy
  <2>4. QED
    BY <2>1, <2>2, <2>3 DEF Bijection, Injection, IsInjective, Surjection
<1>8. IsFiniteSet(1..Len(r)) /\ Cardinality(1..Len(r)) = Len(r)
  <2>1. IsFiniteSet(1..Len(r)) /\ Cardinality(1..Len(r)) = IF 1 > Len(r) THEN 0 ELSE Len(r) - 1 + 1
    <3>1. 1 \in Int /\ Len(r) \in Int
      BY <1>5
    <3>2. QED
      BY <3>1, FS_Interval
  <2>2. QED
    BY <1>5, <2>1
<1>9. Cardinality(C) = Len(r)
  BY <1>7, <1>8, FS_Bijection DEF ExistsBijection
<1>10. QED
  BY <1>1, <1>9 DEF r, C

\* A call allowed is recorded: the queues it is charged to stand for it as well,
\* for the others nothing changes.
LEMMA Grows ==
  ASSUME NEW calls, NEW t \in Nat, LogOK(calls, t), NEW c \in Call, c.at = t
  PROVE  LogOK(Append(calls, c), t)
<1>1. calls \in Seq(Call) /\ Len(calls) \in Nat
  BY DEF LogOK
<1>2. /\ Append(calls, c) \in Seq(Call) /\ Len(Append(calls, c)) = Len(calls) + 1
      /\ \A n \in 1..Len(calls) : Append(calls, c)[n] = calls[n]
      /\ Append(calls, c)[Len(calls) + 1] = c
  BY <1>1, AppendProperties
<1>3. \A n \in 1..Len(calls) + 1 : n \in 1..Len(calls) \/ n = Len(calls) + 1
  BY <1>1
<1>4. \A n \in 1..Len(calls) + 1 : Append(calls, c)[n].at <= t
  BY <1>2, <1>3 DEF LogOK
<1>5. ASSUME NEW m \in 1..Len(calls) + 1, NEW n \in 1..Len(calls) + 1, m <= n
      PROVE  Append(calls, c)[m].at <= Append(calls, c)[n].at
  <2>1. CASE n = Len(calls) + 1
    BY <1>2, <1>4, <2>1
  <2>2. CASE n \in 1..Len(calls)
    <3>1. m \in 1..Len(calls)
      BY <1>1, <1>5, <2>2
    <3>2. QED
      BY <1>2, <1>5, <2>2, <3>1 DEF LogOK
  <2>3. QED
    BY <1>3, <2>1, <2>2
<1>6. QED
  BY <1>2, <1>4, <1>5 DEF LogOK

LEMMA ChargedMore ==
  ASSUME NEW calls, NEW t \in Nat, LogOK(calls, t), NEW c \in Call, c.at = t,
         NEW from \in 0..Len(calls), NEW keys, NEW q, Charged(q, from, keys, calls, t),
         Concerns(c, keys)
  PROVE  Charged(Append(q, t), from, keys, Append(calls, c), t)
<1> DEFINE L == Len(calls)
           more == Append(calls, c)
           r == Append(q, t)
<1>0. L \in Nat
  BY DEF LogOK
<1>1. /\ Len(more) = L + 1 /\ \A n \in 1..L : more[n] = calls[n]
      /\ more[L + 1] = c
  BY AppendProperties DEF LogOK
<1>2. q \in Seq(Nat) /\ Len(q) \in Nat
  BY DEF Charged
<1>3. /\ r \in Seq(Nat) /\ Len(r) = Len(q) + 1
      /\ \A n \in 1..Len(q) : r[n] = q[n]
      /\ r[Len(q) + 1] = t
  BY <1>2, AppendProperties
<1>4. PICK f \in [1..Len(q) -> from + 1..L] : ChargedBy(f, q, from, keys, calls, t)
  BY DEF Charged
<1> DEFINE g == [n \in 1..Len(r) |-> IF n = Len(q) + 1 THEN L + 1 ELSE f[n]]
<1> HIDE DEF L, more, r
<1>5. \A n \in 1..Len(r) : n \in 1..Len(q) \/ n = Len(q) + 1
  BY <1>2, <1>3
<1>6. \A n \in 1..Len(q) : n # Len(q) + 1 /\ n \in 1..Len(r) /\ f[n] \in 1..L /\ f[n] \in from + 1..L
  <2>1. \A n \in 1..Len(q) : n # Len(q) + 1 /\ n \in 1..Len(r)
    BY <1>2, <1>3
  <2>2. \A n \in 1..Len(q) : f[n] \in from + 1..L
    BY <1>4
  <2>3. QED
    BY <1>0, <2>1, <2>2 DEF L
<1>7. g \in [1..Len(r) -> from + 1..L + 1]
  <2> SUFFICES ASSUME NEW n \in 1..Len(r) PROVE g[n] \in from + 1..L + 1
    OBVIOUS
  <2>1. L + 1 \in from + 1..L + 1
    BY <1>0 DEF L
  <2>2. CASE n \in 1..Len(q)
    <3>1. f[n] \in from + 1..L + 1
      BY <1>0, <1>6, <2>2 DEF L
    <3>2. QED
      BY <1>6, <2>2, <3>1
  <2>3. QED
    BY <1>5, <2>1, <2>2
<1>8. /\ \A n \in 1..Len(q) : g[n] = f[n]
      /\ g[Len(q) + 1] = L + 1 /\ Len(q) + 1 \in 1..Len(r)
  BY <1>2, <1>3, <1>6
<1> HIDE DEF g
<1>9. \A m, n \in 1..Len(r) : m < n => g[m] < g[n]
  <2> SUFFICES ASSUME NEW m \in 1..Len(r), NEW n \in 1..Len(r), m < n PROVE g[m] < g[n]
    OBVIOUS
  <2>1. m \in 1..Len(q)
    BY <1>2, <1>3, <1>5
  <2>2. CASE n \in 1..Len(q)
    BY <1>4, <1>8, <2>1, <2>2 DEF ChargedBy
  <2>3. CASE n = Len(q) + 1
    BY <1>0, <1>6, <1>8, <2>1, <2>3
  <2>4. QED
    BY <1>5, <2>2, <2>3
<1>10. ASSUME NEW n \in 1..Len(r) PROVE more[g[n]].at = r[n] /\ Concerns(more[g[n]], keys)
  <2>1. CASE n \in 1..Len(q)
    <3>1. g[n] = f[n] /\ more[f[n]] = calls[f[n]] /\ r[n] = q[n]
      BY <1>1, <1>3, <1>6, <1>8, <2>1
    <3>2. calls[f[n]].at = q[n] /\ Concerns(calls[f[n]], keys)
      BY <1>4, <2>1 DEF ChargedBy
    <3>3. QED
      BY <3>1, <3>2
  <2>2. CASE n = Len(q) + 1
    BY <1>1, <1>3, <1>8, <2>2
  <2>3. QED
    BY <1>5, <2>1, <2>2
<1>11. ASSUME NEW j \in from + 1..Len(more), more[j].at + window > t, Concerns(more[j], keys)
       PROVE  \E n \in 1..Len(r) : g[n] = j
  <2>1. CASE j = L + 1
    BY <1>8, <2>1
  <2>2. CASE j # L + 1
    <3>1. j \in from + 1..L /\ j \in 1..L
      BY <1>0, <1>1, <2>2 DEF L
    <3>2. PICK n \in 1..Len(q) : f[n] = j
      BY <1>1, <1>4, <1>11, <3>1 DEF ChargedBy, L
    <3>3. QED
      BY <1>6, <1>8, <3>2
  <2>3. QED
    BY <2>1, <2>2
<1>12. ChargedBy(g, r, from, keys, more, t)
  BY <1>9, <1>10, <1>11 DEF ChargedBy
<1>13. QED
  BY <1>1, <1>3, <1>7, <1>12 DEF Charged, more, r

LEMMA ChargedNoMore ==
  ASSUME NEW calls, NEW t \in Nat, LogOK(calls, t), NEW c \in Call,
         NEW from \in 0..Len(calls), NEW keys, NEW q, Charged(q, from, keys, calls, t),
         ~Concerns(c, keys)
  PROVE  Charged(q, from, keys, Append(calls, c), t)
<1> DEFINE L == Len(calls)
           more == Append(calls, c)
<1>0. L \in Nat
  BY DEF LogOK
<1>1. /\ Len(more) = L + 1 /\ \A n \in 1..L : more[n] = calls[n]
      /\ more[L + 1] = c
  BY AppendProperties DEF LogOK
<1>2. PICK f \in [1..Len(q) -> from + 1..L] : ChargedBy(f, q, from, keys, calls, t)
  BY DEF Charged
<1> HIDE DEF more
<1>3. \A n \in 1..Len(q) : f[n] \in from + 1..L + 1 /\ f[n] \in 1..L
  BY <1>0, <1>2
<1>4. f \in [1..Len(q) -> from + 1..L + 1]
  BY <1>2, <1>3
<1>5. ASSUME NEW j \in from + 1..L + 1, Concerns(more[j], keys)
      PROVE  j \in from + 1..L /\ j \in 1..L
  BY <1>0, <1>1, <1>5
<1>6. ChargedBy(f, q, from, keys, more, t)
  <2>1. \A n \in 1..Len(q) : more[f[n]].at = q[n] /\ Concerns(more[f[n]], keys)
    BY <1>1, <1>2, <1>3 DEF ChargedBy
  <2>2. ASSUME NEW j \in from + 1..Len(more), more[j].at + window > t, Concerns(more[j], keys)
        PROVE  \E n \in 1..Len(q) : f[n] = j
    BY <1>1, <1>2, <1>5, <2>2 DEF ChargedBy
  <2>3. QED
    BY <1>2, <2>1, <2>2 DEF ChargedBy
<1>7. QED
  BY <1>1, <1>4, <1>6 DEF Charged, more

\* As time passes, less is in the window.
LEMMA ChargedLater ==
  ASSUME NEW calls, NEW t \in Nat, NEW later \in Nat, t <= later, LogOK(calls, t),
         NEW from \in Nat, NEW keys, NEW q, Charged(q, from, keys, calls, t)
  PROVE  Charged(q, from, keys, calls, later)
<1>1. PICK f \in [1..Len(q) -> from + 1..Len(calls)] : ChargedBy(f, q, from, keys, calls, t)
  BY DEF Charged
<1>2. \A j \in from + 1..Len(calls) : calls[j].at \in Nat
  <2> TAKE j \in from + 1..Len(calls)
  <2>1. j \in 1..Len(calls)
    BY DEF LogOK
  <2>2. calls[j] \in Call
    BY <2>1, ElementOfSeq DEF LogOK
  <2>3. QED
    BY <2>2 DEF Call
<1>3. ASSUME NEW j \in from + 1..Len(calls), calls[j].at + window > later
      PROVE  calls[j].at + window > t
  BY <1>2, <1>3, LimiterAssumption
<1>4. ChargedBy(f, q, from, keys, calls, later)
  BY <1>1, <1>3 DEF ChargedBy
<1>5. QED
  BY <1>1, <1>4 DEF Charged

\* A key that is evicted starts anew.
LEMMA ChargedAnew ==
  ASSUME NEW calls, NEW t \in Nat, LogOK(calls, t), NEW keys
  PROVE  Charged(<< >>, Len(calls), keys, calls, t)
<1>1. Len(calls) \in Nat /\ Len(<< >>) = 0 /\ << >> \in Seq(Nat)
  BY DEF LogOK
<1>2. Len(calls) + 1..Len(calls) = {} /\ 1..0 = {}
  BY <1>1
<1> DEFINE f == [n \in 1..0 |-> 0]
<1>3. f \in [1..Len(<< >>) -> Len(calls) + 1..Len(calls)]
  BY <1>1, <1>2
<1>4. ChargedBy(f, << >>, Len(calls), keys, calls, t)
  BY <1>1, <1>2 DEF ChargedBy
<1>5. QED
  BY <1>1, <1>3, <1>4 DEF Charged

---------------------------------------------------------------------------
(***************************************************************************)
(* The order of eviction: each key once.                                   *)
(***************************************************************************)

Once(o) == o \in Seq(Keys) /\ \A m, n \in 1..Len(o) : o[m] = o[n] => m = n

LEMMA KeysOf ==
  ASSUME NEW o, Once(o)
  PROVE  /\ ToSet(o) = {o[n] : n \in 1..Len(o)} /\ ToSet(o) \subseteq Keys
         /\ DOMAIN o = 1..Len(o) /\ Len(o) \in Nat
         /\ IsFiniteSet(ToSet(o)) /\ Cardinality(ToSet(o)) = Len(o)
<1>1. DOMAIN o = 1..Len(o) /\ Len(o) \in Nat /\ \A n \in 1..Len(o) : o[n] \in Keys
  BY ElementOfSeq DEF Once
<1>2. ToSet(o) = {o[n] : n \in 1..Len(o)} /\ ToSet(o) \subseteq Keys
  BY <1>1 DEF ToSet
<1>3. o \in Bijection(1..Len(o), ToSet(o))
  <2>1. o \in [1..Len(o) -> ToSet(o)]
    BY <1>1, <1>2 DEF Once
  <2>2. QED
    BY <1>2, <2>1 DEF Bijection, Injection, IsInjective, Surjection, Once
<1>4. IsFiniteSet(1..Len(o)) /\ Cardinality(1..Len(o)) = Len(o)
  <2>1. IsFiniteSet(1..Len(o)) /\ Cardinality(1..Len(o)) = IF 1 > Len(o) THEN 0 ELSE Len(o) - 1 + 1
    <3>1. 1 \in Int /\ Len(o) \in Int
      BY <1>1
    <3>2. QED
      BY <3>1, FS_Interval
  <2>2. QED
    BY <1>1, <2>1
<1>5. IsFiniteSet(ToSet(o)) /\ Cardinality(ToSet(o)) = Len(o)
  BY <1>3, <1>4, FS_Bijection DEF ExistsBijection
<1>6. QED
  BY <1>1, <1>2, <1>5

LEMMA AppendOnce ==
  ASSUME NEW o, Once(o), NEW k \in Keys, k \notin ToSet(o)
  PROVE  /\ Once(Append(o, k)) /\ ToSet(Append(o, k)) = ToSet(o) \cup {k}
         /\ Len(Append(o, k)) = Len(o) + 1
         /\ Append(o, k)[Len(o) + 1] = k
         /\ \A n \in 1..Len(o) : Append(o, k)[n] = o[n]
<1> DEFINE a == Append(o, k)
<1>1. /\ a \in Seq(Keys) /\ Len(a) = Len(o) + 1 /\ a[Len(o) + 1] = k
      /\ \A n \in 1..Len(o) : a[n] = o[n]
  BY AppendProperties DEF Once
<1> HIDE DEF a
<1>2. Len(o) \in Nat /\ ToSet(o) = {o[n] : n \in 1..Len(o)}
  BY KeysOf
<1>3. \A n \in 1..Len(a) : n \in 1..Len(o) \/ n = Len(o) + 1
  BY <1>1, <1>2
<1>4. \A n \in 1..Len(o) : a[n] # k
  BY <1>1, <1>2
<1>5. Once(a)
  <2> SUFFICES ASSUME NEW m \in 1..Len(a), NEW n \in 1..Len(a), a[m] = a[n] PROVE m = n
    BY <1>1 DEF Once
  <2>1. QED
    BY <1>1, <1>3, <1>4 DEF Once
<1>6. ToSet(a) = ToSet(o) \cup {k}
  <2>1. ToSet(a) = {a[n] : n \in 1..Len(a)}
    BY <1>5, KeysOf
  <2>2. Len(o) + 1 \in 1..Len(a) /\ \A n \in 1..Len(o) : n \in 1..Len(a)
    BY <1>1, <1>2
  <2>3. QED
    BY <1>1, <1>2, <1>3, <2>1, <2>2
<1>7. QED
  BY <1>1, <1>5, <1>6 DEF a

LEMMA FoundOnce ==
  ASSUME NEW o, Once(o), NEW k \in Keys
  PROVE  /\ Once(Found(o, k)) /\ ToSet(Found(o, k)) = ToSet(o) \cup {k}
         /\ Len(Found(o, k)) = IF k \in ToSet(o) THEN Len(o) ELSE Len(o) + 1
<1>1. CASE k \in ToSet(o)
  BY <1>1 DEF Found
<1>2. CASE k \notin ToSet(o)
  BY <1>2, AppendOnce DEF Found
<1>3. QED
  BY <1>1, <1>2

\* Without the key at place p.
LEMMA RemoveAtOnce ==
  ASSUME NEW o, Once(o), NEW p \in 1..Len(o)
  PROVE  /\ Once(RemoveAt(o, p)) /\ Len(RemoveAt(o, p)) = Len(o) - 1
         /\ ToSet(RemoveAt(o, p)) = ToSet(o) \ {o[p]}
         /\ p < Len(o) => RemoveAt(o, p)[Len(o) - 1] = o[Len(o)]
<1> DEFINE a == SubSeq(o, 1, p - 1)
           b == SubSeq(o, p + 1, Len(o))
           r == RemoveAt(o, p)
           L == Len(o)
<1>0. /\ L \in Nat /\ ToSet(o) = {o[n] : n \in 1..L} /\ p \in Nat /\ 1 <= p /\ p <= L
      /\ \A n \in 1..L : o[n] \in Keys
  BY KeysOf, ElementOfSeq DEF Once
<1> HIDE DEF L
<1>1. a \in Seq(Keys) /\ Len(a) = p - 1 /\ \A n \in 1..p - 1 : a[n] = o[n]
  <2>1. \A n \in 1..p - 1 : o[n] \in Keys
    BY <1>0
  <2>2. /\ a \in Seq(Keys) /\ Len(a) = IF 1 <= p - 1 THEN p - 1 - 1 + 1 ELSE 0
        /\ \A n \in 1..p - 1 - 1 + 1 : a[n] = o[1 + n - 1]
    BY <1>0, <2>1, SubSeqProperties
  <2>3. QED
    BY <1>0, <2>2
<1>2. b \in Seq(Keys) /\ Len(b) = L - p /\ \A n \in 1..L - p : b[n] = o[p + n]
  <2>1. \A n \in p + 1..L : o[n] \in Keys
    BY <1>0
  <2>2. /\ b \in Seq(Keys) /\ Len(b) = IF p + 1 <= L THEN L - (p + 1) + 1 ELSE 0
        /\ \A n \in 1..L - (p + 1) + 1 : b[n] = o[p + 1 + n - 1]
    BY <1>0, <2>1, SubSeqProperties DEF L
  <2>3. \A n \in Nat : p + 1 + n - 1 = p + n
    BY <1>0
  <2>4. QED
    BY <1>0, <2>2, <2>3
<1> HIDE DEF a, b
<1>3. /\ r \in Seq(Keys) /\ Len(r) = L - 1
      /\ \A n \in 1..L - 1 : r[n] = IF n < p THEN o[n] ELSE o[n + 1]
  <2>1. r = a \o b
    BY DEF r, RemoveAt, a, b
  <2>2. /\ a \o b \in Seq(Keys) /\ Len(a \o b) = Len(a) + Len(b)
        /\ \A n \in 1..Len(a) + Len(b) : (a \o b)[n] = IF n <= Len(a) THEN a[n] ELSE b[n - Len(a)]
    BY <1>1, <1>2, ConcatProperties
  <2>3. Len(a) + Len(b) = L - 1
    BY <1>0, <1>1, <1>2
  <2>4. ASSUME NEW n \in 1..L - 1 PROVE r[n] = IF n < p THEN o[n] ELSE o[n + 1]
    <3>1. CASE n < p
      BY <1>0, <1>1, <2>1, <2>2, <2>3, <3>1
    <3>2. CASE ~(n < p)
      <4>1. n - Len(a) \in 1..L - p /\ p + (n - Len(a)) = n + 1 /\ ~(n <= Len(a))
        BY <1>0, <1>1, <3>2
      <4>2. QED
        BY <1>2, <2>1, <2>2, <2>3, <3>2, <4>1
    <3>3. QED
      BY <3>1, <3>2
  <2>5. QED
    BY <2>1, <2>2, <2>3, <2>4
<1> HIDE DEF r
<1>4. Once(r)
  <2> SUFFICES ASSUME NEW m \in 1..L - 1, NEW n \in 1..L - 1, r[m] = r[n] PROVE m = n
    BY <1>3 DEF Once
  <2>1. \A i \in 1..L - 1 : i \in 1..L /\ i + 1 \in 1..L
    BY <1>0
  <2>2. (IF m < p THEN m ELSE m + 1) = (IF n < p THEN n ELSE n + 1)
    BY <1>3, <2>1 DEF Once, L
  <2>3. QED
    BY <1>0, <2>2
<1>5. ToSet(r) = ToSet(o) \ {o[p]}
  <2>1. ToSet(r) = {r[n] : n \in 1..L - 1}
    BY <1>3, <1>4, KeysOf
  <2>2. \A n \in 1..L - 1 : r[n] \in ToSet(o) \ {o[p]}
    <3> TAKE n \in 1..L - 1
    <3>2. CASE n < p
      <4>1. n \in 1..L /\ n # p /\ r[n] = o[n]
        BY <1>0, <1>3, <3>2
      <4>2. QED
        BY <1>0, <4>1 DEF Once, L
    <3>3. CASE ~(n < p)
      <4>1. n + 1 \in 1..L /\ n + 1 # p /\ r[n] = o[n + 1]
        BY <1>0, <1>3, <3>3
      <4>2. QED
        BY <1>0, <4>1 DEF Once, L
    <3>4. QED
      BY <3>2, <3>3
  <2>3. \A i \in 1..L : i # p => \E n \in 1..L - 1 : r[n] = o[i]
    <3> TAKE i \in 1..L
    <3>1. CASE i < p
      BY <1>0, <1>3, <3>1
    <3>2. CASE i > p
      <4>1. i - 1 \in 1..L - 1 /\ ~(i - 1 < p) /\ i - 1 + 1 = i
        BY <1>0, <3>2
      <4>2. QED
        BY <1>3, <4>1
    <3>3. QED
      BY <1>0, <3>1, <3>2
  <2>4. QED
    BY <1>0, <2>1, <2>2, <2>3
<1>6. p < L => r[L - 1] = o[L]
  BY <1>0, <1>3
<1>7. QED
  BY <1>3, <1>4, <1>5, <1>6 DEF r, L

LEMMA MovedOnce ==
  ASSUME NEW o, Once(o), NEW k \in Keys
  PROVE  /\ Once(Moved(o, k)) /\ ToSet(Moved(o, k)) = ToSet(o) \cup {k}
         /\ Len(Moved(o, k)) = IF k \in ToSet(o) THEN Len(o) ELSE Len(o) + 1
         /\ Moved(o, k)[Len(Moved(o, k))] = k
         /\ Len(o) > 0 /\ o[Len(o)] # k =>
              /\ Len(Moved(o, k)) > 1
              /\ Moved(o, k)[Len(Moved(o, k)) - 1] = o[Len(o)]
<1> DEFINE p == Place(o, k)
           rest == IF k \in ToSet(o) THEN RemoveAt(o, p) ELSE o
<1>0. DOMAIN o = 1..Len(o) /\ Len(o) \in Nat /\ ToSet(o) = {o[n] : n \in 1..Len(o)}
  BY KeysOf
<1>1. ASSUME k \in ToSet(o) PROVE p \in 1..Len(o) /\ o[p] = k
  BY <1>0, <1>1 DEF Place
<1> HIDE DEF p
<1>2. /\ Once(rest) /\ ToSet(rest) = ToSet(o) \ {k}
      /\ Len(rest) = IF k \in ToSet(o) THEN Len(o) - 1 ELSE Len(o)
      /\ Len(o) > 0 /\ o[Len(o)] # k => Len(rest) > 0 /\ rest[Len(rest)] = o[Len(o)]
  <2>1. CASE k \in ToSet(o)
    <3>1. /\ Once(RemoveAt(o, p)) /\ Len(RemoveAt(o, p)) = Len(o) - 1
          /\ ToSet(RemoveAt(o, p)) = ToSet(o) \ {o[p]}
          /\ p < Len(o) => RemoveAt(o, p)[Len(o) - 1] = o[Len(o)]
      BY <1>1, <2>1, RemoveAtOnce
    <3>2. o[Len(o)] # k => p < Len(o)
      BY <1>0, <1>1, <2>1
    <3>3. p < Len(o) => Len(o) - 1 > 0
      BY <1>0, <1>1, <2>1
    <3>4. QED
      BY <1>1, <2>1, <3>1, <3>2, <3>3
  <2>2. CASE k \notin ToSet(o)
    BY <2>2
  <2>3. QED
    BY <2>1, <2>2
<1>3. Moved(o, k) = Append(rest, k)
  BY DEF Moved, p
<1> HIDE DEF rest
<1>4. /\ Once(Moved(o, k)) /\ ToSet(Moved(o, k)) = ToSet(rest) \cup {k}
      /\ Len(Moved(o, k)) = Len(rest) + 1 /\ Moved(o, k)[Len(rest) + 1] = k
      /\ \A n \in 1..Len(rest) : Moved(o, k)[n] = rest[n]
  BY <1>2, <1>3, AppendOnce
<1>5. Len(rest) \in Nat
  BY <1>0, <1>2, KeysOf
<1>6. Len(rest) > 0 => Len(rest) \in 1..Len(rest) /\ Len(rest) + 1 > 1 /\ Len(rest) + 1 - 1 = Len(rest)
  BY <1>5
<1>7. ToSet(Moved(o, k)) = ToSet(o) \cup {k}
  BY <1>2, <1>4
<1>8. Len(Moved(o, k)) = IF k \in ToSet(o) THEN Len(o) ELSE Len(o) + 1
  <2>1. Len(rest) = IF k \in ToSet(o) THEN Len(o) - 1 ELSE Len(o)
    BY <1>2
  <2>2. Len(Moved(o, k)) = Len(rest) + 1 /\ Len(o) \in Nat
    BY <1>0, <1>4
  <2>3. QED
    BY <2>1, <2>2
<1>9. ASSUME Len(o) > 0, o[Len(o)] # k
      PROVE  /\ Len(Moved(o, k)) > 1
             /\ Moved(o, k)[Len(Moved(o, k)) - 1] = o[Len(o)]
  BY <1>2, <1>4, <1>6, <1>9
<1>10. QED
  BY <1>4, <1>7, <1>8, <1>9

\* The newest keys stay, two of them at least if there is room for two.
LEMMA TrimmedOnce ==
  ASSUME NEW o, Once(o)
  PROVE  /\ Once(Trimmed(o)) /\ ToSet(Trimmed(o)) \subseteq ToSet(o)
         /\ Len(Trimmed(o)) <= max_keys
         /\ max_keys >= 2 /\ Len(o) > 1 => {o[Len(o)], o[Len(o) - 1]} \subseteq ToSet(Trimmed(o))
<1> DEFINE L == Len(o)
           d == L - max_keys
<1>0. L \in Nat /\ ToSet(o) = {o[n] : n \in 1..L} /\ \A n \in 1..L : o[n] \in Keys
  BY KeysOf, ElementOfSeq DEF Once
<1>1. CASE ~(L > max_keys)
  <2>1. Trimmed(o) = o /\ L <= max_keys
    BY <1>0, <1>1, LimiterAssumption DEF Trimmed
  <2>2. L > 1 => L \in 1..L /\ L - 1 \in 1..L
    BY <1>0
  <2>3. QED
    BY <1>0, <2>1, <2>2
<1>2. CASE L > max_keys
  <2> DEFINE r == Trimmed(o)
  <2>0. d \in Nat /\ d + max_keys = L /\ max_keys \in Nat
    BY <1>0, <1>2, LimiterAssumption
  <2> HIDE DEF L, d
  <2>1. r = SubSeq(o, d + 1, L)
    BY <1>2 DEF Trimmed, L, d
  <2>2. \A n \in d + 1..L : o[n] \in Keys
    BY <1>0, <2>0
  <2>3. /\ r \in Seq(Keys) /\ Len(r) = IF d + 1 <= L THEN L - (d + 1) + 1 ELSE 0
        /\ \A n \in 1..L - (d + 1) + 1 : r[n] = o[d + 1 + n - 1]
    BY <1>0, <2>0, <2>1, <2>2, SubSeqProperties
  <2>4. \A n \in Nat : d + 1 + n - 1 = d + n
    BY <2>0
  <2>5. Len(r) = max_keys /\ \A n \in 1..max_keys : r[n] = o[d + n] /\ d + n \in 1..L
    <3>1. L - (d + 1) + 1 = max_keys /\ (d + 1 <= L <=> max_keys > 0)
      BY <1>0, <2>0
    <3>2. \A n \in 1..max_keys : r[n] = o[d + n] /\ d + n \in 1..L
      BY <1>0, <2>0, <2>3, <2>4, <3>1
    <3>3. Len(r) = max_keys
      BY <2>0, <2>3, <3>1
    <3>4. QED
      BY <3>2, <3>3
  <2> HIDE DEF r
  <2>6. Once(r)
    <3> SUFFICES ASSUME NEW m \in 1..max_keys, NEW n \in 1..max_keys, r[m] = r[n] PROVE m = n
      BY <2>3, <2>5 DEF Once
    <3>1. d + m = d + n
      BY <2>5 DEF Once, L
    <3>2. QED
      BY <2>0, <3>1
  <2>7. ToSet(r) = {r[n] : n \in 1..max_keys}
    BY <2>5, <2>6, KeysOf
  <2>8. ASSUME max_keys >= 2 PROVE {o[L], o[L - 1]} \subseteq ToSet(r)
    <3>1. /\ max_keys \in 1..max_keys /\ max_keys - 1 \in 1..max_keys
          /\ d + max_keys = L /\ d + (max_keys - 1) = L - 1
      BY <2>0, <2>8
    <3>2. QED
      BY <2>5, <2>7, <3>1
  <2>9. QED
    BY <1>0, <2>0, <2>5, <2>6, <2>7, <2>8 DEF r, L
<1>3. QED
  BY <1>1, <1>2

---------------------------------------------------------------------------
(***************************************************************************)
(* The invariant.                                                          *)
(***************************************************************************)

TimesOK ==
    /\ now \in Nat /\ refused \in Nat /\ LogOK(log, now)
    /\ evicted \in [Keys -> Nat] /\ \A k \in Keys : evicted[k] <= Len(log)
OrderOK == Once(order) /\ DOMAIN events = ToSet(order) /\ Len(order) <= max_keys + refused
AllOK == Charged(global_events, 0, Keys, log, now) /\ Len(global_events) <= global_limit
KeyOK(k) == Charged(Queue(k), evicted[k], {k}, log, now) /\ Len(Queue(k)) <= limit

LimiterInv == TimesOK /\ OrderOK /\ AllOK /\ \A k \in Keys : KeyOK(k)

\* What is left of each queue counts the calls of its key.
LEMMA CountsAll ==
  ASSUME LimiterInv
  PROVE  /\ Len(Recent(global_events)) = Cardinality(Calls(0, Keys))
         /\ Len(Recent(global_events)) \in 0..Len(global_events)
         /\ global_events \in Seq(Nat)
         /\ Len(global_events) \in Nat /\ Len(Recent(global_events)) \in Nat
         /\ \A k \in Keys : /\ Len(Bucket(k)) = Cardinality(Calls(evicted[k], {k}))
                           /\ Len(Bucket(k)) \in 0..Len(Queue(k))
                           /\ Queue(k) \in Seq(Nat)
                           /\ Len(Queue(k)) \in Nat /\ Len(Bucket(k)) \in Nat
<1>1. now \in Nat /\ LogOK(log, now) /\ Charged(global_events, 0, Keys, log, now)
  BY DEF LimiterInv, TimesOK, AllOK
<1>2. /\ Len(Recent(global_events)) = Cardinality(Calls(0, Keys))
      /\ Len(Recent(global_events)) \in 0..Len(global_events)
  BY <1>1, Counts
<1>2a. Len(global_events) \in Nat /\ Len(Recent(global_events)) \in Nat
  <2>1. Len(global_events) \in Nat
    BY <1>1 DEF Charged
  <2>2. QED
    BY <1>2, <2>1
<1>3. ASSUME NEW k \in Keys
      PROVE  /\ Len(Bucket(k)) = Cardinality(Calls(evicted[k], {k}))
             /\ Len(Bucket(k)) \in 0..Len(Queue(k))
             /\ Queue(k) \in Seq(Nat)
             /\ Len(Queue(k)) \in Nat /\ Len(Bucket(k)) \in Nat
  <2>1. evicted[k] \in Nat /\ Charged(Queue(k), evicted[k], {k}, log, now)
    BY DEF LimiterInv, TimesOK, KeyOK
  <2>2. /\ Len(Bucket(k)) = Cardinality(Calls(evicted[k], {k}))
        /\ Len(Bucket(k)) \in 0..Len(Queue(k))
        /\ Queue(k) \in Seq(Nat)
    BY <1>1, <2>1, Counts DEF Bucket, Charged
  <2>3. Len(Queue(k)) \in Nat
    BY <2>2
  <2>4. QED
    BY <2>2, <2>3
<1>4. QED
  BY <1>1, <1>2, <1>2a, <1>3 DEF Charged

LEMMA InitInv == Init => LimiterInv
<1> SUFFICES ASSUME Init PROVE LimiterInv
  OBVIOUS
<1>1. LogOK(log, now) /\ Len(log) = 0
  BY DEF Init, LogOK
<1>2. TimesOK
  BY <1>1 DEF Init, TimesOK
<1>3. OrderOK
  BY LimiterAssumption DEF Init, OrderOK, Once, ToSet
<1>4. ASSUME NEW keys PROVE Charged(<< >>, 0, keys, log, now)
  BY <1>1, <1>2, ChargedAnew DEF TimesOK
<1>5. AllOK
  BY <1>4, LimiterAssumption DEF Init, AllOK
<1>6. ASSUME NEW k \in Keys PROVE KeyOK(k)
  <2>1. Queue(k) = << >> /\ evicted[k] = 0
    BY DEF Init, Queue
  <2>2. QED
    BY <1>4, <2>1, LimiterAssumption DEF KeyOK
<1>7. QED
  BY <1>2, <1>3, <1>5, <1>6 DEF LimiterInv

LEMMA TickKeeps == LimiterInv /\ Tick => LimiterInv'
<1> SUFFICES ASSUME LimiterInv, Tick PROVE LimiterInv'
  OBVIOUS
<1>1. /\ now' = now + 1 /\ now \in Nat /\ now' \in Nat /\ now <= now'
      /\ UNCHANGED <<order, events, global_events, log, evicted, refused>>
      /\ LogOK(log, now) /\ evicted \in [Keys -> Nat]
  BY DEF Tick, LimiterInv, TimesOK
<1>2. LogOK(log, now')
  <2>1. \A n \in 1..Len(log) : log[n].at \in Nat
    <3> TAKE n \in 1..Len(log)
    <3>1. log[n] \in Call
      BY <1>1, ElementOfSeq DEF LogOK
    <3>2. QED
      BY <3>1 DEF Call
  <2>2. \A n \in 1..Len(log) : log[n].at <= now'
    BY <1>1, <2>1 DEF LogOK
  <2>3. QED
    BY <1>1, <2>2 DEF LogOK
<1>3. TimesOK' /\ OrderOK'
  BY <1>1, <1>2 DEF LimiterInv, TimesOK, OrderOK
<1>4. AllOK'
  <2>1. Charged(global_events, 0, Keys, log, now')
    BY <1>1, ChargedLater DEF LimiterInv, AllOK
  <2>2. QED
    BY <1>1, <2>1 DEF LimiterInv, AllOK
<1>5. ASSUME NEW k \in Keys PROVE KeyOK(k)'
  <2>1. Charged(Queue(k), evicted[k], {k}, log, now')
    BY <1>1, ChargedLater DEF LimiterInv, KeyOK
  <2>2. Queue(k)' = Queue(k)
    BY <1>1 DEF Queue
  <2>3. QED
    BY <1>1, <2>1, <2>2 DEF LimiterInv, KeyOK
<1>6. QED
  BY <1>3, <1>4, <1>5 DEF LimiterInv

\* The order after a call that is allowed: what it was, and the two keys, without
\* the keys that are evicted.
Used(e, i) == Moved(Moved(order, e), i)

LEMMA UsedOnce ==
  ASSUME OrderOK, NEW e \in Emails, NEW i \in IPs
  PROVE  /\ Once(Used(e, i)) /\ ToSet(Used(e, i)) = ToSet(order) \cup {e, i}
         /\ Once(Trimmed(Used(e, i))) /\ Len(Trimmed(Used(e, i))) <= max_keys
         /\ ToSet(Trimmed(Used(e, i))) \subseteq ToSet(Used(e, i))
         /\ max_keys >= 2 => {e, i} \subseteq ToSet(Trimmed(Used(e, i)))
<1> DEFINE o == Moved(order, e)
           u == Moved(o, i)
<1>0. e \in Keys /\ i \in Keys /\ e # i
  BY LimiterAssumption DEF Keys
<1>1. /\ Once(o) /\ ToSet(o) = ToSet(order) \cup {e} /\ o[Len(o)] = e
  BY <1>0, MovedOnce DEF OrderOK
<1>2. Len(o) > 0
  <2>1. Len(o) \in Nat /\ ToSet(o) = {o[n] : n \in 1..Len(o)}
    BY <1>1, KeysOf
  <2>2. QED
    BY <1>1, <2>1
<1> HIDE DEF o
<1>3. /\ Once(u) /\ ToSet(u) = ToSet(o) \cup {i} /\ u[Len(u)] = i
      /\ Len(u) > 1 /\ u[Len(u) - 1] = e
  BY <1>0, <1>1, <1>2, MovedOnce
<1>4. Used(e, i) = u
  BY DEF Used, o
<1> HIDE DEF u
<1>5. /\ Once(Trimmed(u)) /\ Len(Trimmed(u)) <= max_keys
      /\ ToSet(Trimmed(u)) \subseteq ToSet(u)
      /\ max_keys >= 2 => {i, e} \subseteq ToSet(Trimmed(u))
  BY <1>3, TrimmedOnce
<1>6. QED
  BY <1>1, <1>3, <1>4, <1>5

LEMMA AllowKeeps ==
  ASSUME LimiterInv, NEW e \in Emails, NEW i \in IPs, Allow(e, i)
  PROVE  LimiterInv'
<1> DEFINE c == [at |-> now, keys |-> {e, i}]
<1>0. /\ now \in Nat /\ LogOK(log, now) /\ Len(log) \in Nat
      /\ evicted \in [Keys -> Nat] /\ \A k \in Keys : evicted[k] \in 0..Len(log)
  <2>1. Len(log) \in Nat
    BY DEF LimiterInv, TimesOK, LogOK
  <2>2. QED
    BY <2>1 DEF LimiterInv, TimesOK
<1>1. c \in Call /\ c.at = now /\ e \in Keys /\ i \in Keys
  BY <1>0 DEF Call, Keys
<1>2. /\ now' = now /\ refused' = 0 /\ log' = Append(log, c)
      /\ order' = Trimmed(Used(e, i))
      /\ evicted' = [k \in Keys |-> IF k \in ToSet(Used(e, i)) \ ToSet(order')
                                    THEN Len(log) + 1 ELSE evicted[k]]
      /\ events' = [k \in ToSet(order') |->
                       IF k \in {e, i} THEN Append(Bucket(k), now) ELSE events[k]]
      /\ global_events' = Append(Recent(global_events), now)
      /\ Len(Bucket(e)) < limit /\ Len(Bucket(i)) < limit
      /\ Len(Recent(global_events)) < global_limit
  <2>1. DOMAIN evicted = Keys
    BY <1>0
  <2>2. /\ Len(Bucket(e)) \in Nat /\ Len(Bucket(i)) \in Nat
        /\ Len(Recent(global_events)) \in Nat
    <3>1. Bucket(e) \in Seq(Nat) /\ Bucket(i) \in Seq(Nat) /\ Recent(global_events) \in Seq(Nat)
      BY <1>0, <1>1, CountsAll, RecentOK DEF Bucket
    <3>2. QED
      BY <3>1
  <2>3. QED
    BY <2>1, <2>2, LimiterAssumption DEF Allow, Used, Full, GloballyFull
<1>3. /\ LogOK(log', now) /\ Len(log') = Len(log) + 1
  <2>1. log \in Seq(Call)
    BY <1>0 DEF LogOK
  <2>2. QED
    BY <1>0, <1>1, <1>2, <2>1, Grows, AppendProperties
<1>4. /\ Once(order') /\ Len(order') <= max_keys
      /\ ToSet(order') \subseteq ToSet(Used(e, i))
      /\ ToSet(Used(e, i)) = ToSet(order) \cup {e, i}
      /\ DOMAIN events = ToSet(order)
  BY <1>2, UsedOnce DEF LimiterInv, OrderOK
<1> HIDE DEF c
<1>5. TimesOK'
  <2>1. evicted' \in [Keys -> Nat]
    BY <1>0, <1>2
  <2>2. \A k \in Keys : evicted'[k] <= Len(log')
    BY <1>0, <1>2, <1>3
  <2>3. QED
    BY <1>0, <1>2, <1>3, <2>1, <2>2 DEF TimesOK
<1>6. OrderOK'
  <2>1. DOMAIN events' = ToSet(order')
    BY <1>2
  <2>2. ToSet(order)' = ToSet(order')
    BY DEF ToSet
  <2>3. QED
    BY <1>2, <1>4, <2>1, <2>2, LimiterAssumption DEF OrderOK
<1>7. AllOK'
  <2> DEFINE r == Recent(global_events)
  <2>1. Charged(r, 0, Keys, log, now)
    BY <1>0, Pruned DEF LimiterInv, AllOK
  <2>2. Concerns(c, Keys)
    BY <1>1 DEF Concerns, c
  <2>3. r \in Seq(Nat)
    BY <2>1 DEF Charged
  <2> HIDE DEF r
  <2>4. Charged(Append(r, now), 0, Keys, log', now)
    BY <1>0, <1>1, <1>2, <2>1, <2>2, ChargedMore
  <2>5. Len(Append(r, now)) = Len(r) + 1 /\ Len(r) \in Nat
    BY <1>0, <2>3, AppendProperties
  <2>6. Len(Append(r, now)) <= global_limit
    BY <1>2, <2>5, LimiterAssumption DEF r
  <2>7. QED
    BY <1>2, <2>4, <2>6 DEF AllOK, r
<1>8. ASSUME NEW k \in Keys PROVE KeyOK(k)'
  <2>0. /\ Charged(Queue(k), evicted[k], {k}, log, now) /\ Len(Queue(k)) <= limit
        /\ evicted[k] \in 0..Len(log)
    BY <1>0, <1>8 DEF LimiterInv, KeyOK
  <2>1. CASE k \in ToSet(order') /\ k \in {e, i}
    <3> DEFINE b == Bucket(k)
    <3>1. Queue(k)' = Append(b, now) /\ evicted'[k] = evicted[k]
      BY <1>2, <1>8, <2>1 DEF Queue
    <3>2. Charged(b, evicted[k], {k}, log, now)
      BY <1>0, <2>0, Pruned DEF Bucket
    <3>3. Concerns(c, {k})
      BY <2>1 DEF Concerns, c
    <3> HIDE DEF b
    <3>4. Charged(Append(b, now), evicted[k], {k}, log', now)
      BY <1>0, <1>1, <1>2, <2>0, <3>2, <3>3, ChargedMore
    <3>5. Len(Append(b, now)) = Len(b) + 1 /\ Len(b) \in Nat
      BY <1>0, <3>2, AppendProperties DEF Charged
    <3>6. Len(b) < limit
      BY <1>2, <2>1 DEF b
    <3>7. Len(Append(b, now)) <= limit
      BY <3>5, <3>6, LimiterAssumption
    <3>8. QED
      BY <1>2, <3>1, <3>4, <3>7 DEF KeyOK
  <2>2. CASE k \notin {e, i} /\ k \notin ToSet(Used(e, i)) \ ToSet(order')
    <3>1. Queue(k)' = Queue(k) /\ evicted'[k] = evicted[k]
      BY <1>2, <1>4, <1>8, <2>2 DEF Queue
    <3>2. ~Concerns(c, {k})
      BY <2>2 DEF Concerns, c
    <3>3. Charged(Queue(k), evicted[k], {k}, log', now)
      BY <1>0, <1>1, <1>2, <2>0, <3>2, ChargedNoMore
    <3>4. QED
      BY <1>2, <2>0, <3>1, <3>3 DEF KeyOK
  <2>3. CASE k \in ToSet(Used(e, i)) \ ToSet(order')
    <3>1. Queue(k)' = << >> /\ evicted'[k] = Len(log')
      BY <1>2, <1>3, <1>8, <2>3 DEF Queue
    <3>2. Charged(<< >>, Len(log'), {k}, log', now)
      BY <1>0, <1>3, ChargedAnew
    <3>3. QED
      BY <1>2, <3>1, <3>2, LimiterAssumption DEF KeyOK
  <2>4. QED
    BY <1>4, <2>1, <2>2, <2>3
<1>9. QED
  BY <1>5, <1>6, <1>7, <1>8 DEF LimiterInv

\* A refused call leaves at most one new key: an address that is full without a
\* call has the limit 0, and then nothing is ever allowed.
LEMMA RefuseKeyOrder ==
  ASSUME LimiterInv, NEW e \in Emails, NEW i \in IPs, RefuseKey(e, i)
  PROVE  /\ Once(order') /\ ToSet(order) \subseteq ToSet(order')
         /\ ToSet(order') \subseteq ToSet(order) \cup {e, i}
         /\ Full(e) => ToSet(order') = ToSet(order) \cup {e}
         /\ Len(order') <= Len(order) + 1
<1>0. Once(order) /\ Len(order) \in Nat /\ e \in Keys /\ i \in Keys
      /\ DOMAIN events = ToSet(order)
  BY KeysOf DEF LimiterInv, OrderOK, Keys
<1>1. CASE Full(e)
  <2>1. order' = Found(order, e)
    BY <1>1 DEF RefuseKey
  <2>2. /\ Once(Found(order, e)) /\ ToSet(Found(order, e)) = ToSet(order) \cup {e}
        /\ Len(Found(order, e)) = IF e \in ToSet(order) THEN Len(order) ELSE Len(order) + 1
    BY <1>0, FoundOnce
  <2>3. QED
    BY <1>0, <2>1, <2>2
<1>2. CASE ~Full(e)
  <2> DEFINE o == Moved(order, e)
  <2>1. order' = Found(o, i) /\ Full(i)
    BY <1>2 DEF RefuseKey
  <2>2. /\ Once(o) /\ ToSet(o) = ToSet(order) \cup {e}
        /\ Len(o) = IF e \in ToSet(order) THEN Len(order) ELSE Len(order) + 1
    BY <1>0, MovedOnce
  <2>3. i \in ToSet(order)
    <3>1. Len(Bucket(e)) \in Nat /\ Len(Bucket(i)) \in 0..Len(Queue(i))
      <4>1. Len(Bucket(e)) \in 0..Len(Queue(e)) /\ Len(Bucket(i)) \in 0..Len(Queue(i))
        BY <1>0, CountsAll
      <4>2. QED
        BY <4>1
    <3>2. limit > 0
      BY <1>2, <3>1, LimiterAssumption DEF Full
    <3>3. Len(Queue(i)) # 0
      BY <2>1, <3>1, <3>2, LimiterAssumption DEF Full
    <3>4. QED
      BY <1>0, <3>3 DEF Queue
  <2> HIDE DEF o
  <2>4. Found(o, i) = o
    BY <2>2, <2>3 DEF Found
  <2>5. QED
    BY <1>0, <1>2, <2>1, <2>2, <2>3, <2>4
<1>3. QED
  BY <1>1, <1>2

LEMMA RefuseKeeps ==
  ASSUME LimiterInv, NEW e \in Emails, NEW i \in IPs, Refuse(e, i)
  PROVE  LimiterInv'
<1>0. /\ now \in Nat /\ LogOK(log, now) /\ refused \in Nat /\ refused' = refused + 1
      /\ UNCHANGED <<now, log, evicted>> /\ evicted \in [Keys -> Nat]
      /\ global_events' = Recent(global_events)
  BY DEF LimiterInv, TimesOK, Refuse, RefuseAll, RefuseKey
<1>1. TimesOK'
  BY <1>0 DEF LimiterInv, TimesOK
<1>2. AllOK'
  <2>1. Charged(Recent(global_events), 0, Keys, log, now)
    BY <1>0, Pruned DEF LimiterInv, AllOK
  <2>2. /\ Len(Recent(global_events)) \in 0..Len(global_events)
        /\ Len(global_events) <= global_limit /\ Len(global_events) \in Nat
    BY CountsAll DEF LimiterInv, AllOK
  <2>3. QED
    BY <1>0, <2>1, <2>2, LimiterAssumption DEF AllOK
<1>3. ASSUME NEW k \in Keys
      PROVE  /\ Charged(Queue(k), evicted[k], {k}, log, now) /\ Len(Queue(k)) <= limit
             /\ Charged(Bucket(k), evicted[k], {k}, log, now) /\ Len(Bucket(k)) <= limit
  <2>1. Charged(Queue(k), evicted[k], {k}, log, now) /\ Len(Queue(k)) <= limit
    BY DEF LimiterInv, KeyOK
  <2>2. evicted[k] \in Nat
    BY <1>0
  <2>3. Charged(Bucket(k), evicted[k], {k}, log, now)
    BY <1>0, <2>1, <2>2, Pruned DEF Bucket
  <2>4. Len(Bucket(k)) \in 0..Len(Queue(k)) /\ Len(Queue(k)) \in Nat
    BY CountsAll
  <2>5. QED
    BY <2>1, <2>3, <2>4, LimiterAssumption
<1>4. CASE RefuseAll
  <2>1. order' = order /\ events' = events
    BY <1>4 DEF RefuseAll
  <2>2. OrderOK'
    <3>1. Len(order) \in Nat /\ Len(order) <= max_keys + refused
      BY KeysOf DEF LimiterInv, OrderOK
    <3>2. Len(order) <= max_keys + refused'
      BY <1>0, <3>1, LimiterAssumption
    <3>3. QED
      BY <2>1, <3>2 DEF LimiterInv, OrderOK
  <2>3. ASSUME NEW k \in Keys PROVE KeyOK(k)'
    BY <1>0, <1>3, <2>1 DEF KeyOK, Queue
  <2>4. QED
    BY <1>1, <1>2, <2>2, <2>3 DEF LimiterInv
<1>5. CASE RefuseKey(e, i)
  <2>1. /\ Once(order') /\ ToSet(order) \subseteq ToSet(order')
        /\ ToSet(order') \subseteq ToSet(order) \cup {e, i}
        /\ Full(e) => ToSet(order') = ToSet(order) \cup {e}
        /\ Len(order') <= Len(order) + 1
    BY <1>5, RefuseKeyOrder
  <2>2. events' = [k \in ToSet(order') |->
                     IF k = e \/ (k = i /\ ~Full(e)) THEN Bucket(k) ELSE events[k]]
    BY <1>5 DEF RefuseKey
  <2>3. OrderOK'
    <3>1. /\ Len(order) \in Nat /\ Len(order) <= max_keys + refused /\ Len(order') \in Nat
      BY <2>1, KeysOf DEF LimiterInv, OrderOK
    <3>2. Len(order') <= max_keys + refused'
      BY <1>0, <2>1, <3>1, LimiterAssumption
    <3>3. DOMAIN events' = ToSet(order') /\ ToSet(order)' = ToSet(order')
      BY <2>2 DEF ToSet
    <3>4. QED
      BY <2>1, <3>2, <3>3 DEF OrderOK
  <2>4. ASSUME NEW k \in Keys PROVE KeyOK(k)'
    <3>1. Queue(k)' \in {Queue(k), Bucket(k)}
      <4>1. CASE k \notin ToSet(order')
        <5>1. Queue(k)' = << >> /\ Queue(k) = << >>
          BY <2>1, <2>2, <4>1 DEF Queue, LimiterInv, OrderOK
        <5>2. QED
          BY <5>1
      <4>2. CASE k \in ToSet(order') /\ (k = e \/ (k = i /\ ~Full(e)))
        BY <2>2, <4>2 DEF Queue
      <4>3. CASE k \in ToSet(order') /\ ~(k = e \/ (k = i /\ ~Full(e)))
        <5>1. k \in DOMAIN events
          BY <2>1, <4>3 DEF LimiterInv, OrderOK
        <5>2. QED
          BY <2>2, <4>3, <5>1 DEF Queue
      <4>4. QED
        BY <4>1, <4>2, <4>3
    <3>2. QED
      BY <1>0, <1>3, <3>1 DEF KeyOK
  <2>5. QED
    BY <1>1, <1>2, <2>3, <2>4 DEF LimiterInv
<1>6. QED
  BY <1>4, <1>5 DEF Refuse

LEMMA InvStep == LimiterInv /\ [Next]_vars => LimiterInv'
<1> SUFFICES ASSUME LimiterInv, [Next]_vars PROVE LimiterInv'
  OBVIOUS
<1>1. CASE Tick
  BY <1>1, TickKeeps
<1>2. ASSUME NEW e \in Emails, NEW i \in IPs, Allow(e, i) PROVE LimiterInv'
  BY <1>2, AllowKeeps
<1>3. ASSUME NEW e \in Emails, NEW i \in IPs, Refuse(e, i) PROVE LimiterInv'
  BY <1>3, RefuseKeeps
<1>4. CASE UNCHANGED vars
  BY <1>4 DEF vars, LimiterInv, TimesOK, OrderOK, AllOK, KeyOK, Queue
<1>5. QED
  BY <1>1, <1>2, <1>3, <1>4 DEF Next

---------------------------------------------------------------------------
(***************************************************************************)
(* Results.                                                                *)
(***************************************************************************)

\* Each queue stands, in order, for calls of its key, and for all of those that
\* the window still holds; each key has one place in the order of eviction.
THEOREM Invariance == Spec => []LimiterInv
  BY InitInv, InvStep, PTL DEF Spec

\* A call is refused for calls that were allowed and are still in the window, and a
\* key is charged with no other key's (rate_limit.py:33-55).
THEOREM CountedExactly == Spec => []CountsAreExact
<1>1. LimiterInv => CountsAreExact
  BY CountsAll DEF CountsAreExact
<1>2. QED
  BY <1>1, Invariance, PTL

\* No window, wherever it begins, holds more calls than the limits say.
THEOREM LimitsHold == Spec => []WindowsHold
<1>1. LimiterInv => WindowsHold
  <2> SUFFICES ASSUME LimiterInv PROVE WindowsHold
    OBVIOUS
  <2>1. /\ Len(global_events) <= global_limit /\ Len(global_events) \in Nat
    BY CountsAll DEF LimiterInv, AllOK
  <2>2. Cardinality(Calls(0, Keys)) <= global_limit
    BY <2>1, CountsAll, LimiterAssumption
  <2>3. ASSUME NEW k \in Keys PROVE Cardinality(Calls(evicted[k], {k})) <= limit
    <3>1. Len(Queue(k)) <= limit
      BY DEF LimiterInv, KeyOK
    <3>2. /\ Len(Queue(k)) \in Nat /\ Len(Bucket(k)) \in 0..Len(Queue(k))
          /\ Len(Bucket(k)) = Cardinality(Calls(evicted[k], {k}))
      BY CountsAll
    <3>3. QED
      BY <3>1, <3>2, LimiterAssumption
  <2>4. QED
    BY <2>2, <2>3 DEF WindowsHold
<1>2. QED
  BY <1>1, Invariance, PTL

\* Refused calls add a key each at most, and the next call allowed makes up for it.
THEOREM KeysBounded == Spec => []KeysAreBounded
<1>1. LimiterInv => KeysAreBounded
  BY KeysOf DEF LimiterInv, OrderOK, KeysAreBounded
<1>2. QED
  BY <1>1, Invariance, PTL

\* The instance has the library's counting under a name of its own.
LEMMA SameCount == \A S : Window!Cardinality(S) = Cardinality(S)
  BY DEF Cardinality, Window!Cardinality, IsFiniteSet, Window!IsFiniteSet

LEMMA RoomIs ==
  ASSUME LimiterInv, NEW e \in Emails, NEW i \in IPs
  PROVE  Window!HasRoom({e, i}) <=> ~GloballyFull /\ ~Full(e) /\ ~Full(i)
<1>1. e \in Keys /\ i \in Keys /\ Keys = Window!Keys
  BY DEF Keys, Window!Keys
<1>2. \A from, keys : Calls(from, keys) = Window!Calls(from, keys)
  BY DEF Calls
<1>3. /\ Len(Recent(global_events)) = Cardinality(Window!Calls(0, Window!Keys))
      /\ Len(Recent(global_events)) \in Nat
      /\ Len(Bucket(e)) = Cardinality(Window!Calls(evicted[e], {e})) /\ Len(Bucket(e)) \in Nat
      /\ Len(Bucket(i)) = Cardinality(Window!Calls(evicted[i], {i})) /\ Len(Bucket(i)) \in Nat
  BY <1>1, <1>2, CountsAll
<1>4. /\ Window!HasRoom({e, i}) <=>
            /\ Len(Recent(global_events)) < global_limit
            /\ Len(Bucket(e)) < limit /\ Len(Bucket(i)) < limit
  BY <1>3, SameCount DEF Window!HasRoom
<1>5. QED
  BY <1>3, <1>4, LimiterAssumption DEF GloballyFull, Full

\* The limiter, with its lazy pruning and its eviction, is the sliding window that
\* identity-and-sessions.md:114 says it is: each of its decisions is the window's.
THEOREM Implements == Spec => IsSlidingWindow
<1>1. Init => Window!Init
  BY DEF Init, Window!Init, Keys, Window!Keys
<1>2. ASSUME LimiterInv, NEW e \in Emails, NEW i \in IPs, Allow(e, i)
      PROVE  Window!Admit({e, i})
  <2> DEFINE S == ToSet(Used(e, i)) \ ToSet(order')
  <2>1. Window!HasRoom({e, i})
    BY <1>2, RoomIs DEF Allow
  <2>2. S \in SUBSET Window!Forgettable({e, i})
    <3>1. /\ Once(Used(e, i))
          /\ max_keys >= 2 => {e, i} \subseteq ToSet(order')
      BY <1>2, UsedOnce DEF Allow, Used, LimiterInv
    <3>2. ToSet(Used(e, i)) \subseteq Window!Keys
      BY <3>1, KeysOf DEF Keys, Window!Keys
    <3>3. QED
      BY <3>1, <3>2, LimiterAssumption DEF Window!Forgettable
  <2>3. evicted' = [k \in Window!Keys |-> IF k \in S THEN Len(log) + 1 ELSE evicted[k]]
    BY <1>2 DEF Allow, Used, LimiterInv, TimesOK, Keys, Window!Keys
  <2> HIDE DEF S
  <2>4. QED
    BY <1>2, <2>1, <2>2, <2>3 DEF Allow, Window!Admit
<1>3. ASSUME LimiterInv, NEW e \in Emails, NEW i \in IPs, Refuse(e, i)
      PROVE  Window!Reject({e, i})
  BY <1>3, RoomIs DEF Refuse, RefuseAll, RefuseKey, Window!Reject
<1>4. LimiterInv /\ [Next]_vars => [Window!Next]_(Window!vars)
  <2> SUFFICES ASSUME LimiterInv, [Next]_vars PROVE Window!Next \/ UNCHANGED Window!vars
    OBVIOUS
  <2>1. CASE Tick
    BY <2>1 DEF Tick, Window!Next, Window!Pass
  <2>2. CASE \E e \in Emails, i \in IPs : Allow(e, i) \/ Refuse(e, i)
    BY <1>2, <1>3, <2>2 DEF Window!Next
  <2>3. CASE UNCHANGED vars
    BY <2>3 DEF vars, Window!vars
  <2>4. QED
    BY <2>1, <2>2, <2>3 DEF Next
<1>5. QED
  BY <1>1, <1>4, Invariance, PTL DEF Spec, IsSlidingWindow, Window!Spec

=============================================================================
