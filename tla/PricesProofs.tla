---------------------------- MODULE PricesProofs ----------------------------
(***************************************************************************)
(* Proofs about Prices for any keys, prices, requests, rows and batches.   *)
(*                                                                         *)
(* The import is a loop over the proposals. What holds after every position *)
(* of it is shown by UpTo, an induction in terms of sets: a set of numbers *)
(* that has 0 and, of each below n, the next has n as well, since else the *)
(* step would map it into one with an element less.                        *)
(*                                                                         *)
(* A price is served from a row that the index names by id. What the index *)
(* has under an id has the size of the row there, because sizes are never  *)
(* edited, unless the id is in `reused`; this has to be said of the        *)
(* transaction under way, which a rollback may take back, and of all that  *)
(* is still to be sent.                                                    *)
(***************************************************************************)
EXTENDS Prices, FiniteSetTheorems, TLAPS

----------------------------------------------------------------------------
(***************************************************************************)
(* Numbers.                                                                *)
(***************************************************************************)

\* What holds at 0 and of the next number holds at n: a set of numbers that is
\* closed under the next one below n cannot stop before it.
LEMMA UpTo ==
  ASSUME NEW n \in Nat, NEW T \in SUBSET (0..n), 0 \in T,
         \A m \in T : m < n => m + 1 \in T
  PROVE  n \in T
<1>1. SUFFICES ASSUME n \notin T PROVE FALSE
  OBVIOUS
<1>2. IsFiniteSet(T)
  <2>1. IsFiniteSet(0..n)
    BY FS_Interval
  <2>2. QED
    BY <2>1, FS_Subset
<1>3. IsFiniteSet(T \ {0}) /\ Cardinality(T \ {0}) = Cardinality(T) - 1
  BY <1>2, FS_RemoveElement
<1>4. Cardinality(T) \in Nat
  BY <1>2, FS_CardinalityType
<1> DEFINE f == [m \in T |-> m + 1]
<1>5. f \in [T -> T \ {0}]
  BY <1>1
<1>6. Cardinality(T \ {0}) < Cardinality(T)
  BY <1>3, <1>4
<1>7. \A x, y \in T : f[x] = f[y] => x = y
  OBVIOUS
<1> HIDE DEF f
<1>8. \E x, y \in T : x # y /\ f[x] = f[y]
  BY <1>2, <1>3, <1>5, <1>6, FS_PigeonHole
<1>9. QED
  BY <1>7, <1>8

LEMMA Greatest ==
  ASSUME NEW n \in Nat, NEW D \in SUBSET (1..n), D # {}
  PROVE  \E i \in D : \A j \in D : j <= i
<1> DEFINE T == {m \in 0..n : (\E j \in D : j <= m) =>
                    \E i \in D : i <= m /\ \A j \in D : j <= m => j <= i}
<1>1. 0 \in T
  <2>1. ~\E j \in D : j <= 0
    OBVIOUS
  <2>2. QED
    BY <2>1
<1>2. ASSUME NEW m \in T, m < n PROVE m + 1 \in T
  <2>1. m \in Nat /\ m + 1 \in 0..n
    BY <1>2
  <2>2. CASE m + 1 \in D
    <3>1. m + 1 <= m + 1 /\ \A j \in D : j <= m + 1 => j <= m + 1
      BY <2>1
    <3>2. \E i \in D : i <= m + 1 /\ \A j \in D : j <= m + 1 => j <= i
      BY <2>2, <3>1
    <3>3. QED
      BY <2>1, <3>2
  <2>3. CASE m + 1 \notin D
    <3>1. \A j \in D : j <= m + 1 <=> j <= m
      BY <2>1, <2>3
    <3>2. ASSUME \E j \in D : j <= m + 1
          PROVE  \E i \in D : i <= m + 1 /\ \A j \in D : j <= m + 1 => j <= i
      <4>1. PICK i \in D : i <= m /\ \A j \in D : j <= m => j <= i
        BY <1>2, <3>1, <3>2
      <4>2. QED
        BY <3>1, <4>1
    <3>3. QED
      BY <2>1, <3>2
  <2>4. QED
    BY <2>2, <2>3
<1>3. n \in T
  <2>1. T \in SUBSET (0..n)
    OBVIOUS
  <2> HIDE DEF T
  <2>2. QED
    BY <1>1, <1>2, <2>1, UpTo
<1>4. \A j \in D : j <= n
  OBVIOUS
<1>5. QED
  BY <1>3, <1>4

----------------------------------------------------------------------------
(***************************************************************************)
(* Tables.                                                                 *)
(***************************************************************************)

\* A product of one size has one row.
TableOK(t, n) ==
    /\ DOMAIN t \subseteq 1..n
    /\ \A i \in DOMAIN t : t[i] \in CatalogPrice /\ RowOf(t, t[i].key) = {i}

LEMMA NextIsFree ==
  ASSUME NEW t, NEW n \in Nat, DOMAIN t \subseteq 1..n
  PROVE  NextRow(t) \in 1..n + 1 /\ NextRow(t) \notin DOMAIN t
<1>1. CASE DOMAIN t = {}
  BY <1>1 DEF NextRow
<1>2. CASE DOMAIN t # {}
  <2> DEFINE last == CHOOSE i \in DOMAIN t : \A j \in DOMAIN t : j <= i
  <2>1. last \in DOMAIN t /\ \A j \in DOMAIN t : j <= last
    BY <1>2, Greatest
  <2>2. NextRow(t) = 1 + last
    BY <1>2 DEF NextRow
  <2> HIDE DEF last
  <2>3. QED
    BY <2>1, <2>2
<1>3. QED
  BY <1>1, <1>2

\* The row of a key, or the next id where it has none.
LEMMA IdIsRowOrFree ==
  ASSUME NEW t, NEW n \in Nat, TableOK(t, n), NEW key
  PROVE  /\ IdFor(t, key) \in 1..n + 1
         /\ \/ IdFor(t, key) \in DOMAIN t /\ RowOf(t, key) = {IdFor(t, key)}
            \/ IdFor(t, key) \notin DOMAIN t /\ RowOf(t, key) = {}
<1>1. CASE RowOf(t, key) = {}
  BY <1>1, NextIsFree DEF IdFor, TableOK
<1>2. CASE RowOf(t, key) # {}
  <2>1. IdFor(t, key) \in RowOf(t, key)
    BY <1>2 DEF IdFor
  <2>2. QED
    BY <2>1 DEF RowOf, TableOK
<1>3. QED
  BY <1>1, <1>2

\* What an upsert makes of the rows of any key.
LEMMA RowsAfter ==
  ASSUME NEW t, NEW n \in Nat, TableOK(t, n), NEW row, NEW key
  PROVE  RowOf(Upserted(t, row), key) =
            IF key = row.key THEN {IdFor(t, row.key)} ELSE RowOf(t, key)
<1> DEFINE u == Upserted(t, row)
           i == IdFor(t, row.key)
<1>1. /\ DOMAIN u = DOMAIN t \cup {i}
      /\ u[i] = row
      /\ \A j \in DOMAIN t : j # i => u[j] = t[j]
  BY DEF Upserted
<1>2. \/ i \in DOMAIN t /\ RowOf(t, row.key) = {i}
      \/ i \notin DOMAIN t /\ RowOf(t, row.key) = {}
  BY IdIsRowOrFree
<1> HIDE DEF u, i
<1>3. i \in DOMAIN t => t[i].key = row.key
  BY <1>2 DEF RowOf
<1>4. RowOf(u, key) = IF key = row.key THEN {i} ELSE RowOf(t, key)
  BY <1>1, <1>2, <1>3 DEF RowOf
<1>5. QED
  BY <1>4 DEF u, i

\* An upsert leaves one row of each key, and the keys of all other rows.
LEMMA Upserts ==
  ASSUME NEW t, NEW n \in Nat, TableOK(t, n), NEW row \in CatalogPrice,
         NEW u, u = Upserted(t, row),
         NEW i, i = IdFor(t, row.key)
  PROVE  /\ TableOK(u, n + 1)
         /\ DOMAIN u = DOMAIN t \cup {i}
         /\ u[i] = row
         /\ \A j \in DOMAIN t : u[j].key = t[j].key /\ (j # i => u[j] = t[j])
<1>1. /\ DOMAIN u = DOMAIN t \cup {i}
      /\ u[i] = row
      /\ \A j \in DOMAIN t : j # i => u[j] = t[j]
  BY DEF Upserted
<1>2. /\ i \in 1..n + 1
      /\ \/ i \in DOMAIN t /\ RowOf(t, row.key) = {i}
         \/ i \notin DOMAIN t /\ RowOf(t, row.key) = {}
  BY IdIsRowOrFree
<1>3. /\ DOMAIN t \subseteq 1..n
      /\ \A j \in DOMAIN t : t[j] \in CatalogPrice /\ RowOf(t, t[j].key) = {j}
  BY DEF TableOK
<1>4. i \in DOMAIN t => t[i].key = row.key
  BY <1>2 DEF RowOf
<1>5. RowOf(u, row.key) = {i}
  BY RowsAfter
<1>6. \A j \in DOMAIN u : j # i => RowOf(u, t[j].key) = {j}
  <2>1. TAKE j \in DOMAIN u
  <2>2. HAVE j # i
  <2>3. j \in DOMAIN t /\ t[j].key # row.key
    BY <1>1, <1>2, <2>2 DEF RowOf
  <2>4. RowOf(u, t[j].key) = RowOf(t, t[j].key)
    BY <2>3, RowsAfter
  <2>5. QED
    BY <1>3, <2>3, <2>4
<1>7. \A j \in DOMAIN u : u[j] \in CatalogPrice /\ RowOf(u, u[j].key) = {j}
  BY <1>1, <1>3, <1>5, <1>6
<1>8. DOMAIN u \subseteq 1..n + 1
  BY <1>1, <1>2, <1>3
<1>9. TableOK(u, n + 1)
  BY <1>7, <1>8 DEF TableOK
<1>10. QED
  BY <1>1, <1>4, <1>9

LEMMA Fits ==
  ASSUME NEW t, NEW n \in Nat, TableOK(t, n), DOMAIN t \subseteq Ids
  PROVE  TableOK(t, MaxRows)
  BY DEF TableOK, Ids

----------------------------------------------------------------------------
(***************************************************************************)
(* The loop over the proposals.                                            *)
(***************************************************************************)
Last == Cardinality(Positions)

LEMMA Counted == Last \in Nat /\ Positions = 1..Last /\ {0} \cup Positions = 0..Last
<1>1. Last \in Nat /\ Positions = 1..Last
  BY PricesAssumption, FS_CardinalityType DEF Last
<1>2. QED
  BY <1>1

\* What the loop has after each position.
Runs(g, ps, n) ==
    g = [m \in 0..n |-> IF m = 0 THEN NoResult ELSE AppliedOne(g[m - 1], ps[m])]

LEMMA Exists ==
  ASSUME NEW ps
  PROVE  \E g : Runs(g, ps, Last)
<1> DEFINE T == {n \in 0..Last : \E g : Runs(g, ps, n)}
<1>1. 0 \in T
  <2>1. Runs([m \in 0..0 |-> NoResult], ps, 0)
    BY DEF Runs
  <2>2. QED
    BY <2>1, Counted
<1>2. ASSUME NEW n \in T, n < Last PROVE n + 1 \in T
  <2>1. n \in Nat /\ n + 1 \in 0..Last
    BY <1>2, Counted
  <2>2. PICK g : Runs(g, ps, n)
    BY <1>2
  <2> DEFINE r == AppliedOne(g[n], ps[n + 1])
             h == [m \in 0..n + 1 |-> IF m <= n THEN g[m] ELSE r]
  <2>3. \A m \in 0..n : g[m] = IF m = 0 THEN NoResult ELSE AppliedOne(g[m - 1], ps[m])
    BY <2>2 DEF Runs
  <2>4. \A m \in 0..n + 1 :
            h[m] = IF m = 0 THEN NoResult ELSE AppliedOne(h[m - 1], ps[m])
    <3>1. TAKE m \in 0..n + 1
    <3>2. CASE m = 0
      BY <3>2, <2>1, <2>3
    <3>3. CASE m \in 1..n
      BY <3>3, <2>1, <2>3
    <3>4. CASE m = n + 1
      BY <3>4, <2>1
    <3>5. QED
      BY <3>2, <3>3, <3>4, <2>1
  <2> HIDE DEF r
  <2>5. h = [m \in 0..n + 1 |-> h[m]]
    OBVIOUS
  <2> HIDE DEF h
  <2>6. Runs(h, ps, n + 1)
    BY <2>4, <2>5 DEF Runs
  <2>7. QED
    BY <2>1, <2>6
<1>3. Last \in T
  BY <1>1, <1>2, Counted, UpTo
<1>4. QED
  BY <1>3

LEMMA ResultIsLast ==
  ASSUME NEW ps
  PROVE  \E g : Runs(g, ps, Last) /\ Result(ps) = g[Last]
<1> DEFINE h == CHOOSE g : Runs(g, ps, Last)
<1>1. Result(ps) = h[Last]
  BY Counted DEF Result, Runs, Last
<1>2. QED
  BY <1>1, Exists

KeepsKeys(t, u) == \A i \in DOMAIN t : i \in DOMAIN u /\ u[i].key = t[i].key

\* Of one key the table has the newest of what there is.
Newest(t, k, all) ==
    /\ \A i \in RowOf(t, k) : t[i] \in all /\ \A o \in all : o.at <= t[i].at
    /\ RowOf(t, k) = {} => all = {}

Offered(p) == [key |-> p.key, msrp |-> p.msrp, at |-> p.at]
OfferedFor(p, k) == IF p.key = k /\ p.included THEN {Offered(p)} ELSE {}

\* What is true of the table and the ids told to the index, after any position.
LoopOK(r, n) ==
    /\ TableOK(r.table, n)
    /\ KeepsKeys(rows, r.table)
    /\ \A i \in DOMAIN r.table : i \notin r.ids => i \in DOMAIN rows /\ r.table[i] = rows[i]
    /\ r.ids \subseteq DOMAIN r.table

LEMMA OfferedIsRow ==
  ASSUME NEW p \in Proposal
  PROVE  /\ Offered(p) \in CatalogPrice /\ p.at \in 0..NOW
         /\ Offered(p).key = p.key /\ Offered(p).at = p.at
  BY DEF Offered, Proposal, CatalogPrice, Dates, NOW, TODAY

\* A proposal is left out, or its row is what the table gets.
LEMMA AppliedOneCases ==
  ASSUME NEW r, NEW p
  PROVE  \/ /\ AppliedOne(r, p) = r
            /\ ~p.included \/ \E i \in RowOf(r.table, p.key) : KeepsRow(r.table[i], p)
         \/ /\ p.included /\ \A i \in RowOf(r.table, p.key) : ~KeepsRow(r.table[i], p)
            /\ AppliedOne(r, p).table = Upserted(r.table, Offered(p))
            /\ AppliedOne(r, p).ids = r.ids \cup {IdFor(r.table, p.key)}
  BY DEF AppliedOne, Offered

LEMMA AppliesOne ==
  ASSUME NEW r, NEW n \in Nat, LoopOK(r, n), NEW p \in Proposal
  PROVE  LoopOK(AppliedOne(r, p), n + 1)
<1> DEFINE q == AppliedOne(r, p)
           i == IdFor(r.table, p.key)
<1>1. CASE q = r
  <2>1. TableOK(r.table, n + 1)
    BY DEF LoopOK, TableOK
  <2>2. QED
    BY <1>1, <2>1 DEF LoopOK
<1>2. CASE /\ q.table = Upserted(r.table, Offered(p))
           /\ q.ids = r.ids \cup {i}
  <2>1. /\ TableOK(q.table, n + 1)
        /\ DOMAIN q.table = DOMAIN r.table \cup {i}
        /\ \A j \in DOMAIN r.table :
              q.table[j].key = r.table[j].key /\ (j # i => q.table[j] = r.table[j])
    <3>1. /\ TableOK(r.table, n) /\ Offered(p) \in CatalogPrice
          /\ i = IdFor(r.table, Offered(p).key)
      BY OfferedIsRow DEF LoopOK
    <3> HIDE DEF q, i
    <3>2. QED
      BY <1>2, <3>1, Upserts
  <2> HIDE DEF q, i
  <2>2. KeepsKeys(rows, q.table)
    BY <2>1 DEF LoopOK, KeepsKeys
  <2>3. \A j \in DOMAIN q.table : j \notin q.ids => j \in DOMAIN rows /\ q.table[j] = rows[j]
    BY <1>2, <2>1 DEF LoopOK
  <2>4. q.ids \subseteq DOMAIN q.table
    BY <1>2, <2>1 DEF LoopOK
  <2>5. QED
    BY <2>1, <2>2, <2>3, <2>4 DEF LoopOK, q
<1>3. QED
  BY <1>1, <1>2, AppliedOneCases

LEMMA UpsertsOffered ==
  ASSUME NEW t, NEW n \in Nat, TableOK(t, n), NEW p \in Proposal, NEW key
  PROVE  /\ Upserted(t, Offered(p))[IdFor(t, p.key)] = Offered(p)
         /\ \A j \in DOMAIN t : j # IdFor(t, p.key) => Upserted(t, Offered(p))[j] = t[j]
         /\ RowOf(Upserted(t, Offered(p)), key) =
               IF key = p.key THEN {IdFor(t, p.key)} ELSE RowOf(t, key)
         /\ IdFor(t, p.key) \in DOMAIN t => t[IdFor(t, p.key)].key = p.key
<1>1. Offered(p).key = p.key
  BY OfferedIsRow
<1>2. RowOf(Upserted(t, Offered(p)), key) =
         IF key = Offered(p).key THEN {IdFor(t, Offered(p).key)} ELSE RowOf(t, key)
  BY RowsAfter
<1>3. IdFor(t, p.key) \in DOMAIN t => t[IdFor(t, p.key)].key = p.key
  BY IdIsRowOrFree DEF RowOf
<1>4. /\ Upserted(t, Offered(p))[IdFor(t, p.key)] = Offered(p)
      /\ \A j \in DOMAIN t : j # IdFor(t, p.key) => Upserted(t, Offered(p))[j] = t[j]
  BY <1>1 DEF Upserted
<1>5. QED
  BY <1>1, <1>2, <1>3, <1>4

LEMMA KeepsNewest ==
  ASSUME NEW r, NEW n \in Nat, LoopOK(r, n), NEW p \in Proposal, NEW k,
         NEW all, \A x \in all : x.at \in Nat,
         Newest(r.table, k, all)
  PROVE  Newest(AppliedOne(r, p).table, k, all \cup OfferedFor(p, k))
<1> DEFINE q == AppliedOne(r, p)
           i == IdFor(r.table, p.key)
           o == Offered(p)
<1>1. /\ TableOK(r.table, n)
      /\ \A j \in DOMAIN r.table : r.table[j].at \in 0..NOW
      /\ o \in CatalogPrice /\ o.at = p.at /\ o.key = p.key /\ p.at \in 0..NOW
  BY OfferedIsRow DEF LoopOK, TableOK, CatalogPrice, Dates
<1>2. CASE ~p.included /\ q = r
  BY <1>2 DEF OfferedFor
<1>3. CASE p.included /\ q = r /\ \E j \in RowOf(r.table, p.key) : KeepsRow(r.table[j], p)
  <2>1. CASE p.key # k
    BY <1>3, <2>1 DEF OfferedFor
  <2>2. CASE p.key = k
    <3>1. PICK j \in RowOf(r.table, k) : KeepsRow(r.table[j], p)
      BY <1>3, <2>2
    <3>2. j \in DOMAIN r.table /\ r.table[j].key = k
      BY <3>1 DEF RowOf
    <3>3. RowOf(r.table, k) = {j} /\ r.table[j].at \in 0..NOW
      BY <1>1, <3>2 DEF TableOK
    <3>4. p.at <= r.table[j].at
      BY <1>1, <3>1, <3>3 DEF KeepsRow, NOW
    <3>5. OfferedFor(p, k) = {o}
      BY <1>3, <2>2 DEF OfferedFor
    <3> HIDE DEF o
    <3>6. QED
      BY <1>1, <1>3, <3>3, <3>4, <3>5 DEF Newest
  <2>3. QED
    BY <2>1, <2>2
<1>4. CASE /\ p.included /\ \A j \in RowOf(r.table, p.key) : ~KeepsRow(r.table[j], p)
           /\ q.table = Upserted(r.table, o)
  <2>1. /\ q.table[i] = o
        /\ \A j \in DOMAIN r.table : j # i => q.table[j] = r.table[j]
        /\ RowOf(q.table, k) = IF k = p.key THEN {i} ELSE RowOf(r.table, k)
        /\ i \in DOMAIN r.table => r.table[i].key = p.key
    <3> DEFINE t == r.table
    <3>1. TableOK(t, n) /\ q.table = Upserted(t, Offered(p))
      BY <1>1, <1>4
    <3> HIDE DEF q, t
    <3>2. /\ Upserted(t, o)[i] = o
          /\ \A j \in DOMAIN t : j # i => Upserted(t, o)[j] = t[j]
          /\ RowOf(Upserted(t, o), k) = IF k = p.key THEN {IdFor(t, p.key)} ELSE RowOf(t, k)
          /\ i \in DOMAIN t => t[i].key = p.key
      <4>1. i = IdFor(t, p.key)
        BY DEF t
      <4>2. QED
        BY <3>1, <4>1, UpsertsOffered
    <3>3. QED
      BY <3>1, <3>2 DEF t
  <2>2. CASE p.key # k
    <3>1. OfferedFor(p, k) = {} /\ RowOf(q.table, k) = RowOf(r.table, k)
      BY <2>1, <2>2 DEF OfferedFor
    <3>2. ASSUME NEW j \in RowOf(r.table, k) PROVE q.table[j] = r.table[j]
      <4>1. j \in DOMAIN r.table /\ r.table[j].key = k
        BY <3>2 DEF RowOf
      <4>2. j # i
        BY <2>1, <2>2, <4>1
      <4>3. QED
        BY <2>1, <4>1, <4>2
    <3> HIDE DEF q, i, o
    <3>3. QED
      BY <3>1, <3>2 DEF Newest, q
  <2>3. CASE p.key = k
    <3>1. OfferedFor(p, k) = {o}
      BY <1>4, <2>3 DEF OfferedFor
    <3>2. ASSUME NEW a \in all PROVE a.at <= p.at
      <4>1. PICK j \in RowOf(r.table, k) : a.at <= r.table[j].at
        BY <3>2 DEF Newest
      <4>2. j \in DOMAIN r.table /\ ~KeepsRow(r.table[j], p)
        BY <1>4, <2>3, <4>1 DEF RowOf
      <4>3. r.table[j].at <= p.at
        BY <1>1, <4>2 DEF KeepsRow, NOW
      <4>4. QED
        BY <1>1, <3>2, <4>1, <4>2, <4>3 DEF NOW
    <3>3. q.table[i] = o /\ RowOf(q.table, k) = {i} /\ o.at = p.at /\ p.at \in Nat
      BY <1>1, <2>1, <2>3
    <3> HIDE DEF q, i, o
    <3>4. QED
      BY <3>1, <3>2, <3>3 DEF Newest, q
  <2>4. QED
    BY <2>2, <2>3
<1>5. QED
  BY <1>2, <1>3, <1>4, AppliedOneCases

\* What was there and what the first n positions offer.
Old(k) == {rows[i] : i \in RowOf(rows, k)}
Shown(ps, k, n) == {Offered(ps[m]) : m \in {j \in 1..n : ps[j].key = k /\ ps[j].included}}

LEMMA LoopHolds ==
  ASSUME TableOK(rows, MaxRows), NEW ps \in [Positions -> Offers]
  PROVE  /\ LoopOK(Result(ps), MaxRows + Last)
         /\ \A k \in Keys : Newest(Result(ps).table, k, Old(k) \cup Shown(ps, k, Last))
<1>1. MaxRows \in Nat /\ Last \in Nat
  BY PricesAssumption, Counted
<1>2. PICK g : Runs(g, ps, Last) /\ Result(ps) = g[Last]
  BY ResultIsLast
<1>3. \A m \in 0..Last : g[m] = IF m = 0 THEN NoResult ELSE AppliedOne(g[m - 1], ps[m])
  BY <1>2 DEF Runs
<1>4. \A m \in 1..Last : ps[m] \in Proposal
  BY PricesAssumption, Counted
<1>5. \A k : \A n \in 0..Last : \A o \in Old(k) \cup Shown(ps, k, n) : o.at \in Nat
  <2>1. \A k : \A o \in Old(k) : o.at \in Nat
    BY DEF Old, RowOf, TableOK, CatalogPrice, Dates, NOW
  <2>2. \A m \in 1..Last : Offered(ps[m]).at \in Nat
    BY <1>4, OfferedIsRow DEF NOW
  <2>3. QED
    BY <1>1, <2>1, <2>2 DEF Shown
<1> DEFINE Holds(n) ==
             /\ LoopOK(g[n], MaxRows + n)
             /\ \A k \in Keys : Newest(g[n].table, k, Old(k) \cup Shown(ps, k, n))
           T == {n \in 0..Last : Holds(n)}
<1>6. 0 \in T
  <2>1. g[0].table = rows /\ g[0].ids = {}
    <3>1. g[0] = NoResult
      BY <1>1, <1>3
    <3>2. QED
      BY <3>1 DEF NoResult
  <2>2. LoopOK(g[0], MaxRows + 0)
    BY <1>1, <2>1 DEF LoopOK, KeepsKeys
  <2>3. ASSUME NEW k \in Keys PROVE Newest(rows, k, Old(k) \cup Shown(ps, k, 0))
    <3>1. Shown(ps, k, 0) = {}
      BY DEF Shown
    <3>2. \A i, j \in RowOf(rows, k) : i = j
      BY DEF RowOf, TableOK
    <3>3. \A i \in RowOf(rows, k) : rows[i].at \in Nat
      BY DEF RowOf, TableOK, CatalogPrice, Dates, NOW
    <3>4. QED
      BY <3>1, <3>2, <3>3 DEF Newest, Old
  <2>4. QED
    BY <1>1, <2>1, <2>2, <2>3
<1>7. ASSUME NEW n \in T, n < Last PROVE n + 1 \in T
  <2>1. n \in Nat /\ n + 1 \in 1..Last /\ Holds(n)
    BY <1>1, <1>7
  <2>2. g[n + 1] = AppliedOne(g[n], ps[n + 1]) /\ ps[n + 1] \in Proposal
    BY <1>3, <1>4, <2>1
  <2>3. LoopOK(g[n + 1], MaxRows + (n + 1))
    <3>1. MaxRows + n \in Nat /\ (MaxRows + n) + 1 = MaxRows + (n + 1)
      BY <1>1, <2>1
    <3>2. LoopOK(AppliedOne(g[n], ps[n + 1]), (MaxRows + n) + 1)
      BY <2>1, <2>2, <3>1, AppliesOne
    <3>3. QED
      BY <2>2, <3>1, <3>2
  <2>4. ASSUME NEW k \in Keys
        PROVE  Newest(g[n + 1].table, k, Old(k) \cup Shown(ps, k, n + 1))
    <3>1. Shown(ps, k, n + 1) = Shown(ps, k, n) \cup OfferedFor(ps[n + 1], k)
      <4> DEFINE Of(m) == {j \in 1..m : ps[j].key = k /\ ps[j].included}
      <4>1. CASE ps[n + 1].key = k /\ ps[n + 1].included
        <5>1. Of(n + 1) = Of(n) \cup {n + 1}
          BY <2>1, <4>1
        <5>2. OfferedFor(ps[n + 1], k) = {Offered(ps[n + 1])}
          BY <4>1 DEF OfferedFor
        <5> HIDE DEF Of
        <5>3. {Offered(ps[m]) : m \in Of(n + 1)}
                = {Offered(ps[m]) : m \in Of(n)} \cup {Offered(ps[n + 1])}
          BY <5>1
        <5>4. QED
          BY <5>2, <5>3 DEF Shown, Of
      <4>2. CASE ~(ps[n + 1].key = k /\ ps[n + 1].included)
        <5>1. Of(n + 1) = Of(n)
          BY <2>1, <4>2
        <5>2. QED
          BY <4>2, <5>1 DEF Shown, OfferedFor
      <4>3. QED
        BY <4>1, <4>2
    <3>2. MaxRows + n \in Nat /\ \A o \in Old(k) \cup Shown(ps, k, n) : o.at \in Nat
      <4>1. n \in 0..Last
        BY <1>1, <2>1
      <4>2. QED
        BY <1>1, <1>5, <4>1
    <3>3. Newest(AppliedOne(g[n], ps[n + 1]).table, k,
                 (Old(k) \cup Shown(ps, k, n)) \cup OfferedFor(ps[n + 1], k))
      BY <2>1, <2>2, <3>2, KeepsNewest
    <3>4. (Old(k) \cup Shown(ps, k, n)) \cup OfferedFor(ps[n + 1], k)
             = Old(k) \cup Shown(ps, k, n + 1)
      BY <3>1
    <3>5. QED
      BY <2>2, <3>3, <3>4
  <2>5. QED
    BY <2>1, <2>3, <2>4
<1>8. Last \in T
  <2>1. T \in SUBSET (0..Last)
    OBVIOUS
  <2> HIDE DEF T
  <2>2. QED
    BY <1>1, <1>6, <1>7, <2>1, UpTo
<1>9. QED
  BY <1>2, <1>8

----------------------------------------------------------------------------
(***************************************************************************)
(* The inductive invariant.                                                *)
(***************************************************************************)

\* A transaction under way has all rows there are, each under its key.
TableInv ==
    /\ TableOK(rows, MaxRows) /\ TableOK(draft, MaxRows)
    /\ lock \in {"nobody", "ingest"} \cup Requests
    /\ lock = "nobody" => draft = rows
    /\ KeepsKeys(rows, draft)

\* Only a request that is done was given a price of the catalog; one that waits for
\* the index to take a row has the lock, and the row is in its transaction.
Waiting(r, w, lk, table) ==
    /\ r.at # "done" => r.got.from \notin {"cached", "match"}
    /\ r.at = "indexing" =>
          lk = w /\ r.id \in DOMAIN table /\ table[r.id].key = r.key
AskInv ==
    /\ ask \in [Requests -> Request]
    /\ \A w \in Requests : Waiting(ask[w], w, lock, draft)

\* What the index has, or is sent, under the id of a row has the row's size, unless
\* the id was reused.
Sized(t, again, i, key) == i \in DOMAIN t => t[i].key[2] = key[2] \/ i \in again
IndexInv ==
    /\ \A i \in DOMAIN points :
          i \in Ids /\ points[i] \in Keys /\ Sized(draft, reused, i, points[i])
    /\ puts \subseteq [id : Ids, key : Keys]
    /\ \A put \in puts : Sized(draft, reused, put.id, put.key)
    /\ reused \subseteq Ids

Left == [{"import", "admin", "flush", "ask"} -> Nat]
ImportInv ==
    /\ batch \in {"review", "applied"} /\ proposals \in [Positions -> Offers]
    /\ left \in Left

IInv == TableInv /\ AskInv /\ IndexInv /\ ImportInv

Indexed == DOMAIN points \cup {put.id : put \in puts}

\* A step gives no id in the index to a row of another size without its being seen.
SizesStay ==
    /\ reused \subseteq reused'
    /\ \A i \in Indexed : i \in DOMAIN draft' =>
          i \in reused' \/ (i \in DOMAIN draft /\ draft'[i].key[2] = draft[i].key[2])

----------------------------------------------------------------------------
LEMMA InitOK == ASSUME Init PROVE IInv
<1>1. PICK r \in CatalogPrice : rows \in {<< >>, <<r>>}
  BY DEF Init
<1>2. TableOK(rows, MaxRows)
  <2>1. CASE rows = << >>
    BY <2>1 DEF TableOK
  <2>2. CASE rows = <<r>>
    <3>1. DOMAIN rows = {1} /\ rows[1] = r
      BY <2>2
    <3>2. RowOf(rows, r.key) = {1}
      BY <3>1 DEF RowOf
    <3>3. QED
      BY <3>1, <3>2, PricesAssumption DEF TableOK
  <2>3. QED
    BY <1>1, <2>1, <2>2
<1>3. TableInv
  BY <1>2 DEF TableInv, KeepsKeys, Init
<1>4. AskInv
  <2>1. Idle \in Request /\ Idle.at = "idle" /\ Idle.got.from = "none"
    BY PricesAssumption DEF Idle, Request, Price, NoPrice
  <2>2. QED
    BY <2>1 DEF Init, AskInv, Waiting
<1>5. IndexInv
  <2>1. \A i \in DOMAIN rows : i \in Ids /\ rows[i].key \in Keys
    BY <1>2 DEF TableOK, Ids, CatalogPrice
  <2>2. CASE points = << >>
    BY <2>2 DEF IndexInv, Init
  <2>3. CASE points = [i \in DOMAIN rows |-> rows[i].key]
    BY <2>1, <2>3 DEF IndexInv, Init, Sized
  <2>4. QED
    BY <2>2, <2>3 DEF Init
<1>6. ImportInv
  <2>1. \E o \in Offers : proposals = [p \in Positions |-> o]
    BY PricesAssumption DEF Init
  <2>2. QED
    BY <2>1, PricesAssumption DEF Init, ImportInv, Left
<1>7. QED
  BY <1>3, <1>4, <1>5, <1>6 DEF IInv

----------------------------------------------------------------------------
(***************************************************************************)
(* Transactions.                                                           *)
(***************************************************************************)
LEMMA Counting ==
  ASSUME left \in Left, NEW kind, Counts(kind)
  PROVE  left' \in Left
<1>1. CASE kind \in {"import", "admin", "flush", "ask"}
  <2>1. left[kind] \in Nat /\ left[kind] > 0
    BY <1>1 DEF Counts, Left
  <2>2. left[kind] - 1 \in Nat
    BY <2>1
  <2>3. QED
    BY <2>2 DEF Counts, Left
<1>2. CASE kind \notin {"import", "admin", "flush", "ask"}
  BY <1>2 DEF Counts, Left
<1>3. QED
  BY <1>1, <1>2

LEMMA ReusedGrows ==
  ASSUME NEW from, NEW to, reused' = Reused(from, to), reused \subseteq Ids,
         DOMAIN to \subseteq Ids
  PROVE  /\ reused' \subseteq Ids /\ reused \subseteq reused'
         /\ \A i \in Indexed : i \in DOMAIN to /\ i \notin DOMAIN from => i \in reused'
  BY DEF Reused, Indexed

LEMMA FlushKeeps ==
  ASSUME IInv, NEW w \in Requests \cup {"ingest"}, NEW row \in CatalogPrice,
         Flushes(w, Upserted(draft, row))
  PROVE  /\ TableInv' /\ SizesStay /\ reused' \subseteq Ids /\ left' \in Left
         /\ lock' = w /\ lock \in {"nobody", w}
         /\ IdFor(draft, row.key) \in Ids
         /\ IdFor(draft, row.key) \in DOMAIN draft'
         /\ draft'[IdFor(draft, row.key)].key = row.key
<1> DEFINE i == IdFor(draft, row.key)
<1>1. /\ MaxRows \in Nat /\ TableOK(draft, MaxRows) /\ reused \subseteq Ids /\ left \in Left
      /\ KeepsKeys(rows, draft)
  BY PricesAssumption DEF IInv, TableInv, IndexInv, ImportInv
<1>2. /\ draft' = Upserted(draft, row) /\ DOMAIN draft' \subseteq Ids
      /\ reused' = Reused(draft, draft') /\ rows' = rows
      /\ lock' = w /\ lock \in {"nobody", w}
  BY DEF Flushes
<1>3. left' \in Left
  BY <1>1, Counting DEF Flushes
<1>4. /\ TableOK(draft', MaxRows + 1)
      /\ DOMAIN draft' = DOMAIN draft \cup {i}
      /\ draft'[i] = row
      /\ \A j \in DOMAIN draft : draft'[j].key = draft[j].key
  <2>1. i = IdFor(draft, row.key)
    OBVIOUS
  <2> HIDE DEF i
  <2>2. QED
    BY <1>1, <1>2, <2>1, Upserts
<1> HIDE DEF i
<1>5. TableOK(draft', MaxRows)
  BY <1>1, <1>2, <1>4 DEF TableOK, Ids
<1>6. KeepsKeys(rows', draft')
  BY <1>1, <1>2, <1>4 DEF KeepsKeys
<1>7. w # "nobody"
  BY PricesAssumption
<1>8. TableInv'
  BY <1>2, <1>5, <1>6, <1>7 DEF IInv, TableInv
<1>9. SizesStay /\ reused' \subseteq Ids
  <2>1. /\ reused' \subseteq Ids /\ reused \subseteq reused'
        /\ \A j \in Indexed : j \in DOMAIN draft' /\ j \notin DOMAIN draft => j \in reused'
    BY <1>1, <1>2, ReusedGrows
  <2>2. QED
    BY <1>4, <2>1 DEF SizesStay
<1>10. QED
  BY <1>2, <1>3, <1>4, <1>8, <1>9 DEF i

\* A rollback takes rows away again; it changes no key of those that stay.
LEMMA EndsKeep ==
  ASSUME IInv, NEW w, NEW committed, Ends(w, committed), reused' = reused
  PROVE  /\ TableInv' /\ SizesStay /\ reused' \subseteq Ids
         /\ lock = w /\ lock' = "nobody"
         /\ KeepsKeys(draft', draft)
<1>1. draft' = rows' /\ rows' \in {rows, draft} /\ lock = w /\ lock' = "nobody"
  BY DEF Ends
<1>2. KeepsKeys(draft', draft)
  BY <1>1 DEF IInv, TableInv, KeepsKeys
<1>3. TableInv'
  BY <1>1 DEF IInv, TableInv, KeepsKeys
<1>4. SizesStay
  BY <1>2 DEF SizesStay, KeepsKeys
<1>5. QED
  BY <1>1, <1>2, <1>3, <1>4 DEF IInv, IndexInv

LEMMA CommitKeeps ==
  ASSUME IInv, NEW table, NEW kind, Commits(table, kind),
         NEW n \in Nat, TableOK(table, n),
         \A i \in DOMAIN table : i \in DOMAIN rows => table[i].key[2] = rows[i].key[2]
  PROVE  /\ TableInv' /\ SizesStay /\ reused' \subseteq Ids /\ left' \in Left
         /\ rows' = table /\ draft' = table
         /\ lock = "nobody" /\ draft = rows
<1>1. /\ lock = "nobody" /\ lock' = lock /\ draft = rows
      /\ rows' = table /\ draft' = table /\ DOMAIN table \subseteq Ids
      /\ reused' = Reused(rows, table) /\ reused \subseteq Ids /\ left \in Left
  BY DEF IInv, TableInv, IndexInv, ImportInv, Commits
<1>2. left' \in Left
  BY <1>1, Counting DEF Commits
<1>3. TableInv'
  BY <1>1, Fits DEF TableInv, KeepsKeys
<1>4. /\ reused' \subseteq Ids /\ reused \subseteq reused'
      /\ \A i \in Indexed : i \in DOMAIN table /\ i \notin DOMAIN rows => i \in reused'
  BY <1>1, ReusedGrows
<1>5. SizesStay
  BY <1>1, <1>4 DEF SizesStay
<1>6. QED
  BY <1>1, <1>2, <1>3, <1>4, <1>5

----------------------------------------------------------------------------
(***************************************************************************)
(* The index and the requests.                                             *)
(***************************************************************************)
LEMMA SizesKept ==
  ASSUME SizesStay, NEW i \in Indexed, NEW key, Sized(draft, reused, i, key)
  PROVE  Sized(draft', reused', i, key)
  BY DEF SizesStay, Sized

\* The index as it was, or with a point more, of the row it is for.
LEMMA PointsKeep ==
  ASSUME IndexInv, SizesStay, reused' \subseteq Ids,
         NEW i \in Ids, NEW key \in Keys, Sized(draft', reused', i, key),
         points' = points \/ Takes(i, key),
         puts' \subseteq puts
  PROVE  IndexInv'
<1>1. \A put \in puts' :
        put \in [id : Ids, key : Keys] /\ Sized(draft', reused', put.id, put.key)
  BY SizesKept DEF IndexInv, Indexed
<1>2. \A j \in DOMAIN points :
        j \in Ids /\ points[j] \in Keys /\ Sized(draft', reused', j, points[j])
  BY SizesKept DEF IndexInv, Indexed
<1>3. ASSUME NEW j \in DOMAIN points'
      PROVE  j \in Ids /\ points'[j] \in Keys /\ Sized(draft', reused', j, points'[j])
  <2>1. CASE points' = points
    BY <1>2, <1>3, <2>1
  <2>2. CASE points' = [k \in DOMAIN points \cup {i} |-> IF k = i THEN key ELSE points[k]]
    <3>1. CASE j = i
      BY <1>3, <2>2, <3>1
    <3>2. CASE j # i
      <4>1. j \in DOMAIN points /\ points'[j] = points[j]
        BY <1>3, <2>2, <3>2
      <4>2. QED
        BY <1>2, <4>1
    <3>3. QED
      BY <3>1, <3>2
  <2>3. QED
    BY <2>1, <2>2 DEF Takes
<1>4. QED
  BY <1>1, <1>3 DEF IndexInv

LEMMA IndexKept ==
  ASSUME IndexInv, SizesStay, reused' \subseteq Ids, points' = points, puts' = puts
  PROVE  IndexInv'
<1>1. \A put \in puts :
        put \in [id : Ids, key : Keys] /\ Sized(draft', reused', put.id, put.key)
  BY SizesKept DEF IndexInv, Indexed
<1>2. \A j \in DOMAIN points :
        j \in Ids /\ points[j] \in Keys /\ Sized(draft', reused', j, points[j])
  BY SizesKept DEF IndexInv, Indexed
<1>3. QED
  BY <1>1, <1>2 DEF IndexInv

\* What is sent for rows that have just been written.
LEMMA UnsentKeep ==
  ASSUME IndexInv, SizesStay, reused' \subseteq Ids, points' = points,
         NEW ids \in SUBSET (DOMAIN rows'), TableOK(rows', MaxRows), KeepsKeys(rows', draft'),
         puts' = Unsent(rows', ids) \/ puts' = puts \cup Unsent(rows', ids)
  PROVE  IndexInv'
<1>1. ASSUME NEW put \in Unsent(rows', ids)
      PROVE  put \in [id : Ids, key : Keys] /\ Sized(draft', reused', put.id, put.key)
  <2>1. PICK i \in ids : put = [id |-> i, key |-> rows'[i].key]
    BY <1>1 DEF Unsent
  <2>2. i \in Ids /\ rows'[i].key \in Keys /\ draft'[i].key = rows'[i].key
    BY <2>1 DEF TableOK, Ids, CatalogPrice, KeepsKeys
  <2>3. QED
    BY <2>1, <2>2 DEF Sized
<1>2. \A put \in puts :
        put \in [id : Ids, key : Keys] /\ Sized(draft', reused', put.id, put.key)
  BY SizesKept DEF IndexInv, Indexed
<1>3. \A j \in DOMAIN points :
        j \in Ids /\ points[j] \in Keys /\ Sized(draft', reused', j, points[j])
  BY SizesKept DEF IndexInv, Indexed
<1>4. QED
  BY <1>1, <1>2, <1>3 DEF IndexInv

LEMMA Same ==
  ASSUME IInv, UNCHANGED Table
  PROVE  TableInv' /\ SizesStay /\ reused' \subseteq Ids
  BY DEF IInv, TableInv, IndexInv, Table, SizesStay, KeepsKeys, TableOK, RowOf

\* One request goes on; another that waits for the index keeps its lock and row.
LEMMA AskGoes ==
  ASSUME AskInv, NEW w \in Requests, NEW r \in Request, Goes(w, r),
         Waiting(r, w, lock', draft'),
         lock \in {"nobody", w} \/ UNCHANGED <<lock, draft>>
  PROVE  AskInv'
<1>1. ask' \in [Requests -> Request]
  BY DEF AskInv, Goes
<1>2. ASSUME NEW v \in Requests PROVE Waiting(ask'[v], v, lock', draft')
  <2>1. CASE v = w
    BY <2>1 DEF AskInv, Goes
  <2>2. CASE v # w
    <3>1. ask'[v] = ask[v] /\ Waiting(ask[v], v, lock, draft)
      BY <2>2 DEF AskInv, Goes
    <3>2. v # "nobody"
      BY PricesAssumption
    <3>3. QED
      BY <2>2, <3>1, <3>2 DEF Waiting
  <2>3. QED
    BY <2>1, <2>2
<1>3. QED
  BY <1>1, <1>2 DEF AskInv

LEMMA AskKept ==
  ASSUME AskInv, ask' = ask, lock \in {"nobody", "ingest"} \/ UNCHANGED <<lock, draft>>
  PROVE  AskInv'
<1>1. ASSUME NEW v \in Requests PROVE Waiting(ask[v], v, lock', draft')
  <2>1. v \notin {"nobody", "ingest"} /\ Waiting(ask[v], v, lock, draft)
    BY PricesAssumption DEF AskInv
  <2>2. QED
    BY <2>1 DEF Waiting
<1>2. QED
  BY <1>1 DEF AskInv

----------------------------------------------------------------------------
(***************************************************************************)
(* The actions.                                                            *)
(***************************************************************************)
LEMMA GivenIsPrice ==
  ASSUME IInv, NEW i \in DOMAIN rows, NEW from \in {"cached", "match"}
  PROVE  Given(from, i) \in Price
  BY DEF IInv, TableInv, TableOK, CatalogPrice, Given, Price, Ids

LEMMA IdleIsRequest == Idle \in Request
  BY PricesAssumption DEF Idle, Request, Price, NoPrice

LEMMA RefreshKeeps ==
  ASSUME IInv, NEW w \in Requests, NEW key \in Keys, NEW force \in BOOLEAN,
         refresh_prices(w, key, force)
  PROVE  IInv'
<1> DEFINE r == [Idle EXCEPT !.key = key, !.force = force]
<1>1. TableInv' /\ SizesStay /\ reused' \subseteq Ids /\ UNCHANGED <<lock, draft>>
  BY Same DEF refresh_prices, Table
<1>2. IndexInv'
  BY <1>1, IndexKept DEF refresh_prices, IInv
<1>3. ImportInv'
  BY Counting DEF refresh_prices, Import, IInv, ImportInv
<1>4. r \in Request
  BY IdleIsRequest DEF Request
<1>5. CASE Goes(w, [r EXCEPT !.at = "finding"])
  <2>1. /\ [r EXCEPT !.at = "finding"] \in Request
        /\ Waiting([r EXCEPT !.at = "finding"], w, lock', draft')
    BY <1>4 DEF Request, Waiting, Idle, NoPrice
  <2>2. QED
    BY <1>1, <1>2, <1>3, <1>5, <2>1, AskGoes DEF IInv
<1>6. ASSUME NEW i \in RowOf(rows, key),
             Goes(w, [r EXCEPT !.at = "done", !.got = Given("cached", i)])
      PROVE  IInv'
  <2>1. Given("cached", i) \in Price
    BY <1>6, GivenIsPrice DEF RowOf
  <2>2. /\ [r EXCEPT !.at = "done", !.got = Given("cached", i)] \in Request
        /\ Waiting([r EXCEPT !.at = "done", !.got = Given("cached", i)], w, lock', draft')
    BY <1>4, <2>1 DEF Request, Waiting
  <2>3. QED
    BY <1>1, <1>2, <1>3, <1>6, <2>2, AskGoes DEF IInv
<1>7. QED
  BY <1>5, <1>6 DEF refresh_prices

LEMMA QdrantKeeps ==
  ASSUME IInv, NEW w \in Requests, qdrant_catalog_price(w)
  PROVE  IInv'
<1>1. TableInv' /\ SizesStay /\ reused' \subseteq Ids /\ UNCHANGED <<lock, draft>>
  BY Same DEF qdrant_catalog_price, Table
<1>2. IndexInv'
  BY <1>1, IndexKept DEF qdrant_catalog_price, IInv
<1>3. ImportInv'
  BY DEF qdrant_catalog_price, Import, IInv, ImportInv
<1>4. ask[w] \in Request /\ ask[w].at = "finding" /\ Waiting(ask[w], w, lock, draft)
  BY DEF IInv, AskInv, qdrant_catalog_price
<1>5. CASE Goes(w, [ask[w] EXCEPT !.at = "searching"])
  <2>1. /\ [ask[w] EXCEPT !.at = "searching"] \in Request
        /\ Waiting([ask[w] EXCEPT !.at = "searching"], w, lock', draft')
    BY <1>4 DEF Request, Waiting
  <2>2. QED
    BY <1>1, <1>2, <1>3, <1>5, <2>1, AskGoes DEF IInv
<1>6. ASSUME NEW i, i \in DOMAIN rows,
             Goes(w, [ask[w] EXCEPT !.at = "done", !.got = Given("match", i)])
      PROVE  IInv'
  <2>1. Given("match", i) \in Price
    BY <1>6, GivenIsPrice
  <2>2. /\ [ask[w] EXCEPT !.at = "done", !.got = Given("match", i)] \in Request
        /\ Waiting([ask[w] EXCEPT !.at = "done", !.got = Given("match", i)], w, lock', draft')
    BY <1>4, <2>1 DEF Request, Waiting
  <2>3. QED
    BY <1>1, <1>2, <1>3, <1>6, <2>2, AskGoes DEF IInv
<1>7. QED
  BY <1>5, <1>6 DEF qdrant_catalog_price, Acceptable

LEMMA SearchFailsKeeps ==
  ASSUME IInv, NEW w \in Requests, SearchFails(w)
  PROVE  IInv'
<1>1. TableInv' /\ SizesStay /\ reused' \subseteq Ids /\ UNCHANGED <<lock, draft>>
  BY Same DEF SearchFails, Table
<1>2. IndexInv'
  BY <1>1, IndexKept DEF SearchFails, IInv
<1>3. ImportInv'
  BY DEF SearchFails, Import, IInv, ImportInv
<1>4. /\ [ask[w] EXCEPT !.at = "done"] \in Request
      /\ Waiting([ask[w] EXCEPT !.at = "done"], w, lock', draft')
  BY DEF IInv, AskInv, Request, Waiting
<1>5. QED
  BY <1>1, <1>2, <1>3, <1>4, AskGoes DEF IInv, SearchFails

\* A price is flushed under a key, and the request waits for the index with it.
LEMMA IndexingKeeps ==
  ASSUME IInv, NEW w \in Requests, NEW row \in CatalogPrice,
         Flushes(w, Upserted(draft, row)),
         NEW r \in Request, Goes(w, r), r.at = "indexing", r.key = row.key,
         r.id = IdFor(draft, row.key), r.got.from \notin {"cached", "match"},
         UNCHANGED <<points, puts, Import>>
  PROVE  IInv'
<1>1. /\ TableInv' /\ SizesStay /\ reused' \subseteq Ids /\ left' \in Left
      /\ lock' = w /\ lock \in {"nobody", w}
      /\ r.id \in DOMAIN draft' /\ draft'[r.id].key = row.key
  BY FlushKeeps
<1>2. IndexInv'
  BY <1>1, IndexKept DEF IInv
<1>3. ImportInv'
  BY <1>1 DEF Import, IInv, ImportInv
<1>4. Waiting(r, w, lock', draft')
  BY <1>1 DEF Waiting
<1>5. AskInv'
  BY <1>1, <1>4, AskGoes DEF IInv
<1>6. QED
  BY <1>1, <1>2, <1>3, <1>5 DEF IInv

LEMMA CacheKeeps ==
  ASSUME IInv, NEW w \in Requests, NEW msrp \in Amounts, cache_catalog_price(w, msrp)
  PROVE  IInv'
<1> DEFINE row == [key |-> ask[w].key, msrp |-> msrp, at |-> NOW]
           got == [from |-> "search", msrp |-> msrp, id |-> 0]
           r == [ask[w] EXCEPT !.at = "indexing", !.id = IdFor(draft, row.key), !.got = got]
<1>1. ask[w] \in Request
  BY DEF IInv, AskInv
<1>2. row \in CatalogPrice /\ row.key = ask[w].key
  BY <1>1 DEF Request, CatalogPrice, Dates, NOW
<1>3. /\ Flushes(w, Upserted(draft, row)) /\ Goes(w, r)
      /\ UNCHANGED <<points, puts, Import>>
  BY DEF cache_catalog_price
<1>4. IdFor(draft, row.key) \in Ids
  BY <1>2, <1>3, FlushKeeps
<1>5. got \in Price /\ got.from \notin {"cached", "match"}
  BY DEF Price
<1>6. /\ r \in Request /\ r.at = "indexing" /\ r.key = row.key
      /\ r.id = IdFor(draft, row.key) /\ r.got.from \notin {"cached", "match"}
  BY <1>1, <1>2, <1>4, <1>5 DEF Request
<1> HIDE DEF row, got, r
<1>7. QED
  BY <1>2, <1>3, <1>6, IndexingKeeps

LEMMA PurchaseKeeps ==
  ASSUME IInv, NEW w \in Requests, NEW key \in Keys, NEW msrp \in Amounts,
         apply_user_purchase_price(w, key, msrp)
  PROVE  IInv'
<1> DEFINE row == [key |-> key, msrp |-> msrp, at |-> NOW]
           got == [from |-> "user", msrp |-> msrp, id |-> 0]
           r == [Idle EXCEPT !.at = "indexing", !.key = key,
                             !.id = IdFor(draft, key), !.got = got]
<1>1. row \in CatalogPrice /\ row.key = key
  BY DEF CatalogPrice, Dates, NOW
<1>2. /\ Flushes(w, Upserted(draft, row)) /\ Goes(w, r)
      /\ UNCHANGED <<points, puts, Import>>
  BY DEF apply_user_purchase_price
<1>3. IdFor(draft, key) \in Ids
  BY <1>1, <1>2, FlushKeeps
<1>4. got \in Price /\ got.from \notin {"cached", "match"}
  BY DEF Price
<1>5. /\ r \in Request /\ r.at = "indexing" /\ r.key = row.key
      /\ r.id = IdFor(draft, row.key) /\ r.got.from \notin {"cached", "match"}
  BY <1>1, <1>3, <1>4, IdleIsRequest DEF Request
<1> HIDE DEF row, got, r
<1>6. QED
  BY <1>1, <1>2, <1>5, IndexingKeeps

LEMMA RequestEndsKeeps ==
  ASSUME IInv, NEW w \in Requests, NEW committed \in BOOLEAN, RequestEnds(w, committed)
  PROVE  IInv'
<1> DEFINE r == [ask[w] EXCEPT !.at = "done", !.id = 0]
<1>1. /\ ask[w] \in Request /\ ask[w].at = "indexing" /\ Waiting(ask[w], w, lock, draft)
      /\ Takes(ask[w].id, ask[w].key) /\ Ends(w, committed) /\ Goes(w, r)
      /\ puts' = puts /\ UNCHANGED <<Import, left, reused>>
  BY DEF IInv, AskInv, RequestEnds
<1>2. /\ TableInv' /\ SizesStay /\ reused' \subseteq Ids
      /\ lock = w /\ KeepsKeys(draft', draft)
  BY <1>1, EndsKeep
<1>3. ask[w].id \in Ids /\ ask[w].key \in Keys /\ draft[ask[w].id].key = ask[w].key
  BY <1>1 DEF Waiting, Request, IInv, TableInv, TableOK, Ids
<1>4. Sized(draft', reused', ask[w].id, ask[w].key)
  BY <1>2, <1>3 DEF Sized, KeepsKeys
<1>5. IndexInv'
  BY <1>1, <1>2, <1>3, <1>4, PointsKeep DEF IInv
<1>6. r \in Request /\ Waiting(r, w, lock', draft')
  BY <1>1 DEF Request, Waiting
<1> HIDE DEF r
<1>7. AskInv'
  BY <1>1, <1>2, <1>6, AskGoes DEF IInv
<1>8. ImportInv'
  BY <1>1 DEF Import, IInv, ImportInv
<1>9. QED
  BY <1>2, <1>5, <1>7, <1>8 DEF IInv

LEMMA DeleteKeeps ==
  ASSUME IInv, NEW i, AdminDelete(i)
  PROVE  IInv'
<1> DEFINE t == Without(rows, {i})
<1>1. MaxRows \in Nat /\ TableOK(rows, MaxRows)
  BY PricesAssumption DEF IInv, TableInv
<1>2. DOMAIN t = DOMAIN rows \ {i} /\ \A j \in DOMAIN t : t[j] = rows[j]
  BY DEF Without
<1>3. TableOK(t, MaxRows)
  <2>1. ASSUME NEW j \in DOMAIN t PROVE t[j] \in CatalogPrice /\ RowOf(t, t[j].key) = {j}
    <3>1. j \in DOMAIN rows /\ rows[j] \in CatalogPrice /\ RowOf(rows, rows[j].key) = {j}
      BY <1>1, <1>2, <2>1 DEF TableOK
    <3> HIDE DEF t
    <3>2. QED
      BY <1>2, <2>1, <3>1 DEF RowOf
  <2>2. QED
    BY <1>1, <1>2, <2>1 DEF TableOK
<1>4. Commits(t, "admin") /\ UNCHANGED Others
  BY DEF AdminDelete
<1> HIDE DEF t
<1>5. /\ TableInv' /\ SizesStay /\ reused' \subseteq Ids /\ left' \in Left
      /\ lock = "nobody"
  BY <1>1, <1>2, <1>3, <1>4, CommitKeeps
<1>6. QED
  BY <1>4, <1>5, IndexKept, AskKept DEF IInv, ImportInv, Others, Import

LEMMA UpdateKeeps ==
  ASSUME IInv, NEW i \in DOMAIN rows, NEW key \in Keys, NEW msrp \in Amounts,
         AdminUpdate(i, key, msrp)
  PROVE  IInv'
<1> DEFINE row == [key |-> key, msrp |-> msrp, at |-> NOW]
           t == [rows EXCEPT ![i] = row]
<1>1. MaxRows \in Nat /\ TableOK(rows, MaxRows)
  BY PricesAssumption DEF IInv, TableInv
<1>2. /\ key[2] = rows[i].key[2] /\ RowOf(rows, key) \subseteq {i}
      /\ Commits(t, "admin") /\ UNCHANGED Others
  BY DEF AdminUpdate
<1>3. /\ DOMAIN t = DOMAIN rows /\ t[i] = row /\ row.key = key /\ row \in CatalogPrice
      /\ \A j \in DOMAIN rows : j # i => t[j] = rows[j]
  BY DEF CatalogPrice, Dates, NOW
<1> HIDE DEF t, row
<1>4. TableOK(t, MaxRows)
  <2>1. RowOf(t, key) = {i}
    BY <1>2, <1>3 DEF RowOf
  <2>2. ASSUME NEW j \in DOMAIN rows, j # i
        PROVE  t[j] \in CatalogPrice /\ RowOf(t, t[j].key) = {j}
    <3>1. rows[j] \in CatalogPrice /\ RowOf(rows, rows[j].key) = {j} /\ t[j] = rows[j]
      BY <1>1, <1>3, <2>2 DEF TableOK
    <3>2. rows[j].key # key
      BY <1>2, <2>2 DEF RowOf
    <3>3. QED
      BY <1>3, <3>1, <3>2 DEF RowOf
  <2>3. QED
    BY <1>1, <1>3, <2>1, <2>2 DEF TableOK
<1>5. \A j \in DOMAIN t : j \in DOMAIN rows => t[j].key[2] = rows[j].key[2]
  BY <1>2, <1>3
<1>6. /\ TableInv' /\ SizesStay /\ reused' \subseteq Ids /\ left' \in Left
      /\ lock = "nobody"
  BY <1>1, <1>2, <1>4, <1>5, CommitKeeps
<1>7. QED
  BY <1>2, <1>6, IndexKept, AskKept DEF IInv, ImportInv, Others, Import

LEMMA SaveKeeps ==
  ASSUME IInv, NEW p \in Positions, NEW edited \in Offers, SaveReview(p, edited)
  PROVE  IInv'
<1>1. TableInv' /\ SizesStay /\ reused' \subseteq Ids
  BY Same DEF SaveReview
<1>2. IndexInv'
  BY <1>1, IndexKept DEF SaveReview, IInv
<1>3. AskInv'
  BY AskKept DEF SaveReview, IInv, Table
<1>4. ImportInv'
  BY DEF SaveReview, IInv, ImportInv
<1>5. QED
  BY <1>1, <1>2, <1>3, <1>4 DEF IInv

\* What the loop has made of the proposals is what the import commits and sends.
LEMMA ApplyWrites ==
  ASSUME IInv, NEW p \in Positions, NEW edited \in Offers,
         apply_catalog_import_batch(p, edited)
  PROVE  LET r == Result(proposals')
         IN  /\ proposals' \in [Positions -> Offers]
             /\ LoopOK(r, MaxRows + Last)
             /\ \A k \in Keys : Newest(r.table, k, Old(k) \cup Shown(proposals', k, Last))
             /\ Commits(r.table, "import") /\ puts' = puts \cup Unsent(r.table, r.ids)
             /\ TableInv' /\ SizesStay /\ reused' \subseteq Ids /\ left' \in Left
             /\ lock = "nobody" /\ rows' = r.table
<1> DEFINE r == Result(proposals')
<1>1. proposals' \in [Positions -> Offers] /\ TableOK(rows, MaxRows)
  BY DEF apply_catalog_import_batch, IInv, ImportInv, TableInv
<1>2. Commits(r.table, "import") /\ puts' = puts \cup Unsent(r.table, r.ids)
  BY DEF apply_catalog_import_batch
<1>3. /\ LoopOK(r, MaxRows + Last)
      /\ \A k \in Keys : Newest(r.table, k, Old(k) \cup Shown(proposals', k, Last))
  BY <1>1, LoopHolds
<1>4. MaxRows + Last \in Nat
  BY PricesAssumption, Counted
<1> HIDE DEF r
<1>5. /\ TableInv' /\ SizesStay /\ reused' \subseteq Ids /\ left' \in Left
      /\ lock = "nobody" /\ rows' = r.table
  <2>1. /\ TableOK(r.table, MaxRows + Last)
        /\ \A i \in DOMAIN r.table : i \in DOMAIN rows => r.table[i].key[2] = rows[i].key[2]
    BY <1>3 DEF LoopOK, KeepsKeys
  <2>2. QED
    BY <1>2, <1>4, <2>1, CommitKeeps
<1>6. QED
  BY <1>1, <1>2, <1>3, <1>5 DEF r

LEMMA ApplyKeeps ==
  ASSUME IInv, NEW p \in Positions, NEW edited \in Offers,
         apply_catalog_import_batch(p, edited)
  PROVE  IInv'
<1> DEFINE r == Result(proposals')
<1>1. /\ proposals' \in [Positions -> Offers]
      /\ LoopOK(r, MaxRows + Last) /\ puts' = puts \cup Unsent(r.table, r.ids)
      /\ TableInv' /\ SizesStay /\ reused' \subseteq Ids /\ left' \in Left
      /\ lock = "nobody" /\ rows' = r.table
  BY ApplyWrites
<1> HIDE DEF r
<1>2. IndexInv'
  <2>1. r.ids \in SUBSET (DOMAIN rows') /\ TableOK(rows', MaxRows) /\ KeepsKeys(rows', draft')
    BY <1>1 DEF LoopOK, TableInv
  <2>2. points' = points
    BY DEF apply_catalog_import_batch
  <2>3. QED
    BY <1>1, <2>1, <2>2, UnsentKeep DEF IInv
<1>3. AskInv'
  BY <1>1, AskKept DEF apply_catalog_import_batch, IInv
<1>4. ImportInv'
  BY <1>1 DEF apply_catalog_import_batch, ImportInv
<1>5. QED
  BY <1>1, <1>2, <1>3, <1>4 DEF IInv

LEMMA ReindexKeeps ==
  ASSUME IInv, reindex
  PROVE  IInv'
<1>1. TableInv' /\ SizesStay /\ reused' \subseteq Ids
  BY Same DEF reindex
<1>2. rows' = rows /\ puts' = Unsent(rows', DOMAIN rows') /\ points' = points
  BY DEF reindex, Table
<1>3. IndexInv'
  BY <1>1, <1>2, UnsentKeep DEF IInv, TableInv
<1>4. AskInv'
  BY AskKept DEF reindex, IInv, Table
<1>5. ImportInv'
  BY DEF reindex, Import, IInv, ImportInv
<1>6. QED
  BY <1>1, <1>3, <1>4, <1>5 DEF IInv

LEMMA SendKeeps ==
  ASSUME IInv, NEW put \in puts, Send(put)
  PROVE  IInv'
<1>1. TableInv' /\ SizesStay /\ reused' \subseteq Ids
  BY Same DEF Send
<1>2. put.id \in Ids /\ put.key \in Keys /\ Sized(draft, reused, put.id, put.key)
  BY DEF IInv, IndexInv
<1>3. Sized(draft', reused', put.id, put.key)
  BY <1>1, <1>2, SizesKept DEF Indexed
<1>4. IndexInv'
  BY <1>1, <1>2, <1>3, PointsKeep DEF Send, IInv
<1>5. AskInv'
  BY AskKept DEF Send, IInv, Table
<1>6. ImportInv'
  BY DEF Send, Import, IInv, ImportInv
<1>7. QED
  BY <1>1, <1>4, <1>5, <1>6 DEF IInv

LEMMA IngestKeeps ==
  ASSUME IInv, NEW row \in CatalogPrice, IngestRecord(row)
  PROVE  IInv'
<1> DEFINE i == IdFor(draft, row.key)
<1>1. /\ TableInv' /\ SizesStay /\ reused' \subseteq Ids /\ left' \in Left
      /\ lock \in {"nobody", "ingest"} /\ i \in Ids /\ draft'[i].key = row.key
  BY FlushKeeps DEF IngestRecord
<1>2. Takes(i, row.key) /\ UNCHANGED <<puts, ask, Import>> /\ row.key \in Keys
  BY DEF IngestRecord, CatalogPrice
<1>3. Sized(draft', reused', i, row.key)
  BY <1>1 DEF Sized
<1> HIDE DEF i
<1>4. IndexInv'
  BY <1>1, <1>2, <1>3, PointsKeep DEF IInv
<1>5. AskInv'
  BY <1>1, <1>2, AskKept DEF IInv
<1>6. ImportInv'
  BY <1>1, <1>2 DEF Import, IInv, ImportInv
<1>7. QED
  BY <1>1, <1>4, <1>5, <1>6 DEF IInv

LEMMA IngestEndsKeeps ==
  ASSUME IInv, NEW committed \in BOOLEAN, IngestEnds(committed)
  PROVE  IInv'
<1>1. Ends("ingest", committed) /\ UNCHANGED <<points, puts, ask, Import, left, reused>>
  BY DEF IngestEnds
<1>2. TableInv' /\ SizesStay /\ reused' \subseteq Ids /\ lock = "ingest"
  BY <1>1, EndsKeep
<1>3. IndexInv'
  BY <1>1, <1>2, IndexKept DEF IInv
<1>4. AskInv'
  BY <1>1, <1>2, AskKept DEF IInv
<1>5. ImportInv'
  BY <1>1 DEF Import, IInv, ImportInv
<1>6. QED
  BY <1>2, <1>3, <1>4, <1>5 DEF IInv

LEMMA NextKeeps ==
  ASSUME IInv, [Next]_vars
  PROVE  IInv'
<1>1. CASE \E w \in Requests : Asks(w)
  <2>1. PICK w \in Requests : Asks(w)
    BY <1>1
  <2>2. CASE \E k \in Keys : \E f \in BOOLEAN : refresh_prices(w, k, f)
    BY <2>2, RefreshKeeps
  <2>3. CASE \E k \in Keys : \E m \in Amounts : apply_user_purchase_price(w, k, m)
    BY <2>3, PurchaseKeeps
  <2>4. CASE qdrant_catalog_price(w)
    BY <2>4, QdrantKeeps
  <2>5. CASE SearchFails(w)
    BY <2>5, SearchFailsKeeps
  <2>6. CASE \E m \in Amounts : cache_catalog_price(w, m)
    BY <2>6, CacheKeeps
  <2>7. CASE \E c \in BOOLEAN : RequestEnds(w, c)
    BY <2>7, RequestEndsKeeps
  <2>8. QED
    BY <2>1, <2>2, <2>3, <2>4, <2>5, <2>6, <2>7 DEF Asks
<1>2. CASE Administers
  <2>1. CASE \E i \in DOMAIN rows : AdminDelete(i)
    BY <2>1, DeleteKeeps
  <2>2. CASE \E i \in DOMAIN rows : \E k \in Keys : \E m \in Amounts : AdminUpdate(i, k, m)
    BY <2>2, UpdateKeeps
  <2>3. CASE \E p \in Positions : \E e \in Offers : SaveReview(p, e)
    BY <2>3, SaveKeeps
  <2>4. CASE \E p \in Positions : \E e \in Offers : apply_catalog_import_batch(p, e)
    BY <2>4, ApplyKeeps
  <2>5. CASE \E r \in CatalogPrice : IngestRecord(r)
    BY <2>5, IngestKeeps
  <2>6. CASE \E c \in BOOLEAN : IngestEnds(c)
    BY <2>6, IngestEndsKeeps
  <2>7. CASE reindex
    BY <2>7, ReindexKeeps
  <2>8. CASE \E put \in puts : Send(put)
    BY <2>8, SendKeeps
  <2>9. QED
    BY <1>2, <2>1, <2>2, <2>3, <2>4, <2>5, <2>6, <2>7, <2>8 DEF Administers
<1>3. CASE UNCHANGED vars
  <2>1. TableInv' /\ SizesStay /\ reused' \subseteq Ids
    BY <1>3, Same DEF vars, Table
  <2>2. IndexInv' /\ AskInv'
    BY <1>3, <2>1, IndexKept, AskKept DEF vars, IInv
  <2>3. ImportInv'
    BY <1>3 DEF vars, IInv, ImportInv
  <2>4. QED
    BY <2>1, <2>2, <2>3 DEF IInv
<1>4. QED
  BY <1>1, <1>2, <1>3 DEF Next

----------------------------------------------------------------------------
(***************************************************************************)
(* The theorems.                                                           *)
(***************************************************************************)

\* What requests, the administrator, imports and the commands keep of the table, the
\* index and each other's transactions (main.py:517-799, 1595-1957, catalog_cli.py:36).
THEOREM Invariance == Spec => []IInv
  BY InitOK, NextKeeps, PTL DEF Spec

\* Every variable keeps its type, and a product of one size has one row, also in a
\* transaction under way (models.py:142, main.py:752).
THEOREM TypeCorrect == Spec => []TypeOK
<1>1. IInv => TypeOK
  BY DEF IInv, TableInv, AskInv, IndexInv, ImportInv, Left, TypeOK, TableOK, Ids
<1>2. QED
  BY <1>1, Invariance, PTL

\* What a step may serve to w.
Served(w) ==
    ask'[w].got.from \in {"cached", "match"} /\ ask'[w] # ask[w] =>
        LET i == ask'[w].got.id
            k == ask'[w].key
        IN  /\ i \in DOMAIN rows /\ rows[i].msrp = ask'[w].got.msrp
            /\ catalog_price_is_fresh(rows[i]) \/ ask'[w].force
            /\ Similar(rows[i].key[1], k[1])
            /\ rows[i].key[2] = k[2] \/ i \in reused

LEMMA GoesUnserved ==
  ASSUME AskInv, NEW w \in Requests, NEW r, Goes(w, r),
         r.got.from \notin {"cached", "match"}
  PROVE  \A v \in Requests : Served(v)
  BY DEF AskInv, Goes, Served

LEMMA RefreshServes ==
  ASSUME IInv, NEW w \in Requests, NEW key \in Keys, NEW force \in BOOLEAN,
         refresh_prices(w, key, force)
  PROVE  \A v \in Requests : Served(v)
<1> DEFINE r == [Idle EXCEPT !.key = key, !.force = force]
<1>1. CASE Goes(w, [r EXCEPT !.at = "finding"])
  <2>1. [r EXCEPT !.at = "finding"].got.from \notin {"cached", "match"}
    BY DEF Idle, NoPrice
  <2> HIDE DEF r
  <2>2. QED
    BY <1>1, <2>1, GoesUnserved DEF IInv
<1>2. ASSUME NEW i \in RowOf(rows, key), Usable(i, force),
             Goes(w, [r EXCEPT !.at = "done", !.got = Given("cached", i)])
      PROVE  \A v \in Requests : Served(v)
  <2> DEFINE s == [r EXCEPT !.at = "done", !.got = Given("cached", i)]
  <2>1. /\ s.key = key /\ s.force = force
        /\ s.got.id = i /\ s.got.msrp = rows[i].msrp
    BY DEF Idle, Given
  <2>2. i \in DOMAIN rows /\ rows[i].key = key
    BY <1>2 DEF RowOf
  <2>3. Similar(key[1], key[1])
    BY PricesAssumption
  <2>4. \A v \in Requests : ask'[v] = IF v = w THEN s ELSE ask[v]
    BY <1>2 DEF Goes, IInv, AskInv
  <2> HIDE DEF s
  <2>5. QED
    BY <1>2, <2>1, <2>2, <2>3, <2>4 DEF Served, Usable
<1>3. QED
  BY <1>1, <1>2 DEF refresh_prices

LEMMA MatchServes ==
  ASSUME IInv, NEW w \in Requests, qdrant_catalog_price(w)
  PROVE  \A v \in Requests : Served(v)
<1>1. ask[w] \in Request /\ ask[w].at = "finding" /\ Waiting(ask[w], w, lock, draft)
  BY DEF IInv, AskInv, qdrant_catalog_price
<1>2. CASE Goes(w, [ask[w] EXCEPT !.at = "searching"])
  <2>1. [ask[w] EXCEPT !.at = "searching"].got.from \notin {"cached", "match"}
    BY <1>1 DEF Waiting, Request
  <2>2. QED
    BY <1>2, <2>1, GoesUnserved DEF IInv
<1>3. ASSUME NEW i \in find(ask[w].key), Acceptable(i, ask[w].key, ask[w].force),
             Goes(w, [ask[w] EXCEPT !.at = "done", !.got = Given("match", i)])
      PROVE  \A v \in Requests : Served(v)
  <2> DEFINE s == [ask[w] EXCEPT !.at = "done", !.got = Given("match", i)]
  <2>1. /\ s.key = ask[w].key /\ s.force = ask[w].force
        /\ s.got.id = i /\ s.got.msrp = rows[i].msrp
    BY <1>1 DEF Request, Given
  <2>2. i \in DOMAIN points /\ points[i][2] = ask[w].key[2]
    BY <1>3 DEF find
  <2>3. i \in DOMAIN rows /\ Usable(i, ask[w].force) /\ Similar(rows[i].key[1], ask[w].key[1])
    BY <1>3 DEF Acceptable
  <2>4. rows[i].key[2] = ask[w].key[2] \/ i \in reused
    BY <2>2, <2>3 DEF IInv, IndexInv, Sized, TableInv, KeepsKeys
  <2>5. \A v \in Requests : ask'[v] = IF v = w THEN s ELSE ask[v]
    BY <1>3 DEF Goes, IInv, AskInv
  <2> HIDE DEF s
  <2>6. QED
    BY <2>1, <2>3, <2>4, <2>5 DEF Served, Usable
<1>4. QED
  BY <1>2, <1>3 DEF qdrant_catalog_price

LEMMA OthersServe ==
  ASSUME IInv, NEW w \in Requests,
         \/ SearchFails(w) \/ \E c \in BOOLEAN : RequestEnds(w, c)
         \/ \E m \in Amounts : cache_catalog_price(w, m)
         \/ \E k \in Keys : \E m \in Amounts : apply_user_purchase_price(w, k, m)
  PROVE  \A v \in Requests : Served(v)
<1>1. ask[w] \in Request /\ Waiting(ask[w], w, lock, draft)
  BY DEF IInv, AskInv
<1>2. CASE SearchFails(w)
  <2>1. [ask[w] EXCEPT !.at = "done"].got.from \notin {"cached", "match"}
    BY <1>1, <1>2 DEF SearchFails, Waiting, Request
  <2>2. QED
    BY <1>2, <2>1, GoesUnserved DEF SearchFails, IInv
<1>3. CASE \E c \in BOOLEAN : RequestEnds(w, c)
  <2>1. [ask[w] EXCEPT !.at = "done", !.id = 0].got.from \notin {"cached", "match"}
    BY <1>1, <1>3 DEF RequestEnds, Waiting, Request
  <2>2. QED
    BY <1>3, <2>1, GoesUnserved DEF RequestEnds, IInv
<1>4. CASE \E m \in Amounts : cache_catalog_price(w, m)
  <2>1. PICK m \in Amounts : cache_catalog_price(w, m)
    BY <1>4
  <2> DEFINE id == IdFor(draft, ask[w].key)
             got == [from |-> "search", msrp |-> m, id |-> 0]
             r == [ask[w] EXCEPT !.at = "indexing", !.id = id, !.got = got]
  <2>2. Goes(w, r)
    BY <2>1 DEF cache_catalog_price
  <2>3. r.got.from \notin {"cached", "match"}
    BY <1>1 DEF Request
  <2> HIDE DEF r
  <2>4. QED
    BY <2>2, <2>3, GoesUnserved DEF IInv
<1>5. CASE \E k \in Keys : \E m \in Amounts : apply_user_purchase_price(w, k, m)
  <2>1. PICK k \in Keys, m \in Amounts : apply_user_purchase_price(w, k, m)
    BY <1>5
  <2> DEFINE got == [from |-> "user", msrp |-> m, id |-> 0]
             r == [Idle EXCEPT !.at = "indexing", !.key = k,
                               !.id = IdFor(draft, k), !.got = got]
  <2>2. Goes(w, r)
    BY <2>1 DEF apply_user_purchase_price
  <2>3. r.got.from \notin {"cached", "match"}
    BY DEF Idle
  <2> HIDE DEF r
  <2>4. QED
    BY <2>2, <2>3, GoesUnserved DEF IInv
<1>6. QED
  BY <1>2, <1>3, <1>4, <1>5

LEMMA NextServes ==
  ASSUME IInv, [Next]_vars
  PROVE  \A w \in Requests : Served(w)
<1>1. CASE \E w \in Requests : Asks(w)
  BY <1>1, RefreshServes, MatchServes, OthersServe DEF Asks
<1>2. CASE ask' = ask
  BY <1>2 DEF Served
<1>3. CASE Administers \/ UNCHANGED vars
  <2>1. ask' = ask
    BY <1>3 DEF Administers, vars, AdminDelete, AdminUpdate, SaveReview,
         apply_catalog_import_batch, IngestRecord, IngestEnds, reindex, Send, Others
  <2>2. QED
    BY <1>2, <2>1
<1>4. QED
  BY <1>1, <1>3 DEF Next

\* Whatever the index still has of rows deleted, renamed, never committed or of another
\* transaction, a price it leads to is that of a row there is: fresh, alike, and of the
\* size asked for unless the row has the id of one that is gone (main.py:708-730).
THEOREM IndexIsNoSource == Spec => ServedFromCatalog
<1>1. IInv /\ [Next]_vars => [\A w \in Requests : Served(w)]_vars
  BY NextServes
<1>2. QED
  BY <1>1, Invariance, PTL DEF Spec, ServedFromCatalog, Served

\* What the step that applies the import may do to the rows of a key.
AppliedTo(k) ==
    LET offers == {[key |-> k, msrp |-> p.msrp, at |-> p.at] :
                      p \in {proposals'[n] : n \in {m \in Positions :
                          proposals'[m].key = k /\ proposals'[m].included}}}
        old == {rows[i] : i \in RowOf(rows, k)}
        new == {rows'[i] : i \in RowOf(rows', k)}
    IN  /\ new \subseteq old \cup offers
        /\ (new = {}) = (old \cup offers = {})
        /\ \A r \in new : \A o \in old \cup offers : o.at <= r.at
        /\ new # old => \E i \in RowOf(rows', k) : [id |-> i, key |-> k] \in puts'

LEMMA OffersShown ==
  ASSUME NEW ps \in [Positions -> Offers], NEW k
  PROVE  {[key |-> k, msrp |-> p.msrp, at |-> p.at] :
             p \in {ps[n] : n \in {m \in Positions : ps[m].key = k /\ ps[m].included}}}
            = Shown(ps, k, Last)
<1> DEFINE Of == {m \in Positions : ps[m].key = k /\ ps[m].included}
<1>1. \A m \in Of : Offered(ps[m]) = [key |-> k, msrp |-> ps[m].msrp, at |-> ps[m].at]
  BY DEF Offered
<1>2. Shown(ps, k, Last) = {Offered(ps[m]) : m \in Of}
  BY Counted DEF Shown
<1> HIDE DEF Of
<1>3. {[key |-> k, msrp |-> p.msrp, at |-> p.at] : p \in {ps[n] : n \in Of}}
        = {Offered(ps[m]) : m \in Of}
  BY <1>1
<1>4. QED
  BY <1>2, <1>3 DEF Of

LEMMA AppliesNewest ==
  ASSUME IInv, NEW p \in Positions, NEW edited \in Offers,
         apply_catalog_import_batch(p, edited), NEW k \in Keys
  PROVE  AppliedTo(k)
<1> DEFINE r == Result(proposals')
           offers == Shown(proposals', k, Last)
           old == {rows[i] : i \in RowOf(rows, k)}
           new == {rows'[i] : i \in RowOf(rows', k)}
<1>1. /\ proposals' \in [Positions -> Offers]
      /\ LoopOK(r, MaxRows + Last) /\ Newest(r.table, k, Old(k) \cup offers)
      /\ rows' = r.table /\ puts' = puts \cup Unsent(r.table, r.ids)
  BY ApplyWrites
<1>2. Old(k) = old
  BY DEF Old
<1> HIDE DEF r, offers
<1>3. /\ \A i \in RowOf(rows', k) :
            rows'[i] \in old \cup offers /\ \A o \in old \cup offers : o.at <= rows'[i].at
      /\ RowOf(rows', k) = {} => old \cup offers = {}
  BY <1>1, <1>2 DEF Newest
<1>4. new \subseteq old \cup offers /\ \A x \in new : \A o \in old \cup offers : o.at <= x.at
  BY <1>3
<1>5. (new = {}) = (old \cup offers = {})
  <2>1. new = {} <=> RowOf(rows', k) = {}
    OBVIOUS
  <2>2. new = {} <=> old \cup offers = {}
    BY <1>3, <1>4, <2>1
  <2>3. QED
    BY <2>2
<1>6. ASSUME new # old PROVE \E i \in RowOf(rows', k) : [id |-> i, key |-> k] \in puts'
  <2>1. SUFFICES ASSUME \A i \in RowOf(rows', k) : i \notin r.ids PROVE FALSE
    <3>1. ASSUME NEW i \in RowOf(rows', k), i \in r.ids PROVE [id |-> i, key |-> k] \in puts'
      <4>1. r.table[i].key = k
        BY <1>1, <3>1 DEF RowOf
      <4>2. QED
        BY <1>1, <3>1, <4>1 DEF Unsent
    <3>2. QED
      BY <3>1
  <2>2. \A i \in RowOf(rows', k) : i \in RowOf(rows, k) /\ rows'[i] = rows[i]
    BY <1>1, <2>1 DEF LoopOK, RowOf
  <2>3. RowOf(rows, k) \subseteq RowOf(rows', k)
    BY <1>1 DEF LoopOK, KeepsKeys, RowOf
  <2>4. new = old
    BY <2>2, <2>3
  <2>5. QED
    BY <1>6, <2>4
<1>7. {[key |-> k, msrp |-> q.msrp, at |-> q.at] :
          q \in {proposals'[n] : n \in {m \in Positions :
              proposals'[m].key = k /\ proposals'[m].included}}} = offers
  BY <1>1, OffersShown DEF offers
<1>8. QED
  BY <1>4, <1>5, <1>6, <1>7 DEF AppliedTo

LEMMA NextApplies ==
  ASSUME IInv, [Next]_vars
  PROVE  batch' # batch => \A k \in Keys : AppliedTo(k)
<1>1. CASE \E p \in Positions : \E e \in Offers : apply_catalog_import_batch(p, e)
  BY <1>1, AppliesNewest
<1>2. CASE ~\E p \in Positions : \E e \in Offers : apply_catalog_import_batch(p, e)
  <2>1. CASE \E w \in Requests : Asks(w)
    BY <2>1 DEF Asks, refresh_prices, apply_user_purchase_price, qdrant_catalog_price,
         SearchFails, cache_catalog_price, RequestEnds, Import
  <2>2. CASE Administers
    BY <1>2, <2>2 DEF Administers, AdminDelete, AdminUpdate, SaveReview, IngestRecord,
         IngestEnds, reindex, Send, Others, Import
  <2>3. CASE UNCHANGED vars
    BY <2>3 DEF vars
  <2>4. QED
    BY <2>1, <2>2, <2>3 DEF Next
<1>3. QED
  BY <1>1, <1>2

\* However many proposals of the batch name a product, and in whatever order, the newest
\* of them and of the catalog stands after the import, and the index is told of each row
\* that differs (catalog_imports.py:135-187, main.py:1894-1957).
THEOREM ImportKeepsNewest == Spec => ApplyKeepsNewest
<1>1. IInv /\ [Next]_vars => [batch' # batch => \A k \in Keys : AppliedTo(k)]_vars
  BY NextApplies
<1>2. QED
  BY <1>1, Invariance, PTL DEF Spec, ApplyKeepsNewest, AppliedTo
=============================================================================
