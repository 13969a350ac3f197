------------------------------- MODULE Prices -------------------------------
(***************************************************************************)
(* The price catalog in SQLite, the index of it in Qdrant, the requests    *)
(* that look a price up in both and then on the web, the administrator's   *)
(* edits, the review and application of an import, and the commands that   *)
(* ingest records and rebuild the index.                                   *)
(*                                                                         *)
(* The index knows rows by id and is never told of a deletion or a rename. *)
(* It is written before the transaction commits, except after an import.   *)
(* Every call of it may fail and is then skipped. An action is a stretch   *)
(* between two awaits. Whoever has flushed holds SQLite's write lock up to *)
(* the commit; another writer meanwhile fails, a step that stutters.       *)
(*                                                                         *)
(* Nothing here takes days, so dates are ages counted from a fixed present. *)
(* A definition that stands directly above the one it varies, with no      *)
(* comment of its own, is a wrong version of it.                           *)
(***************************************************************************)
EXTENDS Naturals, FiniteSets

CONSTANTS
    Keys,           \* catalog_price_key: pairs of a product and a size
    Similar(_, _),  \* do two product keys reach the threshold of 0.82?
    Amounts,        \* prices
    Requests,       \* requests for a bottle's price
    Positions,      \* positions of the proposals of the batch
    Offers,         \* what a proposal may be
    MaxRows,        \* bound on row ids
    Bounds          \* [import, admin, flush, ask -> how many there may be], a set

VARIABLES
    rows,       \* catalog_prices as committed, by id
    draft,      \* the table as the transaction that has flushed sees it
    lock,       \* who that is, "nobody", or "ingest"
    points,     \* the index, by id
    puts,       \* rows that reindex, or the sync of an import, is still to send
    ask,        \* per request
    batch,      \* state of the import batch
    proposals,  \* its proposals, by position
    left,       \* what Bounds has left
    reused      \* ghost: ids given to a row while an older point, or put, had them

vars == <<rows, draft, lock, points, puts, ask, batch, proposals, left, reused>>

---------------------------------------------------------------------------
\* Longer ago than USER_PRICE_OVERRIDE_TTL, than PRICE_CACHE_TTL, the midnight
\* before, and just now.
TODAY == 2
NOW == 3
Dates == 0..NOW
catalog_price_is_fresh(r) == r.at >= 2
catalog_price_needs_user_update(r) == r.at < 1

CatalogPrice == [key : Keys, msrp : Amounts, at : Dates]
Proposal == [key : Keys, msrp : Amounts, at : 1..TODAY, included : BOOLEAN]

Ids == 1..MaxRows

\* A request and where it waits: for the index to find, for the web search, for
\* the index to take what was found. `got` is what the bottle is given.
Price == [from : {"none", "cached", "match", "search", "user"}, msrp : Amounts \cup {0},
          id : {0} \cup Ids]
Request == [at : {"idle", "finding", "searching", "indexing", "done"}, key : Keys,
            force : BOOLEAN, id : {0} \cup Ids, got : Price]
NoPrice == [from |-> "none", msrp |-> 0, id |-> 0]
Idle == [at |-> "idle", key |-> CHOOSE k \in Keys : TRUE, force |-> FALSE, id |-> 0,
         got |-> NoPrice]

ASSUME PricesAssumption ==
    /\ Keys # {} /\ \A k \in Keys : Similar(k[1], k[1])
    /\ IsFiniteSet(Positions) /\ Positions = 1..Cardinality(Positions)
    /\ Offers # {} /\ Offers \subseteq Proposal
    /\ Requests \cap {"nobody", "ingest"} = {}
    /\ MaxRows \in Nat \ {0}
    /\ Bounds \subseteq [{"import", "admin", "flush", "ask"} -> Nat]

RowOf(table, key) == {i \in DOMAIN table : table[i].key = key}
NextRow(table) ==
    IF DOMAIN table = {} THEN 1
    ELSE 1 + CHOOSE i \in DOMAIN table : \A j \in DOMAIN table : j <= i
AlwaysNext(table, key) == NextRow(table)
IdFor(table, key) ==
    IF RowOf(table, key) = {} THEN NextRow(table)
    ELSE CHOOSE i \in RowOf(table, key) : TRUE
\* The table with `row` under its key, inserted or written over.
Upserted(table, row) ==
    [i \in DOMAIN table \cup {IdFor(table, row.key)} |->
        IF i = IdFor(table, row.key) THEN row ELSE table[i]]
Without(table, gone) == [i \in DOMAIN table \ gone |-> table[i]]
Reused(from, to) ==
    reused \cup ((DOMAIN to \ DOMAIN from)
                  \cap (DOMAIN points \cup {put.id : put \in puts}))

Init ==
    /\ \E r \in CatalogPrice : rows \in {<< >>, <<r>>}
    /\ points \in {<< >>, [i \in DOMAIN rows |-> rows[i].key]}
    /\ draft = rows /\ lock = "nobody"
    /\ puts = {} /\ reused = {}
    /\ ask = [w \in Requests |-> Idle]
    /\ left \in Bounds
    /\ batch = IF left["import"] > 0 THEN "review" ELSE "applied"
    /\ \E o \in IF batch = "review" THEN Offers ELSE {CHOOSE o \in Offers : TRUE} :
          proposals = [p \in Positions |-> o]

---------------------------------------------------------------------------
(***************************************************************************)
(* Transactions and the index.                                             *)
(***************************************************************************)

Counts(kind) == left[kind] > 0 /\ left' = [left EXCEPT ![kind] = @ - 1]

\* A transaction that flushes and commits without an await in between.
Commits(table, kind) ==
    /\ lock = "nobody"
    /\ DOMAIN table \subseteq Ids /\ Counts(kind)
    /\ rows' = table /\ draft' = table
    /\ reused' = Reused(rows, table)
    /\ UNCHANGED lock

\* One that flushes, and is to await the index.
Flushes(w, table) ==
    /\ lock \in {"nobody", w}
    /\ DOMAIN table \subseteq Ids /\ Counts("flush")
    /\ lock' = w /\ draft' = table
    /\ reused' = Reused(draft, table)
    /\ UNCHANGED rows

\* upsert: the point is taken, or the call has failed.
Takes(i, key) ==
    points' \in {points, [j \in DOMAIN points \cup {i} |->
                            IF j = i THEN key ELSE points[j]]}

Ends(w, committed) ==
    /\ lock = w /\ lock' = "nobody"
    /\ rows' = IF committed THEN draft ELSE rows
    /\ draft' = rows'

---------------------------------------------------------------------------
(***************************************************************************)
(* A request for a price.                                                  *)
(***************************************************************************)
Goes(w, r) == ask' = [ask EXCEPT ![w] = r]
Table == <<rows, draft, lock, reused>>
Import == <<batch, proposals>>

Given(from, i) == [from |-> from, msrp |-> rows[i].msrp, id |-> i]
Usable(i, force) == force \/ catalog_price_is_fresh(rows[i])

\* An exact and usable row ends the request; else it waits for the index.
refresh_prices(w, key, force) ==
    /\ ask[w].at = "idle"
    /\ LET cached == {i \in RowOf(rows, key) : Usable(i, force)}
           r == [Idle EXCEPT !.key = key, !.force = force]
       IN  \/ /\ cached = {}
              /\ Goes(w, [r EXCEPT !.at = "finding"])
           \/ \E i \in cached :
                 Goes(w, [r EXCEPT !.at = "done", !.got = Given("cached", i)])
    /\ Counts("ask")
    /\ UNCHANGED <<Table, points, puts, Import>>

\* What the index may answer: a point of the size. It has a measure of likeness of
\* its own, which is no part of the model.
find(key) == {i \in DOMAIN points : points[i][2] = key[2]}

\* The row a point leads to, as it is now.
AnyRow(i, key, force) == i \in DOMAIN rows /\ Usable(i, force)
Acceptable(i, key, force) ==
    /\ i \in DOMAIN rows /\ Usable(i, force)
    /\ Similar(rows[i].key[1], key[1])

qdrant_catalog_price(w) ==
    /\ ask[w].at = "finding"
    /\ \/ \E i \in find(ask[w].key) :
             /\ Acceptable(i, ask[w].key, ask[w].force)
             /\ Goes(w, [ask[w] EXCEPT !.at = "done", !.got = Given("match", i)])
       \/ Goes(w, [ask[w] EXCEPT !.at = "searching"])
    /\ UNCHANGED <<Table, points, puts, Import, left>>

\* Or it brings no price, or no source to keep.
SearchFails(w) ==
    /\ ask[w].at = "searching"
    /\ Goes(w, [ask[w] EXCEPT !.at = "done"])
    /\ UNCHANGED <<Table, points, puts, Import, left>>

\* The result of a search is kept whatever the row has become meanwhile.
cache_catalog_price(w, msrp) ==
    /\ ask[w].at = "searching"
    /\ LET row == [key |-> ask[w].key, msrp |-> msrp, at |-> NOW]
       IN  /\ Flushes(w, Upserted(draft, row))
           /\ Goes(w, [ask[w] EXCEPT !.at = "indexing", !.id = IdFor(draft, row.key),
                           !.got = [from |-> "search", msrp |-> msrp, id |-> 0]])
    /\ UNCHANGED <<points, puts, Import>>

\* The price the user paid, where the catalog has none or an old one.
apply_user_purchase_price(w, key, msrp) ==
    /\ ask[w].at = "idle"
    /\ \A i \in RowOf(rows, key) : catalog_price_needs_user_update(rows[i])
    /\ LET row == [key |-> key, msrp |-> msrp, at |-> NOW]
       IN  /\ Flushes(w, Upserted(draft, row))
           /\ Goes(w, [Idle EXCEPT !.at = "indexing", !.key = key,
                           !.id = IdFor(draft, key),
                           !.got = [from |-> "user", msrp |-> msrp, id |-> 0]])
    /\ UNCHANGED <<points, puts, Import>>

\* The index has answered and the caller commits, or the process ends.
RequestEnds(w, committed) ==
    /\ ask[w].at = "indexing"
    /\ Takes(ask[w].id, ask[w].key)
    /\ Ends(w, committed)
    /\ Goes(w, [ask[w] EXCEPT !.at = "done", !.id = 0])
    /\ UNCHANGED <<puts, Import, left, reused>>

---------------------------------------------------------------------------
(***************************************************************************)
(* The administrator's catalog page.                                       *)
(***************************************************************************)
Others == <<points, puts, ask, Import>>

AdminDelete(i) ==
    /\ i \in DOMAIN rows
    /\ Commits(Without(rows, {i}), "admin")
    /\ UNCHANGED Others

\* One row of the form. A name can be changed, a size cannot; a key in use makes
\* the UPDATE fail.
AdminUpdate(i, key, msrp) ==
    /\ i \in DOMAIN rows /\ key[2] = rows[i].key[2]
    /\ RowOf(rows, key) \subseteq {i}
    /\ Commits([rows EXCEPT ![i] = [key |-> key, msrp |-> msrp, at |-> NOW]],
               "admin")
    /\ UNCHANGED Others

---------------------------------------------------------------------------
(***************************************************************************)
(* The import batch under review.                                          *)
(***************************************************************************)
SaveReview(p, edited) ==
    /\ lock = "nobody" /\ batch = "review"
    /\ proposals' = [proposals EXCEPT ![p] = edited]
    /\ UNCHANGED <<Table, points, puts, ask, batch, left>>

\* An existing row that is newer, or of the same date and price, is left alone.
IsSame(r, p) == r.at = p.at /\ r.msrp = p.msrp
KeepsRow(r, p) == r.at > p.at \/ (r.at = p.at /\ r.msrp = p.msrp)

NoResult == [table |-> rows, ids |-> {}]
AppliedOne(r, p) ==
    IF ~p.included \/ \E i \in RowOf(r.table, p.key) : KeepsRow(r.table[i], p) THEN r
    ELSE [table |-> Upserted(r.table, [key |-> p.key, msrp |-> p.msrp, at |-> p.at]),
          ids |-> r.ids \cup {IdFor(r.table, p.key)}]
\* All proposals in the order of their positions.
Result(ps) ==
    LET upto[n \in {0} \cup Positions] ==
            IF n = 0 THEN NoResult ELSE AppliedOne(upto[n - 1], ps[n])
    IN  upto[Cardinality(Positions)]

Unsent(table, ids) == {[id |-> i, key |-> table[i].key] : i \in ids}

apply_catalog_import_batch(p, edited) ==
    /\ batch = "review" /\ batch' = "applied"
    /\ proposals' = [proposals EXCEPT ![p] = edited]
    /\ LET r == Result(proposals')
       IN  /\ Commits(r.table, "import")
           /\ puts' = puts \cup Unsent(r.table, r.ids)
    /\ UNCHANGED <<points, ask>>

---------------------------------------------------------------------------
(***************************************************************************)
(* The commands, and what they and the import send to the index.           *)
(***************************************************************************)
reindex ==
    /\ puts = {} /\ rows # << >>
    /\ puts' = Unsent(rows, DOMAIN rows)
    /\ UNCHANGED <<Table, points, ask, Import, left>>

Send(put) ==
    /\ put \in puts /\ puts' = puts \ {put}
    /\ Takes(put.id, put.key)
    /\ UNCHANGED <<Table, ask, Import, left>>

\* One record of the file; all of them are one transaction.
IngestRecord(row) ==
    /\ Flushes("ingest", Upserted(draft, row))
    /\ Takes(IdFor(draft, row.key), row.key)
    /\ UNCHANGED <<puts, ask, Import>>

\* The end of the file, or a line that is not valid.
IngestEnds(committed) ==
    /\ Ends("ingest", committed)
    /\ UNCHANGED <<points, puts, ask, Import, left, reused>>

---------------------------------------------------------------------------
Asks(w) ==
    \/ \E k \in Keys : \E f \in BOOLEAN : refresh_prices(w, k, f)
    \/ \E k \in Keys : \E m \in Amounts : apply_user_purchase_price(w, k, m)
    \/ qdrant_catalog_price(w) \/ SearchFails(w)
    \/ \E m \in Amounts : cache_catalog_price(w, m)
    \/ \E c \in BOOLEAN : RequestEnds(w, c)

Administers ==
    \/ \E i \in DOMAIN rows : AdminDelete(i)
    \/ \E i \in DOMAIN rows : \E k \in Keys : \E m \in Amounts : AdminUpdate(i, k, m)
    \/ \E p \in Positions : \E e \in Offers : SaveReview(p, e)
    \/ \E p \in Positions : \E e \in Offers : apply_catalog_import_batch(p, e)
    \/ \E r \in CatalogPrice : IngestRecord(r)
    \/ \E c \in BOOLEAN : IngestEnds(c)
    \/ reindex \/ \E put \in puts : Send(put)

Next == Administers \/ \E w \in Requests : Asks(w)

Spec == Init /\ [][Next]_vars

---------------------------------------------------------------------------
(***************************************************************************)
(* Properties.                                                             *)
(***************************************************************************)

\* Every variable has its type, and a product of one size has one row, also in
\* a transaction under way.
TypeOK ==
    /\ DOMAIN rows \subseteq Ids /\ DOMAIN draft \subseteq Ids
    /\ \A table \in {rows, draft} : \A i \in DOMAIN table :
          table[i] \in CatalogPrice /\ RowOf(table, table[i].key) = {i}
    /\ lock \in {"nobody", "ingest"} \cup Requests
    /\ lock = "nobody" => draft = rows
    /\ ask \in [Requests -> Request]
    /\ left \in [{"import", "admin", "flush", "ask"} -> Nat]
    /\ \A i \in DOMAIN points : i \in Ids /\ points[i] \in Keys
    /\ puts \subseteq [id : Ids, key : Keys] /\ reused \subseteq Ids
    /\ batch \in {"review", "applied"} /\ proposals \in [Positions -> Offers]

\* README.md, "Qdrant is a rebuildable retrieval index, not the source of
\* truth": whatever points the index still has of rows deleted, renamed or never
\* committed, a price it leads to is that of a row in the database that is fresh
\* (or any was asked for) and alike by name. It is of another size only where the
\* id of a row that is gone was handed out again.
ServedFromCatalog ==
    [][\A w \in Requests :
        ask'[w].got.from \in {"cached", "match"} /\ ask'[w] # ask[w] =>
            LET i == ask'[w].got.id
                k == ask'[w].key
            IN  /\ i \in DOMAIN rows /\ rows[i].msrp = ask'[w].got.msrp
                /\ catalog_price_is_fresh(rows[i]) \/ ask'[w].force
                /\ Similar(rows[i].key[1], k[1])
                /\ rows[i].key[2] = k[2] \/ i \in reused]_vars

\* docs/architecture/components/catalog-import.md, "an import can never move the
\* catalog backwards in time": for each product the newest of what the catalog has
\* and what is offered stands after the import, however many proposals name it and
\* in whatever order; and every row that differs is among those sent to the index.
ApplyKeepsNewest ==
    [][batch' # batch => \A k \in Keys :
        LET offers == {[key |-> k, msrp |-> p.msrp, at |-> p.at] :
                          p \in {proposals'[n] : n \in {m \in Positions :
                              proposals'[m].key = k /\ proposals'[m].included}}}
            old == {rows[i] : i \in RowOf(rows, k)}
            new == {rows'[i] : i \in RowOf(rows', k)}
        IN  /\ new \subseteq old \cup offers
            /\ (new = {}) = (old \cup offers = {})
            /\ \A r \in new : \A o \in old \cup offers : o.at <= r.at
            /\ new # old => \E i \in RowOf(rows', k) : [id |-> i, key |-> k] \in puts']_vars

=============================================================================
