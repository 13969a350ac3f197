----------------------- MODULE CatalogImportRefinement -----------------------
(***************************************************************************)
(* CatalogImport implements CatalogImportLifecycle: seen per upload instead *)
(* of per row id, every step of the worker, the routes and the process is a *)
(* step of the lifecycle or changes nothing of it.                         *)
(***************************************************************************)
EXTENDS CatalogImportProofs

\* A row that does not exist says nothing, so that no upload is seen in it.
AbsentOK == \A i \in Ids : ~Exists(i) => batches[i] = Absent
RInv == IInv /\ AbsentOK

---------------------------------------------------------------------------
(***************************************************************************)
(* What is seen of an upload.                                              *)
(***************************************************************************)

\* By the row that stands for it, or as gone or new if there is none.
SeenInRow ==
    \A i \in Ids : Exists(i) =>
        /\ batches[i].upload \in Uploads /\ batches[i].upload <= uploads
        /\ life[batches[i].upload] = batches[i].state
        /\ owner[batches[i].upload] = batches[i].owner
SeenInNone ==
    \A u \in Uploads : (\A i \in Ids : Exists(i) => batches[i].upload # u) =>
        /\ life[u] = IF u <= uploads THEN "gone" ELSE "new"
        /\ owner[u] = NoAdmin

LEMMA Seen == RInv => SeenInRow /\ SeenInNone
  <1> SUFFICES ASSUME RInv PROVE SeenInRow /\ SeenInNone
    OBVIOUS
  <1>1. \A i \in Ids : Exists(i) => /\ batches[i].upload \in Uploads
                                    /\ batches[i].upload <= uploads
    BY BoundsAssumption DEF RInv, IInv, UploadsOK, TypeOK, Uploads
  <1>2. \A i \in Ids : ~Exists(i) => batches[i].upload \notin Uploads
    BY DEF RInv, AbsentOK, Absent, None, Uploads
  <1>3. SeenInRow
    <2> SUFFICES ASSUME NEW i \in Ids, Exists(i)
                 PROVE  /\ life[batches[i].upload] = batches[i].state
                        /\ owner[batches[i].upload] = batches[i].owner
      BY <1>1 DEF SeenInRow
    <2> DEFINE u == batches[i].upload
    <2>1. \A j \in Ids : batches[j].upload = u => j = i
      BY <1>1, <1>2 DEF RInv, IInv, UploadsOK
    <2>2. RowsOf(u) # {} /\ RowOf(u) = batches[i]
      BY <2>1 DEF RowsOf, RowOf
    <2>3. QED
      BY <1>1, <2>2 DEF life, owner
  <1>4. SeenInNone
    <2> SUFFICES ASSUME NEW u \in Uploads, \A i \in Ids : Exists(i) => batches[i].upload # u
                 PROVE  /\ life[u] = IF u <= uploads THEN "gone" ELSE "new"
                        /\ owner[u] = NoAdmin
      BY DEF SeenInNone
    <2>1. RowsOf(u) = {}
      BY <1>2 DEF RowsOf
    <2>2. QED
      BY <2>1 DEF life, owner
  <1>5. QED
    BY <1>3, <1>4

LEMMA SeenAfter == RInv' => (SeenInRow /\ SeenInNone)'
  BY Seen, PTL

LEMMA Functions ==
    /\ life = [u \in Uploads |-> life[u]] /\ owner = [u \in Uploads |-> owner[u]]
    /\ life' = [u \in Uploads |-> life'[u]] /\ owner' = [u \in Uploads |-> owner'[u]]
  BY DEF life, owner

---------------------------------------------------------------------------
(***************************************************************************)
(* Steps that move rows on.                                                *)
(***************************************************************************)

\* The rows R, which exist, go to state `to`; the others keep what is seen of them.
Moved(R, to) ==
    /\ UNCHANGED <<uploads, accounts>>
    /\ \A j \in R : /\ Exists(j) /\ batches'[j].state = to
                    /\ batches'[j].upload = batches[j].upload
                    /\ batches'[j].owner = batches[j].owner
    /\ \A j \in Ids \ R :
          \/ batches'[j] = batches[j]
          \/ /\ Exists(j) /\ batches'[j].state = batches[j].state
             /\ batches'[j].upload = batches[j].upload
             /\ batches'[j].owner = batches[j].owner

UploadsOf(R) == {batches[j].upload : j \in R}

LEMMA MovedKeeps ==
    ASSUME AbsentOK, NEW R \in SUBSET Ids, NEW to \in States, Moved(R, to)
    PROVE  AbsentOK'
  BY DEF AbsentOK, Moved, Exists, States

LEMMA MovedMaps ==
    ASSUME RInv, RInv', NEW R \in SUBSET Ids, NEW to \in States, Moved(R, to)
    PROVE  /\ UploadsOf(R) \in SUBSET Uploads /\ owner' = owner
           /\ \A j \in R : life[batches[j].upload] = batches[j].state
           /\ life' = [u \in Uploads |-> IF u \in UploadsOf(R) THEN to ELSE life[u]]
  <1>1. SeenInRow /\ SeenInNone /\ (SeenInRow /\ SeenInNone)'
    BY Seen, SeenAfter
  <1>2. UploadsOf(R) \in SUBSET Uploads
    BY <1>1 DEF SeenInRow, UploadsOf, Moved
  <1>3. \A j \in Ids : Exists(j) <=> Exists(j)'
    BY DEF Moved, Exists, States
  <1>4. \A j \in Ids : Exists(j) => /\ batches'[j].upload = batches[j].upload
                                    /\ batches'[j].owner = batches[j].owner
                                    /\ j \notin R => batches'[j].state = batches[j].state
    BY DEF Moved
  <1>5. uploads' = uploads
    BY DEF Moved
  <1>6. \A u \in Uploads : /\ owner'[u] = owner[u]
                           /\ life'[u] = IF u \in UploadsOf(R) THEN to ELSE life[u]
    <2> TAKE u \in Uploads
    <2>1. CASE \E j \in Ids : Exists(j) /\ batches[j].upload = u
      <3>1. PICK j \in Ids : Exists(j) /\ batches[j].upload = u
        BY <2>1
      <3>2. u \in UploadsOf(R) <=> j \in R
        BY <3>1 DEF UploadsOf, RInv, IInv, UploadsOK, Moved
      <3>3. /\ life[u] = batches[j].state /\ owner[u] = batches[j].owner
            /\ life'[u] = batches'[j].state /\ owner'[u] = batches'[j].owner
        BY <1>1, <1>3, <1>4, <3>1 DEF SeenInRow
      <3>4. QED
        BY <1>4, <3>1, <3>2, <3>3 DEF Moved
    <2>2. CASE \A j \in Ids : Exists(j) => batches[j].upload # u
      <3>1. u \notin UploadsOf(R)
        BY <2>2 DEF UploadsOf, Moved
      <3>2. \A j \in Ids : Exists(j)' => batches'[j].upload # u
        BY <1>3, <1>4, <2>2
      <3>3. QED
        BY <1>1, <1>5, <2>2, <3>1, <3>2 DEF SeenInNone
    <2>3. QED
      BY <2>1, <2>2
  <1>7. QED
    BY <1>1, <1>2, <1>6, Functions DEF SeenInRow, Moved

---------------------------------------------------------------------------
(***************************************************************************)
(* Steps under which rows go.                                              *)
(***************************************************************************)

LEMMA GoneMaps ==
    ASSUME RInv, RInv', NEW S \in SUBSET Ids, uploads' = uploads, DeleteRows(S)
    PROVE  \A u \in Uploads :
             IF \E j \in S : Exists(j) /\ batches[j].upload = u
             THEN life'[u] = "gone" /\ owner'[u] = NoAdmin
             ELSE life'[u] = life[u] /\ owner'[u] = owner[u]
  <1>1. SeenInRow /\ SeenInNone /\ (SeenInRow /\ SeenInNone)'
    BY Seen, SeenAfter
  <1>2. \A j \in Ids : /\ j \in S => ~Exists(j)'
                       /\ j \notin S => batches'[j] = batches[j]
    BY DEF DeleteRows, Exists, Absent
  <1> TAKE u \in Uploads
  <1>3. CASE \E j \in S : Exists(j) /\ batches[j].upload = u
    <2>1. PICK j \in S : Exists(j) /\ batches[j].upload = u
      BY <1>3
    <2>2. \A k \in Ids : Exists(k)' => batches'[k].upload # u
      BY <1>2, <2>1 DEF RInv, IInv, UploadsOK, Exists
    <2>3. u <= uploads
      BY <1>1, <2>1 DEF SeenInRow
    <2>4. QED
      BY <1>1, <1>3, <2>2, <2>3 DEF SeenInNone
  <1>4. CASE ~\E j \in S : Exists(j) /\ batches[j].upload = u
    <2>1. CASE \E j \in Ids : Exists(j) /\ batches[j].upload = u
      <3>1. PICK j \in Ids : Exists(j) /\ batches[j].upload = u
        BY <2>1
      <3>2. batches'[j] = batches[j] /\ Exists(j)'
        BY <1>2, <1>4, <3>1 DEF Exists
      <3>3. QED
        BY <1>1, <1>4, <3>1, <3>2 DEF SeenInRow
    <2>2. CASE \A j \in Ids : Exists(j) => batches[j].upload # u
      <3>1. \A j \in Ids : Exists(j)' => batches'[j].upload # u
        BY <1>2, <2>2 DEF Exists
      <3>2. QED
        BY <1>1, <1>4, <2>2, <3>1 DEF SeenInNone
    <2>3. QED
      BY <2>1, <2>2
  <1>5. QED
    BY <1>3, <1>4

LEMMA DeleteMaps ==
    ASSUME RInv, RInv', NEW i \in Ids, NEW killed \in BOOLEAN, Delete(i, killed)
    PROVE  Lifecycle!Next
  <1> DEFINE u == batches[i].upload
  <1>1. Exists(i) /\ batches[i].state \in {"queued", "failed", "review"}
    BY DEF Delete, DELETABLE_CATALOG_IMPORT_STATES, Exists
  <1>2. u \in Uploads /\ life[u] \in {"queued", "failed", "review"}
    BY <1>1, Seen DEF SeenInRow
  <1>3. \A v \in Uploads : IF v = u THEN life'[v] = "gone" /\ owner'[v] = NoAdmin
                           ELSE life'[v] = life[v] /\ owner'[v] = owner[v]
    <2>1. DeleteRows({i}) /\ uploads' = uploads
      BY DEF Delete
    <2>2. QED
      BY <1>1, <2>1, GoneMaps
  <1>4. life' = [v \in Uploads |-> IF v \in {u} THEN "gone" ELSE life[v]]
    BY <1>3, Functions
  <1>5. owner' = [owner EXCEPT ![u] = NoAdmin]
    BY <1>3, Functions
  <1>6. Lifecycle!Delete(u)
    BY <1>2, <1>4, <1>5 DEF Lifecycle!Delete, Lifecycle!Move, Delete
  <1>7. QED
    BY <1>2, <1>6 DEF Lifecycle!Next

LEMMA DeleteAccountMaps ==
    ASSUME RInv, RInv', NEW a \in Admins, DeleteAccount(a)
    PROVE  Lifecycle!Next
  <1> DEFINE S == {i \in Ids : batches[i].owner = a}
  <1>1. DeleteRows(S) /\ UNCHANGED <<uploads, published>>
        /\ a \in accounts /\ accounts' = accounts \ {a}
    BY DEF DeleteAccount
  <1>2. \A i \in S : Exists(i)
    BY BoundsAssumption DEF RInv, AbsentOK, Absent
  <1>3. \A u \in Uploads : owner[u] = a <=> \E j \in S : Exists(j) /\ batches[j].upload = u
    <2> TAKE u \in Uploads
    <2>1. CASE \E j \in Ids : Exists(j) /\ batches[j].upload = u
      BY <2>1, Seen DEF SeenInRow, RInv, IInv, UploadsOK
    <2>2. CASE \A j \in Ids : Exists(j) => batches[j].upload # u
      BY <2>2, Seen, BoundsAssumption DEF SeenInNone
    <2>3. QED
      BY <2>1, <2>2
  <1>4. \A u \in Uploads : IF owner[u] = a THEN life'[u] = "gone" /\ owner'[u] = NoAdmin
                           ELSE life'[u] = life[u] /\ owner'[u] = owner[u]
    BY <1>1, <1>3, GoneMaps
  <1>5. /\ life' = [u \in Uploads |-> IF owner[u] = a THEN "gone" ELSE life[u]]
        /\ owner' = [u \in Uploads |-> IF owner[u] = a THEN NoAdmin ELSE owner[u]]
    BY <1>4, Functions
  <1>6. Lifecycle!DeleteAccount(a)
    BY <1>1, <1>5 DEF Lifecycle!DeleteAccount
  <1>7. QED
    BY <1>6 DEF Lifecycle!Next

---------------------------------------------------------------------------
(***************************************************************************)
(* An upload, and an application.                                          *)
(***************************************************************************)

LEMMA UploadMaps ==
    ASSUME RInv, RInv', NEW a \in Admins, NEW i \in Ids, NEW killed \in BOOLEAN,
           Upload(a, i, killed)
    PROVE  Lifecycle!Next
  <1> DEFINE n == uploads + 1
  <1>1. SeenInRow /\ SeenInNone /\ (SeenInRow /\ SeenInNone)'
    BY Seen, SeenAfter
  <1>2. /\ uploads \in Nat /\ n \in Uploads /\ uploads' = n /\ n \in 0..MaxUploads
        /\ a \in accounts /\ UNCHANGED <<accounts, published>> /\ ~Exists(i)
    <2>1. TypeOK /\ uploads \in Nat
      BY BoundsAssumption DEF RInv, IInv, TypeOK
    <2>2. uploads' = n /\ uploads' \in Uploads /\ published' = published /\ ~Exists(i)
      BY <2>1, UploadRows
    <2>3. a \in accounts /\ accounts' = accounts
      BY DEF Upload
    <2>4. QED
      BY <2>1, <2>2, <2>3, BoundsAssumption DEF Uploads
  <1>3. \A j \in Ids : Exists(j) => batches[j].upload # n
    BY <1>1, <1>2 DEF SeenInRow
  <1>4. life[n] = "new"
    BY <1>1, <1>2, <1>3 DEF SeenInNone
  <1>5. \A u \in Uploads \ {n} : u <= uploads <=> u <= uploads'
    BY <1>2 DEF Uploads
  <1>6. CASE batches' = batches
    <2>1. \A u \in Uploads : /\ owner'[u] = owner[u]
                             /\ life'[u] = IF u = n THEN "gone" ELSE life[u]
      <3> TAKE u \in Uploads
      <3>1. CASE \E j \in Ids : Exists(j) /\ batches[j].upload = u
        <4>1. PICK j \in Ids : Exists(j) /\ batches[j].upload = u
          BY <3>1
        <4>2. Exists(j)' /\ batches'[j] = batches[j] /\ u # n
          BY <1>3, <1>6, <4>1 DEF Exists
        <4>3. QED
          BY <1>1, <4>1, <4>2 DEF SeenInRow
      <3>2. CASE \A j \in Ids : Exists(j) => batches[j].upload # u
        <4>1. \A j \in Ids : Exists(j)' => batches'[j].upload # u
          BY <1>6, <3>2 DEF Exists
        <4>2. u = n => u <= uploads'
          BY <1>2
        <4>3. QED
          BY <1>1, <1>5, <3>2, <4>1, <4>2 DEF SeenInNone
      <3>3. QED
        BY <3>1, <3>2
    <2>2. owner' = owner /\ life' = [u \in Uploads |-> IF u \in {n} THEN "gone" ELSE life[u]]
      BY <2>1, Functions
    <2>3. Lifecycle!Refuse(n)
      BY <1>2, <1>4, <2>2 DEF Lifecycle!Refuse, Lifecycle!Move
    <2>4. QED
      BY <1>2, <2>3 DEF Lifecycle!Next
  <1>7. CASE batches' = [batches EXCEPT ![i] = Queued(n, a)]
    <2>1. /\ batches'[i] = Queued(n, a)
          /\ \A j \in Ids : j # i => batches'[j] = batches[j]
      BY <1>7 DEF RInv, IInv, TypeOK
    <2>2. /\ Exists(i)' /\ batches'[i].upload = n
          /\ batches'[i].state = "queued" /\ batches'[i].owner = a
      BY <1>2, <2>1, QueuedRow DEF Exists
    <2>3. life'[n] = "queued" /\ owner'[n] = a
      BY <1>1, <2>2 DEF SeenInRow
    <2>4. \A u \in Uploads \ {n} : owner'[u] = owner[u] /\ life'[u] = life[u]
      <3> TAKE u \in Uploads \ {n}
      <3>1. CASE \E j \in Ids : Exists(j) /\ batches[j].upload = u
        <4>1. PICK j \in Ids : Exists(j) /\ batches[j].upload = u
          BY <3>1
        <4>2. Exists(j)' /\ batches'[j] = batches[j]
          BY <1>2, <2>1, <4>1 DEF Exists
        <4>3. QED
          BY <1>1, <4>1, <4>2 DEF SeenInRow
      <3>2. CASE \A j \in Ids : Exists(j) => batches[j].upload # u
        <4>1. \A j \in Ids : Exists(j)' => batches'[j].upload # u
          BY <2>1, <2>2, <3>2 DEF Exists
        <4>2. QED
          BY <1>1, <1>5, <3>2, <4>1 DEF SeenInNone
      <3>3. QED
        BY <3>1, <3>2
    <2>5. /\ owner' = [owner EXCEPT ![n] = a]
          /\ life' = [u \in Uploads |-> IF u \in {n} THEN "queued" ELSE life[u]]
      BY <1>2, <2>3, <2>4, Functions
    <2>6. Lifecycle!Submit(n, a)
      BY <1>2, <1>4, <2>5 DEF Lifecycle!Submit, Lifecycle!Move
    <2>7. QED
      BY <1>2, <2>6 DEF Lifecycle!Next
  <1>8. QED
    BY <1>6, <1>7 DEF Upload

LEMMA ApplyMoves ==
    ASSUME RInv, NEW i \in Ids, Apply(i)
    PROVE  Moved({i}, "applied") /\ batches[i].state = "review"
  <1>1. batches[i] \in Batch /\ batches' = [batches EXCEPT ![i] = Applied(batches[i])]
    BY DEF RInv, IInv, TypeOK, Apply
  <1>2. RowIs(batches[i], batches'[i], "applied", "none")
    BY <1>1, AppliedRow DEF RInv, IInv, TypeOK
  <1>3. \A j \in Ids \ {i} : batches'[j] = batches[j]
    BY <1>1 DEF RInv, IInv, TypeOK
  <1>4. QED
    BY <1>2, <1>3 DEF Moved, Apply, AwaitsReview, Exists, RowIs

LEMMA ApplyMaps ==
    ASSUME RInv, RInv', NEW i \in Ids, Apply(i)
    PROVE  Lifecycle!Next
  <1> DEFINE u == batches[i].upload
  <1>1. Moved({i}, "applied") /\ batches[i].state = "review" /\ "applied" \in States
    BY ApplyMoves DEF States
  <1>2. /\ UploadsOf({i}) = {u} /\ UploadsOf({i}) \in SUBSET Uploads /\ owner' = owner
        /\ life[u] = "review"
        /\ life' = [v \in Uploads |-> IF v \in UploadsOf({i}) THEN "applied" ELSE life[v]]
    BY <1>1, MovedMaps DEF UploadsOf
  <1>3. proposals[i] = u
    BY <1>1 DEF RInv, IInv, RowOK
  <1>4. published' = [published EXCEPT ![u] = @ + 1] /\ accounts' = accounts
    BY <1>3 DEF Apply
  <1>5. Lifecycle!Apply(u)
    BY <1>2, <1>4 DEF Lifecycle!Apply, Lifecycle!Move
  <1>6. QED
    BY <1>2, <1>5 DEF Lifecycle!Next

---------------------------------------------------------------------------
(***************************************************************************)
(* The edges of the lifecycle.                                             *)
(***************************************************************************)

\* The rows R, maybe none, go along an edge; only some edges take several at once.
Goes(R, from, to) ==
    /\ Moved(R, to) /\ published' = published
    /\ \A j \in R : batches[j].state = from
    /\ \/ R = {}
       \/ <<from, to>> \in {<<"extracting", "queued">>, <<"failed", "expired">>}
       \/ /\ \E j \in Ids : R = {j}
          /\ <<from, to>> \in {<<"queued", "extracting">>, <<"extracting", "review">>,
                               <<"extracting", "failed">>, <<"failed", "queued">>}

LEMMA GoesMaps ==
    ASSUME RInv, RInv', NEW R \in SUBSET Ids, NEW from \in States, NEW to \in States,
           Goes(R, from, to)
    PROVE  Lifecycle!Next \/ UNCHANGED Lifecycle!vars
  <1> DEFINE S == UploadsOf(R)
  <1>1. /\ S \in SUBSET Uploads /\ owner' = owner /\ accounts' = accounts
        /\ published' = published
        /\ life' = [u \in Uploads |-> IF u \in S THEN to ELSE life[u]]
    BY MovedMaps DEF Goes, Moved
  <1>2. \A u \in S : life[u] = from
    BY MovedMaps DEF Goes, UploadsOf
  <1>3. CASE R = {}
    <2>1. S = {}
      BY <1>3 DEF UploadsOf
    <2>2. life' = life
      BY <1>1, <2>1, Functions
    <2>3. QED
      BY <1>1, <2>2 DEF Lifecycle!vars
  <1>4. CASE R # {} /\ <<from, to>> \in {<<"extracting", "queued">>, <<"failed", "expired">>}
    <2>1. S # {}
      BY <1>4 DEF UploadsOf
    <2>2. Lifecycle!Progress(S)
      BY <1>1, <1>2, <1>4, <2>1 DEF Lifecycle!Progress, Lifecycle!Move
    <2>3. QED
      BY <1>1, <2>2 DEF Lifecycle!Next
  <1>5. CASE /\ \E j \in Ids : R = {j}
             /\ <<from, to>> \in {<<"queued", "extracting">>, <<"extracting", "review">>,
                                  <<"extracting", "failed">>, <<"failed", "queued">>}
    <2>1. PICK j \in Ids : R = {j}
      BY <1>5
    <2>2. S = {batches[j].upload} /\ batches[j].upload \in Uploads
      BY <1>1, <2>1 DEF UploadsOf
    <2>3. PICK u \in Uploads : S = {u}
      BY <2>2
    <2> HIDE DEF S
    <2>4. Lifecycle!Move({u}, {from}, to)
      BY <1>1, <1>2, <2>3 DEF Lifecycle!Move
    <2>5. CASE from = "failed"
      <3>1. Lifecycle!Retry(u)
        BY <1>1, <1>5, <2>4, <2>5 DEF Lifecycle!Retry
      <3>2. QED
        BY <2>3, <3>1 DEF Lifecycle!Next
    <2>6. CASE from # "failed"
      <3>1. Lifecycle!Progress({u})
        BY <1>1, <1>5, <2>4, <2>6 DEF Lifecycle!Progress
      <3>2. QED
        BY <1>1, <2>3, <3>1 DEF Lifecycle!Next
    <2>7. QED
      BY <2>5, <2>6
  <1>6. QED
    BY <1>3, <1>4, <1>5 DEF Goes

Moves == \E R \in SUBSET Ids : \E from, to \in States : Goes(R, from, to)

LEMMA NothingMoves ==
    ASSUME UNCHANGED <<batches, uploads, accounts, published>> PROVE Moves
  <1>1. Goes({}, "queued", "queued") /\ "queued" \in States
    BY DEF Goes, Moved, States
  <1>2. QED
    BY <1>1 DEF Moves

\* One row goes, by an update of which RowIs is known.
LEMMA OneMoves ==
    ASSUME RInv, NEW i \in Ids, Exists(i), NEW b,
           batches' = [batches EXCEPT ![i] = b],
           UNCHANGED <<uploads, accounts, published>>,
           NEW l, NEW to, RowIs(batches[i], b, to, l),
           <<batches[i].state, to>> \in
             {<<"queued", "extracting">>, <<"extracting", "review">>,
              <<"extracting", "failed">>, <<"extracting", "queued">>, <<"failed", "queued">>}
    PROVE  Moves
  <1>1. /\ batches'[i] = b /\ \A j \in Ids \ {i} : batches'[j] = batches[j]
        /\ batches[i].state \in States /\ to \in States
    BY DEF RInv, IInv, TypeOK, States
  <1>2. Moved({i}, to)
    BY <1>1 DEF Moved, RowIs
  <1>3. Goes({i}, batches[i].state, to)
    BY <1>2 DEF Goes
  <1>4. QED
    BY <1>1, <1>3 DEF Moves

\* Several rows go, each by the same kind of update.
LEMMA SeveralMove ==
    ASSUME RInv, NEW R \in SUBSET Ids, \A j \in R : Exists(j),
           \A j \in Ids \ R : batches'[j] = batches[j],
           UNCHANGED <<uploads, accounts, published>>, NEW from, NEW to,
           \A j \in R : batches[j].state = from /\ RowIs(batches[j], batches'[j], to, "none"),
           <<from, to>> \in {<<"extracting", "queued">>, <<"failed", "expired">>}
    PROVE  Moves
  <1>1. Moved(R, to) /\ from \in States /\ to \in States
    BY DEF Moved, RowIs, States
  <1>2. Goes(R, from, to)
    BY <1>1 DEF Goes
  <1>3. QED
    BY <1>1, <1>2 DEF Moves

\* Only a lease changes.
LEMMA LeaseMoves ==
    ASSUME RInv, NEW i \in Ids, Exists(i), NEW l \in {"live", "lapsed"},
           batches' = [batches EXCEPT ![i] = [@ EXCEPT !.lease = l]],
           UNCHANGED <<uploads, accounts, published>>
    PROVE  Moves
  <1>1. batches[i] \in Batch /\ batches'[i] = [batches[i] EXCEPT !.lease = l]
        /\ \A j \in Ids \ {i} : batches'[j] = batches[j]
    BY DEF RInv, IInv, TypeOK
  <1>2. RowIs(batches[i], batches'[i], batches[i].state, l)
    BY <1>1, LeaseRow
  <1>3. Goes({}, "queued", "queued") /\ "queued" \in States
    BY <1>1, <1>2 DEF Goes, Moved, States, RowIs
  <1>4. QED
    BY <1>3 DEF Moves

LEMMA Steps ==
    ASSUME RInv, [Next]_vars
    PROVE  \/ \E a \in Admins, i \in Ids, killed \in BOOLEAN : Upload(a, i, killed)
           \/ \E i \in Ids : Apply(i)
           \/ \E i \in Ids, killed \in BOOLEAN : Delete(i, killed)
           \/ \E a \in Admins : DeleteAccount(a)
           \/ Moves
  <1>0. TypeOK /\ \A j \in Ids : batches[j] \in Batch
    BY DEF RInv, IInv, TypeOK
  <1>1. CASE \/ Boot \/ NothingToClaim \/ PollIntervalEnds \/ ProcessEnds
             \/ WorkerDies \/ (\E i \in Ids : SourcesAge(i)) \/ UNCHANGED vars
    BY <1>1, NothingMoves DEF Boot, NothingToClaim, PollIntervalEnds, ProcessEnds,
                              WorkerDies, SourcesAge, vars
  <1>2. CASE StartRecovers
    <2> DEFINE R == {j \in Ids : batches[j].state = "extracting" /\ batches[j].lease = "lapsed"}
    <2>1. \A j \in R : /\ Exists(j) /\ batches[j].state = "extracting"
                       /\ batches'[j] = Recovered(batches[j])
      BY <1>2 DEF StartRecovers, recover_expired_catalog_import_leases, Exists
    <2>2. \A j \in R : RowIs(batches[j], batches'[j], "queued", "none")
      BY <1>0, <2>1, RecoveredRow
    <2>3. (\A j \in Ids \ R : batches'[j] = batches[j])
          /\ UNCHANGED <<uploads, accounts, published>>
      BY <1>2 DEF StartRecovers, recover_expired_catalog_import_leases
    <2> HIDE DEF R
    <2>4. R \in SUBSET Ids
      BY DEF R
    <2>5. QED
      BY <2>1, <2>2, <2>3, <2>4, SeveralMove
  <1>3. ASSUME NEW killed \in BOOLEAN, Clean(killed) PROVE Moves
    <2>1. UNCHANGED <<uploads, accounts, published>>
      BY <1>3 DEF Clean
    <2>2. CASE killed
      BY <1>3, <2>1, <2>2, NothingMoves DEF Clean
    <2>3. CASE ~killed
      <3> DEFINE R == {j \in Ids : j \in Sweepable /\ batches[j].state = "failed"}
      <3>1. \A j \in R : /\ Exists(j) /\ batches[j].state = "failed"
                         /\ batches'[j] = Expired(batches[j])
        BY <1>3, <2>3 DEF Clean, ExpireFailed, Exists
      <3>2. \A j \in R : RowIs(batches[j], batches'[j], "expired", "none")
        BY <1>0, <3>1, ExpiredRow
      <3>3. \A j \in Ids \ R : batches'[j] = batches[j]
        BY <1>3, <2>3 DEF Clean, ExpireFailed
      <3> HIDE DEF R
      <3>4. R \in SUBSET Ids
        BY DEF R
      <3>5. QED
        BY <2>1, <3>1, <3>2, <3>3, <3>4, SeveralMove
    <2>4. QED
      BY <2>2, <2>3
  <1>4. ASSUME NEW i \in Ids, Claim(i) PROVE Moves
    <2>1. batches[i].state = "queued" /\ Exists(i)
      BY <1>4 DEF Claim, OldestQueued, Exists
    <2>2. batches' = [batches EXCEPT ![i] = Claimed(batches[i])]
          /\ UNCHANGED <<uploads, accounts, published>>
      BY <1>4 DEF Claim
    <2>3. QED
      BY <1>0, <2>1, <2>2, ClaimedRow, OneMoves
  <1>5. CASE Heartbeat
    <2>1. run.id \in Ids /\ Exists(run.id)
      BY <1>0, <1>5, RunningRow DEF Heartbeat, Exists
    <2>2. batches' = [batches EXCEPT ![run.id] = [@ EXCEPT !.lease = "live"]]
          /\ UNCHANGED <<uploads, accounts, published>>
      BY <1>5 DEF Heartbeat
    <2>3. QED
      BY <2>1, <2>2, LeaseMoves
  <1>6. ASSUME NEW killed \in BOOLEAN, ExtractionReturns(killed) PROVE Moves
    <2>1. run.id \in Ids /\ UNCHANGED <<uploads, accounts, published>>
      BY <1>0, <1>6, RunningRow DEF ExtractionReturns
    <2>2. CASE StillExtracting(run.id)
      <3>1. batches[run.id].state = "extracting" /\ Exists(run.id)
            /\ batches' = [batches EXCEPT ![run.id] = Reviewable(batches[run.id])]
        BY <1>6, <2>2 DEF ExtractionReturns, StillExtracting, Exists
      <3>2. QED
        BY <1>0, <2>1, <3>1, ReviewableRow, OneMoves
    <2>3. CASE ~StillExtracting(run.id)
      BY <1>6, <2>1, <2>3, NothingMoves DEF ExtractionReturns
    <2>4. QED
      BY <2>2, <2>3
  <1>7. ASSUME NEW kind \in {"transient", "permanent"}, ExtractionFails(kind) PROVE Moves
    <2>1. run.id \in Ids /\ UNCHANGED <<uploads, accounts, published>>
      BY <1>0, <1>7, RunningRow DEF ExtractionFails
    <2>2. CASE StillExtracting(run.id)
      <3>1. batches[run.id].state = "extracting" /\ Exists(run.id)
            /\ batches' = [batches EXCEPT ![run.id] = Failed(batches[run.id], kind)]
        BY <1>7, <2>2 DEF ExtractionFails, StillExtracting, Exists
      <3>2. PICK s \in {"failed", "queued"} :
              RowIs(batches[run.id], Failed(batches[run.id], kind), s, "none")
        BY <1>0, <2>1, FailedRow
      <3>3. QED
        BY <2>1, <3>1, <3>2, OneMoves
    <2>3. CASE ~StillExtracting(run.id)
      BY <1>7, <2>1, <2>3, NothingMoves DEF ExtractionFails
    <2>4. QED
      BY <2>2, <2>3
  <1>8. ASSUME NEW i \in Ids, Retry(i) PROVE Moves
    <2>1. batches[i].state = "failed" /\ Exists(i)
          /\ batches' = [batches EXCEPT ![i] = Retried(batches[i])]
          /\ UNCHANGED <<uploads, accounts, published>>
      BY <1>8 DEF Retry, Exists
    <2>2. QED
      BY <1>0, <2>1, RetriedRow, OneMoves
  <1>9. ASSUME NEW i \in Ids, LeaseLapses(i) PROVE Moves
    <2>1. Exists(i)
      BY <1>9 DEF LeaseLapses, RInv, AbsentOK, Absent
    <2>2. batches' = [batches EXCEPT ![i] = [@ EXCEPT !.lease = "lapsed"]]
          /\ UNCHANGED <<uploads, accounts, published>>
      BY <1>9 DEF LeaseLapses
    <2>3. QED
      BY <2>1, <2>2, LeaseMoves
  <1>10. QED
    BY <1>1, <1>2, <1>3, <1>4, <1>5, <1>6, <1>7, <1>8, <1>9
       DEF Next, Startup, Worker, Routes, Environment

---------------------------------------------------------------------------
(***************************************************************************)
(* The refinement.                                                         *)
(***************************************************************************)

LEMMA InitRInv == Init => RInv
  BY InitIInv DEF RInv, AbsentOK, Init

LEMMA RInvStep == RInv /\ [Next]_vars => RInv'
  <1> SUFFICES ASSUME RInv, [Next]_vars PROVE AbsentOK'
    BY IInvStep DEF RInv
  <1>0. AbsentOK /\ batches \in [Ids -> Batch]
    BY DEF RInv, IInv, TypeOK
  <1>1. ASSUME NEW a \in Admins, NEW i \in Ids, NEW killed \in BOOLEAN, Upload(a, i, killed)
        PROVE  AbsentOK'
    <2>1. CASE batches' = batches
      BY <1>0, <2>1 DEF AbsentOK, Exists
    <2>2. CASE batches' = [batches EXCEPT ![i] = Queued(uploads + 1, a)]
      <3>1. Queued(uploads + 1, a).state = "queued"
        BY DEF Queued, Absent
      <3>2. QED
        BY <1>0, <2>2, <3>1 DEF AbsentOK, Exists
    <2>3. QED
      BY <1>1, <2>1, <2>2 DEF Upload
  <1>2. ASSUME NEW i \in Ids, Apply(i) PROVE AbsentOK'
    <2>1. Moved({i}, "applied") /\ "applied" \in States
      BY <1>2, ApplyMoves DEF States
    <2>2. QED
      BY <1>0, <2>1, MovedKeeps
  <1>3. ASSUME NEW S, DeleteRows(S) PROVE AbsentOK'
    BY <1>0, <1>3 DEF AbsentOK, DeleteRows, Exists
  <1>4. CASE Moves
    BY <1>0, <1>4, MovedKeeps DEF Moves, Goes
  <1>5. QED
    BY <1>1, <1>2, <1>3, <1>4, Steps DEF Delete, DeleteAccount

LEMMA InitMaps == Init => Lifecycle!Init
  <1> SUFFICES ASSUME Init PROVE Lifecycle!Init
    OBVIOUS
  <1>1. \A u \in Uploads : RowsOf(u) = {} /\ ~(u <= uploads)
    BY DEF Init, RowsOf, Absent, None, Uploads
  <1>2. /\ life = [u \in Uploads |-> "new"]
        /\ owner = [u \in Uploads |-> NoAdmin]
    BY <1>1 DEF life, owner
  <1>3. QED
    BY <1>2 DEF Init, Lifecycle!Init

LEMMA StepMaps == RInv /\ RInv' /\ [Next]_vars => [Lifecycle!Next]_(Lifecycle!vars)
  <1> SUFFICES ASSUME RInv, RInv', [Next]_vars
               PROVE  Lifecycle!Next \/ UNCHANGED Lifecycle!vars
    OBVIOUS
  <1>1. CASE Moves
    BY <1>1, GoesMaps DEF Moves
  <1>2. QED
    BY <1>1, Steps, UploadMaps, ApplyMaps, DeleteMaps, DeleteAccountMaps

\* The queue keeps its documented lifecycle for every upload: an upload moves along
\* the edges of _ALLOWED_TRANSITIONS, one extraction starts at a time, an account
\* takes its own batches along and no others, and prices are published in the very
\* step that makes the upload `applied` (catalog_imports.py:25-40, :224).
THEOREM Refinement == Spec => RefinesLifecycle
  <1>1. Spec => []RInv
    BY InitRInv, RInvStep, PTL DEF Spec
  <1>2. QED
    BY <1>1, InitMaps, StepMaps, PTL DEF Spec, RefinesLifecycle, Lifecycle!Spec

=============================================================================
