-------------------------- MODULE BottleWorkflow --------------------------
(***************************************************************************)
(* Bottles, the add-bottle pipeline, the edit, re-analysis and delete      *)
(* routes, and the attribution that each of them may write.                *)
(*                                                                         *)
(* A worker is a pipeline (one per bottle added) or a re-analysis request. *)
(* It has one ORM session over several awaits of providers. Between two    *)
(* awaits nothing else runs, so an action is one such stretch, and commits *)
(* inside a stretch show only their last stage. A session keeps the columns *)
(* as it loaded them (expire_on_commit is off) and an UPDATE writes those  *)
(* that differ from what it loaded; the provenance row is read at its first *)
(* use, INSERTed when the session saw none, and UNIQUE per bottle.         *)
(*                                                                         *)
(* SQLite has one writer. A session writes from its first flush to its     *)
(* commit, over the awaits between them. Another handler that needs the    *)
(* lock waits out busy_timeout on the event loop, where the holder cannot  *)
(* go on either, and gets "database is locked".                            *)
(*                                                                         *)
(* The value of a field is named by who it came from. mash_bill stands for *)
(* both attribution fields: distilled_by is handled alike and first. The   *)
(* stage "enriching" is left in the stretch that enters it.                *)
(*                                                                         *)
(* A definition that stands directly above the one it varies, with no      *)
(* comment of its own, is a wrong version of it: the properties below are  *)
(* seen to fail when it takes the other's place.                           *)
(***************************************************************************)
EXTENDS Naturals, FiniteSets

CONSTANTS
    Requests,       \* re-analysis requests that may be in flight
    Nobody,         \* holder of a free write lock
    MaxId,          \* bound on row ids
    MaxBottles,     \* bound on bottles added
    MaxForms,       \* bound on forms the user submits
    MaxStops,       \* bound on process ends
    PriceIndex      \* is a Qdrant price index configured?

ASSUME WorkflowAssumption ==
    /\ MaxId \in Nat /\ MaxBottles \in Nat /\ MaxForms \in Nat /\ MaxStops \in Nat
    /\ PriceIndex \in BOOLEAN
    /\ Requests \cap (1..MaxBottles) = {}
    /\ Nobody \notin Requests \cup (1..MaxBottles)

VARIABLES
    bottles,    \* bottles, by row id, each with its provenance row
    facts,      \* product_attribution_facts: what is cached of the product
    sessions,   \* per worker
    lock,       \* the worker whose transaction has written
    up,         \* is the process running?
    added, forms, stops,
    stranded    \* bottles whose pipeline ended without being able to say so

vars == <<bottles, facts, sessions, lock, up, added, forms, stops, stranded>>

---------------------------------------------------------------------------
Ids == 1..MaxId
Pipelines == 1..MaxBottles
Workers == Pipelines \cup Requests

Stages == {"queued", "analyzing", "attributing", "pricing", "complete", "failed"}
IN_PROGRESS_STAGES == {"queued", "analyzing", "attributing", "pricing"}

Origins == {"blank", "label", "catalog", "web", "user"}
Dates == {"blank", "photo", "user"}
Authorities == {"none", "provider_recall", "verified_catalog", "grounded_web",
                "user_entered"}
Outcomes == {"resolved", "no_evidence"}

Bottle == [stage : Stages \cup {"absent"}, of : 0..MaxBottles,
           mash : Origins, date : Dates, by : Authorities]
Absent == [stage |-> "absent", of |-> 0,
           mash |-> "blank", date |-> "blank", by |-> "none"]

\* What a session holds of its row; the provenance may not be read yet. A column
\* that was flushed and not committed is `written`, whatever was loaded.
Columns == [mash : Origins \cup {"written"}, date : Dates \cup {"written"},
            by : Authorities \cup {"unread", "written"}]
Blank == [mash |-> "blank", date |-> "blank", by |-> "unread"]

\* The awaits: of the response being sent, the vision or name model, the
\* grounded search, the price search, and the last one before the commit (the
\* index, or the photo of a form).
Awaits == {"scheduled", "analyzing", "searching", "pricing", "finishing"}
Sessions == [at : Awaits \cup {"gone"}, id : 0..MaxId, asks : BOOLEAN,
             found : Outcomes \cup {"none"}, loaded : Columns, now : Columns]
Gone == [at |-> "gone", id |-> 0, asks |-> FALSE, found |-> "none",
         loaded |-> Blank, now |-> Blank]

Exists(i) == bottles[i].stage # "absent"
Live(w) == sessions[w].at # "gone"
At(w, await) == up /\ sessions[w].at = await

Init ==
    /\ bottles = [i \in Ids |-> Absent]
    /\ facts = "none"
    /\ sessions = [w \in Workers |-> Gone]
    /\ lock = Nobody
    /\ up = TRUE
    /\ added = 0 /\ forms = 0 /\ stops = 0
    /\ stranded = {}

---------------------------------------------------------------------------
(***************************************************************************)
(* The session.                                                            *)
(***************************************************************************)

MayWrite(w) == lock \in {w, Nobody}

Column(held, loaded, now) == IF now # loaded THEN now ELSE held
Merged(b, s) ==
    [b EXCEPT !.mash = Column(@, s.loaded.mash, s.now.mash),
              !.date = Column(@, s.loaded.date, s.now.date),
              !.by = Column(@, s.loaded.by, s.now.by)]

\* An INSERT meets a provenance row, or an UPDATE finds none.
SecondRowAllowed(s) == FALSE
Conflicts(s) ==
    /\ s.now.by # s.loaded.by /\ s.loaded.by # "written"
    /\ (s.loaded.by = "none") # (bottles[s.id].by = "none")

\* The UPDATE finds its row, and the INSERT no other.
Flushes(s) == Exists(s.id) /\ ~Conflicts(s)

Written(loaded, now) == IF now = loaded THEN loaded ELSE "written"
Flushed(s) ==
    [s EXCEPT !.loaded = [mash |-> Written(@.mash, s.now.mash),
                          date |-> Written(@.date, s.now.date),
                          by   |-> Written(@.by, s.now.by)]]

Found(s) == IF s.found = "none" THEN facts ELSE s.found

\* The lazy load of attribution_provenance.
Reading(s) ==
    LET by == bottles[s.id].by
    IN IF s.now.by # "unread" THEN s
       ELSE [s EXCEPT !.loaded.by = by, !.now.by = by]

Ends(w) == sessions' = [sessions EXCEPT ![w] = Gone]
KeepsLock(w) == lock
Released(w) == IF lock = w THEN Nobody ELSE lock

\* The catch-all of the pipeline: another session marks whatever row has the
\* id, unless somebody else holds the lock.
OnlyLogs(u) == UNCHANGED <<bottles, stranded>>
MarksFailed(u) ==
    LET i == sessions[u].id IN
    IF MayWrite(u)
    THEN /\ bottles' = IF Exists(i) THEN [bottles EXCEPT ![i].stage = "failed"]
                                    ELSE bottles
         /\ UNCHANGED stranded
    ELSE /\ stranded' = IF Exists(i) THEN stranded \cup {bottles[i].of}
                                     ELSE stranded
         /\ UNCHANGED bottles

\* An exception reaches the worker's outermost frame; what the session had
\* written since its last commit is rolled back.
Raises(w) ==
    /\ Ends(w)
    /\ lock' = Released(w)
    /\ IF w \in Pipelines THEN MarksFailed(w) ELSE UNCHANGED <<bottles, stranded>>
    /\ UNCHANGED facts

StageAt(await) ==
    CASE await = "analyzing" -> "analyzing"
      [] await = "searching" -> "attributing"
      [] await \in {"pricing", "finishing"} -> "pricing"
      [] await = "gone" -> "complete"

\* What a session still looks at: the date until the photo is analyzed, the
\* attribution until it is resolved, and what it has yet to write.
Forget(s, f) ==
    IF s.now[f] = s.loaded[f]
    THEN [s EXCEPT !.loaded[f] = Blank[f], !.now[f] = Blank[f]] ELSE s
Kept(s) ==
    CASE s.at \in {"analyzing", "gone"} -> s
      [] s.at = "searching" -> Forget(s, "date")
      [] s.at \in {"pricing", "finishing"} ->
            Forget(Forget(Forget(s, "date"), "mash"), "by")

\* A pipeline commits s and goes on to `await`. What it then has, `more`, is
\* committed as well unless the search comes first; the lock stays if something
\* has been flushed since.
Commits(u, s, more, await, flushed) ==
    LET then == [s EXCEPT !.at = await, !.found = "none",
                          !.loaded = s.now, !.now = more]
        row  == IF await = "searching" THEN Merged(bottles[s.id], s)
                ELSE Merged(Merged(bottles[s.id], s), then)
    IN IF MayWrite(u) /\ Flushes(s)
       THEN /\ bottles' = [bottles EXCEPT
                             ![s.id] = [row EXCEPT !.stage = StageAt(await)]]
            /\ facts' = Found(s)
            /\ sessions' = [sessions EXCEPT ![u] =
                 IF await = "gone" THEN Gone
                 ELSE Kept(IF await = "searching" THEN then
                           ELSE [then EXCEPT !.loaded = more])]
            /\ lock' = IF flushed THEN u ELSE Nobody
            /\ UNCHANGED stranded
       ELSE Raises(u)

\* w goes on to `await` without a commit: s is flushed if anything of it, other
\* columns included, is to be written; it has `more` after that.
Carries(w, s, more, await, flushed) ==
    /\ s.now # s.loaded \/ s.found # "none" \/ lock = w => flushed
    /\ IF flushed => MayWrite(w) /\ Flushes(s)
       THEN /\ sessions' = [sessions EXCEPT ![w] =
                 Kept([(IF flushed THEN Flushed(s) ELSE s)
                         EXCEPT !.at = await, !.now = more])]
            /\ lock' = IF flushed THEN w ELSE lock
            /\ UNCHANGED <<bottles, facts, stranded>>
       ELSE Raises(w)

\* The one commit of a request, at its end.
CommitsAll(r, s, more) ==
    IF MayWrite(r) /\ Flushes(s)
    THEN /\ bottles' = [bottles EXCEPT
                          ![s.id] = Merged(@, [Flushed(s) EXCEPT !.now = more])]
         /\ facts' = Found(s)
         /\ Ends(r)
         /\ lock' = Nobody
         /\ UNCHANGED stranded
    ELSE Raises(r)

\* From s and then `more` to `await`, or to the end.
Goes(w, s, more, await, flushed) ==
    CASE w \in Pipelines -> Commits(w, s, more, await, flushed)
      [] w \in Requests /\ await = "gone" -> CommitsAll(w, s, more)
      [] w \in Requests /\ await # "gone" ->
            \E touched \in BOOLEAN :
                Carries(w, s, more, await, flushed \/ touched)

---------------------------------------------------------------------------
(***************************************************************************)
(* Authority rules.                                                        *)
(***************************************************************************)

\* apply_analysis and the stamp that follows it: c takes value v, unless its
\* own is verified, and `authority` with it when the value changed.
apply_analysis(c, v, authority) ==
    IF v = "blank" \/ c.by = "verified_catalog" \/ c.mash = v THEN c
    ELSE [c EXCEPT !.mash = v, !.by = authority]

PhotoDateWins(c, d) ==
    IF d # "blank" THEN [c EXCEPT !.date = d] ELSE c
apply_photo_bottled_date(c, d) ==
    IF c.date = "blank" THEN [c EXCEPT !.date = d] ELSE c

AnyUnverified(c) ==
    /\ c.by # "verified_catalog"
    /\ c.mash = "blank" \/ c.by \in {"none", "provider_recall", "user_entered"}
_may_automate(c) ==
    /\ c.by \notin {"user_entered", "verified_catalog"}
    /\ c.mash = "blank" \/ c.by \in {"none", "provider_recall"}

_apply_fact(c, outcome) ==
    CASE ~_may_automate(c) -> c
      [] _may_automate(c) /\ outcome = "resolved" ->
            [c EXCEPT !.mash = "web", !.by = "grounded_web"]
      [] _may_automate(c) /\ outcome = "no_evidence" ->
            IF c.by = "provider_recall"
            THEN [c EXCEPT !.mash = "blank", !.by = "grounded_web"] ELSE c

---------------------------------------------------------------------------
(***************************************************************************)
(* What every worker does.                                                 *)
(***************************************************************************)

\* What a model said of a photo or a name, with the values of the verified
\* product it names or shows merged in where it had none; and whether the
\* bottle has a name to go on with, one of a verified product.
Answers ==
    {a \in [verified : BOOLEAN, mash : {"blank", "label", "catalog"},
            date : {"blank", "photo"}, named : BOOLEAN, byName : BOOLEAN] :
        /\ a.verified => a.named /\ a.mash # "blank"
        /\ a.mash = "catalog" => a.verified
        /\ a.byName => a.named}

\* Only the route tells a verified answer from the model's recall.
StatusAsAuthority(w, a) ==
    IF w \in Requests /\ a.verified THEN "verified" ELSE "provider_recall"
Stamp(w, a) ==
    IF w \in Requests /\ a.verified THEN "verified_catalog" ELSE "provider_recall"

\* The checkbox that clears the date also keeps the photo's from coming back.
Cleared(s) == s.now.date = "blank" /\ s.loaded.date # "blank"

\* The photo's date, the analysis, then the enrichment by name.
Analysis(w, s, a) ==
    LET dated    == IF Cleared(s) THEN s.now
                    ELSE apply_photo_bottled_date(s.now, a.date)
        analyzed == apply_analysis(dated, a.mash, Stamp(w, a))
    IN IF a.byName THEN apply_analysis(analyzed, "catalog", "verified_catalog")
       ELSE analyzed

\* Prices: from the cache, or from the user with no index to tell; by a search;
\* or flushed, with the index still to be told.
AfterResolve == {"gone", "pricing"} \cup (IF PriceIndex THEN {"finishing"} ELSE {})

\* The answer arrives. resolve_attributions then uses cached facts, and asks for
\* the fields that have none: `producer` tells what happens to distilled_by,
\* whose cached fact, once applied, is flushed by the query for the next field.
Analyzed(w, a, producer) ==
    LET s     == Reading(sessions[w])
        after == [s EXCEPT !.now = Analysis(w, s, a)]
        asks  == facts = "none" /\ _may_automate(after.now)
        more  == IF facts = "none" THEN after.now ELSE _apply_fact(after.now, facts)
    IN /\ At(w, "analyzing")
       /\ IF ~a.named
          THEN Goes(w, after, after.now, "gone", FALSE)
          ELSE IF asks \/ producer = "missing"
          THEN Goes(w, [after EXCEPT !.asks = asks], more, "searching",
                    producer = "applied")
          ELSE \E next \in AfterResolve :
                  Goes(w, after, more, next, next = "finishing")
       /\ UNCHANGED <<up, added, forms, stops>>

\* The grounded search ends; "none" is an invalid or missing result.
Searched(w, outcome) ==
    LET s     == [sessions[w] EXCEPT !.asks = FALSE]
        heard == sessions[w].asks /\ outcome # "none"
        after == IF heard THEN [s EXCEPT !.found = outcome,
                                         !.now = _apply_fact(@, outcome)]
                          ELSE s
    IN /\ At(w, "searching")
       /\ \E next \in AfterResolve :
            Goes(w, after, after.now, next, next = "finishing")
       /\ UNCHANGED <<up, added, forms, stops>>

\* The price search ends; a price found is flushed before the index is told.
Priced(w) ==
    LET s == sessions[w] IN
    /\ At(w, "pricing")
    /\ \/ Goes(w, s, s.now, "gone", FALSE)
       \/ PriceIndex /\ Carries(w, s, s.now, "finishing", TRUE)
    /\ UNCHANGED <<up, added, forms, stops>>

Finished(w) ==
    /\ At(w, "finishing")
    /\ Goes(w, sessions[w], sessions[w].now, "gone", FALSE)
    /\ UNCHANGED <<up, added, forms, stops>>

\* A call that was awaited raises.
CallFails(w) ==
    /\ up
    /\ sessions[w].at \in Awaits \ {"scheduled"}
    /\ Raises(w)
    /\ UNCHANGED <<up, added, forms, stops>>

---------------------------------------------------------------------------
(***************************************************************************)
(* The pipeline.                                                           *)
(***************************************************************************)

IsNextRowId(i) ==
    /\ \A j \in Ids : Exists(j) => j < i
    /\ i > 1 => Exists(i - 1)

\* add_bottle: the row is committed, the pipeline runs after the response.
Add(i) ==
    /\ up /\ lock = Nobody
    /\ added < MaxBottles
    /\ IsNextRowId(i)
    /\ added' = added + 1
    /\ bottles' = [bottles EXCEPT
                     ![i] = [Absent EXCEPT !.stage = "queued", !.of = added + 1]]
    /\ sessions' = [sessions EXCEPT
                      ![added + 1] = [Gone EXCEPT !.at = "scheduled", !.id = i]]
    /\ UNCHANGED <<facts, lock, up, forms, stops, stranded>>

Loaded(i) == [mash |-> bottles[i].mash, date |-> bottles[i].date, by |-> "unread"]

Start(u) ==
    LET i == sessions[u].id
        s == [sessions[u] EXCEPT !.loaded = Loaded(i), !.now = Loaded(i)]
    IN /\ At(u, "scheduled")
       /\ IF Exists(i)
          THEN Commits(u, s, s.now, "analyzing", FALSE)
          ELSE Ends(u) /\ UNCHANGED <<bottles, facts, lock, stranded>>
       /\ UNCHANGED <<up, added, forms, stops>>

---------------------------------------------------------------------------
(***************************************************************************)
(* The user.                                                               *)
(***************************************************************************)

\* update_bottle_from_form and apply_user_edits: m and d are what the form
\* shows of the two fields, perhaps from a page that is no longer current.
Filled(c, m, d) ==
    [c EXCEPT !.mash = m, !.date = d,
              !.by = IF m = c.mash THEN @ ELSE "user_entered"]

Entries(c) == {c, "user", "blank"}

Submits == up /\ forms < MaxForms /\ forms' = forms + 1

\* save_bottle.
Edit(i, m, d) ==
    /\ Submits
    /\ lock = Nobody /\ Exists(i)
    /\ bottles' = [bottles EXCEPT ![i] = Filled(@, m, d)]
    /\ UNCHANGED <<facts, sessions, lock, up, added, stops, stranded>>

\* refresh_bottle_analysis up to its first await, or save_bottle up to the
\* reading of a new photo. A user's price is looked up, and a changed
\* attribution compared with its provenance, by queries that flush the form.
Request(r, i, m, d, await) ==
    LET s0 == [Gone EXCEPT !.id = i, !.loaded = Loaded(i), !.now = Loaded(i)]
        s  == IF m = bottles[i].mash THEN s0 ELSE Reading(s0)
        after == [s EXCEPT !.now = Filled(@, m, d)]
    IN /\ Submits
       /\ ~Live(r) /\ Exists(i)
       /\ \E flushed \in BOOLEAN :
            /\ m # bottles[i].mash \/ await = "finishing" => flushed
            /\ flushed => MayWrite(r)
            /\ sessions' = [sessions EXCEPT ![r] =
                 [(IF flushed THEN Flushed(after) ELSE after) EXCEPT !.at = await]]
            /\ lock' = IF flushed THEN r ELSE lock
       /\ UNCHANGED <<bottles, facts, up, added, stops, stranded>>

Delete(i) ==
    /\ Submits
    /\ lock = Nobody /\ Exists(i)
    /\ bottles' = [bottles EXCEPT ![i] = Absent]
    /\ UNCHANGED <<facts, sessions, lock, up, added, stops, stranded>>

---------------------------------------------------------------------------
(***************************************************************************)
(* The process and time.                                                   *)
(***************************************************************************)

\* A fact outlives its TTL and is not used any more.
FactExpires ==
    /\ facts # "none"
    /\ facts' = "none"
    /\ UNCHANGED <<bottles, sessions, lock, up, added, forms, stops, stranded>>

ProcessEnds ==
    /\ up /\ stops < MaxStops
    /\ stops' = stops + 1
    /\ up' = FALSE
    /\ sessions' = [w \in Workers |-> Gone]
    /\ lock' = Nobody
    /\ UNCHANGED <<bottles, facts, added, forms, stranded>>

RecoversStarted ==
    bottles' = [i \in Ids |-> IF bottles[i].stage \in IN_PROGRESS_STAGES \ {"queued"}
                              THEN [bottles[i] EXCEPT !.stage = "failed"]
                              ELSE bottles[i]]
\* Whatever is in progress at start-up was abandoned by the last process.
recover_orphaned_bottle_processing ==
    bottles' = [i \in Ids |-> IF bottles[i].stage \in IN_PROGRESS_STAGES
                              THEN [bottles[i] EXCEPT !.stage = "failed"]
                              ELSE bottles[i]]

\* lifespan: the sweep is committed before the first request is served.
Boot ==
    /\ ~up
    /\ recover_orphaned_bottle_processing
    /\ up' = TRUE
    /\ UNCHANGED <<facts, sessions, lock, added, forms, stops, stranded>>

---------------------------------------------------------------------------
Producer == {"settled", "missing", "applied"}

Answer(w) ==
    \/ \E a \in Answers, producer \in Producer : Analyzed(w, a, producer)
    \/ \E outcome \in Outcomes \cup {"none"} : Searched(w, outcome)
    \/ Priced(w)
    \/ Finished(w)
    \/ CallFails(w)

User ==
    \/ \E i \in Ids : Add(i) \/ Delete(i)
    \/ \E i \in Ids : \E m \in Entries(bottles[i].mash), d \in Entries(bottles[i].date) :
          \/ Edit(i, m, d)
          \/ \E r \in Requests, await \in {"analyzing", "pricing", "finishing"} :
                Request(r, i, m, d, await)

Next ==
    \/ \E u \in Pipelines : Start(u)
    \/ \E w \in Workers : Answer(w)
    \/ User
    \/ FactExpires \/ ProcessEnds \/ Boot

Spec == Init /\ [][Next]_vars

\* The event loop runs every task, every call to a provider has a timeout, and
\* the container is restarted.
Fairness ==
    /\ \A u \in Pipelines : WF_vars(Start(u))
    /\ \A w \in Workers : WF_vars(Answer(w))
    /\ WF_vars(Boot)

FairSpec == Spec /\ Fairness

---------------------------------------------------------------------------
(***************************************************************************)
(* Properties.                                                             *)
(***************************************************************************)

\* Every variable has its type; an authority is one that _may_automate knows.
TypeOK ==
    /\ bottles \in [Ids -> Bottle]
    /\ facts \in Outcomes \cup {"none"}
    /\ sessions \in [Workers -> Sessions]
    /\ lock \in Workers \cup {Nobody}
    /\ up \in BOOLEAN
    /\ added \in 0..MaxBottles /\ forms \in 0..MaxForms /\ stops \in 0..MaxStops
    /\ stranded \subseteq Pipelines

\* Whoever holds the write lock is a live worker between two awaits: no commit,
\* failure or restart leaves the database locked (main.py:655, 771).
LockHasHolder == lock # Nobody => Live(lock)

HasTask(i) == \E u \in Pipelines : Live(u) /\ sessions[u].id = i

\* A row in progress is somebody's work: the pipeline catches every exception
\* and records it as `failed` (bottle_processing.py:68, bottle-workflow.md:70).
InProgressHasTask ==
    up => \A i \in Ids : bottles[i].stage \in IN_PROGRESS_STAGES => HasTask(i)

\* The only pipeline that ends without saying so is one whose last words met the
\* lock of another session: whatever a provider, a deleted row, a provenance
\* conflict or a restart do, the row is finished or `failed`.
StrandedByLockOnly ==
    up => \A i \in Ids : bottles[i].stage \in IN_PROGRESS_STAGES =>
            HasTask(i) \/ bottles[i].of \in stranded

\* The user's first entry for a field stands although a search for the field
\* was under way and found it blank: the provenance row is UNIQUE per bottle
\* and field, so the searcher's INSERT fails with all it had (models.py:176).
FirstEntryStands ==
    [][\A i \in Ids, w \in Workers :
         /\ sessions[w].at = "searching" /\ sessions[w].id = i
         /\ sessions[w].loaded.by = "none"
         /\ bottles[i].by = "user_entered"
         /\ bottles'[i].of = bottles[i].of
         /\ sessions'[w] # sessions[w]
         => bottles'[i].by = "user_entered"]_vars

Automated == {"provider_recall", "grounded_web"}
HandVerified == {"user_entered", "verified_catalog"}

\* The session of w had read an older authority of the row, or written a form.
ReadBefore(w, i) == sessions[w].loaded.by \notin {"none", "unread", bottles[i].by}
\* The analysis of w is under way, or has replaced the entry in its session.
Reanalyzes(w) == At(w, "analyzing") \/ sessions[w].now.by \in Automated

\* Automation takes over a hand-verified field only through a session that had
\* read the row before: neither cached facts nor a later search do. The analysis
\* of a photo replaces a user's entry as well, and never a verified value
\* (product_attributions.py:100, "never replace hand-verified data").
HandVerifiedStands ==
    [][\A i \in Ids :
         /\ bottles[i].by \in HandVerified
         /\ bottles'[i].by \in Automated
         => \E w \in Workers :
              /\ Live(w) /\ sessions[w].id = i
              /\ \/ ReadBefore(w, i)
                 \/ bottles[i].by = "user_entered" /\ Reanalyzes(w)]_vars

\* The session of w found no date when it was read and the photo's is about to
\* come, or has come and is not committed yet.
DatesLate(w) ==
    \/ At(w, "analyzing") /\ sessions[w].loaded.date = "blank"
    \/ sessions[w].now.date = "photo" /\ sessions[w].loaded.date \in {"blank", "written"}

\* A photo's bottling date takes the place of the user's only through a session
\* that found no date in the row, before the user entered it: no session that has
\* read the entry, nor a form that clears it, lets the photo's date in (main.py:510,
\* "user corrections always win").
EnteredDateStands ==
    [][\A i \in Ids :
         /\ bottles[i].date = "user"
         /\ bottles'[i].date = "photo"
         => \E w \in Workers :
              /\ Live(w) /\ sessions[w].id = i /\ sessions'[w] # sessions[w]
              /\ DatesLate(w)]_vars

InProgress(u) ==
    \E i \in Ids : bottles[i].of = u /\ bottles[i].stage \in IN_PROGRESS_STAGES

\* Every bottle added is finished, failed or deleted at last, through any edits,
\* failures of providers and restarts, unless its pipeline was stranded.
EveryBottleSettles ==
    \A u \in Pipelines : InProgress(u) ~> (~InProgress(u) \/ u \in stranded)

=============================================================================
