------------------------ MODULE BottleWorkflowProofs ------------------------
(***************************************************************************)
(* Proofs about BottleWorkflow for any number of bottles, rows, requests,  *)
(* forms and process ends, with a price index and without.                 *)
(***************************************************************************)
EXTENDS BottleWorkflow, TLAPS

\* What a session is about to write: no column is `written` or unread then.
Now == [mash : Origins, date : Dates, by : Authorities \cup {"unread"}]

SessionOK(s) ==
    /\ s \in Sessions /\ s.now \in Now
    /\ s.now.by = "unread" => s.loaded.by = "unread"
    /\ s.at # "gone" => s.id \in Ids

LEMMA GoneOK == SessionOK(Gone) /\ Gone.at = "gone"
  BY WorkflowAssumption DEF SessionOK, Gone, Sessions, Blank, Columns, Now, Awaits, Origins, Dates, Authorities,
         Ids, Outcomes

LEMMA FlushedOK ==
    ASSUME NEW s, SessionOK(s)
    PROVE  SessionOK(Flushed(s)) /\ Flushed(s).at = s.at /\ Flushed(s).id = s.id
           /\ Flushed(s).now = s.now
  <1>1. s.now \in Now /\ s.loaded \in Columns
    BY DEF SessionOK, Sessions
  <1>2. [mash |-> Written(s.loaded.mash, s.now.mash),
         date |-> Written(s.loaded.date, s.now.date),
         by   |-> Written(s.loaded.by, s.now.by)] \in Columns
    BY <1>1 DEF Columns, Written
  <1>3. QED
    BY <1>2 DEF SessionOK, Sessions, Flushed, Written

LEMMA ForgetOK ==
    ASSUME NEW s, SessionOK(s), NEW f \in {"mash", "date", "by"}
    PROVE  SessionOK(Forget(s, f)) /\ Forget(s, f).at = s.at /\ Forget(s, f).id = s.id
  <1>1. s.now \in Now /\ s.loaded \in Columns
    BY DEF SessionOK, Sessions
  <1>2. CASE s.now[f] # s.loaded[f]
    BY <1>2 DEF Forget
  <1>3. CASE f = "mash" /\ s.now[f] = s.loaded[f]
    BY <1>1, <1>3 DEF Forget, SessionOK, Sessions, Columns, Now, Blank, Origins
  <1>4. CASE f = "date" /\ s.now[f] = s.loaded[f]
    BY <1>1, <1>4 DEF Forget, SessionOK, Sessions, Columns, Now, Blank, Dates
  <1>5. CASE f = "by" /\ s.now[f] = s.loaded[f]
    BY <1>1, <1>5 DEF Forget, SessionOK, Sessions, Columns, Now, Blank
  <1>6. QED
    BY <1>2, <1>3, <1>4, <1>5

LEMMA KeptOK ==
    ASSUME NEW s, SessionOK(s), s.at \in Awaits \cup {"gone"}, s.at # "scheduled"
    PROVE  SessionOK(Kept(s)) /\ Kept(s).at = s.at /\ Kept(s).id = s.id
  <1>1. CASE s.at \in {"analyzing", "gone"}
    BY <1>1 DEF Kept
  <1>2. CASE s.at = "searching"
    BY <1>2, ForgetOK DEF Kept
  <1>3. CASE s.at \in {"pricing", "finishing"}
    <2>1. Kept(s) = Forget(Forget(Forget(s, "date"), "mash"), "by")
      BY <1>3 DEF Kept
    <2>2. QED
      BY <2>1, ForgetOK
  <1>4. QED
    BY <1>1, <1>2, <1>3 DEF Awaits

LEMMA MergedOK ==
    ASSUME NEW b \in Bottle, NEW s, SessionOK(s)
    PROVE  Merged(b, s) \in Bottle /\ Merged(b, s).stage = b.stage /\ Merged(b, s).of = b.of
  <1>1. s.now.by # s.loaded.by => s.now.by \in Authorities
    BY DEF SessionOK, Now
  <1>2. s.now.mash \in Origins /\ s.now.date \in Dates
    BY DEF SessionOK, Now
  <1>3. /\ Column(b.mash, s.loaded.mash, s.now.mash) \in Origins
        /\ Column(b.date, s.loaded.date, s.now.date) \in Dates
        /\ Column(b.by, s.loaded.by, s.now.by) \in Authorities
    BY <1>1, <1>2 DEF Column, Bottle
  <1>4. QED
    BY <1>3 DEF Merged, Bottle

---------------------------------------------------------------------------
(***************************************************************************)
(* What a worker may do in one stretch.                                    *)
(***************************************************************************)

Types ==
    /\ bottles \in [Ids -> Bottle]
    /\ \A i \in Ids : Exists(i) => bottles[i].of \in Pipelines
    /\ facts \in Outcomes \cup {"none"}
    /\ sessions \in [Workers -> Sessions] /\ \A w \in Workers : SessionOK(sessions[w])
    /\ lock \in Workers \cup {Nobody}
    /\ up \in BOOLEAN
    /\ added \in 0..MaxBottles /\ forms \in 0..MaxForms /\ stops \in 0..MaxStops
    /\ stranded \subseteq Pipelines

\* It changes its own session and row. A request changes no stage; a pipeline that
\* ends leaves its row finished or itself among the stranded; whoever has the lock
\* goes on.
Works(w) ==
    /\ bottles' \in [Ids -> Bottle] /\ facts' \in Outcomes \cup {"none"}
    /\ lock' \in {lock, w, Nobody}
    /\ lock' = w => sessions'[w].at \notin {"gone", "scheduled"}
    /\ sessions' \in [Workers -> Sessions] /\ SessionOK(sessions'[w])
    /\ \A v \in Workers : v # w => sessions'[v] = sessions[v]
    /\ sessions'[w].at # "gone" => sessions'[w].id = sessions[w].id
    /\ \A j \in Ids :
          /\ bottles'[j].of = bottles[j].of
          /\ j # sessions[w].id \/ w \in Requests => bottles'[j].stage = bottles[j].stage
          /\ bottles'[j].stage = "absent" <=> bottles[j].stage = "absent"
    /\ w \in Pipelines /\ sessions'[w].at = "gone" =>
          \/ bottles'[sessions[w].id].stage \notin IN_PROGRESS_STAGES
          \/ bottles'[sessions[w].id].of \in stranded'
    /\ stranded \subseteq stranded' /\ stranded' \subseteq Pipelines

LEMMA Kinds ==
    /\ \A w \in Workers : w # Nobody /\ (w \in Pipelines <=> w \notin Requests)
    /\ "failed" \notin IN_PROGRESS_STAGES /\ "complete" \notin IN_PROGRESS_STAGES
    /\ "absent" \notin IN_PROGRESS_STAGES
  BY WorkflowAssumption DEF Workers, Pipelines, IN_PROGRESS_STAGES

LEMMA RaisesWorks ==
    ASSUME Types, NEW w \in Workers, Live(w), Raises(w)
    PROVE  Works(w)
  <1> DEFINE i == sessions[w].id
  <1>1. /\ sessions' = [sessions EXCEPT ![w] = Gone] /\ facts' = facts
        /\ lock' = IF lock = w THEN Nobody ELSE lock
    BY DEF Raises, Ends, Released
  <1>2. /\ sessions' \in [Workers -> Sessions] /\ sessions'[w] = Gone
        /\ \A v \in Workers : v # w => sessions'[v] = sessions[v]
    BY <1>1, GoneOK DEF Types, SessionOK
  <1>3. i \in Ids
    BY DEF Types, SessionOK, Live
  <1>4. \A b \in Bottle : /\ [b EXCEPT !.stage = "failed"] \in Bottle
                          /\ [b EXCEPT !.stage = "failed"].stage = "failed"
                          /\ [b EXCEPT !.stage = "failed"].of = b.of
    BY DEF Bottle, Stages
  <1>5. CASE w \in Requests
    <2>1. UNCHANGED <<bottles, stranded>>
      BY <1>5, Kinds DEF Raises
    <2>2. QED
      BY <1>1, <1>2, <1>5, <2>1, GoneOK, Kinds DEF Works, Types
  <1>6. CASE w \in Pipelines /\ MayWrite(w)
    <2>1. bottles' = (IF Exists(i) THEN [bottles EXCEPT ![i].stage = "failed"] ELSE bottles)
          /\ stranded' = stranded
      BY <1>6 DEF Raises, MarksFailed
    <2>2. CASE Exists(i)
      <3>1. /\ bottles' = [bottles EXCEPT ![i] = [bottles[i] EXCEPT !.stage = "failed"]]
            /\ bottles[i] \in Bottle
        BY <1>3, <2>1, <2>2 DEF Types
      <3>2. /\ bottles' \in [Ids -> Bottle] /\ bottles'[i].stage = "failed"
            /\ bottles'[i].of = bottles[i].of
            /\ \A j \in Ids : j # i => bottles'[j] = bottles[j]
        BY <1>3, <1>4, <3>1 DEF Types
      <3>3. QED
        BY <1>1, <1>2, <1>3, <1>6, <2>1, <2>2, <3>2, GoneOK, Kinds DEF Works, Types, Exists
    <2>3. CASE ~Exists(i)
      BY <1>1, <1>2, <1>3, <1>6, <2>1, <2>3, GoneOK, Kinds DEF Works, Types, Exists
    <2>4. QED
      BY <2>2, <2>3
  <1>7. CASE w \in Pipelines /\ ~MayWrite(w)
    <2>1. stranded' = (IF Exists(i) THEN stranded \cup {bottles[i].of} ELSE stranded)
          /\ bottles' = bottles
      BY <1>7 DEF Raises, MarksFailed
    <2>2. QED
      BY <1>1, <1>2, <1>3, <1>7, <2>1, GoneOK, Kinds DEF Works, Types, Exists
  <1>8. QED
    BY <1>5, <1>6, <1>7, Kinds

\* What a worker has in hand, and what it makes of it.
InHand(w, s, more) ==
    /\ SessionOK(s) /\ s.id = sessions[w].id
    /\ more \in Now /\ (more.by = "unread" => s.now.by = "unread")

LEMMA CommitsWorks ==
    ASSUME Types, NEW u \in Pipelines, Live(u), NEW s, NEW more, InHand(u, s, more),
           NEW await \in {"analyzing", "searching", "pricing", "finishing", "gone"},
           NEW flushed \in BOOLEAN, flushed => await # "gone",
           Commits(u, s, more, await, flushed)
    PROVE  Works(u)
  <1> DEFINE i == sessions[u].id
             then == [s EXCEPT !.at = await, !.found = "none",
                               !.loaded = s.now, !.now = more]
             row == IF await = "searching" THEN Merged(bottles[s.id], s)
                    ELSE Merged(Merged(bottles[s.id], s), then)
             next == IF await = "gone" THEN Gone
                     ELSE Kept(IF await = "searching" THEN then
                               ELSE [then EXCEPT !.loaded = more])
  <1>1. u \in Workers /\ i \in Ids /\ s.id = i /\ SessionOK(s)
    BY DEF Workers, Types, SessionOK, Live, InHand
  <1>2. CASE ~(MayWrite(u) /\ Flushes(s))
    BY <1>1, <1>2, RaisesWorks DEF Commits
  <1>3. CASE MayWrite(u) /\ Flushes(s)
    <2>1. /\ bottles' = [bottles EXCEPT ![s.id] = [row EXCEPT !.stage = StageAt(await)]]
          /\ facts' = Found(s) /\ sessions' = [sessions EXCEPT ![u] = next]
          /\ lock' = (IF flushed THEN u ELSE Nobody) /\ stranded' = stranded
          /\ Exists(i)
      BY <1>1, <1>3 DEF Commits, Flushes
    <2>2. SessionOK(then) /\ then.at = await /\ then.id = i
      BY <1>1 DEF SessionOK, Sessions, Now, Columns, InHand, Outcomes, Awaits
    <2>3. LET t == [then EXCEPT !.loaded = more]
          IN  SessionOK(t) /\ t.at = await /\ t.id = i
      <3>1. then \in Sessions /\ then.now = more /\ more \in Now /\ more \in Columns
        BY <2>2 DEF SessionOK, InHand, Now, Columns
      <3> HIDE DEF then
      <3>2. QED
        BY <1>1, <2>2, <3>1 DEF SessionOK, Sessions
    <2> HIDE DEF then
    <2>4. SessionOK(next) /\ next.at = await /\ (await # "gone" => next.id = i)
      BY <2>2, <2>3, KeptOK, GoneOK DEF Awaits
    <2>5. row \in Bottle /\ row.of = bottles[i].of
      <3>1. bottles[i] \in Bottle /\ s.id = i
        BY <1>1 DEF Types
      <3>2. /\ Merged(bottles[i], s) \in Bottle
            /\ Merged(bottles[i], s).of = bottles[i].of
        BY <1>1, <3>1, MergedOK
      <3>3. /\ Merged(Merged(bottles[i], s), then) \in Bottle
            /\ Merged(Merged(bottles[i], s), then).of = bottles[i].of
        BY <2>2, <3>2, MergedOK
      <3>4. QED
        BY <3>1, <3>2, <3>3
    <2> HIDE DEF next, row
    <2>6. StageAt(await) \in Stages /\ (await = "gone" => StageAt(await) = "complete")
      BY DEF StageAt, Stages
    <2>7. LET b == [row EXCEPT !.stage = StageAt(await)]
          IN  b \in Bottle /\ b.of = bottles[i].of /\ b.stage = StageAt(await)
      BY <2>5, <2>6 DEF Bottle
    <2>8. /\ bottles' \in [Ids -> Bottle] /\ bottles'[i].of = bottles[i].of
          /\ bottles'[i].stage = StageAt(await)
          /\ \A j \in Ids : j # i => bottles'[j] = bottles[j]
      BY <1>1, <2>1, <2>7 DEF Types
    <2>9. /\ sessions' \in [Workers -> Sessions] /\ sessions'[u] = next
          /\ \A v \in Workers : v # u => sessions'[v] = sessions[v]
      BY <1>1, <2>1, <2>4 DEF Types, SessionOK
    <2>10. Found(s) \in Outcomes \cup {"none"}
      BY <1>1 DEF Found, Types, SessionOK, Sessions
    <2>11. "absent" \notin Stages /\ bottles[i].stage # "absent"
      BY <2>1 DEF Stages, Exists
    <2>12. QED
      BY <1>1, <2>1, <2>4, <2>6, <2>8, <2>9, <2>10, <2>11, Kinds DEF Works, Types
  <1>4. QED
    BY <1>2, <1>3

LEMMA CarriesWorks ==
    ASSUME Types, NEW w \in Workers, Live(w), NEW s, NEW more, InHand(w, s, more),
           NEW await \in {"searching", "pricing", "finishing"},
           NEW flushed \in BOOLEAN, Carries(w, s, more, await, flushed)
    PROVE  Works(w)
  <1> DEFINE base == IF flushed THEN Flushed(s) ELSE s
             then == [base EXCEPT !.at = await, !.now = more]
  <1>1. SessionOK(s) /\ s.id = sessions[w].id /\ s.id \in Ids
    BY DEF Types, SessionOK, Live, InHand
  <1>2. CASE ~(flushed => MayWrite(w) /\ Flushes(s))
    BY <1>2, RaisesWorks DEF Carries
  <1>3. CASE flushed => MayWrite(w) /\ Flushes(s)
    <2>1. /\ sessions' = [sessions EXCEPT ![w] = Kept(then)]
          /\ lock' = IF flushed THEN w ELSE lock
          /\ bottles' = bottles /\ facts' = facts /\ stranded' = stranded
      BY <1>3 DEF Carries
    <2>2. SessionOK(base) /\ base.id = s.id /\ base.now = s.now
      BY <1>1, FlushedOK
    <2> HIDE DEF base
    <2>3. SessionOK(then) /\ then.at = await /\ then.id = s.id
      <3>1. base \in Sessions /\ more \in Now /\ more \in Columns
            /\ (more.by = "unread" => base.loaded.by = "unread")
        BY <2>2 DEF SessionOK, InHand, Now, Columns
      <3>2. QED
        BY <1>1, <2>2, <3>1 DEF SessionOK, Sessions, Awaits
    <2> HIDE DEF then
    <2>4. SessionOK(Kept(then)) /\ Kept(then).at = await /\ Kept(then).id = s.id
      BY <2>3, KeptOK DEF Awaits
    <2>5. /\ sessions' \in [Workers -> Sessions] /\ sessions'[w] = Kept(then)
          /\ \A v \in Workers : v # w => sessions'[v] = sessions[v]
      BY <2>1, <2>4 DEF Types, SessionOK
    <2>6. lock' = w => sessions'[w].at \notin {"gone", "scheduled"}
      BY <2>4, <2>5
    <2>7. lock' \in {lock, w, Nobody}
      BY <2>1
    <2>8. QED
      BY <1>1, <2>1, <2>4, <2>5, <2>6, <2>7 DEF Works, Types
  <1>4. QED
    BY <1>2, <1>3

LEMMA CommitsAllWorks ==
    ASSUME Types, NEW r \in Requests, Live(r), NEW s, NEW more, InHand(r, s, more),
           CommitsAll(r, s, more)
    PROVE  Works(r)
  <1> DEFINE i == sessions[r].id
             last == [Flushed(s) EXCEPT !.now = more]
  <1>1. r \in Workers /\ SessionOK(s) /\ s.id = i /\ i \in Ids
    BY DEF Workers, Types, SessionOK, Live, InHand
  <1>2. CASE ~(MayWrite(r) /\ Flushes(s))
    BY <1>1, <1>2, RaisesWorks DEF CommitsAll
  <1>3. CASE MayWrite(r) /\ Flushes(s)
    <2>1. /\ bottles' = [bottles EXCEPT ![i] = Merged(bottles[i], last)]
          /\ facts' = Found(s) /\ sessions' = [sessions EXCEPT ![r] = Gone]
          /\ lock' = Nobody /\ stranded' = stranded
      BY <1>1, <1>3 DEF CommitsAll, Ends
    <2>2. SessionOK(last)
      <3>1. SessionOK(Flushed(s)) /\ Flushed(s).now = s.now
        BY <1>1, FlushedOK
      <3>2. Flushed(s) \in Sessions /\ more \in Now /\ more \in Columns
            /\ (more.by = "unread" => Flushed(s).loaded.by = "unread")
        BY <3>1 DEF SessionOK, InHand, Now, Columns
      <3>3. QED
        BY <3>1, <3>2 DEF SessionOK, Sessions
    <2> HIDE DEF last
    <2>3. /\ Merged(bottles[i], last) \in Bottle
          /\ Merged(bottles[i], last).stage = bottles[i].stage
          /\ Merged(bottles[i], last).of = bottles[i].of
      BY <1>1, <2>2, MergedOK DEF Types
    <2>4. /\ bottles' \in [Ids -> Bottle]
          /\ \A j \in Ids : /\ bottles'[j].stage = bottles[j].stage
                            /\ bottles'[j].of = bottles[j].of
      BY <1>1, <2>1, <2>3 DEF Types
    <2>5. /\ sessions' \in [Workers -> Sessions] /\ sessions'[r] = Gone
          /\ \A v \in Workers : v # r => sessions'[v] = sessions[v]
      BY <1>1, <2>1, GoneOK DEF Types, SessionOK
    <2>6. Found(s) \in Outcomes \cup {"none"}
      BY <1>1 DEF Found, Types, SessionOK, Sessions
    <2>7. QED
      BY <1>1, <2>1, <2>4, <2>5, <2>6, GoneOK, Kinds DEF Works, Types
  <1>4. QED
    BY <1>2, <1>3

LEMMA GoesWorks ==
    ASSUME Types, NEW w \in Workers, Live(w), NEW s, NEW more, InHand(w, s, more),
           NEW await \in {"searching", "pricing", "finishing", "gone"},
           NEW flushed \in BOOLEAN, flushed => await # "gone",
           Goes(w, s, more, await, flushed)
    PROVE  Works(w)
  <1>1. CASE w \in Pipelines
    <2>1. Commits(w, s, more, await, flushed)
      BY <1>1, Kinds DEF Goes
    <2>2. QED
      BY <1>1, <2>1, CommitsWorks
  <1>2. CASE w \in Requests /\ await = "gone"
    BY <1>2, Kinds, CommitsAllWorks DEF Goes
  <1>3. CASE w \in Requests /\ await # "gone"
    <2>1. PICK touched \in BOOLEAN : Carries(w, s, more, await, flushed \/ touched)
      BY <1>3, Kinds DEF Goes
    <2>2. (flushed \/ touched) \in BOOLEAN /\ await \in {"searching", "pricing", "finishing"}
      BY <1>3
    <2>3. QED
      BY <2>1, <2>2, CarriesWorks
  <1>4. QED
    BY <1>1, <1>2, <1>3, Kinds

---------------------------------------------------------------------------
(***************************************************************************)
(* The stretches.                                                          *)
(***************************************************************************)

LEMMA ReadingOK ==
    ASSUME Types, NEW s, SessionOK(s), s.id \in Ids
    PROVE  /\ SessionOK(Reading(s)) /\ Reading(s).id = s.id /\ Reading(s).at = s.at
           /\ Reading(s).now.by # "unread"
  <1>1. bottles[s.id].by \in Authorities /\ "unread" \notin Authorities
    BY DEF Types, Bottle, Authorities
  <1>2. CASE s.now.by # "unread"
    BY <1>2 DEF Reading
  <1>3. CASE s.now.by = "unread"
    <2>1. Reading(s) = [s EXCEPT !.loaded.by = bottles[s.id].by, !.now.by = bottles[s.id].by]
      BY <1>3 DEF Reading
    <2>2. s \in Sessions /\ s.loaded \in Columns /\ s.now \in Now /\ s.now \in Columns
      BY DEF SessionOK, Sessions
    <2> DEFINE by == bottles[s.id].by
               loaded == [s.loaded EXCEPT !.by = by]
               now == [s.now EXCEPT !.by = by]
    <2>3. /\ loaded \in Columns /\ loaded.by = by
          /\ now \in Now /\ now \in Columns /\ now.by = by
      BY <1>1, <2>2 DEF Columns, Now
    <2>4. Reading(s) = [s EXCEPT !.loaded = loaded, !.now = now]
      BY <2>1, <2>2 DEF Sessions
    <2> HIDE DEF loaded, now
    <2>5. QED
      BY <1>1, <2>2, <2>3, <2>4 DEF SessionOK, Sessions
  <1>4. QED
    BY <1>2, <1>3

LEMMA AnalysisOK ==
    ASSUME NEW w, NEW s, SessionOK(s), s.now.by # "unread", NEW a \in Answers
    PROVE  Analysis(w, s, a) \in Now /\ Analysis(w, s, a).by # "unread"
  <1> DEFINE Read == {c \in Now : c.by # "unread"}
  <1>1. \A c \in Read, v \in Origins, authority \in Authorities :
          apply_analysis(c, v, authority) \in Read
    BY DEF apply_analysis, Now, Authorities
  <1>2. \A c \in Read, d \in Dates : apply_photo_bottled_date(c, d) \in Read
    BY DEF apply_photo_bottled_date, Now
  <1>3. s.now \in Read /\ a.mash \in Origins /\ a.date \in Dates /\ "catalog" \in Origins
        /\ Stamp(w, a) \in Authorities /\ "verified_catalog" \in Authorities
    BY DEF SessionOK, Answers, Origins, Dates, Stamp, Authorities
  <1> HIDE DEF Read
  <1>4. Analysis(w, s, a) \in Read
    BY <1>1, <1>2, <1>3 DEF Analysis
  <1>5. QED
    BY <1>4 DEF Read

LEMMA FactOK ==
    ASSUME NEW c \in Now, NEW outcome \in Outcomes
    PROVE  /\ _apply_fact(c, outcome) \in Now
           /\ _apply_fact(c, outcome).by = "unread" => c.by = "unread"
  BY DEF _apply_fact, Now, Outcomes, Origins, Authorities

LEMMA NextAwait == AfterResolve \subseteq {"gone", "pricing", "finishing"}
  BY DEF AfterResolve

LEMMA AnalyzedWorks ==
    ASSUME Types, NEW w \in Workers, NEW a \in Answers, NEW producer,
           Analyzed(w, a, producer)
    PROVE  Works(w)
  <1> DEFINE s == Reading(sessions[w])
             now == Analysis(w, s, a)
             after == [s EXCEPT !.now = now]
             asks == facts = "none" /\ _may_automate(now)
             more == IF facts = "none" THEN now ELSE _apply_fact(now, facts)
             asked == [after EXCEPT !.asks = asks]
  <1>1. Live(w) /\ SessionOK(sessions[w]) /\ sessions[w].id \in Ids
    BY DEF Analyzed, At, Live, Types, SessionOK
  <1>2. SessionOK(s) /\ s.id = sessions[w].id /\ s.now.by # "unread"
    BY <1>1, ReadingOK
  <1> HIDE DEF s
  <1>3. now \in Now /\ now.by # "unread"
    BY <1>2, AnalysisOK
  <1> HIDE DEF now
  <1>4. now \in Columns
    BY <1>3 DEF Now, Columns
  <1>5. SessionOK(after) /\ after.id = sessions[w].id /\ after.now = now
    BY <1>2, <1>3, <1>4 DEF SessionOK, Sessions
  <1>6. more \in Now /\ more.by # "unread"
    BY <1>3, FactOK DEF Types
  <1>7. asks \in BOOLEAN
    OBVIOUS
  <1> HIDE DEF after, asks, more
  <1>8. SessionOK(asked) /\ asked.id = sessions[w].id /\ asked.now = now
    BY <1>5, <1>7 DEF SessionOK, Sessions
  <1> HIDE DEF asked
  <1>9. InHand(w, after, now) /\ InHand(w, after, more) /\ InHand(w, asked, more)
    BY <1>3, <1>5, <1>6, <1>8 DEF InHand
  <1>10. \/ Goes(w, after, now, "gone", FALSE)
         \/ Goes(w, asked, more, "searching", producer = "applied")
         \/ \E next \in AfterResolve : Goes(w, after, more, next, next = "finishing")
    <2>1. after.now = now
      BY <1>5
    <2>2. QED
      BY <2>1 DEF Analyzed, s, now, after, asks, more, asked
  <1>11. CASE Goes(w, after, now, "gone", FALSE)
    BY <1>1, <1>9, <1>11, GoesWorks
  <1>12. CASE Goes(w, asked, more, "searching", producer = "applied")
    <2>1. (producer = "applied") \in BOOLEAN
      OBVIOUS
    <2>2. QED
      BY <1>1, <1>9, <1>12, <2>1, GoesWorks
  <1>13. CASE \E next \in AfterResolve : Goes(w, after, more, next, next = "finishing")
    <2>1. PICK next \in AfterResolve : Goes(w, after, more, next, next = "finishing")
      BY <1>13
    <2>2. /\ (next = "finishing") \in BOOLEAN /\ (next = "finishing" => next # "gone")
          /\ next \in {"searching", "pricing", "finishing", "gone"}
      BY NextAwait
    <2>3. QED
      BY <1>1, <1>9, <2>1, <2>2, GoesWorks
  <1>14. QED
    BY <1>10, <1>11, <1>12, <1>13

LEMMA SearchedWorks ==
    ASSUME Types, NEW w \in Workers, NEW outcome \in Outcomes \cup {"none"},
           Searched(w, outcome)
    PROVE  Works(w)
  <1> DEFINE s == [sessions[w] EXCEPT !.asks = FALSE]
             heard == sessions[w].asks /\ outcome # "none"
             fact == _apply_fact(s.now, outcome)
             after == IF heard THEN [s EXCEPT !.found = outcome, !.now = fact] ELSE s
  <1>1. Live(w) /\ SessionOK(sessions[w]) /\ sessions[w].id \in Ids
    BY DEF Searched, At, Live, Types, SessionOK
  <1>2. SessionOK(s) /\ s.id = sessions[w].id
    BY <1>1 DEF SessionOK, Sessions
  <1> HIDE DEF s
  <1>3. heard => /\ outcome \in Outcomes /\ fact \in Now /\ fact \in Columns
                 /\ (fact.by = "unread" => s.loaded.by = "unread")
    <2> SUFFICES ASSUME heard
                 PROVE  /\ outcome \in Outcomes /\ fact \in Now /\ fact \in Columns
                        /\ (fact.by = "unread" => s.loaded.by = "unread")
      OBVIOUS
    <2>1. outcome \in Outcomes /\ s.now \in Now /\ (s.now.by = "unread" => s.loaded.by = "unread")
      BY <1>2 DEF SessionOK
    <2>2. fact \in Now /\ (fact.by = "unread" => s.now.by = "unread")
      BY <2>1, FactOK
    <2>3. QED
      BY <2>1, <2>2 DEF Now, Columns
  <1> HIDE DEF fact
  <1>4. SessionOK(after) /\ after.id = sessions[w].id
    BY <1>2, <1>3 DEF SessionOK, Sessions
  <1>5. PICK next \in AfterResolve : Goes(w, after, after.now, next, next = "finishing")
    BY DEF Searched, s, fact
  <1> HIDE DEF after
  <1>6. InHand(w, after, after.now)
    BY <1>4 DEF InHand, SessionOK
  <1>7. /\ (next = "finishing") \in BOOLEAN /\ (next = "finishing" => next # "gone")
        /\ next \in {"searching", "pricing", "finishing", "gone"}
    BY NextAwait
  <1>8. QED
    BY <1>1, <1>5, <1>6, <1>7, GoesWorks

LEMMA LateWorks ==
    ASSUME Types, NEW w \in Workers, Priced(w) \/ Finished(w) \/ CallFails(w)
    PROVE  Works(w)
  <1>1. Live(w) /\ SessionOK(sessions[w]) /\ InHand(w, sessions[w], sessions[w].now)
    BY DEF Priced, Finished, CallFails, At, Live, Types, SessionOK, InHand, Awaits
  <1>2. CASE CallFails(w)
    BY <1>1, <1>2, RaisesWorks DEF CallFails
  <1>3. CASE Goes(w, sessions[w], sessions[w].now, "gone", FALSE)
    BY <1>1, <1>3, GoesWorks
  <1>4. CASE Carries(w, sessions[w], sessions[w].now, "finishing", TRUE)
    BY <1>1, <1>4, CarriesWorks
  <1>5. QED
    BY <1>2, <1>3, <1>4 DEF Priced, Finished

LEMMA LoadedOK ==
    ASSUME Types, NEW i \in Ids
    PROVE  Loaded(i) \in Now /\ Loaded(i) \in Columns /\ Loaded(i).by = "unread"
  BY DEF Types, Loaded, Bottle, Now, Columns

LEMMA StartWorks ==
    ASSUME Types, NEW u \in Pipelines, lock # u, Start(u)
    PROVE  Works(u)
  <1> DEFINE i == sessions[u].id
             s == [sessions[u] EXCEPT !.loaded = Loaded(i), !.now = Loaded(i)]
  <1>1. u \in Workers /\ Live(u) /\ SessionOK(sessions[u]) /\ i \in Ids
    BY DEF Start, At, Live, Types, SessionOK, Workers
  <1>2. CASE Exists(i)
    <2>1. SessionOK(s) /\ s.id = i
      BY <1>1, LoadedOK DEF SessionOK, Sessions
    <2>2. Commits(u, s, s.now, "analyzing", FALSE)
      BY <1>2 DEF Start
    <2> HIDE DEF s
    <2>3. InHand(u, s, s.now)
      BY <2>1 DEF InHand, SessionOK
    <2>4. QED
      BY <1>1, <2>2, <2>3, CommitsWorks
  <1>3. CASE ~Exists(i)
    <2>1. /\ sessions' = [sessions EXCEPT ![u] = Gone]
          /\ UNCHANGED <<bottles, facts, lock, stranded>>
      BY <1>3 DEF Start, Ends
    <2>2. /\ sessions' \in [Workers -> Sessions] /\ sessions'[u] = Gone
          /\ \A v \in Workers : v # u => sessions'[v] = sessions[v]
      BY <1>1, <2>1, GoneOK DEF Types, SessionOK
    <2>3. QED
      BY <1>1, <1>3, <2>1, <2>2, GoneOK, Kinds DEF Works, Types, Exists
  <1>4. QED
    BY <1>2, <1>3

---------------------------------------------------------------------------
(***************************************************************************)
(* The inductive invariant: whoever has the lock is past its scheduling,   *)
(* and a pipeline that has not been added has no session.                  *)
(***************************************************************************)

HolderWorks == lock # Nobody => sessions[lock].at \notin {"gone", "scheduled"}
AddedOnly == \A u \in Pipelines : Live(u) => u <= added

IInv == Types /\ HolderWorks /\ AddedOnly /\ StrandedByLockOnly

LEMMA WorksKeeps ==
    ASSUME IInv, NEW w \in Workers, Live(w), Works(w), UNCHANGED <<up, added, forms, stops>>
    PROVE  IInv'
  <1>1. Types'
    <2>1. \A v \in Workers : SessionOK(sessions'[v])
      BY DEF IInv, Types, Works
    <2>2. \A j \in Ids : Exists(j)' => bottles'[j].of \in Pipelines
      BY DEF IInv, Types, Works, Exists
    <2>3. lock' \in Workers \cup {Nobody} /\ stranded' \subseteq Pipelines
      BY DEF IInv, Types, Works
    <2>4. (\A v \in Workers : SessionOK(sessions[v]))'
      BY <2>1 DEF SessionOK
    <2>5. QED
      BY <2>2, <2>3, <2>4 DEF IInv, Types, Works
  <1>2. HolderWorks'
    <2>1. CASE lock' = w
      BY <2>1 DEF HolderWorks, Works
    <2>2. CASE lock' # w /\ lock' # Nobody
      <3>1. lock' = lock /\ lock \in Workers /\ lock # w
        BY <2>2 DEF Works, IInv, Types
      <3>2. sessions'[lock] = sessions[lock]
        BY <3>1 DEF Works
      <3>3. QED
        BY <2>2, <3>1, <3>2 DEF HolderWorks, IInv
    <2>3. QED
      BY <2>1, <2>2 DEF HolderWorks
  <1>3. AddedOnly'
    <2> SUFFICES ASSUME NEW u \in Pipelines, Live(u)'
                 PROVE  u <= added
      BY DEF AddedOnly
    <2>1. u \in Workers
      BY DEF Workers
    <2>2. Live(u)
      BY <2>1 DEF Works, Live
    <2>3. QED
      BY <2>2 DEF IInv, AddedOnly
  <1>4. StrandedByLockOnly'
    <2> SUFFICES ASSUME up', NEW j \in Ids, bottles'[j].stage \in IN_PROGRESS_STAGES,
                        bottles'[j].of \notin stranded'
                 PROVE  HasTask(j)'
      BY DEF StrandedByLockOnly
    <2>1. bottles'[j].of = bottles[j].of /\ bottles[j].of \notin stranded
      BY DEF Works
    <2>2. CASE w \in Pipelines /\ j = sessions[w].id
      <3>1. sessions'[w].at # "gone" /\ sessions'[w].id = j
        BY <2>2 DEF Works
      <3>2. QED
        BY <2>2, <3>1 DEF HasTask, Live
    <2>3. CASE ~(w \in Pipelines /\ j = sessions[w].id)
      <3>1. bottles[j].stage \in IN_PROGRESS_STAGES
        BY <2>3, Kinds DEF Works
      <3>2. HasTask(j)
        BY <2>1, <3>1 DEF IInv, StrandedByLockOnly
      <3>3. PICK u \in Pipelines : Live(u) /\ sessions[u].id = j
        BY <3>2 DEF HasTask
      <3>4. u # w /\ u \in Workers
        BY <2>3, <3>3 DEF Workers
      <3>5. sessions'[u] = sessions[u]
        BY <3>4 DEF Works
      <3>6. QED
        BY <3>3, <3>5 DEF HasTask, Live
    <2>4. QED
      BY <2>2, <2>3
  <1>5. QED
    BY <1>1, <1>2, <1>3, <1>4 DEF IInv

LEMMA InitOK == Init => IInv
  <1> SUFFICES ASSUME Init PROVE IInv
    OBVIOUS
  <1>1. Absent \in Bottle /\ Absent.stage = "absent"
    BY WorkflowAssumption DEF Absent, Bottle, Origins, Dates, Authorities
  <1>2. \A i \in Ids : ~Exists(i)
    BY <1>1 DEF Init, Exists
  <1>3. sessions \in [Workers -> Sessions] /\ \A w \in Workers : sessions[w] = Gone
    BY GoneOK DEF Init, SessionOK
  <1>4. Types
    BY <1>1, <1>2, <1>3, GoneOK, WorkflowAssumption DEF Init, Types
  <1>5. AddedOnly /\ HolderWorks
    BY <1>3, GoneOK DEF AddedOnly, HolderWorks, Live, Init, Workers
  <1>6. StrandedByLockOnly
    BY <1>2, Kinds DEF StrandedByLockOnly, Exists
  <1>7. QED
    BY <1>4, <1>5, <1>6 DEF IInv

LEMMA AddKeeps ==
    ASSUME IInv, NEW i \in Ids, Add(i)
    PROVE  IInv'
  <1> DEFINE u == added + 1
             row == [Absent EXCEPT !.stage = "queued", !.of = u]
             task == [Gone EXCEPT !.at = "scheduled", !.id = i]
  <1>1. u \in Pipelines /\ u \in Workers /\ added \in Nat
    BY WorkflowAssumption DEF Add, IInv, Types, Pipelines, Workers
  <1>2. ~Live(u)
    BY <1>1 DEF IInv, AddedOnly
  <1>3. row \in Bottle /\ row.of = u /\ row.stage = "queued"
    <2>1. Absent \in Bottle
      BY WorkflowAssumption DEF Absent, Bottle, Origins, Dates, Authorities
    <2>2. u \in 0..MaxBottles /\ "queued" \in Stages
      BY <1>1 DEF Pipelines, Stages
    <2>3. QED
      BY <2>1, <2>2 DEF Bottle
  <1>4. task \in Sessions /\ task.id = i /\ task.at = "scheduled" /\ SessionOK(task)
    <2>1. Gone \in Sessions /\ Gone.now \in Now
          /\ (Gone.now.by = "unread" => Gone.loaded.by = "unread")
      BY GoneOK DEF SessionOK
    <2>2. i \in 0..MaxId /\ "scheduled" \in Awaits
      BY DEF Ids, Awaits
    <2>3. QED
      BY <2>1, <2>2 DEF SessionOK, Sessions
  <1>5. /\ bottles' = [bottles EXCEPT ![i] = row]
        /\ sessions' = [sessions EXCEPT ![u] = task]
        /\ added' = u /\ lock = Nobody
        /\ UNCHANGED <<facts, lock, up, forms, stops, stranded>>
    BY DEF Add
  <1> HIDE DEF row, task
  <1>6. /\ bottles' \in [Ids -> Bottle] /\ bottles'[i] = row
        /\ \A j \in Ids : j # i => bottles'[j] = bottles[j]
        /\ sessions' \in [Workers -> Sessions] /\ sessions'[u] = task
        /\ \A v \in Workers : v # u => sessions'[v] = sessions[v]
    BY <1>1, <1>3, <1>4, <1>5 DEF IInv, Types
  <1>7. Types'
    <2>1. \A v \in Workers : SessionOK(sessions'[v])
      BY <1>4, <1>6 DEF IInv, Types
    <2>2. \A j \in Ids : Exists(j)' => bottles'[j].of \in Pipelines
      BY <1>1, <1>3, <1>6 DEF IInv, Types, Exists
    <2>3. added' \in 0..MaxBottles
      BY <1>1, <1>5 DEF Pipelines
    <2>4. (\A v \in Workers : SessionOK(sessions[v]))'
      BY <2>1 DEF SessionOK
    <2>5. QED
      BY <1>5, <1>6, <2>2, <2>3, <2>4 DEF IInv, Types
  <1>8. HolderWorks' /\ AddedOnly'
    <2>1. HolderWorks'
      BY <1>5 DEF HolderWorks
    <2>2. ASSUME NEW v \in Pipelines, Live(v)' PROVE v <= u
      <3>1. v \in Workers /\ v \in Nat
        BY DEF Workers, Pipelines
      <3>2. CASE v # u
        BY <1>1, <1>6, <2>2, <3>1, <3>2 DEF IInv, AddedOnly, Live
      <3>3. QED
        BY <1>1, <3>1, <3>2
    <2>3. QED
      BY <1>5, <2>1, <2>2 DEF AddedOnly
  <1>9. StrandedByLockOnly'
    <2> SUFFICES ASSUME up', NEW j \in Ids, bottles'[j].stage \in IN_PROGRESS_STAGES,
                        bottles'[j].of \notin stranded'
                 PROVE  HasTask(j)'
      BY DEF StrandedByLockOnly
    <2>1. CASE j = i
      BY <1>1, <1>4, <1>6, <2>1 DEF HasTask, Live
    <2>2. CASE j # i
      <3>1. HasTask(j)
        BY <1>5, <1>6, <2>2 DEF IInv, StrandedByLockOnly
      <3>2. PICK v \in Pipelines : Live(v) /\ sessions[v].id = j
        BY <3>1 DEF HasTask
      <3>3. sessions'[v] = sessions[v]
        BY <1>2, <1>6, <3>2 DEF Workers
      <3>4. QED
        BY <3>2, <3>3 DEF HasTask, Live
    <2>3. QED
      BY <2>1, <2>2
  <1>10. QED
    BY <1>7, <1>8, <1>9 DEF IInv

LEMMA RowOnly ==
    ASSUME IInv, NEW i \in Ids, NEW b \in Bottle,
           bottles' = [bottles EXCEPT ![i] = b],
           b.stage = "absent" \/ (b.stage = bottles[i].stage /\ b.of = bottles[i].of),
           UNCHANGED <<facts, sessions, lock, up, added, stops, stranded>>,
           forms' \in 0..MaxForms
    PROVE  IInv'
  <1>1. /\ bottles' \in [Ids -> Bottle] /\ bottles'[i] = b
        /\ \A j \in Ids : j # i => bottles'[j] = bottles[j]
    BY DEF IInv, Types
  <1>2. Types'
    <2>1. \A j \in Ids : Exists(j)' => bottles'[j].of \in Pipelines
      BY <1>1 DEF IInv, Types, Exists
    <2>2. (\A v \in Workers : SessionOK(sessions[v]))'
      BY DEF IInv, Types, SessionOK
    <2>3. QED
      BY <1>1, <2>1, <2>2 DEF IInv, Types
  <1>3. HolderWorks' /\ AddedOnly'
    BY DEF IInv, HolderWorks, AddedOnly, Live
  <1>4. StrandedByLockOnly'
    BY <1>1, Kinds DEF IInv, StrandedByLockOnly, HasTask, Live
  <1>5. QED
    BY <1>2, <1>3, <1>4 DEF IInv

LEMMA FilledOK ==
    ASSUME NEW c \in Bottle, NEW m \in Origins, NEW d \in Dates
    PROVE  /\ Filled(c, m, d) \in Bottle
           /\ Filled(c, m, d).stage = c.stage /\ Filled(c, m, d).of = c.of
  BY DEF Filled, Bottle, Authorities

LEMMA EntriesOK ==
    ASSUME Types, NEW i \in Ids, NEW m \in Entries(bottles[i].mash),
           NEW d \in Entries(bottles[i].date)
    PROVE  m \in Origins /\ d \in Dates
  BY DEF Types, Entries, Bottle, Origins, Dates

LEMMA RequestKeeps ==
    ASSUME IInv, NEW r \in Requests, NEW i \in Ids, NEW m \in Origins, NEW d \in Dates,
           NEW await \in {"analyzing", "pricing", "finishing"}, Request(r, i, m, d, await)
    PROVE  IInv'
  <1> DEFINE s0 == [Gone EXCEPT !.id = i, !.loaded = Loaded(i), !.now = Loaded(i)]
             s == IF m = bottles[i].mash THEN s0 ELSE Reading(s0)
             filled == Filled(s.now, m, d)
             after == [s EXCEPT !.now = filled]
  <1>1. r \in Workers /\ Types /\ ~Live(r) /\ r \notin Pipelines
    BY Kinds DEF Workers, IInv, Request
  <1>2. SessionOK(s0) /\ s0.id = i
    <2>1. Gone \in Sessions /\ i \in 0..MaxId
      BY GoneOK DEF SessionOK, Ids
    <2>2. QED
      BY <1>1, <2>1, LoadedOK DEF SessionOK, Sessions
  <1>3. SessionOK(s) /\ s.id = i
    BY <1>1, <1>2, ReadingOK
  <1> HIDE DEF s
  <1>4. filled \in Now /\ filled \in Columns /\ (filled.by = "unread" => s.now.by = "unread")
    <2>1. s.now \in Now
      BY <1>3 DEF SessionOK
    <2>2. QED
      BY <2>1 DEF Filled, Now, Columns, Authorities
  <1> HIDE DEF filled
  <1>5. SessionOK(after) /\ after.id = i
    BY <1>3, <1>4 DEF SessionOK, Sessions
  <1>6. PICK flushed \in BOOLEAN :
          /\ flushed => MayWrite(r)
          /\ sessions' = [sessions EXCEPT ![r] =
               [(IF flushed THEN Flushed(after) ELSE after) EXCEPT !.at = await]]
          /\ lock' = IF flushed THEN r ELSE lock
    BY DEF Request, s0, s, filled
  <1> DEFINE base == IF flushed THEN Flushed(after) ELSE after
             new == [base EXCEPT !.at = await]
  <1> HIDE DEF after
  <1>7. SessionOK(base) /\ base.id = i
    BY <1>5, FlushedOK
  <1>8. sessions' = [sessions EXCEPT ![r] = new]
    BY <1>6
  <1> HIDE DEF base
  <1>9. SessionOK(new) /\ new.id = i /\ new.at = await
    BY <1>7 DEF SessionOK, Sessions, Awaits
  <1> HIDE DEF new
  <1>10. /\ sessions' \in [Workers -> Sessions] /\ sessions'[r] = new
         /\ \A v \in Workers : v # r => sessions'[v] = sessions[v]
    BY <1>1, <1>8, <1>9 DEF Types, SessionOK
  <1>11. UNCHANGED <<bottles, facts, up, added, stops, stranded>> /\ forms' \in 0..MaxForms
    BY WorkflowAssumption DEF Request, Submits, IInv, Types
  <1>12. Types'
    <2>1. \A v \in Workers : SessionOK(sessions'[v])
      BY <1>1, <1>9, <1>10 DEF Types
    <2>2. (\A v \in Workers : SessionOK(sessions[v]))'
      BY <2>1 DEF SessionOK
    <2>3. (\A j \in Ids : Exists(j) => bottles[j].of \in Pipelines)'
      BY <1>1, <1>11 DEF Types, Exists
    <2>4. lock' \in Workers \cup {Nobody}
      BY <1>1, <1>6 DEF Types
    <2>5. QED
      BY <1>1, <1>10, <1>11, <2>2, <2>3, <2>4 DEF Types
  <1>13. HolderWorks'
    BY <1>1, <1>6, <1>9, <1>10 DEF HolderWorks, IInv, Types, Live
  <1>14. \A u \in Pipelines : sessions'[u] = sessions[u]
    BY <1>1, <1>10 DEF Workers
  <1>15. AddedOnly' /\ StrandedByLockOnly'
    BY <1>11, <1>14 DEF IInv, AddedOnly, StrandedByLockOnly, HasTask, Live
  <1>16. QED
    BY <1>12, <1>13, <1>15 DEF IInv

LEMMA ProcessEndsKeeps == IInv /\ ProcessEnds => IInv'
  <1> SUFFICES ASSUME IInv, ProcessEnds PROVE IInv'
    OBVIOUS
  <1>1. /\ UNCHANGED <<bottles, facts, added, forms, stranded>>
        /\ up' = FALSE /\ lock' = Nobody /\ stops' \in 0..MaxStops
        /\ sessions' = [w \in Workers |-> Gone]
    BY WorkflowAssumption DEF ProcessEnds, IInv, Types
  <1>2. sessions' \in [Workers -> Sessions] /\ \A w \in Workers : sessions'[w] = Gone
    BY <1>1, GoneOK DEF SessionOK
  <1>3. (\A w \in Workers : SessionOK(sessions[w]))'
    BY <1>2, GoneOK DEF SessionOK
  <1>4. (\A j \in Ids : Exists(j) => bottles[j].of \in Pipelines)'
    BY <1>1 DEF IInv, Types, Exists
  <1>5. Types'
    BY <1>1, <1>2, <1>3, <1>4 DEF IInv, Types
  <1>6. HolderWorks' /\ AddedOnly' /\ StrandedByLockOnly'
    BY <1>1, <1>2, GoneOK DEF HolderWorks, AddedOnly, StrandedByLockOnly, Live, Workers
  <1>7. QED
    BY <1>5, <1>6 DEF IInv

LEMMA BootKeeps == IInv /\ Boot => IInv'
  <1> SUFFICES ASSUME IInv, Boot PROVE IInv'
    OBVIOUS
  <1>1. /\ bottles' = [i \in Ids |-> IF bottles[i].stage \in IN_PROGRESS_STAGES
                                     THEN [bottles[i] EXCEPT !.stage = "failed"]
                                     ELSE bottles[i]]
        /\ up' = TRUE /\ UNCHANGED <<facts, sessions, lock, added, forms, stops, stranded>>
    BY DEF Boot, recover_orphaned_bottle_processing
  <1>2. \A b \in Bottle : /\ [b EXCEPT !.stage = "failed"] \in Bottle
                          /\ [b EXCEPT !.stage = "failed"].stage = "failed"
                          /\ [b EXCEPT !.stage = "failed"].of = b.of
    BY DEF Bottle, Stages
  <1>3. /\ bottles' \in [Ids -> Bottle]
        /\ \A j \in Ids : /\ bottles'[j].of = bottles[j].of
                          /\ bottles'[j].stage \notin IN_PROGRESS_STAGES
                          /\ bottles[j].stage = "absent" => bottles'[j].stage = "absent"
    BY <1>1, <1>2, Kinds DEF IInv, Types
  <1>4. (\A w \in Workers : SessionOK(sessions[w]))'
    BY <1>1 DEF IInv, Types, SessionOK
  <1>5. (\A j \in Ids : Exists(j) => bottles[j].of \in Pipelines)'
    BY <1>3 DEF IInv, Types, Exists
  <1>6. Types'
    BY <1>1, <1>3, <1>4, <1>5 DEF IInv, Types
  <1>7. HolderWorks' /\ AddedOnly' /\ StrandedByLockOnly'
    BY <1>1, <1>3 DEF IInv, HolderWorks, AddedOnly, StrandedByLockOnly, Live
  <1>8. QED
    BY <1>6, <1>7 DEF IInv

LEMMA NextKeeps == IInv /\ [Next]_vars => IInv'
  <1> SUFFICES ASSUME IInv, [Next]_vars PROVE IInv'
    OBVIOUS
  <1>1. CASE UNCHANGED vars
    BY <1>1 DEF IInv, vars, Types, HolderWorks, AddedOnly, StrandedByLockOnly, Exists,
                SessionOK, HasTask, Live
  <1>2. CASE \E u \in Pipelines : Start(u)
    <2>1. PICK u \in Pipelines : Start(u)
      BY <1>2
    <2>2. u \in Workers /\ Live(u) /\ lock # u /\ UNCHANGED <<up, added, forms, stops>>
      BY <2>1, Kinds DEF Start, At, Live, Workers, IInv, HolderWorks
    <2>3. QED
      BY <2>1, <2>2, StartWorks, WorksKeeps DEF IInv
  <1>3. CASE \E w \in Workers : Answer(w)
    <2>1. PICK w \in Workers : Answer(w)
      BY <1>3
    <2>2. Works(w)
      BY <2>1, AnalyzedWorks, SearchedWorks, LateWorks DEF IInv, Answer
    <2>3. Live(w) /\ UNCHANGED <<up, added, forms, stops>>
      BY <2>1 DEF Answer, Analyzed, Searched, Priced, Finished, CallFails, At, Live, Awaits
    <2>4. QED
      BY <2>2, <2>3, WorksKeeps
  <1>4. CASE User
    <2>1. CASE \E i \in Ids : Add(i)
      BY <2>1, AddKeeps
    <2>2. CASE \E i \in Ids : Delete(i)
      <3>1. PICK i \in Ids : Delete(i)
        BY <2>2
      <3>2. Absent \in Bottle /\ Absent.stage = "absent"
        BY WorkflowAssumption DEF Absent, Bottle, Origins, Dates, Authorities
      <3>3. forms' \in 0..MaxForms
        BY <3>1, WorkflowAssumption DEF Delete, Submits, IInv, Types
      <3>4. QED
        BY <3>1, <3>2, <3>3, RowOnly DEF Delete
    <2>3. ASSUME NEW i \in Ids, NEW m \in Entries(bottles[i].mash),
                 NEW d \in Entries(bottles[i].date), Edit(i, m, d)
          PROVE  IInv'
      <3>1. m \in Origins /\ d \in Dates /\ bottles[i] \in Bottle
        BY EntriesOK DEF IInv, Types
      <3>2. forms' \in 0..MaxForms
        BY <2>3, WorkflowAssumption DEF Edit, Submits, IInv, Types
      <3>3. /\ Filled(bottles[i], m, d) \in Bottle
            /\ Filled(bottles[i], m, d).stage = bottles[i].stage
            /\ Filled(bottles[i], m, d).of = bottles[i].of
        BY <3>1, FilledOK
      <3>4. QED
        BY <2>3, <3>2, <3>3, RowOnly DEF Edit
    <2>4. ASSUME NEW i \in Ids, NEW m \in Entries(bottles[i].mash),
                 NEW d \in Entries(bottles[i].date), NEW r \in Requests,
                 NEW await \in {"analyzing", "pricing", "finishing"},
                 Request(r, i, m, d, await)
          PROVE  IInv'
      BY <2>4, EntriesOK, RequestKeeps DEF IInv
    <2>5. QED
      BY <1>4, <2>1, <2>2, <2>3, <2>4 DEF User
  <1>5. CASE FactExpires
    BY <1>5 DEF FactExpires, IInv, Types, HolderWorks, AddedOnly, StrandedByLockOnly, Exists,
                SessionOK, HasTask, Live
  <1>6. CASE ProcessEnds \/ Boot
    BY <1>6, ProcessEndsKeeps, BootKeeps
  <1>7. QED
    BY <1>1, <1>2, <1>3, <1>4, <1>5, <1>6 DEF Next

---------------------------------------------------------------------------
\* What every stretch of a worker and every step of the user, of time and of the
\* process keeps (bottle_processing.py:55-178, main.py:430-771).
THEOREM Invariance == Spec => []IInv
  BY InitOK, NextKeeps, PTL DEF Spec

\* The rows, the sessions and the holder of the lock have their types; an authority
\* that is read is one _may_automate knows (product_attributions.py:100).
THEOREM TypeCorrect == Spec => []TypeOK
  <1>1. IInv => TypeOK
    BY DEF IInv, Types, TypeOK
  <1>2. QED
    BY <1>1, Invariance, PTL

\* No commit, failed flush, provider error, rollback or process end leaves the write
\* lock with a worker that is gone, for any number of workers (main.py:655, 771).
THEOREM LockIsHeld == Spec => []LockHasHolder
  <1>1. IInv => LockHasHolder
    BY DEF IInv, HolderWorks, LockHasHolder, Live
  <1>2. QED
    BY <1>1, Invariance, PTL

\* A row in progress has its pipeline at work, or one whose last words met the lock
\* of another session (bottle_processing.py:68, :168).
THEOREM OnlyTheLockStrands == Spec => []StrandedByLockOnly
  <1>1. IInv => StrandedByLockOnly
    BY DEF IInv
  <1>2. QED
    BY <1>1, Invariance, PTL

---------------------------------------------------------------------------
(***************************************************************************)
(* Who owns a field.                                                       *)
(***************************************************************************)

Searches == {"searching", "pricing", "finishing"}

\* What a session knows of the provenance at each of its awaits. Before the answer
\* it has read it only with a form that changed the field; from the search on, what
\* was verified when it was read is verified still.
AuthorityOK(s) ==
    /\ s.at = "analyzing" =>
         \/ s.loaded.by = "unread" /\ s.now.by = "unread"
         \/ s.loaded.by \in {"written", "user_entered"} /\ s.now.by = "user_entered"
    /\ s.at \in Searches =>
         /\ s.loaded.by = "unread" => s.now.by = "unread"
         /\ s.loaded.by = "verified_catalog" => s.now.by = "verified_catalog"
         /\ s.loaded.by = "user_entered" => s.now.by # "none"
         /\ s.at = "searching" => s.loaded.by # "unread"

AuthorityInv == \A w \in Workers : AuthorityOK(sessions[w])

\* What a worker brings to the end of a stretch.
Ready(s, more, await) ==
    /\ s.loaded.by = "unread" => s.now.by = "unread" /\ more.by = "unread"
    /\ s.loaded.by = "verified_catalog" => s.now.by = "verified_catalog"
    /\ s.now.by = "verified_catalog" => more.by = "verified_catalog"
    /\ s.loaded.by = "user_entered" => s.now.by # "none"
    /\ s.now.by # "none" => more.by # "none"
    /\ await = "searching" => s.loaded.by # "unread"

\* The end of a stretch: the worker's row takes an authority only if the session has
\* it to write and no INSERT of it fails.
Leaves(w, s, more) ==
    /\ AuthorityOK(sessions'[w])
    /\ \A j \in Ids : bottles'[j].by # bottles[j].by =>
         /\ j = sessions[w].id /\ ~Conflicts(s)
         /\ \/ bottles'[j].by = s.now.by /\ s.now.by # s.loaded.by
            \/ bottles'[j].by = more.by /\ more.by # s.now.by

LEMMA GoneAuthority == AuthorityOK(Gone)
  BY DEF AuthorityOK, Gone, Searches

LEMMA ForgetBy ==
    ASSUME NEW s, SessionOK(s), NEW f \in {"mash", "date"}
    PROVE  Forget(s, f).loaded.by = s.loaded.by /\ Forget(s, f).now.by = s.now.by
  <1>1. s \in Sessions /\ s.now \in Now /\ s.loaded \in Columns
    BY DEF SessionOK, Sessions
  <1>2. CASE s.now[f] # s.loaded[f]
    BY <1>2 DEF Forget
  <1>3. CASE f = "mash" /\ s.now[f] = s.loaded[f]
    BY <1>1, <1>3 DEF Forget, Sessions, Columns, Now
  <1>4. CASE f = "date" /\ s.now[f] = s.loaded[f]
    BY <1>1, <1>4 DEF Forget, Sessions, Columns, Now
  <1>5. QED
    BY <1>2, <1>3, <1>4

LEMMA KeptAuthority ==
    ASSUME NEW s, SessionOK(s), s.at \in Searches, AuthorityOK(s)
    PROVE  AuthorityOK(Kept(s))
  <1>1. CASE s.at = "searching"
    <2>1. Kept(s) = Forget(s, "date")
      BY <1>1 DEF Kept
    <2>2. QED
      BY <1>1, <2>1, ForgetBy, ForgetOK DEF AuthorityOK, Searches
  <1>2. CASE s.at \in {"pricing", "finishing"}
    <2> DEFINE t == Forget(Forget(s, "date"), "mash")
    <2>1. Kept(s) = Forget(t, "by")
      BY <1>2 DEF Kept
    <2>2. SessionOK(t) /\ t.at = s.at /\ t.loaded.by = s.loaded.by /\ t.now.by = s.now.by
      BY ForgetBy, ForgetOK
    <2> HIDE DEF t
    <2>3. Forget(t, "by").at = s.at
      BY <2>2, ForgetOK
    <2>4. CASE t.now.by # t.loaded.by
      BY <1>2, <2>1, <2>2, <2>4 DEF AuthorityOK, Forget, Searches
    <2>5. CASE t.now.by = t.loaded.by
      <3>1. Forget(t, "by").loaded.by = "unread" /\ Forget(t, "by").now.by = "unread"
        BY <2>2, <2>5 DEF Forget, Blank, SessionOK, Sessions, Columns, Now
      <3>2. QED
        BY <1>2, <2>1, <2>3, <3>1 DEF AuthorityOK, Searches
    <2>6. QED
      BY <2>4, <2>5
  <1>3. QED
    BY <1>1, <1>2 DEF Searches

LEMMA MergedBy ==
    ASSUME NEW b \in Bottle, NEW s
    PROVE  Merged(b, s).by = IF s.now.by # s.loaded.by THEN s.now.by ELSE b.by
  BY DEF Merged, Bottle, Column

LEMMA RaisesLeaves ==
    ASSUME Types, NEW w \in Workers, Raises(w), NEW s, NEW more
    PROVE  Leaves(w, s, more)
  <1> DEFINE i == sessions[w].id
  <1>1. sessions'[w] = Gone
    BY DEF Raises, Ends, Types
  <1>2. \A j \in Ids : bottles'[j].by = bottles[j].by
    <2>1. CASE bottles' = bottles
      BY <2>1
    <2>2. CASE bottles' = [bottles EXCEPT ![i].stage = "failed"]
      BY <2>2 DEF Types, Bottle
    <2>3. QED
      BY <2>1, <2>2 DEF Raises, MarksFailed
  <1>3. QED
    BY <1>1, <1>2, GoneAuthority DEF Leaves

LEMMA CommitsLeaves ==
    ASSUME Types, NEW u \in Pipelines, Live(u), NEW s, NEW more, InHand(u, s, more),
           NEW await \in {"searching", "pricing", "finishing", "gone"},
           NEW flushed \in BOOLEAN, Ready(s, more, await),
           Commits(u, s, more, await, flushed)
    PROVE  Leaves(u, s, more)
  <1> DEFINE i == sessions[u].id
             then == [s EXCEPT !.at = await, !.found = "none",
                               !.loaded = s.now, !.now = more]
             last == [then EXCEPT !.loaded = more]
             row == IF await = "searching" THEN Merged(bottles[i], s)
                    ELSE Merged(Merged(bottles[i], s), then)
  <1>1. u \in Workers /\ i \in Ids /\ s.id = i /\ SessionOK(s) /\ more \in Now
    BY DEF Workers, Types, SessionOK, Live, InHand
  <1>2. CASE ~(MayWrite(u) /\ Flushes(s))
    BY <1>1, <1>2, RaisesLeaves DEF Commits
  <1>3. CASE MayWrite(u) /\ Flushes(s)
    <2>1. /\ bottles' = [bottles EXCEPT ![i] = [row EXCEPT !.stage = StageAt(await)]]
          /\ sessions' = [sessions EXCEPT ![u] =
               IF await = "gone" THEN Gone
               ELSE Kept(IF await = "searching" THEN then ELSE last)]
          /\ ~Conflicts(s)
      BY <1>1, <1>3 DEF Commits, Flushes
    <2>2. /\ SessionOK(then) /\ then.at = await
          /\ then.loaded.by = s.now.by /\ then.now.by = more.by
      BY <1>1 DEF SessionOK, Sessions, Now, Columns, InHand, Outcomes, Awaits
    <2>3. /\ SessionOK(last) /\ last.at = await
          /\ last.loaded.by = more.by /\ last.now.by = more.by
      <3>1. then \in Sessions /\ then.now = more /\ more \in Columns
        BY <1>1, <2>2 DEF SessionOK, Now, Columns
      <3> HIDE DEF then
      <3>2. QED
        BY <1>1, <2>2, <3>1 DEF SessionOK, Sessions
    <2> HIDE DEF then, last
    <2>4. AuthorityOK(sessions'[u])
      <3>1. CASE await = "gone"
        BY <1>1, <2>1, <3>1, GoneAuthority DEF Types
      <3>2. CASE await = "searching"
        <4>1. AuthorityOK(then)
          BY <1>1, <2>2, <3>2 DEF AuthorityOK, Ready, SessionOK, Searches
        <4>2. QED
          BY <1>1, <2>1, <2>2, <3>2, <4>1, KeptAuthority DEF Types, Searches
      <3>3. CASE await \in {"pricing", "finishing"}
        <4>1. AuthorityOK(last)
          BY <2>3, <3>3 DEF AuthorityOK, Searches
        <4>2. QED
          BY <1>1, <2>1, <2>3, <3>3, <4>1, KeptAuthority DEF Types, Searches
      <3>4. QED
        BY <3>1, <3>2, <3>3
    <2>5. /\ row \in Bottle
          /\ row.by # bottles[i].by => \/ row.by = s.now.by /\ s.now.by # s.loaded.by
                                       \/ row.by = more.by /\ more.by # s.now.by
      <3>1. bottles[i] \in Bottle
        BY <1>1 DEF Types
      <3>2. Merged(bottles[i], s) \in Bottle
        BY <1>1, <3>1, MergedOK
      <3>3. Merged(Merged(bottles[i], s), then) \in Bottle
        BY <2>2, <3>2, MergedOK
      <3>4. /\ Merged(bottles[i], s).by = IF s.now.by # s.loaded.by THEN s.now.by
                                           ELSE bottles[i].by
            /\ Merged(Merged(bottles[i], s), then).by =
                 IF more.by # s.now.by THEN more.by ELSE Merged(bottles[i], s).by
        BY <2>2, <3>1, <3>2, MergedBy
      <3>5. QED
        BY <3>2, <3>3, <3>4
    <2> HIDE DEF row
    <2>6. [row EXCEPT !.stage = StageAt(await)].by = row.by
      BY <2>5 DEF Bottle
    <2>7. \A j \in Ids : bottles'[j].by = IF j = i THEN row.by ELSE bottles[j].by
      BY <2>1, <2>6 DEF Types
    <2>8. QED
      BY <2>1, <2>4, <2>5, <2>7 DEF Leaves
  <1>4. QED
    BY <1>2, <1>3

LEMMA FlushedBy ==
    ASSUME NEW s, SessionOK(s)
    PROVE  /\ Flushed(s).loaded.by = Written(s.loaded.by, s.now.by)
           /\ Flushed(s).now = s.now /\ Flushed(s).at = s.at
  BY DEF SessionOK, Sessions, Flushed, Columns

LEMMA CarriesLeaves ==
    ASSUME Types, NEW w \in Workers, Live(w), NEW s, NEW more, InHand(w, s, more),
           NEW await \in {"searching", "pricing", "finishing"},
           NEW flushed \in BOOLEAN, Ready(s, more, await),
           Carries(w, s, more, await, flushed)
    PROVE  Leaves(w, s, more)
  <1> DEFINE base == IF flushed THEN Flushed(s) ELSE s
             then == [base EXCEPT !.at = await, !.now = more]
  <1>1. /\ SessionOK(s) /\ s.id \in Ids
        /\ more \in Now /\ (more.by = "unread" => s.now.by = "unread")
    BY DEF InHand, Types, SessionOK, Live
  <1>2. CASE ~(flushed => MayWrite(w) /\ Flushes(s))
    BY <1>2, RaisesLeaves DEF Carries
  <1>3. CASE flushed => MayWrite(w) /\ Flushes(s)
    <2>1. sessions' = [sessions EXCEPT ![w] = Kept(then)] /\ bottles' = bottles
      BY <1>3 DEF Carries
    <2>2. /\ SessionOK(base) /\ base.now = s.now /\ base.id = s.id
          /\ \/ base.loaded.by = s.loaded.by
             \/ base.loaded.by = "written"
      BY <1>1, FlushedOK, FlushedBy DEF Written
    <2> HIDE DEF base
    <2>3. /\ SessionOK(then) /\ then.at = await
          /\ then.loaded.by = base.loaded.by /\ then.now.by = more.by
      <3>1. base \in Sessions /\ more \in Columns
            /\ (more.by = "unread" => base.loaded.by = "unread")
        BY <1>1, <2>2 DEF SessionOK, Now, Columns
      <3>2. QED
        BY <1>1, <2>2, <3>1 DEF SessionOK, Sessions, Awaits
    <2> HIDE DEF then
    <2>4. AuthorityOK(then)
      BY <2>2, <2>3 DEF AuthorityOK, Ready, Searches
    <2>5. AuthorityOK(Kept(then))
      BY <2>3, <2>4, KeptAuthority DEF Searches
    <2>6. QED
      BY <2>1, <2>5 DEF Leaves, Types
  <1>4. QED
    BY <1>2, <1>3

LEMMA CommitsAllLeaves ==
    ASSUME Types, NEW r \in Requests, Live(r), NEW s, NEW more, InHand(r, s, more),
           CommitsAll(r, s, more)
    PROVE  Leaves(r, s, more)
  <1> DEFINE i == sessions[r].id
             last == [Flushed(s) EXCEPT !.now = more]
  <1>1. r \in Workers /\ SessionOK(s) /\ s.id = i /\ i \in Ids
    BY DEF Workers, Types, SessionOK, Live, InHand
  <1>2. CASE ~(MayWrite(r) /\ Flushes(s))
    BY <1>1, <1>2, RaisesLeaves DEF CommitsAll
  <1>3. CASE MayWrite(r) /\ Flushes(s)
    <2>1. /\ bottles' = [bottles EXCEPT ![i] = Merged(bottles[i], last)]
          /\ sessions' = [sessions EXCEPT ![r] = Gone] /\ ~Conflicts(s)
      BY <1>1, <1>3 DEF CommitsAll, Ends, Flushes
    <2>2. last.loaded.by = Written(s.loaded.by, s.now.by) /\ last.now.by = more.by
      <3>1. Flushed(s) \in Sessions
        BY <1>1, FlushedOK DEF SessionOK
      <3>2. QED
        BY <1>1, <3>1, FlushedBy DEF Sessions
    <2> HIDE DEF last
    <2>3. bottles[i] \in Bottle
      BY <1>1 DEF Types
    <2>4. Merged(bottles[i], last).by = IF last.now.by # last.loaded.by THEN last.now.by
                                        ELSE bottles[i].by
      BY <2>3, MergedBy
    <2>5. \A j \in Ids : bottles'[j].by = IF j = i THEN Merged(bottles[i], last).by
                                          ELSE bottles[j].by
      BY <2>1 DEF Types
    <2>6. sessions'[r] = Gone
      BY <1>1, <2>1 DEF Types
    <2>7. QED
      BY <2>1, <2>2, <2>4, <2>5, <2>6, GoneAuthority DEF Leaves, Written
  <1>4. QED
    BY <1>2, <1>3

LEMMA GoesLeaves ==
    ASSUME Types, NEW w \in Workers, Live(w), NEW s, NEW more, InHand(w, s, more),
           NEW await \in {"searching", "pricing", "finishing", "gone"},
           NEW flushed \in BOOLEAN, Ready(s, more, await),
           Goes(w, s, more, await, flushed)
    PROVE  Leaves(w, s, more)
  <1>1. CASE w \in Pipelines
    <2>1. Commits(w, s, more, await, flushed)
      BY <1>1, Kinds DEF Goes
    <2>2. QED
      BY <1>1, <2>1, CommitsLeaves
  <1>2. CASE w \in Requests /\ await = "gone"
    BY <1>2, Kinds, CommitsAllLeaves DEF Goes
  <1>3. CASE w \in Requests /\ await # "gone"
    <2>1. PICK touched \in BOOLEAN : Carries(w, s, more, await, flushed \/ touched)
      BY <1>3, Kinds DEF Goes
    <2>2. /\ (flushed \/ touched) \in BOOLEAN
          /\ await \in {"searching", "pricing", "finishing"}
      BY <1>3
    <2>3. QED
      BY <2>1, <2>2, CarriesLeaves
  <1>4. QED
    BY <1>1, <1>2, <1>3, Kinds

---------------------------------------------------------------------------
(***************************************************************************)
(* The stretches.                                                          *)
(***************************************************************************)

\* A worker takes a hand-verified row over as HandVerifiedStands has it, and none
\* that the user has entered since it found the field without provenance.
Spares(w) ==
    \A i \in Ids : bottles[i].by \in HandVerified /\ bottles'[i].by \in Automated =>
       /\ Live(w) /\ sessions[w].id = i
       /\ \/ ReadBefore(w, i)
          \/ bottles[i].by = "user_entered" /\ Reanalyzes(w)
Defers(w) ==
    \A i \in Ids :
       /\ sessions[w].at = "searching" /\ sessions[w].id = i
       /\ sessions[w].loaded.by = "none" /\ bottles[i].by = "user_entered"
       => bottles'[i].by = "user_entered"

Respects(w) == AuthorityOK(sessions'[w]) /\ Spares(w) /\ Defers(w)

LEMMA SameRows ==
    ASSUME NEW w \in Workers, AuthorityOK(sessions'[w]),
           \A j \in Ids : bottles'[j].by = bottles[j].by
    PROVE  Respects(w)
  BY DEF Respects, Spares, Defers, HandVerified, Automated

LEMMA RaisesRespects ==
    ASSUME Types, NEW w \in Workers, Raises(w)
    PROVE  Respects(w)
  <1> DEFINE i == sessions[w].id
  <1>1. sessions'[w] = Gone
    BY DEF Raises, Ends, Types
  <1>2. CASE bottles' = bottles
    BY <1>1, <1>2, GoneAuthority, SameRows
  <1>3. CASE bottles' = [bottles EXCEPT ![i].stage = "failed"]
    <2>1. \A j \in Ids : bottles'[j].by = bottles[j].by
      BY <1>3 DEF Types, Bottle
    <2>2. QED
      BY <1>1, <2>1, GoneAuthority, SameRows
  <1>4. QED
    BY <1>2, <1>3 DEF Raises, MarksFailed

LEMMA AnalysisVerified ==
    ASSUME NEW w, NEW s, s.now.by = "verified_catalog", NEW a, s.now \in Now
    PROVE  Analysis(w, s, a).by = "verified_catalog"
  BY DEF Analysis, apply_analysis, apply_photo_bottled_date, Now

LEMMA AnalysisKnown ==
    ASSUME NEW w, NEW s, s.now.by # "none", s.now \in Now, NEW a \in Answers
    PROVE  Analysis(w, s, a).by # "none"
  <1> DEFINE Known == {c \in Now : c.by # "none"}
  <1>1. \A c \in Known, v \in Origins, authority \in Authorities \ {"none"} :
          apply_analysis(c, v, authority) \in Known
    BY DEF apply_analysis, Now
  <1>2. \A c \in Known, d \in Dates : apply_photo_bottled_date(c, d) \in Known
    BY DEF apply_photo_bottled_date, Now
  <1>3. a.mash \in Origins /\ a.date \in Dates /\ "catalog" \in Origins
        /\ Stamp(w, a) \in Authorities \ {"none"}
        /\ "verified_catalog" \in Authorities \ {"none"}
    BY DEF Answers, Origins, Dates, Stamp, Authorities
  <1>4. s.now \in Known
    OBVIOUS
  <1> HIDE DEF Known
  <1>5. Analysis(w, s, a) \in Known
    BY <1>1, <1>2, <1>3, <1>4 DEF Analysis
  <1>6. QED
    BY <1>5 DEF Known

LEMMA FactKnown ==
    ASSUME NEW c \in Now, c.by # "none", NEW outcome \in Outcomes
    PROVE  _apply_fact(c, outcome).by # "none"
  BY DEF _apply_fact, Now, Outcomes

LEMMA FactVerified ==
    ASSUME NEW c, c.by = "verified_catalog", NEW outcome
    PROVE  _apply_fact(c, outcome) = c
  BY DEF _apply_fact, _may_automate

LEMMA AnalyzedRespects ==
    ASSUME Types, NEW w \in Workers, AuthorityOK(sessions[w]), NEW a \in Answers,
           NEW producer, Analyzed(w, a, producer)
    PROVE  Respects(w)
  <1> DEFINE s == Reading(sessions[w])
             now == Analysis(w, s, a)
             after == [s EXCEPT !.now = now]
             asks == facts = "none" /\ _may_automate(now)
             more == IF facts = "none" THEN now ELSE _apply_fact(now, facts)
             asked == [after EXCEPT !.asks = asks]
             i == sessions[w].id
  <1>1. /\ Live(w) /\ At(w, "analyzing") /\ sessions[w].at = "analyzing"
        /\ SessionOK(sessions[w]) /\ i \in Ids
    BY DEF Analyzed, At, Live, Types, SessionOK
  <1>2. SessionOK(s) /\ s.id = i /\ s.now.by # "unread"
    BY <1>1, ReadingOK
  <1>3. \/ sessions[w].loaded.by = "unread" /\ s.loaded.by = bottles[i].by
           /\ s.now.by = bottles[i].by
        \/ /\ sessions[w].loaded.by \in {"written", "user_entered"}
           /\ s.loaded.by = sessions[w].loaded.by /\ s.now.by = "user_entered"
    BY <1>1 DEF AuthorityOK, Reading, SessionOK, Sessions, Columns, Now
  <1>4. bottles[i].by \in Authorities
    BY <1>1 DEF Types, Bottle
  <1>5. /\ s.loaded.by # "unread"
        /\ s.loaded.by = "user_entered" => s.now.by # "none"
        /\ s.loaded.by = "verified_catalog" => s.now.by = "verified_catalog"
    BY <1>3, <1>4 DEF Authorities
  <1> HIDE DEF s
  <1>6. /\ now \in Now /\ now.by # "unread"
        /\ s.now.by = "verified_catalog" => now.by = "verified_catalog"
        /\ s.now.by # "none" => now.by # "none"
    BY <1>2, AnalysisOK, AnalysisVerified, AnalysisKnown DEF SessionOK
  <1> HIDE DEF now
  <1>7. /\ SessionOK(after) /\ after.id = i /\ after.now = now /\ after.loaded = s.loaded
    BY <1>2, <1>6 DEF SessionOK, Sessions, Now, Columns
  <1>8. /\ more \in Now /\ more.by # "unread"
        /\ now.by = "verified_catalog" => more.by = "verified_catalog"
        /\ now.by # "none" => more.by # "none"
    BY <1>6, FactOK, FactVerified, FactKnown DEF Types
  <1> HIDE DEF after, asks, more
  <1>9. /\ SessionOK(asked) /\ asked.id = i /\ asked.now = now
        /\ asked.loaded = s.loaded
    <2>1. asks \in BOOLEAN
      BY DEF asks
    <2>2. QED
      BY <1>7, <2>1 DEF SessionOK, Sessions
  <1> HIDE DEF asked
  <1>10. InHand(w, after, now) /\ InHand(w, after, more) /\ InHand(w, asked, more)
    BY <1>6, <1>7, <1>8, <1>9 DEF InHand
  <1>11. \A await : /\ Ready(after, now, await) /\ Ready(after, more, await)
                    /\ Ready(asked, more, await)
    BY <1>5, <1>6, <1>7, <1>8, <1>9 DEF Ready
  <1>12. \/ Goes(w, after, now, "gone", FALSE)
         \/ Goes(w, asked, more, "searching", producer = "applied")
         \/ \E next \in AfterResolve : Goes(w, after, more, next, next = "finishing")
    <2>1. after.now = now
      BY <1>7
    <2>2. QED
      BY <2>1 DEF Analyzed, s, now, after, asks, more, asked
  <1>13. Leaves(w, after, now) \/ Leaves(w, asked, more) \/ Leaves(w, after, more)
    <2>1. CASE Goes(w, after, now, "gone", FALSE)
      BY <1>1, <1>10, <1>11, <2>1, GoesLeaves
    <2>2. CASE Goes(w, asked, more, "searching", producer = "applied")
      <3>1. (producer = "applied") \in BOOLEAN
        OBVIOUS
      <3>2. QED
        BY <1>1, <1>10, <1>11, <2>2, <3>1, GoesLeaves
    <2>3. CASE \E next \in AfterResolve : Goes(w, after, more, next, next = "finishing")
      <3>1. PICK next \in AfterResolve : Goes(w, after, more, next, next = "finishing")
        BY <2>3
      <3>2. /\ (next = "finishing") \in BOOLEAN
            /\ next \in {"searching", "pricing", "finishing", "gone"}
        BY NextAwait
      <3>3. QED
        BY <1>1, <1>10, <1>11, <3>1, <3>2, GoesLeaves
    <2>4. QED
      BY <1>12, <2>1, <2>2, <2>3
  <1>14. /\ AuthorityOK(sessions'[w])
         /\ \A j \in Ids : bottles'[j].by # bottles[j].by =>
              /\ j = i
              /\ \/ bottles'[j].by = now.by /\ now.by # s.loaded.by
                 \/ bottles'[j].by = more.by /\ more.by # now.by
    BY <1>7, <1>9, <1>13 DEF Leaves
  <1>15. ASSUME bottles[i].by = "verified_catalog", bottles'[i].by \in Automated
         PROVE  ReadBefore(w, i)
    <2>1. bottles'[i].by # bottles[i].by /\ bottles'[i].by # "verified_catalog"
      BY <1>15 DEF Automated
    <2>2. ~(s.now.by = "verified_catalog")
      BY <1>1, <1>6, <1>8, <1>14, <2>1
    <2>3. QED
      BY <1>3, <1>15, <2>2 DEF ReadBefore
  <1>16. Spares(w)
    BY <1>1, <1>14, <1>15 DEF Spares, HandVerified, Automated, Reanalyzes
  <1>17. QED
    BY <1>1, <1>14, <1>16 DEF Respects, Defers

\* From the search on a stretch has nothing more in hand than its session.
LEMMA SettledRespects ==
    ASSUME NEW w \in Workers, Live(w), SessionOK(sessions[w]), AuthorityOK(sessions[w]),
           sessions[w].at \in Searches, NEW s,
           s.id = sessions[w].id, s.loaded = sessions[w].loaded,
           s.now.by = "unread" => s.loaded.by = "unread",
           s.now.by # sessions[w].now.by =>
              /\ sessions[w].at = "searching" /\ s.now.by = "grounded_web"
              /\ sessions[w].now.by \notin {"user_entered", "verified_catalog"},
           Leaves(w, s, s.now)
    PROVE  Respects(w)
  <1>1. \A j \in Ids : bottles'[j].by # bottles[j].by =>
          /\ j = sessions[w].id /\ ~Conflicts(s)
          /\ bottles'[j].by = s.now.by /\ s.now.by # s.loaded.by
    BY DEF Leaves
  <1>2. \A j \in Ids : bottles'[j].by # bottles[j].by =>
          s.loaded.by # "none" \/ bottles[j].by = "none"
    BY <1>1 DEF Conflicts
  <1>3. Spares(w)
    <2> SUFFICES ASSUME NEW i \in Ids, bottles[i].by \in HandVerified,
                        bottles'[i].by \in Automated
                 PROVE  /\ sessions[w].id = i
                        /\ \/ ReadBefore(w, i)
                           \/ bottles[i].by = "user_entered" /\ Reanalyzes(w)
      BY DEF Spares
    <2>1. bottles'[i].by # bottles[i].by
      BY DEF HandVerified, Automated
    <2>2. /\ sessions[w].id = i /\ s.now.by \in Automated /\ s.now.by # s.loaded.by
          /\ s.loaded.by # "none"
      BY <1>1, <1>2, <2>1 DEF HandVerified
    <2> SUFFICES ASSUME ~ReadBefore(w, i)
                 PROVE  bottles[i].by = "user_entered" /\ Reanalyzes(w)
      BY <2>2
    <2>3. s.loaded.by \in {"unread", bottles[i].by}
      BY <2>2 DEF ReadBefore
    <2>4. s.now.by \notin {"unread", "user_entered", "verified_catalog"}
      BY <2>2 DEF Automated
    <2>5. sessions[w].now.by \notin {"user_entered", "verified_catalog"}
      BY <2>4
    <2>6. s.loaded.by # "unread"
      BY <2>2 DEF AuthorityOK
    <2>7. s.loaded.by = "user_entered" /\ bottles[i].by = "user_entered"
      BY <2>3, <2>5, <2>6 DEF AuthorityOK, HandVerified
    <2>8. sessions[w].now.by \in Automated
      <3>1. sessions[w].now.by \in Authorities \cup {"unread"}
        BY DEF SessionOK, Now
      <3>2. sessions[w].now.by \notin {"none", "unread"}
        BY <2>7 DEF AuthorityOK, SessionOK
      <3>3. QED
        BY <2>5, <3>1, <3>2 DEF Authorities, Automated
    <2>9. QED
      BY <2>2, <2>7, <2>8 DEF Reanalyzes
  <1>4. Defers(w)
    BY <1>1, <1>2 DEF Defers
  <1>5. QED
    BY <1>3, <1>4 DEF Respects, Leaves

LEMMA FactChanges ==
    ASSUME NEW c \in Now, NEW outcome \in Outcomes, _apply_fact(c, outcome).by # c.by
    PROVE  /\ _apply_fact(c, outcome).by = "grounded_web"
           /\ c.by \notin {"user_entered", "verified_catalog"}
  BY DEF _apply_fact, _may_automate, Now, Outcomes

LEMMA SearchedRespects ==
    ASSUME Types, NEW w \in Workers, AuthorityOK(sessions[w]),
           NEW outcome \in Outcomes \cup {"none"}, Searched(w, outcome)
    PROVE  Respects(w)
  <1> DEFINE s == [sessions[w] EXCEPT !.asks = FALSE]
             heard == sessions[w].asks /\ outcome # "none"
             fact == _apply_fact(s.now, outcome)
             after == IF heard THEN [s EXCEPT !.found = outcome, !.now = fact] ELSE s
  <1>1. /\ Live(w) /\ sessions[w].at = "searching"
        /\ SessionOK(sessions[w]) /\ sessions[w].id \in Ids
    BY DEF Searched, At, Live, Types, SessionOK
  <1>2. /\ SessionOK(s) /\ s.id = sessions[w].id
        /\ s.loaded = sessions[w].loaded /\ s.now = sessions[w].now
    BY <1>1 DEF SessionOK, Sessions
  <1> HIDE DEF s
  <1>3. s.now \in Now /\ (s.now.by = "unread" => s.loaded.by = "unread")
        /\ s.loaded.by # "unread"
    BY <1>1, <1>2 DEF SessionOK, AuthorityOK, Searches
  <1>4. heard =>
          /\ outcome \in Outcomes /\ fact \in Now /\ fact.by # "unread"
          /\ s.now.by = "verified_catalog" => fact.by = "verified_catalog"
          /\ s.now.by # "none" => fact.by # "none"
          /\ fact.by # s.now.by => /\ fact.by = "grounded_web"
                                  /\ s.now.by \notin {"user_entered", "verified_catalog"}
    <2> SUFFICES ASSUME heard
                 PROVE  /\ outcome \in Outcomes /\ fact \in Now /\ fact.by # "unread"
                        /\ s.now.by = "verified_catalog" => fact.by = "verified_catalog"
                        /\ s.now.by # "none" => fact.by # "none"
                        /\ fact.by # s.now.by =>
                             /\ fact.by = "grounded_web"
                             /\ s.now.by \notin {"user_entered", "verified_catalog"}
      OBVIOUS
    <2>1. outcome \in Outcomes
      OBVIOUS
    <2>2. fact \in Now /\ (fact.by = "unread" => s.now.by = "unread")
      BY <1>3, <2>1, FactOK
    <2>3. QED
      BY <1>3, <2>1, <2>2, FactVerified, FactKnown, FactChanges
  <1> HIDE DEF fact
  <1>5. /\ SessionOK(after) /\ after.id = sessions[w].id
        /\ after.loaded = s.loaded /\ after.now = IF heard THEN fact ELSE s.now
    <2>1. heard => fact \in Columns
      BY <1>4 DEF Now, Columns
    <2>2. QED
      BY <1>2, <1>4, <2>1 DEF SessionOK, Sessions
  <1>6. PICK next \in AfterResolve : Goes(w, after, after.now, next, next = "finishing")
    BY DEF Searched, s, fact
  <1> HIDE DEF after
  <1>7. InHand(w, after, after.now)
    BY <1>5 DEF InHand, SessionOK
  <1>8. Ready(after, after.now, next)
    BY <1>1, <1>2, <1>3, <1>4, <1>5 DEF Ready, AuthorityOK, Searches
  <1>9. /\ (next = "finishing") \in BOOLEAN
        /\ next \in {"searching", "pricing", "finishing", "gone"}
    BY NextAwait
  <1>10. Leaves(w, after, after.now)
    BY <1>1, <1>6, <1>7, <1>8, <1>9, GoesLeaves
  <1>11. /\ after.now.by # sessions[w].now.by =>
              /\ sessions[w].at = "searching" /\ after.now.by = "grounded_web"
              /\ sessions[w].now.by \notin {"user_entered", "verified_catalog"}
         /\ after.now.by = "unread" => after.loaded.by = "unread"
         /\ after.loaded = sessions[w].loaded
    BY <1>1, <1>2, <1>3, <1>4, <1>5
  <1>12. QED
    BY <1>1, <1>5, <1>10, <1>11, SettledRespects DEF Searches

LEMMA LateRespects ==
    ASSUME Types, NEW w \in Workers, AuthorityOK(sessions[w]),
           Priced(w) \/ Finished(w) \/ CallFails(w)
    PROVE  Respects(w)
  <1> DEFINE s == sessions[w]
  <1>1. CASE CallFails(w)
    BY <1>1, RaisesRespects DEF CallFails
  <1>2. CASE Priced(w) \/ Finished(w)
    <2>1. /\ Live(w) /\ SessionOK(s) /\ s.at \in Searches \ {"searching"}
          /\ InHand(w, s, s.now)
      BY <1>2 DEF Priced, Finished, At, Live, Types, SessionOK, InHand, Searches
    <2>2. \A await \in {"finishing", "gone"} : Ready(s, s.now, await)
      BY <2>1 DEF Ready, AuthorityOK
    <2>3. Leaves(w, s, s.now)
      <3>1. CASE Goes(w, s, s.now, "gone", FALSE)
        BY <2>1, <2>2, <3>1, GoesLeaves
      <3>2. CASE Carries(w, s, s.now, "finishing", TRUE)
        BY <2>1, <2>2, <3>2, CarriesLeaves
      <3>3. QED
        BY <1>2, <3>1, <3>2 DEF Priced, Finished
    <2>4. s.now.by = "unread" => s.loaded.by = "unread"
      BY <2>1 DEF SessionOK
    <2>5. QED
      BY <2>1, <2>3, <2>4, SettledRespects
  <1>3. QED
    BY <1>1, <1>2

LEMMA StartRespects ==
    ASSUME Types, NEW u \in Pipelines, Start(u)
    PROVE  Respects(u)
  <1> DEFINE i == sessions[u].id
             s == [sessions[u] EXCEPT !.loaded = Loaded(i), !.now = Loaded(i)]
             then == [s EXCEPT !.at = "analyzing", !.found = "none",
                               !.loaded = s.now, !.now = s.now]
             last == [then EXCEPT !.loaded = s.now]
             row == Merged(Merged(bottles[i], s), then)
  <1>1. /\ u \in Workers /\ Live(u) /\ i \in Ids
        /\ sessions[u] \in Sessions /\ bottles[i] \in Bottle
    BY DEF Start, At, Live, Types, SessionOK, Workers
  <1>2. CASE ~Exists(i)
    <2>1. sessions' = [sessions EXCEPT ![u] = Gone] /\ bottles' = bottles
      BY <1>2 DEF Start, Ends
    <2>2. QED
      BY <1>1, <2>1, GoneAuthority, SameRows DEF Types
  <1>3. CASE Exists(i) /\ ~(MayWrite(u) /\ Flushes(s))
    BY <1>1, <1>3, RaisesRespects DEF Start, Commits
  <1>4. CASE Exists(i) /\ MayWrite(u) /\ Flushes(s)
    <2>1. s.id = i /\ s.loaded = Loaded(i) /\ s.now = Loaded(i)
      BY <1>1 DEF Sessions
    <2>2. /\ bottles' =
               [bottles EXCEPT ![i] = [row EXCEPT !.stage = StageAt("analyzing")]]
          /\ sessions' = [sessions EXCEPT ![u] = Kept(last)]
      BY <1>4, <2>1 DEF Start, Commits
    <2>3. /\ last.at = "analyzing" /\ last.loaded = Loaded(i) /\ last.now = Loaded(i)
          /\ then.loaded = Loaded(i) /\ then.now = Loaded(i)
      BY <1>1, <2>1 DEF Sessions
    <2>4. row = bottles[i]
      BY <1>1, <2>1, <2>3 DEF Merged, Column, Bottle
    <2> HIDE DEF last, row
    <2>5. Kept(last) = last
      BY <2>3 DEF Kept
    <2>6. AuthorityOK(last)
      BY <2>3 DEF AuthorityOK, Loaded, Searches
    <2>7. \A j \in Ids : bottles'[j].by = bottles[j].by
      BY <1>1, <2>2, <2>4 DEF Types, Bottle
    <2>8. sessions'[u] = last
      BY <1>1, <2>2, <2>5 DEF Types
    <2>9. QED
      BY <1>1, <2>6, <2>7, <2>8, SameRows
  <1>5. QED
    BY <1>2, <1>3, <1>4

---------------------------------------------------------------------------
(***************************************************************************)
(* The steps.                                                              *)
(***************************************************************************)

\* What HandVerifiedStands and FirstEntryStands ask of a step.
TakesOver ==
    \A i \in Ids :
      /\ bottles[i].by \in HandVerified
      /\ bottles'[i].by \in Automated
      => \E w \in Workers :
           /\ Live(w) /\ sessions[w].id = i
           /\ \/ ReadBefore(w, i)
              \/ bottles[i].by = "user_entered" /\ Reanalyzes(w)
Overwrites ==
    \A i \in Ids, w \in Workers :
      /\ sessions[w].at = "searching" /\ sessions[w].id = i
      /\ sessions[w].loaded.by = "none"
      /\ bottles[i].by = "user_entered"
      /\ bottles'[i].of = bottles[i].of
      /\ sessions'[w] # sessions[w]
      => bottles'[i].by = "user_entered"

Step == AuthorityInv' /\ TakesOver /\ Overwrites

LEMMA RespectsStep ==
    ASSUME AuthorityInv, NEW w \in Workers, Respects(w),
           \A v \in Workers : v # w => sessions'[v] = sessions[v]
    PROVE  Step
  <1>1. \A v \in Workers : AuthorityOK(sessions'[v])
    BY DEF AuthorityInv, Respects
  <1>2. AuthorityInv'
    BY <1>1 DEF AuthorityInv, AuthorityOK
  <1>3. TakesOver
    BY DEF TakesOver, Respects, Spares
  <1>4. Overwrites
    BY DEF Overwrites, Respects, Defers
  <1>5. QED
    BY <1>2, <1>3, <1>4 DEF Step

\* A step of anybody else gives a row to the user or to nobody, and begins or ends
\* sessions only.
LEMMA OtherStep ==
    ASSUME AuthorityInv,
           \A i \in Ids : bottles'[i].by \in {bottles[i].by, "user_entered", "none"},
           \A v \in Workers : sessions'[v] # sessions[v] =>
              /\ AuthorityOK(sessions'[v])
              /\ ~Live(v) \/ bottles' = bottles
    PROVE  Step
  <1>1. \A v \in Workers : AuthorityOK(sessions'[v])
    BY DEF AuthorityInv
  <1>2. AuthorityInv'
    BY <1>1 DEF AuthorityInv, AuthorityOK
  <1>3. TakesOver
    BY DEF TakesOver, HandVerified, Automated
  <1>4. Overwrites
    BY DEF Overwrites, Live
  <1>5. QED
    BY <1>2, <1>3, <1>4 DEF Step

LEMMA RequestStep ==
    ASSUME IInv, AuthorityInv, NEW r \in Requests, NEW i \in Ids, NEW m \in Origins,
           NEW d \in Dates, NEW await \in {"analyzing", "pricing", "finishing"},
           Request(r, i, m, d, await)
    PROVE  Step
  <1> DEFINE s0 == [Gone EXCEPT !.id = i, !.loaded = Loaded(i), !.now = Loaded(i)]
             s == IF m = bottles[i].mash THEN s0 ELSE Reading(s0)
             filled == Filled(s.now, m, d)
             after == [s EXCEPT !.now = filled]
  <1>1. r \in Workers /\ Types /\ ~Live(r) /\ bottles' = bottles
    BY DEF Workers, IInv, Request
  <1>2. /\ SessionOK(s0) /\ s0.id = i /\ s0.loaded = Loaded(i) /\ s0.now = Loaded(i)
    <2>1. Gone \in Sessions /\ i \in 0..MaxId
      BY GoneOK DEF SessionOK, Ids
    <2>2. QED
      BY <1>1, <2>1, LoadedOK DEF SessionOK, Sessions
  <1>3. /\ bottles[i].by \in Authorities
        /\ Loaded(i) \in Now /\ Loaded(i).by = "unread" /\ Loaded(i).mash = bottles[i].mash
    BY <1>1, LoadedOK DEF Types, Bottle, Loaded
  <1> HIDE DEF s0
  <1>4. /\ SessionOK(s)
        /\ m = bottles[i].mash => s.loaded.by = "unread" /\ s.now = Loaded(i)
        /\ m # bottles[i].mash =>
             /\ s.loaded.by = bottles[i].by /\ s.now.mash = bottles[i].mash
    <2>1. CASE m = bottles[i].mash
      BY <1>2, <1>3, <2>1
    <2>2. CASE m # bottles[i].mash
      <3>1. /\ s0 \in Sessions /\ s0.now \in Now /\ s0.loaded \in Columns
            /\ Reading(s0) =
                 [s0 EXCEPT !.loaded.by = bottles[i].by, !.now.by = bottles[i].by]
        BY <1>2, <1>3 DEF SessionOK, Sessions, Reading
      <3>2. /\ Reading(s0).loaded.by = bottles[i].by
            /\ Reading(s0).now.mash = bottles[i].mash
        BY <1>2, <1>3, <3>1 DEF Sessions, Columns, Now
      <3>3. QED
        BY <1>1, <1>2, <2>2, <3>2, ReadingOK
    <2>3. QED
      BY <2>1, <2>2
  <1> HIDE DEF s
  <1>5. /\ filled \in Now /\ filled \in Columns
        /\ m = bottles[i].mash => filled.by = "unread"
        /\ m # bottles[i].mash => filled.by = "user_entered"
    BY <1>3, <1>4 DEF Filled, Now, Columns, SessionOK, Authorities
  <1> HIDE DEF filled
  <1>6. /\ SessionOK(after) /\ after.loaded = s.loaded /\ after.now = filled
    BY <1>3, <1>4, <1>5 DEF SessionOK, Sessions
  <1>7. PICK flushed \in BOOLEAN :
          /\ m # bottles[i].mash => flushed
          /\ sessions' = [sessions EXCEPT ![r] =
               [(IF flushed THEN Flushed(after) ELSE after) EXCEPT !.at = await]]
    BY DEF Request, s0, s, filled
  <1> DEFINE base == IF flushed THEN Flushed(after) ELSE after
             new == [base EXCEPT !.at = await]
  <1> HIDE DEF after
  <1>8. /\ base \in Sessions
        /\ \/ base.loaded.by = "unread" /\ base.now.by = "unread"
           \/ base.loaded.by \in {"written", "user_entered"} /\ base.now.by = "user_entered"
    BY <1>4, <1>5, <1>6, <1>7, FlushedOK, FlushedBy DEF Written, SessionOK
  <1>9. sessions' = [sessions EXCEPT ![r] = new]
    BY <1>7
  <1> HIDE DEF base
  <1>10. new.at = await /\ new.loaded = base.loaded /\ new.now = base.now
    BY <1>8 DEF Sessions
  <1> HIDE DEF new
  <1>11. AuthorityOK(new)
    BY <1>8, <1>10 DEF AuthorityOK, Searches
  <1>12. \A v \in Workers : sessions'[v] = IF v = r THEN new ELSE sessions[v]
    BY <1>1, <1>9 DEF Types
  <1>13. QED
    BY <1>1, <1>11, <1>12, OtherStep

LEMMA RowsStep ==
    ASSUME AuthorityInv, UNCHANGED sessions,
           \A i \in Ids : bottles'[i].by \in {bottles[i].by, "user_entered", "none"}
    PROVE  Step
  BY OtherStep

LEMMA NextStep ==
    ASSUME IInv, AuthorityInv, [Next]_vars
    PROVE  AuthorityInv' /\ (UNCHANGED vars \/ (TakesOver /\ Overwrites))
  <1>1. CASE UNCHANGED vars
    BY <1>1 DEF vars, AuthorityInv, AuthorityOK
  <1>2. ASSUME NEW w \in Workers, Respects(w), Works(w)
        PROVE  Step
    BY <1>2, RespectsStep DEF Works
  <1>3. ASSUME NEW u \in Pipelines, Start(u)
        PROVE  Step
    <2>1. u \in Workers /\ lock # u
      BY <1>3, Kinds DEF Start, At, Workers, IInv, HolderWorks
    <2>2. QED
      BY <1>2, <1>3, <2>1, StartRespects, StartWorks DEF IInv
  <1>4. ASSUME NEW w \in Workers, Answer(w)
        PROVE  Step
    <2>1. AuthorityOK(sessions[w]) /\ Types
      BY DEF AuthorityInv, IInv
    <2>2. Respects(w) /\ Works(w)
      BY <1>4, <2>1, AnalyzedRespects, SearchedRespects, LateRespects, AnalyzedWorks,
         SearchedWorks, LateWorks DEF Answer
    <2>3. QED
      BY <1>2, <2>2
  <1>5. CASE User
    <2>1. ASSUME NEW i \in Ids, Add(i)
          PROVE  Step
      <3> DEFINE u == added + 1
                 row == [Absent EXCEPT !.stage = "queued", !.of = u]
                 task == [Gone EXCEPT !.at = "scheduled", !.id = i]
      <3>1. u \in Workers /\ ~Live(u)
        BY <2>1, WorkflowAssumption DEF Add, IInv, Types, Pipelines, Workers, AddedOnly
      <3>2. /\ bottles' = [bottles EXCEPT ![i] = row] /\ row.by = "none"
            /\ sessions' = [sessions EXCEPT ![u] = task] /\ AuthorityOK(task)
        BY <2>1 DEF Add, Absent, AuthorityOK, Gone, Searches
      <3> HIDE DEF row, task
      <3>3. \A j \in Ids : bottles'[j].by \in {bottles[j].by, "none"}
        BY <3>2 DEF IInv, Types
      <3>4. \A v \in Workers : sessions'[v] = IF v = u THEN task ELSE sessions[v]
        BY <3>1, <3>2 DEF IInv, Types
      <3>5. QED
        BY <3>1, <3>2, <3>3, <3>4, OtherStep
    <2>2. ASSUME NEW i \in Ids, Delete(i)
          PROVE  Step
      BY <2>2, RowsStep DEF Delete, IInv, Types, Absent
    <2>3. ASSUME NEW i \in Ids, NEW m \in Entries(bottles[i].mash),
                 NEW d \in Entries(bottles[i].date), Edit(i, m, d)
          PROVE  Step
      <3>1. Filled(bottles[i], m, d).by \in {bottles[i].by, "user_entered"}
        BY DEF Filled, IInv, Types, Bottle
      <3>2. QED
        BY <2>3, <3>1, RowsStep DEF Edit, IInv, Types
    <2>4. ASSUME NEW i \in Ids, NEW m \in Entries(bottles[i].mash),
                 NEW d \in Entries(bottles[i].date), NEW r \in Requests,
                 NEW await \in {"analyzing", "pricing", "finishing"},
                 Request(r, i, m, d, await)
          PROVE  Step
      BY <2>4, EntriesOK, RequestStep DEF IInv
    <2>5. QED
      BY <1>5, <2>1, <2>2, <2>3, <2>4 DEF User, Step
  <1>6. CASE FactExpires
    BY <1>6, RowsStep DEF FactExpires, Step
  <1>7. CASE ProcessEnds
    <2>1. bottles' = bottles /\ \A v \in Workers : sessions'[v] = Gone
      BY <1>7 DEF ProcessEnds
    <2>2. QED
      BY <2>1, GoneAuthority, OtherStep DEF Step
  <1>8. CASE Boot
    <2>1. \A i \in Ids : bottles'[i].by = bottles[i].by
      BY <1>8 DEF Boot, recover_orphaned_bottle_processing, IInv, Types, Bottle
    <2>2. QED
      BY <1>8, <2>1, RowsStep DEF Boot, Step
  <1>9. QED
    BY <1>1, <1>3, <1>4, <1>5, <1>6, <1>7, <1>8 DEF Next, Step

---------------------------------------------------------------------------
LEMMA AuthorityInvariance == Spec => [](IInv /\ AuthorityInv)
  <1>1. Init => AuthorityInv
    <2> SUFFICES ASSUME Init PROVE AuthorityInv
      OBVIOUS
    <2>1. \A w \in Workers : sessions[w] = Gone
      BY DEF Init
    <2>2. QED
      BY <2>1, GoneAuthority DEF AuthorityInv
  <1>2. IInv /\ AuthorityInv /\ [Next]_vars => AuthorityInv'
    BY NextStep
  <1>3. QED
    BY <1>1, <1>2, InitOK, NextKeeps, PTL DEF Spec

\* Automation takes a hand-verified field over only through a session that had read
\* an older authority of the row, or the analysis of a photo over a user's entry:
\* for any number of bottles, of requests at once and of forms
\* (product_attributions.py:100, main.py:477).
THEOREM EntriesAreKept == Spec => HandVerifiedStands
  <1>1. IInv /\ AuthorityInv /\ [Next]_vars => [TakesOver]_vars
    BY NextStep
  <1>2. QED
    BY <1>1, AuthorityInvariance, PTL DEF Spec, HandVerifiedStands, TakesOver

\* A user's first entry for a field stands against any number of searches that found
\* the field without provenance (models.py:176).
THEOREM FirstEntriesWin == Spec => FirstEntryStands
  <1>1. IInv /\ AuthorityInv /\ [Next]_vars => [Overwrites]_vars
    BY NextStep
  <1>2. QED
    BY <1>1, AuthorityInvariance, PTL DEF Spec, FirstEntryStands, Overwrites

---------------------------------------------------------------------------
(***************************************************************************)
(* The bottling date.                                                      *)
(***************************************************************************)

\* A photo's date in a session came with its row, or the session had found none
\* there: until the answer comes it is the row's own.
DateOK(s) ==
    /\ s.at = "analyzing" /\ s.now.date = "photo" => s.loaded.date = "photo"
    /\ s.at \in Searches /\ s.now.date = "photo" =>
         s.loaded.date \in {"blank", "photo", "written"}

DatesInv == \A w \in Workers : DateOK(sessions[w])

\* What a worker brings to the end of a stretch; nothing after the answer is about
\* the date.
Dated(s, more) ==
    /\ more.date = s.now.date
    /\ s.now.date = "photo" => s.loaded.date \in {"blank", "photo", "written"}

\* The end of a stretch: the worker's row takes the photo's date only if the session
\* has it to write, and the session goes on.
KeepsDates(w, s) ==
    /\ DateOK(sessions'[w])
    /\ \A j \in Ids : bottles[j].date # "photo" /\ bottles'[j].date = "photo" =>
         /\ j = sessions[w].id /\ sessions'[w] # sessions[w]
         /\ s.now.date = "photo" /\ s.loaded.date # "photo"

LEMMA GoneDate == DateOK(Gone)
  BY DEF DateOK, Gone, Searches

LEMMA ForgetDate ==
    ASSUME NEW s, SessionOK(s), NEW f \in {"mash", "date", "by"}
    PROVE  \/ /\ Forget(s, f).loaded.date = s.loaded.date
              /\ Forget(s, f).now.date = s.now.date
           \/ Forget(s, f).now.date = "blank"
  <1>1. s \in Sessions /\ s.now \in Now /\ s.loaded \in Columns
    BY DEF SessionOK, Sessions
  <1>2. CASE s.now[f] # s.loaded[f]
    BY <1>2 DEF Forget
  <1>3. CASE f = "mash" /\ s.now[f] = s.loaded[f]
    BY <1>1, <1>3 DEF Forget, Sessions, Columns, Now
  <1>4. CASE f = "date" /\ s.now[f] = s.loaded[f]
    BY <1>1, <1>4 DEF Forget, Sessions, Columns, Now, Blank
  <1>5. CASE f = "by" /\ s.now[f] = s.loaded[f]
    BY <1>1, <1>5 DEF Forget, Sessions, Columns, Now
  <1>6. QED
    BY <1>2, <1>3, <1>4, <1>5

LEMMA ForgetKeepsDate ==
    ASSUME NEW s, SessionOK(s), DateOK(s), NEW f \in {"mash", "date", "by"}
    PROVE  SessionOK(Forget(s, f)) /\ DateOK(Forget(s, f)) /\ Forget(s, f).at = s.at
  BY ForgetDate, ForgetOK DEF DateOK

LEMMA KeptDate ==
    ASSUME NEW s, SessionOK(s), s.at \in Searches, DateOK(s)
    PROVE  DateOK(Kept(s))
  <1>1. CASE s.at = "searching"
    BY <1>1, ForgetKeepsDate DEF Kept
  <1>2. CASE s.at \in {"pricing", "finishing"}
    <2>1. Kept(s) = Forget(Forget(Forget(s, "date"), "mash"), "by")
      BY <1>2 DEF Kept
    <2>2. QED
      BY <2>1, ForgetKeepsDate
  <1>3. QED
    BY <1>1, <1>2 DEF Searches

LEMMA MergedDate ==
    ASSUME NEW b \in Bottle, NEW s
    PROVE  Merged(b, s).date = IF s.now.date # s.loaded.date THEN s.now.date ELSE b.date
  BY DEF Merged, Bottle, Column

LEMMA RaisesDates ==
    ASSUME Types, NEW w \in Workers, Raises(w)
    PROVE  DateOK(sessions'[w]) /\ \A j \in Ids : bottles'[j].date = bottles[j].date
  <1> DEFINE i == sessions[w].id
  <1>1. sessions'[w] = Gone
    BY DEF Raises, Ends, Types
  <1>2. CASE bottles' = bottles
    BY <1>1, <1>2, GoneDate
  <1>3. CASE bottles' = [bottles EXCEPT ![i].stage = "failed"]
    BY <1>1, <1>3, GoneDate DEF Types, Bottle
  <1>4. QED
    BY <1>2, <1>3 DEF Raises, MarksFailed

LEMMA CommitsDates ==
    ASSUME Types, NEW u \in Pipelines, Live(u), NEW s, NEW more, InHand(u, s, more),
           NEW await \in {"searching", "pricing", "finishing", "gone"},
           sessions[u].at # await, NEW flushed \in BOOLEAN, Dated(s, more),
           Commits(u, s, more, await, flushed)
    PROVE  KeepsDates(u, s)
  <1> DEFINE i == sessions[u].id
             then == [s EXCEPT !.at = await, !.found = "none",
                               !.loaded = s.now, !.now = more]
             last == [then EXCEPT !.loaded = more]
             row == IF await = "searching" THEN Merged(bottles[i], s)
                    ELSE Merged(Merged(bottles[i], s), then)
  <1>1. u \in Workers /\ i \in Ids /\ s.id = i /\ SessionOK(s) /\ more \in Now
    BY DEF Workers, Types, SessionOK, Live, InHand
  <1>2. CASE ~(MayWrite(u) /\ Flushes(s))
    BY <1>1, <1>2, RaisesDates DEF Commits, KeepsDates
  <1>3. CASE MayWrite(u) /\ Flushes(s)
    <2>1. /\ bottles' = [bottles EXCEPT ![i] = [row EXCEPT !.stage = StageAt(await)]]
          /\ sessions' = [sessions EXCEPT ![u] =
               IF await = "gone" THEN Gone
               ELSE Kept(IF await = "searching" THEN then ELSE last)]
      BY <1>1, <1>3 DEF Commits
    <2>2. /\ SessionOK(then) /\ then.at = await
          /\ then.loaded.date = s.now.date /\ then.now.date = s.now.date
      BY <1>1 DEF SessionOK, Sessions, Now, Columns, InHand, Outcomes, Awaits, Dated
    <2>3. /\ SessionOK(last) /\ last.at = await
          /\ last.loaded.date = s.now.date /\ last.now.date = s.now.date
      <3>1. then \in Sessions /\ then.now = more /\ more \in Columns
        BY <1>1, <2>2 DEF SessionOK, Now, Columns
      <3> HIDE DEF then
      <3>2. QED
        BY <1>1, <2>2, <3>1 DEF SessionOK, Sessions, Dated
    <2> HIDE DEF then, last
    <2>4. DateOK(sessions'[u]) /\ sessions'[u].at = await
      <3>1. CASE await = "gone"
        BY <1>1, <2>1, <3>1, GoneDate, GoneOK DEF Types
      <3>2. CASE await = "searching"
        <4>1. DateOK(then)
          BY <2>2, <3>2 DEF DateOK, Searches
        <4>2. QED
          BY <1>1, <2>1, <2>2, <3>2, <4>1, KeptDate, KeptOK DEF Types, Searches, Awaits
      <3>3. CASE await \in {"pricing", "finishing"}
        <4>1. DateOK(last)
          BY <2>3, <3>3 DEF DateOK, Searches
        <4>2. QED
          BY <1>1, <2>1, <2>3, <3>3, <4>1, KeptDate, KeptOK DEF Types, Searches, Awaits
      <3>4. QED
        BY <3>1, <3>2, <3>3
    <2>5. /\ row \in Bottle
          /\ row.date = IF s.now.date # s.loaded.date THEN s.now.date ELSE bottles[i].date
      <3>1. bottles[i] \in Bottle
        BY <1>1 DEF Types
      <3>2. Merged(bottles[i], s) \in Bottle
        BY <1>1, <3>1, MergedOK
      <3>3. Merged(Merged(bottles[i], s), then) \in Bottle
        BY <2>2, <3>2, MergedOK
      <3>4. /\ Merged(bottles[i], s).date = IF s.now.date # s.loaded.date THEN s.now.date
                                            ELSE bottles[i].date
            /\ Merged(Merged(bottles[i], s), then).date = Merged(bottles[i], s).date
        BY <2>2, <3>1, <3>2, MergedDate
      <3>5. QED
        BY <3>2, <3>3, <3>4
    <2> HIDE DEF row
    <2>6. [row EXCEPT !.stage = StageAt(await)].date = row.date
      BY <2>5 DEF Bottle
    <2>7. \A j \in Ids : bottles'[j].date = IF j = i THEN row.date ELSE bottles[j].date
      BY <2>1, <2>6 DEF Types
    <2>8. QED
      BY <2>4, <2>5, <2>7 DEF KeepsDates
  <1>4. QED
    BY <1>2, <1>3

LEMMA FlushedDate ==
    ASSUME NEW s, SessionOK(s)
    PROVE  Flushed(s).loaded.date = Written(s.loaded.date, s.now.date)
  BY DEF SessionOK, Sessions, Flushed, Columns

LEMMA CarriesDates ==
    ASSUME Types, NEW w \in Workers, Live(w), NEW s, NEW more, InHand(w, s, more),
           NEW await \in {"searching", "pricing", "finishing"},
           NEW flushed \in BOOLEAN, Dated(s, more),
           Carries(w, s, more, await, flushed)
    PROVE  KeepsDates(w, s)
  <1> DEFINE base == IF flushed THEN Flushed(s) ELSE s
             then == [base EXCEPT !.at = await, !.now = more]
  <1>1. /\ SessionOK(s) /\ s.id \in Ids
        /\ more \in Now /\ (more.by = "unread" => s.now.by = "unread")
    BY DEF InHand, Types, SessionOK, Live
  <1>2. CASE ~(flushed => MayWrite(w) /\ Flushes(s))
    BY <1>2, RaisesDates DEF Carries, KeepsDates
  <1>3. CASE flushed => MayWrite(w) /\ Flushes(s)
    <2>1. sessions' = [sessions EXCEPT ![w] = Kept(then)] /\ bottles' = bottles
      BY <1>3 DEF Carries
    <2>2. /\ SessionOK(base) /\ base.now = s.now /\ base.id = s.id
          /\ base.loaded.date \in {s.loaded.date, "written"}
      BY <1>1, FlushedOK, FlushedDate DEF Written
    <2> HIDE DEF base
    <2>3. /\ SessionOK(then) /\ then.at = await
          /\ then.loaded.date = base.loaded.date /\ then.now.date = s.now.date
      <3>1. base \in Sessions /\ more \in Columns
            /\ (more.by = "unread" => base.loaded.by = "unread")
        BY <1>1, <2>2 DEF SessionOK, Now, Columns
      <3>2. QED
        BY <1>1, <2>2, <3>1 DEF SessionOK, Sessions, Awaits, Dated
    <2> HIDE DEF then
    <2>4. DateOK(then)
      BY <2>2, <2>3 DEF DateOK, Dated
    <2>5. DateOK(Kept(then))
      BY <2>3, <2>4, KeptDate DEF Searches
    <2>6. QED
      BY <2>1, <2>5 DEF KeepsDates, Types
  <1>4. QED
    BY <1>2, <1>3

LEMMA CommitsAllDates ==
    ASSUME Types, NEW r \in Requests, Live(r), NEW s, NEW more, InHand(r, s, more),
           Dated(s, more), CommitsAll(r, s, more)
    PROVE  KeepsDates(r, s)
  <1> DEFINE i == sessions[r].id
             last == [Flushed(s) EXCEPT !.now = more]
  <1>1. r \in Workers /\ SessionOK(s) /\ s.id = i /\ i \in Ids
    BY DEF Workers, Types, SessionOK, Live, InHand
  <1>2. CASE ~(MayWrite(r) /\ Flushes(s))
    BY <1>1, <1>2, RaisesDates DEF CommitsAll, KeepsDates
  <1>3. CASE MayWrite(r) /\ Flushes(s)
    <2>1. /\ bottles' = [bottles EXCEPT ![i] = Merged(bottles[i], last)]
          /\ sessions' = [sessions EXCEPT ![r] = Gone]
      BY <1>1, <1>3 DEF CommitsAll, Ends
    <2>2. last.loaded.date = Written(s.loaded.date, s.now.date)
          /\ last.now.date = s.now.date
      <3>1. Flushed(s) \in Sessions
        BY <1>1, FlushedOK DEF SessionOK
      <3>2. QED
        BY <1>1, <3>1, FlushedDate DEF Sessions, Dated
    <2> HIDE DEF last
    <2>3. bottles[i] \in Bottle
      BY <1>1 DEF Types
    <2>4. Merged(bottles[i], last).date =
            IF last.now.date # last.loaded.date THEN last.now.date ELSE bottles[i].date
      BY <2>3, MergedDate
    <2>5. \A j \in Ids : bottles'[j].date = IF j = i THEN Merged(bottles[i], last).date
                                            ELSE bottles[j].date
      BY <2>1 DEF Types
    <2>6. sessions'[r] = Gone /\ sessions[r] # Gone
      BY <1>1, <2>1, GoneOK DEF Types, Live
    <2>7. QED
      BY <2>2, <2>4, <2>5, <2>6, GoneDate DEF KeepsDates, Written
  <1>4. QED
    BY <1>2, <1>3

LEMMA GoesDates ==
    ASSUME Types, NEW w \in Workers, Live(w), NEW s, NEW more, InHand(w, s, more),
           NEW await \in {"searching", "pricing", "finishing", "gone"},
           sessions[w].at # await, NEW flushed \in BOOLEAN, Dated(s, more),
           Goes(w, s, more, await, flushed)
    PROVE  KeepsDates(w, s)
  <1>1. CASE w \in Pipelines
    <2>1. Commits(w, s, more, await, flushed)
      BY <1>1, Kinds DEF Goes
    <2>2. QED
      BY <1>1, <2>1, CommitsDates
  <1>2. CASE w \in Requests /\ await = "gone"
    BY <1>2, Kinds, CommitsAllDates DEF Goes
  <1>3. CASE w \in Requests /\ await # "gone"
    <2>1. PICK touched \in BOOLEAN : Carries(w, s, more, await, flushed \/ touched)
      BY <1>3, Kinds DEF Goes
    <2>2. /\ (flushed \/ touched) \in BOOLEAN
          /\ await \in {"searching", "pricing", "finishing"}
      BY <1>3
    <2>3. QED
      BY <2>1, <2>2, CarriesDates
  <1>4. QED
    BY <1>1, <1>2, <1>3, Kinds

\* A worker puts the photo's date in the place of the user's as EnteredDateStands has it.
Yields(w) ==
    /\ DateOK(sessions'[w])
    /\ \A i \in Ids : bottles[i].date = "user" /\ bottles'[i].date = "photo" =>
         /\ Live(w) /\ sessions[w].id = i /\ sessions'[w] # sessions[w]
         /\ DatesLate(w)

LEMMA RaisesYields ==
    ASSUME Types, NEW w \in Workers, Raises(w)
    PROVE  Yields(w)
  BY RaisesDates DEF Yields

\* What the answer makes of the date: the photo's only where the session had found
\* none and the form cleared none.
LEMMA AnalysisDate ==
    ASSUME NEW w, NEW s, s.now \in Now, NEW a \in Answers
    PROVE  \/ Analysis(w, s, a).date = s.now.date
           \/ s.now.date = "blank" /\ s.loaded.date = "blank"
  <1>1. \A c \in Now, v \in Origins, authority \in Authorities :
          /\ apply_analysis(c, v, authority) \in Now
          /\ apply_analysis(c, v, authority).date = c.date
    BY DEF apply_analysis, Now
  <1>2. \A d \in Dates : /\ apply_photo_bottled_date(s.now, d) \in Now
                         /\ s.now.date # "blank" =>
                              apply_photo_bottled_date(s.now, d).date = s.now.date
    BY DEF apply_photo_bottled_date, Now
  <1>3. a.mash \in Origins /\ a.date \in Dates /\ "catalog" \in Origins
        /\ Stamp(w, a) \in Authorities /\ "verified_catalog" \in Authorities
    BY DEF Answers, Origins, Dates, Stamp, Authorities
  <1> DEFINE dated == IF Cleared(s) THEN s.now ELSE apply_photo_bottled_date(s.now, a.date)
             analyzed == apply_analysis(dated, a.mash, Stamp(w, a))
  <1>4. dated \in Now
    BY <1>2, <1>3
  <1>5. dated.date = s.now.date \/ (s.now.date = "blank" /\ s.loaded.date = "blank")
    BY <1>2, <1>3 DEF Cleared
  <1> HIDE DEF dated
  <1>6. analyzed \in Now /\ analyzed.date = dated.date
    BY <1>1, <1>3, <1>4
  <1> HIDE DEF analyzed
  <1>7. Analysis(w, s, a).date = dated.date
    <2>1. Analysis(w, s, a) = IF a.byName
                              THEN apply_analysis(analyzed, "catalog", "verified_catalog")
                              ELSE analyzed
      BY DEF Analysis, dated, analyzed
    <2>2. QED
      BY <1>1, <1>3, <1>6, <2>1
  <1>8. QED
    BY <1>5, <1>7

LEMMA FactDate ==
    ASSUME NEW c \in Now, NEW outcome \in Outcomes
    PROVE  _apply_fact(c, outcome).date = c.date
  BY DEF _apply_fact, Now, Outcomes

LEMMA ReadingDate ==
    ASSUME Types, NEW s, SessionOK(s), s.id \in Ids
    PROVE  Reading(s).loaded.date = s.loaded.date /\ Reading(s).now.date = s.now.date
  BY DEF Reading, SessionOK, Sessions, Columns, Now

LEMMA AnalyzedYields ==
    ASSUME Types, NEW w \in Workers, DateOK(sessions[w]), NEW a \in Answers,
           NEW producer, Analyzed(w, a, producer)
    PROVE  Yields(w)
  <1> DEFINE s == Reading(sessions[w])
             now == Analysis(w, s, a)
             after == [s EXCEPT !.now = now]
             asks == facts = "none" /\ _may_automate(now)
             more == IF facts = "none" THEN now ELSE _apply_fact(now, facts)
             asked == [after EXCEPT !.asks = asks]
             i == sessions[w].id
  <1>1. /\ Live(w) /\ At(w, "analyzing") /\ sessions[w].at = "analyzing"
        /\ SessionOK(sessions[w]) /\ i \in Ids
    BY DEF Analyzed, At, Live, Types, SessionOK
  <1>2. /\ SessionOK(s) /\ s.id = i /\ s.now.by # "unread"
        /\ s.loaded.date = sessions[w].loaded.date /\ s.now.date = sessions[w].now.date
    BY <1>1, ReadingOK, ReadingDate
  <1> HIDE DEF s
  <1>3. /\ now \in Now /\ now.by # "unread"
        /\ \/ now.date = s.now.date
           \/ s.loaded.date = "blank"
    BY <1>2, AnalysisOK, AnalysisDate DEF SessionOK
  <1> HIDE DEF now
  <1>4. /\ SessionOK(after) /\ after.id = i /\ after.now = now /\ after.loaded = s.loaded
    BY <1>2, <1>3 DEF SessionOK, Sessions, Now, Columns
  <1>5. more \in Now /\ more.by # "unread" /\ more.date = now.date
    BY <1>3, FactOK, FactDate DEF Types
  <1> HIDE DEF after, asks, more
  <1>6. /\ SessionOK(asked) /\ asked.id = i /\ asked.now = now
        /\ asked.loaded = s.loaded
    <2>1. asks \in BOOLEAN
      BY DEF asks
    <2>2. QED
      BY <1>4, <2>1 DEF SessionOK, Sessions
  <1> HIDE DEF asked
  <1>7. InHand(w, after, now) /\ InHand(w, after, more) /\ InHand(w, asked, more)
    BY <1>3, <1>4, <1>5, <1>6 DEF InHand
  <1>8. /\ Dated(after, now) /\ Dated(after, more) /\ Dated(asked, more)
    BY <1>1, <1>2, <1>3, <1>4, <1>5, <1>6 DEF Dated, DateOK
  <1>9. \/ Goes(w, after, now, "gone", FALSE)
        \/ Goes(w, asked, more, "searching", producer = "applied")
        \/ \E next \in AfterResolve : Goes(w, after, more, next, next = "finishing")
    <2>1. after.now = now
      BY <1>4
    <2>2. QED
      BY <2>1 DEF Analyzed, s, now, after, asks, more, asked
  <1>10. KeepsDates(w, after) \/ KeepsDates(w, asked)
    <2>1. CASE Goes(w, after, now, "gone", FALSE)
      BY <1>1, <1>7, <1>8, <2>1, GoesDates
    <2>2. CASE Goes(w, asked, more, "searching", producer = "applied")
      <3>1. (producer = "applied") \in BOOLEAN
        OBVIOUS
      <3>2. QED
        BY <1>1, <1>7, <1>8, <2>2, <3>1, GoesDates
    <2>3. CASE \E next \in AfterResolve : Goes(w, after, more, next, next = "finishing")
      <3>1. PICK next \in AfterResolve : Goes(w, after, more, next, next = "finishing")
        BY <2>3
      <3>2. /\ (next = "finishing") \in BOOLEAN
            /\ next \in {"searching", "pricing", "finishing", "gone"} /\ next # "analyzing"
        BY NextAwait
      <3>3. QED
        BY <1>1, <1>7, <1>8, <3>1, <3>2, GoesDates
    <2>4. QED
      BY <1>9, <2>1, <2>2, <2>3
  <1>11. /\ DateOK(sessions'[w])
         /\ \A j \in Ids : bottles[j].date # "photo" /\ bottles'[j].date = "photo" =>
              /\ j = i /\ sessions'[w] # sessions[w]
              /\ now.date = "photo" /\ s.loaded.date # "photo"
    BY <1>4, <1>6, <1>10 DEF KeepsDates
  <1>12. now.date = "photo" /\ s.loaded.date # "photo" => sessions[w].loaded.date = "blank"
    BY <1>1, <1>2, <1>3 DEF DateOK
  <1>13. QED
    BY <1>1, <1>11, <1>12 DEF Yields, DatesLate

\* From the search on a stretch leaves the dates of its session alone.
LEMMA SettledYields ==
    ASSUME NEW w \in Workers, Live(w), DateOK(sessions[w]), sessions[w].at \in Searches,
           NEW s, s.loaded.date = sessions[w].loaded.date,
           s.now.date = sessions[w].now.date, KeepsDates(w, s)
    PROVE  Yields(w)
  BY DEF KeepsDates, Yields, DateOK, DatesLate

LEMMA SearchedYields ==
    ASSUME Types, NEW w \in Workers, DateOK(sessions[w]),
           NEW outcome \in Outcomes \cup {"none"}, Searched(w, outcome)
    PROVE  Yields(w)
  <1> DEFINE s == [sessions[w] EXCEPT !.asks = FALSE]
             heard == sessions[w].asks /\ outcome # "none"
             fact == _apply_fact(s.now, outcome)
             after == IF heard THEN [s EXCEPT !.found = outcome, !.now = fact] ELSE s
  <1>1. /\ Live(w) /\ sessions[w].at = "searching"
        /\ SessionOK(sessions[w]) /\ sessions[w].id \in Ids
    BY DEF Searched, At, Live, Types, SessionOK
  <1>2. /\ SessionOK(s) /\ s.id = sessions[w].id
        /\ s.loaded = sessions[w].loaded /\ s.now = sessions[w].now
    BY <1>1 DEF SessionOK, Sessions
  <1> HIDE DEF s
  <1>3. s.now \in Now /\ (s.now.by = "unread" => s.loaded.by = "unread")
    BY <1>2 DEF SessionOK
  <1>4. heard => /\ outcome \in Outcomes /\ fact \in Now
                 /\ fact.by = "unread" => s.now.by = "unread"
                 /\ fact.date = s.now.date
    <2> SUFFICES ASSUME heard
                 PROVE  /\ outcome \in Outcomes /\ fact \in Now
                        /\ fact.by = "unread" => s.now.by = "unread"
                        /\ fact.date = s.now.date
      OBVIOUS
    <2>1. outcome \in Outcomes
      OBVIOUS
    <2>2. QED
      BY <1>3, <2>1, FactOK, FactDate
  <1> HIDE DEF fact
  <1>5. /\ SessionOK(after) /\ after.id = sessions[w].id
        /\ after.loaded = s.loaded /\ after.now = IF heard THEN fact ELSE s.now
    <2>1. heard => fact \in Columns
      BY <1>4 DEF Now, Columns
    <2>2. QED
      BY <1>2, <1>3, <1>4, <2>1 DEF SessionOK, Sessions
  <1>6. PICK next \in AfterResolve : Goes(w, after, after.now, next, next = "finishing")
    BY DEF Searched, s, fact
  <1> HIDE DEF after
  <1>7. InHand(w, after, after.now)
    BY <1>5 DEF InHand, SessionOK
  <1>8. Dated(after, after.now)
    BY <1>1, <1>2, <1>4, <1>5 DEF Dated, DateOK, Searches
  <1>9. /\ (next = "finishing") \in BOOLEAN /\ next # "searching"
        /\ next \in {"searching", "pricing", "finishing", "gone"}
    BY NextAwait
  <1>10. KeepsDates(w, after)
    BY <1>1, <1>6, <1>7, <1>8, <1>9, GoesDates
  <1>11. QED
    BY <1>1, <1>2, <1>4, <1>5, <1>10, SettledYields DEF Searches

LEMMA LateYields ==
    ASSUME Types, NEW w \in Workers, DateOK(sessions[w]),
           Priced(w) \/ Finished(w) \/ CallFails(w)
    PROVE  Yields(w)
  <1> DEFINE s == sessions[w]
  <1>1. CASE CallFails(w)
    BY <1>1, RaisesYields DEF CallFails
  <1>2. CASE Priced(w) \/ Finished(w)
    <2>1. /\ Live(w) /\ SessionOK(s) /\ s.at \in Searches \ {"searching"}
          /\ InHand(w, s, s.now)
      BY <1>2 DEF Priced, Finished, At, Live, Types, SessionOK, InHand, Searches
    <2>2. Dated(s, s.now)
      BY <2>1 DEF Dated, DateOK
    <2>3. KeepsDates(w, s)
      <3>1. CASE Goes(w, s, s.now, "gone", FALSE)
        BY <2>1, <2>2, <3>1, GoesDates DEF Live
      <3>2. CASE Carries(w, s, s.now, "finishing", TRUE)
        BY <2>1, <2>2, <3>2, CarriesDates
      <3>3. QED
        BY <1>2, <3>1, <3>2 DEF Priced, Finished
    <2>4. QED
      BY <2>1, <2>3, SettledYields
  <1>3. QED
    BY <1>1, <1>2

LEMMA StartYields ==
    ASSUME Types, NEW u \in Pipelines, Start(u)
    PROVE  Yields(u)
  <1> DEFINE i == sessions[u].id
             s == [sessions[u] EXCEPT !.loaded = Loaded(i), !.now = Loaded(i)]
             then == [s EXCEPT !.at = "analyzing", !.found = "none",
                               !.loaded = s.now, !.now = s.now]
             last == [then EXCEPT !.loaded = s.now]
             row == Merged(Merged(bottles[i], s), then)
  <1>1. /\ u \in Workers /\ i \in Ids
        /\ sessions[u] \in Sessions /\ bottles[i] \in Bottle
    BY DEF Start, At, Types, SessionOK, Workers
  <1>2. CASE ~Exists(i)
    <2>1. sessions' = [sessions EXCEPT ![u] = Gone] /\ bottles' = bottles
      BY <1>2 DEF Start, Ends
    <2>2. QED
      BY <1>1, <2>1, GoneDate DEF Types, Yields
  <1>3. CASE Exists(i) /\ ~(MayWrite(u) /\ Flushes(s))
    BY <1>1, <1>3, RaisesYields DEF Start, Commits
  <1>4. CASE Exists(i) /\ MayWrite(u) /\ Flushes(s)
    <2>1. s.id = i /\ s.loaded = Loaded(i) /\ s.now = Loaded(i)
      BY <1>1 DEF Sessions
    <2>2. /\ bottles' =
               [bottles EXCEPT ![i] = [row EXCEPT !.stage = StageAt("analyzing")]]
          /\ sessions' = [sessions EXCEPT ![u] = Kept(last)]
      BY <1>4, <2>1 DEF Start, Commits
    <2>3. /\ last.at = "analyzing" /\ last.loaded = Loaded(i) /\ last.now = Loaded(i)
          /\ then.loaded = Loaded(i) /\ then.now = Loaded(i)
      BY <1>1, <2>1 DEF Sessions
    <2>4. row = bottles[i]
      BY <1>1, <2>1, <2>3 DEF Merged, Column, Bottle
    <2> HIDE DEF last, row
    <2>5. Kept(last) = last /\ DateOK(last)
      BY <2>3 DEF Kept, DateOK, Searches
    <2>6. \A j \in Ids : bottles'[j].date = bottles[j].date
      BY <1>1, <2>2, <2>4 DEF Types, Bottle
    <2>7. sessions'[u] = last
      BY <1>1, <2>2, <2>5 DEF Types
    <2>8. QED
      BY <2>5, <2>6, <2>7 DEF Yields
  <1>5. QED
    BY <1>2, <1>3, <1>4

\* What EnteredDateStands asks of a step.
Replaces ==
    \A i \in Ids :
      /\ bottles[i].date = "user"
      /\ bottles'[i].date = "photo"
      => \E w \in Workers :
           /\ Live(w) /\ sessions[w].id = i /\ sessions'[w] # sessions[w]
           /\ DatesLate(w)

LEMMA YieldsStep ==
    ASSUME DatesInv, NEW w \in Workers, Yields(w),
           \A v \in Workers : v # w => sessions'[v] = sessions[v]
    PROVE  DatesInv' /\ Replaces
  <1>1. \A v \in Workers : DateOK(sessions'[v])
    BY DEF DatesInv, Yields
  <1>2. DatesInv'
    BY <1>1 DEF DatesInv, DateOK
  <1>3. Replaces
    BY DEF Replaces, Yields
  <1>4. QED
    BY <1>2, <1>3

\* A step of anybody else puts no photo's date in a row.
LEMMA OtherDates ==
    ASSUME DatesInv,
           \A i \in Ids : bottles'[i].date \in {bottles[i].date, "user", "blank"},
           \A v \in Workers : sessions'[v] # sessions[v] => DateOK(sessions'[v])
    PROVE  DatesInv' /\ Replaces
  <1>1. \A v \in Workers : DateOK(sessions'[v])
    BY DEF DatesInv
  <1>2. DatesInv'
    BY <1>1 DEF DatesInv, DateOK
  <1>3. Replaces
    BY DEF Replaces
  <1>4. QED
    BY <1>2, <1>3

LEMMA RequestDates ==
    ASSUME IInv, DatesInv, NEW r \in Requests, NEW i \in Ids, NEW m \in Origins,
           NEW d \in Entries(bottles[i].date),
           NEW await \in {"analyzing", "pricing", "finishing"},
           Request(r, i, m, d, await)
    PROVE  DatesInv' /\ Replaces
  <1> DEFINE s0 == [Gone EXCEPT !.id = i, !.loaded = Loaded(i), !.now = Loaded(i)]
             s == IF m = bottles[i].mash THEN s0 ELSE Reading(s0)
             filled == Filled(s.now, m, d)
             after == [s EXCEPT !.now = filled]
  <1>1. r \in Workers /\ Types /\ bottles' = bottles
    BY DEF Workers, IInv, Request
  <1>2. SessionOK(s0) /\ s0.id = i /\ s0.loaded = Loaded(i) /\ s0.now = Loaded(i)
    <2>1. Gone \in Sessions /\ i \in 0..MaxId
      BY GoneOK DEF SessionOK, Ids
    <2>2. QED
      BY <1>1, <2>1, LoadedOK DEF SessionOK, Sessions
  <1> HIDE DEF s0
  <1>3. SessionOK(s) /\ s.loaded.date = bottles[i].date
    <2>1. s0.loaded.date = bottles[i].date
      BY <1>2 DEF Loaded
    <2>2. SessionOK(Reading(s0)) /\ Reading(s0).loaded.date = s0.loaded.date
      BY <1>1, <1>2, ReadingOK, ReadingDate
    <2>3. QED
      BY <1>2, <2>1, <2>2
  <1> HIDE DEF s
  <1>4. d \in Dates
    BY <1>1 DEF Types, Bottle, Entries, Dates
  <1>5. /\ filled \in Now /\ filled \in Columns /\ filled.date = d
        /\ filled.by = "unread" => s.now.by = "unread"
    BY <1>3, <1>4 DEF Filled, Now, Columns, SessionOK, Authorities
  <1> HIDE DEF filled
  <1>6. SessionOK(after) /\ after.loaded = s.loaded /\ after.now = filled
    BY <1>3, <1>5 DEF SessionOK, Sessions
  <1>7. PICK flushed \in BOOLEAN :
          sessions' = [sessions EXCEPT ![r] =
            [(IF flushed THEN Flushed(after) ELSE after) EXCEPT !.at = await]]
    BY DEF Request, s0, s, filled
  <1> DEFINE base == IF flushed THEN Flushed(after) ELSE after
             new == [base EXCEPT !.at = await]
  <1> HIDE DEF after
  <1>8. /\ base \in Sessions
        /\ base.now.date = "photo" => base.loaded.date = "photo"
    BY <1>3, <1>5, <1>6, FlushedOK, FlushedDate DEF Written, SessionOK, Entries
  <1>9. sessions' = [sessions EXCEPT ![r] = new]
    BY <1>7
  <1> HIDE DEF base
  <1>10. new.loaded = base.loaded /\ new.now = base.now
    BY <1>8 DEF Sessions
  <1> HIDE DEF new
  <1>11. DateOK(new)
    BY <1>8, <1>10 DEF DateOK
  <1>12. \A v \in Workers : sessions'[v] = IF v = r THEN new ELSE sessions[v]
    BY <1>1, <1>9 DEF Types
  <1>13. QED
    BY <1>1, <1>11, <1>12, OtherDates

LEMMA NextDates ==
    ASSUME IInv, DatesInv, [Next]_vars
    PROVE  DatesInv' /\ (UNCHANGED vars \/ Replaces)
  <1>1. CASE UNCHANGED vars
    BY <1>1 DEF vars, DatesInv, DateOK
  <1>2. ASSUME NEW w \in Workers, Yields(w), Works(w)
        PROVE  DatesInv' /\ Replaces
    BY <1>2, YieldsStep DEF Works
  <1>3. ASSUME NEW u \in Pipelines, Start(u)
        PROVE  DatesInv' /\ Replaces
    <2>1. u \in Workers /\ lock # u
      BY <1>3, Kinds DEF Start, At, Workers, IInv, HolderWorks
    <2>2. QED
      BY <1>2, <1>3, <2>1, StartYields, StartWorks DEF IInv
  <1>4. ASSUME NEW w \in Workers, Answer(w)
        PROVE  DatesInv' /\ Replaces
    <2>1. DateOK(sessions[w]) /\ Types
      BY DEF DatesInv, IInv
    <2>2. Yields(w) /\ Works(w)
      BY <1>4, <2>1, AnalyzedYields, SearchedYields, LateYields, AnalyzedWorks,
         SearchedWorks, LateWorks DEF Answer
    <2>3. QED
      BY <1>2, <2>2
  <1>5. CASE User
    <2>1. ASSUME NEW i \in Ids, Add(i)
          PROVE  DatesInv' /\ Replaces
      <3> DEFINE u == added + 1
                 row == [Absent EXCEPT !.stage = "queued", !.of = u]
                 task == [Gone EXCEPT !.at = "scheduled", !.id = i]
      <3>1. u \in Workers
        BY <2>1, WorkflowAssumption DEF Add, IInv, Types, Pipelines, Workers
      <3>2. /\ bottles' = [bottles EXCEPT ![i] = row] /\ row.date = "blank"
            /\ sessions' = [sessions EXCEPT ![u] = task] /\ DateOK(task)
        BY <2>1 DEF Add, Absent, DateOK, Gone, Blank, Searches
      <3> HIDE DEF row, task
      <3>3. \A j \in Ids : bottles'[j].date \in {bottles[j].date, "blank"}
        BY <3>2 DEF IInv, Types
      <3>4. \A v \in Workers : sessions'[v] = IF v = u THEN task ELSE sessions[v]
        BY <3>1, <3>2 DEF IInv, Types
      <3>5. QED
        BY <3>2, <3>3, <3>4, OtherDates
    <2>2. ASSUME NEW i \in Ids, Delete(i)
          PROVE  DatesInv' /\ Replaces
      BY <2>2, OtherDates DEF Delete, IInv, Types, Absent
    <2>3. ASSUME NEW i \in Ids, NEW m \in Entries(bottles[i].mash),
                 NEW d \in Entries(bottles[i].date), Edit(i, m, d)
          PROVE  DatesInv' /\ Replaces
      <3>1. Filled(bottles[i], m, d).date \in {bottles[i].date, "user", "blank"}
        BY DEF Filled, IInv, Types, Bottle, Entries
      <3>2. QED
        BY <2>3, <3>1, OtherDates DEF Edit, IInv, Types
    <2>4. ASSUME NEW i \in Ids, NEW m \in Entries(bottles[i].mash),
                 NEW d \in Entries(bottles[i].date), NEW r \in Requests,
                 NEW await \in {"analyzing", "pricing", "finishing"},
                 Request(r, i, m, d, await)
          PROVE  DatesInv' /\ Replaces
      <3>1. m \in Origins
        BY EntriesOK DEF IInv
      <3>2. QED
        BY <2>4, <3>1, RequestDates
    <2>5. QED
      BY <1>5, <2>1, <2>2, <2>3, <2>4 DEF User
  <1>6. CASE FactExpires
    BY <1>6, OtherDates DEF FactExpires
  <1>7. CASE ProcessEnds
    <2>1. bottles' = bottles /\ \A v \in Workers : sessions'[v] = Gone
      BY <1>7 DEF ProcessEnds
    <2>2. QED
      BY <2>1, GoneDate, OtherDates
  <1>8. CASE Boot
    <2>1. \A i \in Ids : bottles'[i].date = bottles[i].date
      BY <1>8 DEF Boot, recover_orphaned_bottle_processing, IInv, Types, Bottle
    <2>2. QED
      BY <1>8, <2>1, OtherDates DEF Boot
  <1>9. QED
    BY <1>1, <1>3, <1>4, <1>5, <1>6, <1>7, <1>8 DEF Next

\* The date a user entered gives way to the photo's only through a session that had
\* found no date before it was entered, for any number of bottles, requests and forms
\* (main.py:510).
THEOREM EnteredDatesAreKept == Spec => EnteredDateStands
  <1>1. Init => DatesInv
    <2> SUFFICES ASSUME Init PROVE DatesInv
      OBVIOUS
    <2>1. \A w \in Workers : sessions[w] = Gone
      BY DEF Init
    <2>2. QED
      BY <2>1, GoneDate DEF DatesInv
  <1>2. IInv /\ DatesInv /\ [Next]_vars => DatesInv' /\ [Replaces]_vars
    BY NextDates
  <1>3. QED
    BY <1>1, <1>2, InitOK, NextKeeps, PTL DEF Spec, EnteredDateStands, Replaces

=============================================================================
