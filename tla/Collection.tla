---------------------------- MODULE Collection ----------------------------
(***************************************************************************)
(* The files of an account beside its rows: the photos of its bottles and  *)
(* shopping items, and its avatar.                                         *)
(*                                                                         *)
(* A route that takes an upload loads its row, awaits the upload, and then *)
(* writes the new file, removes the one it loaded and commits; for an      *)
(* avatar it commits before it removes. Re-analysis awaits the models in   *)
(* between. Other routes run at every await, any commit may fail (the      *)
(* database is locked, the row is gone), and the process may end anywhere. *)
(* The two lists share their rows and their helpers, so the routes of the  *)
(* shopping list are not told apart from those of the collection.          *)
(*                                                                         *)
(* A definition that stands directly above the one it varies, with no      *)
(* comment of its own, is a wrong version of it.                           *)
(***************************************************************************)
EXTENDS Naturals

CONSTANTS
    Requests,   \* requests that await something
    MaxId,      \* bound on row ids
    MaxFiles,   \* bound on files ever written
    MaxDeletes, \* bound on deleted bottles
    MaxStops    \* bound on the ends of the process

ASSUME CollectionAssumption == MaxId \in Nat /\ MaxFiles \in Nat

VARIABLES
    rows,       \* bottles as committed: the photo of each, by id
    account,    \* is the user there, and with which avatar?
    files,      \* what data/uploads and data/avatars hold
    next,       \* the next fresh file name
    doomed,     \* files that the route which has just committed removes next
    req,        \* per request what it does and has loaded
    left,       \* how many more deletions and stops there may be
    stray,      \* ghost: files a failure or an overlapping request left behind
    torn        \* ghost: files removed for a commit that failed

vars == <<rows, account, files, next, doomed, req, left, stray, torn>>

NoFile == 0
Files == 1..MaxFiles
Kinds == {"add", "edit", "analyze", "avatar"}
Hand == [at : {"idle", "reading", "analyzing"}, kind : Kinds, id : 0..MaxId,
         old : Files \cup {NoFile}, new : Files \cup {NoFile}]
Idle == [at |-> "idle", kind |-> "add", id |-> 0, old |-> NoFile, new |-> NoFile]

Init ==
    /\ rows = << >> /\ files = {} /\ next = 1 /\ doomed = {}
    /\ account = [there |-> TRUE, avatar |-> NoFile]
    /\ req = [w \in Requests |-> Idle]
    /\ left = [deletes |-> MaxDeletes, stops |-> MaxStops]
    /\ stray = {} /\ torn = {}

Goes(w, r) == req' = [req EXCEPT ![w] = r]
IsNextRow(i) ==
    /\ \A j \in DOMAIN rows : j < i
    /\ i = 1 \/ i - 1 \in DOMAIN rows
Named(table) == {table[i] : i \in DOMAIN table} \ {NoFile}
Without(table, i) == [j \in DOMAIN table \ {i} |-> table[j]]

---------------------------------------------------------------------------
(***************************************************************************)
(* A route that takes an upload.                                           *)
(***************************************************************************)

\* The route has found its user and, unless it adds one, its bottle.
Load(w, kind, i) ==
    /\ req[w].at = "idle" /\ account.there
    /\ IF kind \in {"edit", "analyze"} THEN i \in DOMAIN rows ELSE i = 0
    /\ Goes(w, [at |-> "reading", kind |-> kind, id |-> i, new |-> NoFile,
                old |-> CASE kind = "avatar" -> account.avatar
                          [] kind = "add" -> NoFile
                          [] OTHER -> rows[i]])
    /\ UNCHANGED <<rows, account, files, next, doomed, left, stray, torn>>

\* The upload is too large or no image, or the edit brings none.
Refused(w) ==
    /\ req[w].at = "reading"
    /\ Goes(w, Idle)
    /\ UNCHANGED <<rows, account, files, next, doomed, left, stray, torn>>

\* save_photo and save_avatar: a fresh name each.
Saves == next <= MaxFiles /\ next' = next + 1

WithRow(photo) ==
    \E i \in 1..MaxId :
        /\ IsNextRow(i)
        /\ rows' = [j \in DOMAIN rows \cup {i} |-> IF j = i THEN photo ELSE rows[j]]

\* add_shopping_item without a photo.
AddBare ==
    /\ account.there
    /\ WithRow(NoFile)
    /\ UNCHANGED <<account, files, next, doomed, req, left, stray, torn>>

\* add_bottle and add_shopping_item; without its user the row is refused.
Add(w, commits) ==
    /\ req[w].at = "reading" /\ req[w].kind = "add"
    /\ Saves
    /\ files' = files \cup {next}
    /\ IF commits /\ account.there
       THEN WithRow(next) /\ stray' = stray
       ELSE rows' = rows /\ stray' = stray \cup {next}
    /\ Goes(w, Idle)
    /\ UNCHANGED <<account, doomed, left, torn>>

\* What a commit of `new` over the row `i`, loaded with `old`, leaves. The row is
\* found by its id alone; if it is gone the commit fails.
Replaced(i, old, new, commits) ==
    IF commits /\ i \in DOMAIN rows
    THEN /\ rows' = [rows EXCEPT ![i] = new]
         /\ stray' = stray \cup (files' \cap ({rows[i]} \ {old}))
         /\ torn' = torn
    ELSE rows' = rows /\ stray' = stray \cup {new} /\ torn' = torn \cup {old}

\* The new file is there, the old one is not.
SwappedLate(old, new) == (files \cup {new}) \ {new}
Swapped(old, new) == (files \cup {new}) \ {old}

\* save_bottle and update_shopping_photo.
Edit(w, commits) ==
    /\ req[w].at = "reading" /\ req[w].kind = "edit"
    /\ Saves
    /\ files' = Swapped(req[w].old, next)
    /\ Replaced(req[w].id, req[w].old, next, commits)
    /\ Goes(w, Idle)
    /\ UNCHANGED <<account, doomed, left>>

\* refresh_bottle_analysis up to its models, and its end.
Analyze(w) ==
    /\ req[w].at = "reading" /\ req[w].kind = "analyze"
    /\ Saves
    /\ files' = Swapped(req[w].old, next)
    /\ Goes(w, [req[w] EXCEPT !.at = "analyzing", !.new = next])
    /\ UNCHANGED <<rows, account, doomed, left, stray, torn>>

AnalyzeEnds(w, commits) ==
    /\ req[w].at = "analyzing"
    /\ files' = files
    /\ Replaced(req[w].id, req[w].old, req[w].new, commits)
    /\ Goes(w, Idle)
    /\ UNCHANGED <<account, next, doomed, left>>

\* The row first: what it named before is removed after the commit.
DoomedAnyway(w, committed) == {req[w].old} \ {NoFile}
Doomed(w, committed) == IF committed THEN {req[w].old} \ {NoFile} ELSE {}

UpdateAvatar(w, commits) ==
    /\ req[w].at = "reading" /\ req[w].kind = "avatar"
    /\ Saves
    /\ files' = files \cup {next}
    /\ doomed' = Doomed(w, commits /\ account.there)
    /\ IF commits /\ account.there
       THEN /\ account' = [account EXCEPT !.avatar = next]
            /\ stray' = stray \cup ({account.avatar} \ {req[w].old, NoFile})
       ELSE account' = account /\ stray' = stray \cup {next}
    /\ Goes(w, Idle)
    /\ UNCHANGED <<rows, left, torn>>

---------------------------------------------------------------------------
(***************************************************************************)
(* Routes without an await between their query and their commit, and the   *)
(* end of the process.                                                     *)
(***************************************************************************)

RemoveAvatar ==
    /\ account.there
    /\ account' = [account EXCEPT !.avatar = NoFile]
    /\ doomed' = {account.avatar} \ {NoFile}
    /\ UNCHANGED <<rows, files, next, req, left, stray, torn>>

\* remove_bottle_photo and the row.
Kept(i) == files
Remaining(i) == files \ {rows[i]}

\* delete_bottle, delete_shopping_item and an edit that empties a bottle.
DeleteBottle(i, commits) ==
    /\ account.there /\ i \in DOMAIN rows
    /\ left.deletes > 0 /\ left' = [left EXCEPT !.deletes = @ - 1]
    /\ files' = Remaining(i)
    /\ IF commits THEN rows' = Without(rows, i) /\ torn' = torn
       ELSE rows' = rows /\ torn' = torn \cup {rows[i]}
    /\ UNCHANGED <<account, next, doomed, req, stray>>

\* delete_profile: the row of the user, with all it owns, then the files.
NamesOf == {rows[i] : i \in DOMAIN rows} \cup {account.avatar}
FilesOf == ({rows[i] : i \in DOMAIN rows} \cup {account.avatar}) \ {NoFile}

DeleteAccount ==
    /\ account.there
    /\ account' = [there |-> FALSE, avatar |-> NoFile] /\ rows' = << >>
    /\ doomed' = FilesOf
    /\ UNCHANGED <<files, next, req, left, stray, torn>>

Unlink ==
    /\ doomed # {} /\ doomed' = {}
    /\ files' = files \ doomed
    /\ UNCHANGED <<rows, account, next, req, left, stray, torn>>

\* What the requests have written stays, and what they were to replace is gone.
ProcessEnds ==
    /\ left.stops > 0 /\ left' = [left EXCEPT !.stops = @ - 1]
    /\ stray' = (stray \cup doomed \cup {req[w].new : w \in Requests}) \ {NoFile}
    /\ torn' = torn \cup {req[w].old : w \in {v \in Requests : req[v].at = "analyzing"}}
    /\ doomed' = {} /\ req' = [w \in Requests |-> Idle]
    /\ UNCHANGED <<rows, account, files, next>>

\* No other route runs between a commit and the removals after it.
Next ==
    \/ Unlink \/ ProcessEnds
    \/ /\ doomed = {}
       /\ \/ \E w \in Requests : \E kind \in Kinds : \E i \in 0..MaxId : Load(w, kind, i)
          \/ \E w \in Requests : Refused(w) \/ Analyze(w)
          \/ \E w \in Requests : \E c \in BOOLEAN :
                Add(w, c) \/ Edit(w, c) \/ AnalyzeEnds(w, c) \/ UpdateAvatar(w, c)
          \/ \E i \in DOMAIN rows : \E c \in BOOLEAN : DeleteBottle(i, c)
          \/ AddBare \/ RemoveAvatar \/ DeleteAccount

Spec == Init /\ [][Next]_vars

---------------------------------------------------------------------------
\* Every variable has its type.
TypeOK ==
    /\ DOMAIN rows \subseteq 1..MaxId /\ rows \in [DOMAIN rows -> Files \cup {NoFile}]
    /\ account \in [there : BOOLEAN, avatar : Files \cup {NoFile}]
    /\ files \cup stray \cup doomed \subseteq Files /\ torn \subseteq Files \cup {NoFile}
    /\ next \in 1..MaxFiles + 1
    /\ req \in [Requests -> Hand]

\* A bottle shows its photo, whichever requests overlap and in whatever order
\* they commit: a row names a file that is gone only while the re-analysis that
\* replaces it is under way, or after a commit that failed or never came.
PhotosAreThere ==
    \A f \in Named(rows) \ files :
        \/ f \in torn
        \/ \E w \in Requests : req[w].at = "analyzing" /\ req[w].old = f

\* Avatars are removed after the commit, so the user's row always names a file.
AvatarIsThere == account.avatar \in files \cup {NoFile}

\* No file outlives what named it, with three exceptions: the commit that was to
\* name it failed, the process ended before the removal, or two requests that had
\* loaded the same photo both replaced it.
FilesAreNamed ==
    files \subseteq Named(rows) \cup {account.avatar} \cup stray \cup doomed
                      \cup {req[w].new : w \in Requests}

=============================================================================
