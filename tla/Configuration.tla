--------------------------- MODULE Configuration ---------------------------
(***************************************************************************)
(* The settings of the program, from the environment of its container and  *)
(* the file that the administrator's page writes, and the start of the     *)
(* process, which takes them up and brings the database to its last        *)
(* revision.                                                               *)
(*                                                                         *)
(* The environment is fixed while the process runs, and so are the         *)
(* settings it runs with: a save is seen at the next start. A save has no  *)
(* await between what it reads and the replacement of the file, so it is   *)
(* one step. Whoever ended the process, its supervisor starts it again.    *)
(*                                                                         *)
(* Five of the settings stand for all: a secret that is drawn anew by      *)
(* whoever finds it unset, a secret that may be empty, a choice, a text    *)
(* that the choice restricts, which stands for all rules between settings, *)
(* and the one whose default follows the choice. Alembic's commands are    *)
(* modelled by what they leave behind in SQLite, where each statement of a *)
(* revision is final and the note that it is done comes last.              *)
(*                                                                         *)
(* A definition that stands directly above the one it varies, with no      *)
(* comment of its own, is a wrong version of it.                           *)
(***************************************************************************)
EXTENDS Naturals

CONSTANTS
    Environments,   \* what the container may set: functions on some of the Fields
    Databases,      \* what the process may find at its first start
    HEAD_REVISION,
    Drawn(_),       \* the secrets that processes draw, first to last
    MaxSaves, MaxStops, MaxEdits    \* bounds on saves, ends, new environments

ASSUME BoundsAssumption ==
    HEAD_REVISION \in Nat \ {0} /\ {MaxSaves, MaxStops, MaxEdits} \subseteq Nat

VARIABLES
    env,        \* the environment of the container
    file,       \* <DATA_DIR>/.env, the part of it that has fields
    process,    \* "down", "stamping", "bootstrap", "migrating" or "up"
    settings,   \* what the process runs with, when it is up
    draw,       \* which of the secrets the next process draws
    db,         \* the database: see Database
    left,       \* how many saves, stops and edits there may still be
    saved,      \* ghost: what the last save was to put in force
    undone,     \* ghost: secrets left blank in it while another was in the file
    touched,    \* ghost: fields some save changed, or found drawn
    sound,      \* ghost: has nothing but saves without a revert been done?
    killed      \* ghost: did a process end while it worked on the database?

vars == <<env, file, process, settings, draw, db, left, saved, undone, touched, sound, killed>>

---------------------------------------------------------------------------
\* CONFIG_FIELDS.
Fields == {"SESSION_SECRET", "SMTP_PASSWORD", "APP_ENV", "PUBLIC_BASE_URL", "LOG_FORMAT"}
Secrets == {"SESSION_SECRET", "SMTP_PASSWORD"}
Optional == {"SMTP_PASSWORD"}
Draws == 1..MaxStops + 2
Values == [f \in Fields |->
    CASE f = "SESSION_SECRET" -> {"s", ""} [] f = "SMTP_PASSWORD" -> {"p", ""}
      [] f = "APP_ENV" -> {"development", "production"}
      [] f = "PUBLIC_BASE_URL" -> {"http", "https"} [] f = "LOG_FORMAT" -> {"text", "json"}]
Texts == {"s", "p", "development", "production", "http", "https", "text", "json", ""}
Settings == [Fields -> Texts \cup {Drawn(n) : n \in Draws}]

\* secrets.token_urlsafe: no two draws are alike, nor is one what somebody chose.
ASSUME DrawnAssumption ==
    \A m \in Draws : Drawn(m) \notin Texts /\ \A n \in Draws : m # n => Drawn(m) # Drawn(n)

ASSUME EnvironmentsAssumption ==
    \A e \in Environments :
        /\ DOMAIN e \subseteq Fields /\ e = [f \in DOMAIN e |-> e[f]]
        /\ \A f \in DOMAIN e : e[f] \in Values[f]

\* The file comes before the environment.
Merged(managed) ==
    [f \in DOMAIN managed \cup DOMAIN env |->
        IF f \in DOMAIN managed THEN managed[f] ELSE env[f]]

\* What the fields are that neither of them has. The format of the log follows the
\* kind of deployment, the file's included.
Usual == [SMTP_PASSWORD |-> "", APP_ENV |-> "development", PUBLIC_BASE_URL |-> "http",
          LOG_FORMAT |-> "text"]
Production(values) == "APP_ENV" \in DOMAIN values /\ values["APP_ENV"] = "production"
Default(f, values) ==
    IF f = "SESSION_SECRET" THEN Drawn(draw)
    ELSE IF f = "LOG_FORMAT" /\ Production(values) THEN "json" ELSE Usual[f]

from_env(managed) ==
    LET values == Merged(managed)
    IN  [f \in Fields |-> IF f \in DOMAIN values THEN values[f] ELSE Default(f, values)]

validate_identity(s) == s["APP_ENV"] = "production" => s["PUBLIC_BASE_URL"] = "https"

---------------------------------------------------------------------------
(***************************************************************************)
(* The page.                                                               *)
(***************************************************************************)

\* What a form says: a blank secret is the one in force unless it is cleared.
Blank(form, cleared) == {f \in Secrets \ cleared : form[f] = ""}
Parsed(form, cleared) ==
    [f \in Fields |-> IF f \in Blank(form, cleared) THEN settings[f] ELSE form[f]]
NotValidated(s) == \A f \in Fields \ Optional : s[f] # ""
Accepted(s) == (\A f \in Fields \ Optional : s[f] # "") /\ validate_identity(s)

\* What is written: what the file has, and what differs from what would be in
\* force without it. The baseline draws a secret of its own, so a secret that is
\* in no environment always differs; and its format of the log is not the one of
\* the process when the file has another kind of deployment.
baseline == from_env(<< >>)
AllFields(s, reverted) == Fields \ reverted
FromRunning(s, reverted) ==
    {f \in Fields \ reverted : f \in DOMAIN file \/ s[f] # settings[f]}
persisted_keys(s, reverted) ==
    {f \in Fields \ reverted : f \in DOMAIN file \/ s[f] # baseline[f]}

\* The secret that is stored: the next process finds it, or it is lost with this one.
Stored(f) ==
    IF f \in {"SESSION_SECRET"} \ (DOMAIN file \cup DOMAIN env) THEN settings[f]
    ELSE from_env(file)[f]

Save(form, cleared, reverted) ==
    /\ process = "up"
    /\ left.saves > 0 /\ left' = [left EXCEPT !.saves = @ - 1]
    /\ LET s == Parsed(form, cleared)
       IN  /\ Accepted(s)
           /\ file' = [f \in persisted_keys(s, reverted) |-> s[f]]
           /\ saved' = [f \in Fields \ reverted |->
                           IF f \in Blank(form, cleared) THEN Stored(f) ELSE s[f]]
           /\ undone' = {f \in Blank(form, cleared) : Stored(f) # settings[f]}
           /\ touched' = touched \cup {f \in Fields : s[f] # settings[f]}
                               \cup ({"SESSION_SECRET"} \ DOMAIN env)
           /\ sound' = (reverted = {})
    /\ UNCHANGED <<env, process, settings, draw, db, killed>>

---------------------------------------------------------------------------
(***************************************************************************)
(* The process and its database.                                           *)
(***************************************************************************)

\* How far the tables are, whether a revision is half done to them, what
\* table alembic_version is there and what it says (0: nothing), and whether the
\* tables are somebody else's.
Database == [tables : 0..HEAD_REVISION, half : BOOLEAN, stamped : BOOLEAN,
             version : 0..HEAD_REVISION, foreign : BOOLEAN]
LegacySchema(d) == ~d.stamped /\ ~d.foreign /\ d.tables = 1
Empty(d) == ~d.stamped /\ ~d.foreign /\ d.tables = 0

\* Earlier starts, if any, have come to their end.
ASSUME DatabasesAssumption ==
    \A d \in Databases :
        /\ d \in Database /\ ~d.half
        /\ d.stamped => ~d.foreign /\ d.tables = d.version
        /\ ~d.stamped => d.version = 0

Init ==
    /\ env \in Environments /\ file = << >>
    /\ process = "down" /\ settings = << >> /\ draw = 1
    /\ db \in Databases
    /\ left = [saves |-> MaxSaves, stops |-> MaxStops, edits |-> MaxEdits]
    /\ saved = << >> /\ undone = {} /\ touched = {} /\ killed = FALSE
    /\ sound = validate_identity(from_env(file))

Page == <<env, file, left, saved, undone, touched, sound>>

\* The entry point: settings, and what kind of database there is. One that is not
\* recognized is refused, and so are settings that do not validate.
BootstrapAll(d) == d.stamped \/ ~LegacySchema(d)
Upgradable(d) == d.stamped \/ Empty(d)
Classify ==
    /\ process = "down"
    /\ validate_identity(from_env(file))
    /\ \/ Upgradable(db) /\ process' = "bootstrap"
       \/ LegacySchema(db) /\ process' = "stamping"
    /\ db' = [db EXCEPT !.stamped = TRUE]
    /\ UNCHANGED <<Page, settings, draw, killed>>

StampHead == HEAD_REVISION
StampPast == HEAD_REVISION + 1
StampBase == 0
Baseline == 1
Stamp ==
    /\ process = "stamping" /\ process' = "bootstrap"
    /\ db' = [db EXCEPT !.version = Baseline]
    /\ UNCHANGED <<Page, settings, draw, killed>>

\* A revision: its first statement fails if tables are there that it creates.
Begin ==
    /\ process = "bootstrap" /\ db.version < HEAD_REVISION
    /\ IF db.tables = db.version /\ ~db.half
       THEN process' = "migrating" /\ db' = [db EXCEPT !.half = TRUE]
       ELSE process' = "down" /\ db' = db
    /\ UNCHANGED <<Page, settings, draw, killed>>

Finish ==
    /\ process = "migrating" /\ db.half
    /\ db' = [db EXCEPT !.half = FALSE, !.tables = @ + 1]
    /\ UNCHANGED <<Page, process, settings, draw, killed>>

Note ==
    /\ process = "migrating" /\ ~db.half
    /\ process' = "bootstrap" /\ db' = [db EXCEPT !.version = @ + 1]
    /\ UNCHANGED <<Page, settings, draw, killed>>

\* The server reads its settings once more and finds nothing left to migrate.
Serve ==
    /\ process = "bootstrap" /\ db.version = HEAD_REVISION
    /\ process' = "up" /\ settings' = from_env(file) /\ draw' = draw + 1
    /\ UNCHANGED <<Page, db, killed>>

\* The restart of the page, a stop of the container, or a crash.
Stop ==
    /\ process # "down" /\ process' = "down" /\ settings' = << >>
    /\ left.stops > 0 /\ left' = [left EXCEPT !.stops = @ - 1]
    /\ killed' = (killed \/ process # "up")
    /\ UNCHANGED <<env, file, draw, db, saved, undone, touched, sound>>

\* The operator gives the container another environment. What the file does not
\* have follows it.
EditEnvironment(e) ==
    /\ process = "down"
    /\ left.edits > 0 /\ left' = [left EXCEPT !.edits = @ - 1]
    /\ env' = e
    /\ saved' = [f \in DOMAIN saved \cap DOMAIN file |-> saved[f]]
    /\ sound' = FALSE
    /\ UNCHANGED <<file, process, settings, draw, db, undone, touched, killed>>

Forms == {g \in Settings : \A f \in Fields : g[f] \in Values[f]}

Next ==
    \/ \E form \in Forms : \E cleared \in SUBSET (Secrets \cap Optional) :
          \E reverted \in SUBSET DOMAIN file : Save(form, cleared, reverted)
    \/ Classify \/ Stamp \/ Begin \/ Finish \/ Note \/ Serve \/ Stop
    \/ \E e \in Environments : EditEnvironment(e)

Spec == Init /\ [][Next]_vars

---------------------------------------------------------------------------
(***************************************************************************)
(* Properties.                                                             *)
(***************************************************************************)

\* Every variable has its type, and settings are there while the server is.
TypeOK ==
    /\ env \in Environments /\ DOMAIN file \subseteq Fields
    /\ process \in {"down", "stamping", "bootstrap", "migrating", "up"}
    /\ IF process = "up" THEN settings \in Settings ELSE settings = << >>
    /\ draw \in Nat /\ db \in Database
    /\ DOMAIN saved \subseteq Fields /\ undone \subseteq Secrets /\ touched \subseteq Fields

\* The format of the log follows a kind of deployment that only the file has.
FormatFollowsFile ==
    /\ "LOG_FORMAT" \notin DOMAIN file \cup DOMAIN env
    /\ from_env(file)["APP_ENV"] # baseline["APP_ENV"]

\* "Saved to {{ config_path }}. Changes apply after restart." (admin/config.html:7):
\* whatever the page saved last, a session secret that only the process knew
\* included, is in force after the next start. There are two exceptions. A
\* format of the log that equals the baseline is not written (admin_config.py:554),
\* and if the same or an earlier save put another kind of deployment in the file,
\* the next process takes the format from that (config.py:237). And a secret left
\* blank is not the one stored, as admin-and-configuration.md:58 has it, but the one
\* in force (admin_config.py:622): it undoes what an earlier save of it stored.
SaveTakesEffect ==
    [][process' = "up" /\ process # "up" =>
        \A f \in DOMAIN saved \ undone :
            \/ settings'[f] = saved[f]
            \/ f = "LOG_FORMAT" /\ FormatFollowsFile]_vars

\* The comment at main.py:2175, "Writing every field would freeze
\* environment-inherited values into the file": over any saves, reverts and
\* restarts the file has only what somebody changed, and a drawn session secret.
\* The exception is the format of the log once somebody has changed the kind of
\* deployment, which moves the default of it in the process and not in the baseline.
Movable == IF "APP_ENV" \in touched THEN {"LOG_FORMAT"} ELSE {}
InheritedStaysInherited ==
    DOMAIN file \subseteq touched \cup Movable

\* What the page accepts does not keep the next process from starting, as long as
\* the environment is the one it was accepted under and nothing was reverted.
AcceptedSettingsStart == sound => validate_identity(from_env(file))

\* "Safely bring an empty, legacy, or versioned database to Alembic head"
\* (migrations.py:112): a server runs on the last revision only, whole and noted
\* as such, after any ends of the process; tables of somebody else are not touched.
ServesAtHead ==
    /\ process = "up" => db = [tables |-> HEAD_REVISION, half |-> FALSE,
                              stamped |-> TRUE, version |-> HEAD_REVISION, foreign |-> FALSE]
    /\ db.foreign => ~db.stamped

\* A start that is not ended from outside leaves tables and note in agreement, so
\* the next one can go on: it never stops at a revision that is already there.
OnlyKillStrands ==
    process \in {"down", "up"} /\ db.stamped /\ ~killed => db.tables = db.version /\ ~db.half

=============================================================================
