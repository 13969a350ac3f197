------------------------ MODULE ConfigurationProofs ------------------------
(***************************************************************************)
(* Proofs about Configuration for every set of environments and databases, *)
(* every last revision and any number of saves, stops and edits.           *)
(***************************************************************************)
EXTENDS Configuration, TLAPS

(***************************************************************************)
(* The database. What the process is doing says how far the tables and the *)
(* note of their revision may be apart; the settings play no part.         *)
(***************************************************************************)

DatabaseInv ==
    /\ process \in {"down", "stamping", "bootstrap", "migrating", "up"}
    /\ db \in Database /\ killed \in BOOLEAN
    /\ process # "down" => db.stamped
    /\ db.stamped => ~db.foreign
    /\ ~db.stamped => db.version = 0 /\ ~db.half
    /\ process = "stamping" => db.tables = 1 /\ ~db.half /\ db.version = 0
    /\ process = "migrating" =>
          /\ db.version < HEAD_REVISION
          /\ db.tables = IF db.half THEN db.version ELSE db.version + 1
    /\ db.stamped /\ db.version = HEAD_REVISION => db.tables = HEAD_REVISION /\ ~db.half
    /\ process = "up" => db.version = HEAD_REVISION
    /\ process \in {"down", "bootstrap", "up"} /\ db.stamped /\ ~killed =>
          db.tables = db.version /\ ~db.half

LEMMA DatabaseInit == Init => DatabaseInv
  BY BoundsAssumption, DatabasesAssumption DEF Init, DatabaseInv, Database

LEMMA DatabaseStep ==
    ASSUME DatabaseInv, [Next]_vars
    PROVE  DatabaseInv'
  <1> USE BoundsAssumption
  <1>1. CASE Classify
    BY <1>1 DEF DatabaseInv, Classify, Upgradable, LegacySchema, Empty, Database
  <1>2. CASE Stamp
    <2>1. /\ process = "stamping" /\ process' = "bootstrap" /\ killed' = killed
          /\ db' = [db EXCEPT !.version = 1]
      BY <1>2 DEF Stamp, Baseline
    <2>2. /\ db' \in Database /\ db'.version = 1 /\ db'.half = db.half
          /\ db'.tables = db.tables /\ db'.stamped = db.stamped /\ db'.foreign = db.foreign
      BY <2>1 DEF DatabaseInv, Database
    <2>3. QED
      BY <2>1, <2>2 DEF DatabaseInv
  <1>3. CASE Begin
    <2>1. CASE db.tables = db.version /\ ~db.half
      <3>1. /\ process' = "migrating" /\ killed' = killed
            /\ db' = [db EXCEPT !.half = TRUE]
        BY <1>3, <2>1 DEF Begin
      <3>2. db' \in Database /\ db'.half /\ db'.tables = db.tables
            /\ db'.version = db.version /\ db'.stamped = db.stamped /\ db'.foreign = db.foreign
        BY <3>1 DEF DatabaseInv, Database
      <3>3. db.version < HEAD_REVISION /\ db.stamped
        BY <1>3 DEF Begin, DatabaseInv
      <3>4. db.version # HEAD_REVISION
        BY <3>3 DEF DatabaseInv, Database
      <3>5. QED
        BY <2>1, <3>1, <3>2, <3>3, <3>4 DEF DatabaseInv
    <2>2. CASE ~(db.tables = db.version /\ ~db.half)
      BY <1>3, <2>2 DEF DatabaseInv, Begin
    <2>3. QED
      BY <2>1, <2>2
  <1>4. CASE Finish
    <2>1. /\ process = "migrating" /\ db.half /\ process' = process /\ killed' = killed
          /\ db' = [db EXCEPT !.half = FALSE, !.tables = @ + 1]
      BY <1>4 DEF Finish
    <2>2. /\ db.tables = db.version /\ db.version < HEAD_REVISION
          /\ db.tables \in 0..HEAD_REVISION
      BY <2>1 DEF DatabaseInv, Database
    <2>3. db.tables + 1 \in 0..HEAD_REVISION
      BY <2>2 DEF DatabaseInv, Database
    <2>4. /\ db' = [db EXCEPT !.half = FALSE, !.tables = db.tables + 1]
          /\ db \in Database
      BY <2>1 DEF DatabaseInv
    <2>5. /\ db' \in Database /\ db'.tables = db.tables + 1 /\ db'.half = FALSE
          /\ db'.version = db.version /\ db'.stamped = db.stamped /\ db'.foreign = db.foreign
      BY <2>3, <2>4 DEF Database
    <2>6. QED
      BY <2>1, <2>2, <2>5 DEF DatabaseInv
  <1>5. CASE Note
    <2>1. /\ process = "migrating" /\ ~db.half /\ process' = "bootstrap" /\ killed' = killed
          /\ db' = [db EXCEPT !.version = @ + 1]
      BY <1>5 DEF Note
    <2>2. /\ db.tables = db.version + 1 /\ db.version < HEAD_REVISION
          /\ db.version \in Nat
      BY <2>1 DEF DatabaseInv, Database
    <2>3. /\ db' \in Database /\ db'.version = db.version + 1 /\ ~db'.half
          /\ db'.tables = db.tables /\ db'.stamped = db.stamped /\ db'.foreign = db.foreign
      BY <2>1, <2>2 DEF DatabaseInv, Database
    <2>4. QED
      BY <2>1, <2>2, <2>3 DEF DatabaseInv
  <1>6. CASE Serve
    BY <1>6 DEF DatabaseInv, Serve
  <1>7. CASE Stop
    BY <1>7 DEF DatabaseInv, Stop
  <1>8. ASSUME NEW e \in Environments, EditEnvironment(e)
        PROVE  DatabaseInv'
    BY <1>8 DEF DatabaseInv, EditEnvironment
  <1>9. ASSUME NEW form \in Forms, NEW cleared, NEW reverted, Save(form, cleared, reverted)
        PROVE  DatabaseInv'
    BY <1>9 DEF DatabaseInv, Save
  <1>10. CASE UNCHANGED vars
    BY <1>10 DEF DatabaseInv, vars
  <1>11. QED
    BY <1>1, <1>2, <1>3, <1>4, <1>5, <1>6, <1>7, <1>8, <1>9, <1>10 DEF Next

\* What the bootstrap has done to the database at each of its steps, whenever
\* and however often it was ended.
THEOREM DatabaseInvariance == Spec => []DatabaseInv
  BY DatabaseInit, DatabaseStep, PTL DEF Spec

\* A server runs on a database at its last revision, whole and noted as such, and
\* somebody else's tables are left alone.
THEOREM AtHead == Spec => []ServesAtHead
  <1>1. DatabaseInv => ServesAtHead
    BY BoundsAssumption DEF DatabaseInv, ServesAtHead, Database
  <1>2. QED
    BY <1>1, DatabaseInvariance, PTL

\* Unless it was ended from outside, a start leaves tables and note in agreement.
THEOREM KillStrands == Spec => []OnlyKillStrands
  <1>1. DatabaseInv => OnlyKillStrands
    BY DEF DatabaseInv, OnlyKillStrands
  <1>2. QED
    BY <1>1, DatabaseInvariance, PTL

(***************************************************************************)
(* The settings. A secret that was drawn before is never drawn again, so a *)
(* save cannot mistake the secret in use for the one it has drawn itself.  *)
(***************************************************************************)

\* The draws before the d-th.
Drawns(d) == {n \in Nat \ {0} : n < d}
Known(d) == Texts \cup {Drawn(n) : n \in Drawns(d)}

\* What is in force of a field without the file. With a file that does not have
\* the field it is the same, but for the format of the log: see FromEnv.
Inherited(f) == IF f \in DOMAIN env THEN env[f] ELSE Default(f, env)

\* The next start finds of a field what the program finds now.
Settled(f) == f # "SESSION_SECRET" \/ f \in DOMAIN env

\* Each process draws one secret, and there are as many as starts.
DrawInv ==
    /\ draw \in Nat \ {0}
    /\ left.stops \in 0..MaxStops
    /\ left = [saves |-> left.saves, stops |-> left.stops, edits |-> left.edits]
    /\ draw + left.stops <= MaxStops + (IF process = "up" THEN 2 ELSE 1)

TypeInv ==
    /\ env \in Environments
    /\ DOMAIN file \subseteq Fields /\ \A f \in DOMAIN file : file[f] \in Known(draw)
    /\ IF process = "up" THEN settings \in [Fields -> Known(draw)] ELSE settings = << >>
    /\ DOMAIN saved \subseteq Fields /\ touched \subseteq Fields
    /\ undone \subseteq Secrets

SettingsInv ==
    /\ DOMAIN file \subseteq touched \cup Movable
    /\ process = "up" => \A f \in Fields \ (touched \cup Movable) :
                            Settled(f) => settings[f] = Inherited(f)
    /\ sound => validate_identity(from_env(file))
    /\ \A f \in DOMAIN saved \ undone :
          IF f \in DOMAIN file THEN file[f] = saved[f]
                               ELSE Settled(f) /\ saved[f] = Inherited(f)

ConfigurationInv == DrawInv /\ TypeInv /\ SettingsInv

LEMMA KnownGrows ==
    ASSUME NEW d \in Nat \ {0}
    PROVE  Known(d) \subseteq Known(d + 1) /\ Drawn(d) \in Known(d + 1)
  <1>1. Drawns(d) \subseteq Drawns(d + 1) /\ d \in Drawns(d + 1)
    BY DEF Drawns
  <1>2. QED
    BY <1>1 DEF Known

LEMMA DrawBound == ASSUME DrawInv PROVE draw \in 1..MaxStops + 2
  BY BoundsAssumption DEF DrawInv

LEMMA KnownInSettings ==
    ASSUME DrawInv
    PROVE  Known(draw) \subseteq Texts \cup {Drawn(n) : n \in Draws}
  <1>1. Drawns(draw) \subseteq Draws
    BY DrawBound, BoundsAssumption DEF Drawns, Draws, DrawInv
  <1>2. QED
    BY <1>1 DEF Known

LEMMA NextDrawIsFresh == ASSUME DrawInv PROVE Drawn(draw) \notin Known(draw)
  <1>1. draw \in Draws
    BY DrawBound DEF Draws
  <1>2. \A n \in Drawns(draw) : n \in Draws /\ n # draw
    BY DrawBound, BoundsAssumption DEF Drawns, Draws, DrawInv
  <1>3. QED
    BY <1>1, <1>2, DrawnAssumption DEF Known

LEMMA ValuesKnown ==
    ASSUME NEW f \in Fields, NEW d PROVE Values[f] \subseteq Known(d)
  BY DEF Fields, Values, Texts, Known

\* The format of the log is the only field whose default the file can move, and
\* only by another kind of deployment.
LEMMA FromEnv ==
    ASSUME NEW managed, DOMAIN managed \subseteq Fields, NEW f \in Fields
    PROVE  from_env(managed)[f] = IF f \in DOMAIN managed THEN managed[f]
                                  ELSE IF f \in DOMAIN env THEN env[f]
                                  ELSE Default(f, Merged(managed))
  BY DEF from_env, Merged

LEMMA DefaultMoves ==
    ASSUME NEW managed, DOMAIN managed \subseteq Fields, NEW f \in Fields,
           f = "LOG_FORMAT" =>
              from_env(managed)["APP_ENV"] = from_env(<< >>)["APP_ENV"]
    PROVE  Default(f, Merged(managed)) = Default(f, env)
  <1>1. CASE f # "LOG_FORMAT"
    BY <1>1 DEF Default, Fields
  <1>2. CASE f = "LOG_FORMAT"
    <2>1. \A v : Default(f, v) = IF Production(v) THEN "json" ELSE "text"
      BY <1>2 DEF Default, Usual
    <2>2. \A v : Default("APP_ENV", v) = "development"
      BY DEF Default, Usual
    <2>3. "APP_ENV" \in Fields /\ DOMAIN << >> = {}
      BY DEF Fields
    <2>4. from_env(managed)["APP_ENV"] = IF "APP_ENV" \in DOMAIN Merged(managed)
                                         THEN Merged(managed)["APP_ENV"] ELSE "development"
      BY <2>2, <2>3 DEF from_env
    <2>5. from_env(<< >>)["APP_ENV"] = IF "APP_ENV" \in DOMAIN env
                                       THEN env["APP_ENV"] ELSE "development"
      BY <2>2, <2>3, FromEnv
    <2>6. QED
      BY <1>2, <2>1, <2>4, <2>5 DEF Production
  <1>3. QED
    BY <1>1, <1>2

\* The baseline is what is inherited.
LEMMA BaselineInherited ==
    ASSUME NEW f \in Fields PROVE baseline[f] = Inherited(f)
  <1>1. DOMAIN << >> = {}
    OBVIOUS
  <1>2. baseline[f] = IF f \in DOMAIN env THEN env[f] ELSE Default(f, Merged(<< >>))
    BY <1>1, FromEnv DEF baseline
  <1>3. Default(f, Merged(<< >>)) = Default(f, env)
    BY <1>1, DefaultMoves
  <1>4. QED
    BY <1>2, <1>3 DEF Inherited

LEMMA InForce ==
    ASSUME NEW managed, DOMAIN managed \subseteq Fields, NEW f \in Fields,
           f = "LOG_FORMAT" /\ f \notin DOMAIN managed \cup DOMAIN env =>
              from_env(managed)["APP_ENV"] = baseline["APP_ENV"]
    PROVE  from_env(managed)[f] = IF f \in DOMAIN managed THEN managed[f] ELSE Inherited(f)
  <1>1. CASE f \in DOMAIN managed \cup DOMAIN env
    BY <1>1, FromEnv DEF Inherited
  <1>2. CASE f \notin DOMAIN managed \cup DOMAIN env
    BY <1>2, FromEnv, DefaultMoves DEF Inherited, baseline
  <1>3. QED
    BY <1>1, <1>2

LEMMA InForceKnown ==
    ASSUME TypeInv, DrawInv
    PROVE  from_env(file) \in [Fields -> Known(draw + 1)]
  <1>1. \A f \in DOMAIN file : file[f] \in Known(draw + 1)
    BY KnownGrows DEF TypeInv, DrawInv
  <1>2. \A f \in DOMAIN env : f \in Fields /\ env[f] \in Known(draw + 1)
    BY EnvironmentsAssumption, ValuesKnown DEF TypeInv
  <1>3. \A v : \A f \in Fields : Default(f, v) \in Known(draw + 1)
    <2>1. Drawn(draw) \in Known(draw + 1) /\ Texts \subseteq Known(draw + 1)
      BY KnownGrows DEF DrawInv, Known
    <2>2. \A f \in Fields \ {"SESSION_SECRET"} : Usual[f] \in Texts
      <3>1. {Usual.SMTP_PASSWORD, Usual.APP_ENV, Usual.PUBLIC_BASE_URL, Usual.LOG_FORMAT}
              \subseteq Texts
        BY DEF Usual, Texts
      <3>2. QED
        BY <3>1 DEF Fields
    <2>3. "json" \in Texts
      BY DEF Texts
    <2>4. QED
      BY <2>1, <2>2, <2>3 DEF Default
  <1>4. \A f \in Fields : from_env(file)[f] \in Known(draw + 1)
    BY <1>1, <1>2, <1>3, FromEnv DEF TypeInv
  <1>5. QED
    BY <1>4 DEF from_env

LEMMA ConfigurationInit == Init => ConfigurationInv
  <1>1. SUFFICES ASSUME Init PROVE ConfigurationInv
    OBVIOUS
  <1>2. DOMAIN file = {} /\ DOMAIN saved = {}
    BY <1>1 DEF Init
  <1>3. DrawInv
    BY <1>1, BoundsAssumption DEF Init, DrawInv
  <1>4. TypeInv
    BY <1>1, <1>2 DEF Init, TypeInv
  <1>5. SettingsInv
    BY <1>1, <1>2 DEF Init, SettingsInv
  <1>6. QED
    BY <1>3, <1>4, <1>5 DEF ConfigurationInv

\* A save: it leaves out of the file only what is found without it.
LEMMA SaveStep ==
    ASSUME ConfigurationInv, NEW form \in Forms, NEW cleared, NEW reverted,
           Save(form, cleared, reverted)
    PROVE  ConfigurationInv'
  <1> DEFINE s == Parsed(form, cleared)
             keys == persisted_keys(s, reverted)
  <1>1. /\ process = "up" /\ UNCHANGED <<env, process, settings, draw>>
        /\ left' = [left EXCEPT !.saves = @ - 1]
        /\ Accepted(s) /\ file' = [f \in keys |-> s[f]]
        /\ saved' = [f \in Fields \ reverted |->
                        IF f \in Blank(form, cleared) THEN Stored(f) ELSE s[f]]
        /\ undone' = {f \in Blank(form, cleared) : Stored(f) # settings[f]}
        /\ touched' = touched \cup {f \in Fields : s[f] # settings[f]}
                              \cup ({"SESSION_SECRET"} \ DOMAIN env)
        /\ sound' = (reverted = {})
    BY DEF Save
  <1>2. DrawInv /\ TypeInv /\ SettingsInv
    BY DEF ConfigurationInv
  <1>3. /\ \A f \in Fields : s[f] = form[f] \/ s[f] = settings[f]
        /\ \A f \in Blank(form, cleared) : f \in Fields /\ s[f] = settings[f]
    BY DEF Parsed, Blank, Secrets, Fields
  <1>4. \A f \in Fields : s[f] \in Known(draw)
    BY <1>1, <1>2, <1>3, ValuesKnown DEF TypeInv, Forms
  <1>5. \A f \in Fields : ~Settled(f) => s[f] # Inherited(f)
    <2>1. SUFFICES ASSUME "SESSION_SECRET" \notin DOMAIN env
                   PROVE  s["SESSION_SECRET"] # Drawn(draw)
      BY DEF Settled, Inherited, Default
    <2>2. QED
      BY <1>2, <1>4, NextDrawIsFresh DEF Fields
  <1>6. keys = {f \in Fields \ reverted : f \in DOMAIN file \/ s[f] # Inherited(f)}
    BY BaselineInherited DEF persisted_keys
  <1>7. \A f \in DOMAIN saved' \ undone' : f \in Fields \ reverted /\ saved'[f] = s[f]
    BY <1>1, <1>3
  <1>8. \A f \in Fields : Inherited(f)' = Inherited(f) /\ Settled(f)' = Settled(f)
    BY <1>1 DEF Inherited, Settled, Default
  <1>9. DrawInv'
    BY <1>1, <1>2 DEF DrawInv
  <1>10. TypeInv'
    BY <1>1, <1>2, <1>4, <1>6 DEF TypeInv, Fields, Blank
  <1>11. touched \cup Movable \subseteq (touched \cup Movable)'
    BY <1>1 DEF Movable
  <1>12. (DOMAIN file \subseteq touched \cup Movable)'
    <2>1. SUFFICES ASSUME NEW f \in keys, f \notin DOMAIN file, f \notin touched \cup Movable,
                          Settled(f)
                   PROVE  s[f] # settings[f]
      BY <1>1, <1>2, <1>6, <1>11 DEF SettingsInv, Settled
    <2>2. f \in Fields /\ s[f] # Inherited(f) /\ settings[f] = Inherited(f)
      BY <2>1, <1>1, <1>2, <1>6 DEF SettingsInv
    <2>3. QED
      BY <2>2
  <1>13. (process = "up" => \A f \in Fields \ (touched \cup Movable) :
                               Settled(f) => settings[f] = Inherited(f))'
    BY <1>1, <1>2, <1>8, <1>11 DEF SettingsInv
  <1>14. ASSUME sound' PROVE validate_identity(from_env(file))'
    <2>1. \A f \in Fields : f \notin keys => s[f] = Inherited(f)
      BY <1>1, <1>6, <1>14
    <2>2. DOMAIN file' \subseteq Fields /\ \A f \in DOMAIN file' : file'[f] = s[f]
      BY <1>1, <1>6
    <2>3. ASSUME NEW f \in {"APP_ENV", "PUBLIC_BASE_URL"}
          PROVE  from_env(file)'[f] = s[f]
      <3>1. f \in Fields /\ f # "LOG_FORMAT"
        BY DEF Fields
      <3>2. from_env(file') = from_env(file)'
        BY <1>1 DEF from_env, Merged, Default
      <3>3. from_env(file')[f] = IF f \in DOMAIN file' THEN file'[f] ELSE Inherited(f)
        BY <2>2, <3>1, InForce
      <3>4. QED
        BY <1>1, <2>1, <2>2, <3>1, <3>2, <3>3
    <2>4. validate_identity(s)
      BY <1>1 DEF Accepted
    <2>5. QED
      BY <2>3, <2>4 DEF validate_identity
  <1>15. ASSUME NEW f \in DOMAIN saved' \ undone'
         PROVE  IF f \in DOMAIN file' THEN file'[f] = saved'[f]
                ELSE Settled(f)' /\ saved'[f] = Inherited(f)'
    BY <1>1, <1>5, <1>6, <1>7, <1>8, <1>15
  <1>16. SettingsInv'
    BY <1>12, <1>13, <1>14, <1>15 DEF SettingsInv
  <1>17. QED
    BY <1>9, <1>10, <1>16 DEF ConfigurationInv

\* A step of a start before the server is up.
LEMMA StartingStep ==
    ASSUME ConfigurationInv, UNCHANGED <<Page, settings, draw>>,
           process # "up", process' # "up"
    PROVE  ConfigurationInv'
  <1>1. DrawInv' /\ TypeInv'
    BY DEF ConfigurationInv, DrawInv, TypeInv, Page
  <1>2. /\ \A f : Inherited(f)' = Inherited(f) /\ Settled(f)' = Settled(f)
        /\ from_env(file)' = from_env(file)
    BY DEF Inherited, Settled, Default, Merged, from_env, Page
  <1>3. SettingsInv'
    BY <1>2 DEF ConfigurationInv, SettingsInv, Movable, Page, validate_identity
  <1>4. QED
    BY <1>1, <1>3 DEF ConfigurationInv

LEMMA ServeStep ==
    ASSUME ConfigurationInv, Serve PROVE ConfigurationInv'
  <1>1. /\ process # "up" /\ process' = "up" /\ UNCHANGED <<env, file, left, saved, undone, touched, sound>>
        /\ settings' = from_env(file) /\ draw' = draw + 1
    BY DEF Serve, Page
  <1>2. DrawInv /\ TypeInv /\ SettingsInv
    BY DEF ConfigurationInv
  <1>3. DrawInv'
    BY <1>1, <1>2, BoundsAssumption DEF DrawInv
  <1>4. \A f \in DOMAIN file : file[f] \in Known(draw + 1)
    BY <1>2, KnownGrows DEF TypeInv, DrawInv
  <1>5. TypeInv'
    BY <1>1, <1>2, <1>4, InForceKnown DEF TypeInv
  <1>6. \A f \in Fields : Settled(f)' = Settled(f) /\ (Settled(f) => Inherited(f)' = Inherited(f))
    BY <1>1 DEF Inherited, Settled, Default
  <1>7. ASSUME NEW f \in Fields \ (touched \cup Movable) PROVE settings'[f] = Inherited(f)
    <2>1. f \notin DOMAIN file /\ DOMAIN file \subseteq Fields
      BY <1>2 DEF TypeInv, SettingsInv
    <2>2. f = "LOG_FORMAT" => "APP_ENV" \notin DOMAIN file
      BY <1>2 DEF SettingsInv, Movable
    <2>3. f = "LOG_FORMAT" => from_env(file)["APP_ENV"] = baseline["APP_ENV"]
      BY <2>1, <2>2, InForce, BaselineInherited DEF Fields
    <2>4. QED
      BY <1>1, <2>1, <2>3, InForce
  <1>8. \A f \in {"APP_ENV", "PUBLIC_BASE_URL"} : from_env(file)'[f] = from_env(file)[f]
    BY <1>1 DEF from_env, Merged, Default, Fields
  <1>9. SettingsInv'
    BY <1>1, <1>2, <1>6, <1>7, <1>8 DEF SettingsInv, TypeInv, Movable, validate_identity
  <1>10. QED
    BY <1>3, <1>5, <1>9 DEF ConfigurationInv

LEMMA StopStep ==
    ASSUME ConfigurationInv, Stop PROVE ConfigurationInv'
  <1>1. /\ process' = "down" /\ settings' = << >> /\ UNCHANGED <<env, file, draw, saved, undone, touched, sound>>
        /\ left.stops > 0 /\ left' = [left EXCEPT !.stops = @ - 1]
    BY DEF Stop
  <1>2. DrawInv /\ TypeInv /\ SettingsInv
    BY DEF ConfigurationInv
  <1>3. DrawInv'
    BY <1>1, <1>2, BoundsAssumption DEF DrawInv
  <1>4. TypeInv'
    BY <1>1, <1>2 DEF TypeInv
  <1>5. /\ \A f : Inherited(f)' = Inherited(f) /\ Settled(f)' = Settled(f)
        /\ from_env(file)' = from_env(file)
    BY <1>1 DEF Inherited, Settled, Default, Merged, from_env
  <1>6. SettingsInv'
    BY <1>1, <1>2, <1>5 DEF SettingsInv, Movable, validate_identity
  <1>7. QED
    BY <1>3, <1>4, <1>6 DEF ConfigurationInv

LEMMA EditStep ==
    ASSUME ConfigurationInv, NEW e \in Environments, EditEnvironment(e)
    PROVE  ConfigurationInv'
  <1>1. /\ process = "down" /\ env' = e /\ left' = [left EXCEPT !.edits = @ - 1]
        /\ saved' = [f \in DOMAIN saved \cap DOMAIN file |-> saved[f]] /\ sound' = FALSE
        /\ UNCHANGED <<file, process, settings, draw, undone, touched>>
    BY DEF EditEnvironment
  <1>2. DrawInv /\ TypeInv /\ SettingsInv
    BY DEF ConfigurationInv
  <1>3. DrawInv'
    BY <1>1, <1>2 DEF DrawInv
  <1>4. TypeInv'
    BY <1>1, <1>2 DEF TypeInv
  <1>5. SettingsInv'
    BY <1>1, <1>2 DEF SettingsInv, Movable
  <1>6. QED
    BY <1>3, <1>4, <1>5 DEF ConfigurationInv

LEMMA ConfigurationStep ==
    ASSUME ConfigurationInv, [Next]_vars
    PROVE  ConfigurationInv'
  <1>1. CASE Classify \/ Stamp \/ Begin \/ Finish \/ Note
    BY <1>1, StartingStep DEF Classify, Stamp, Begin, Finish, Note
  <1>2. CASE Serve
    BY <1>2, ServeStep
  <1>3. CASE Stop
    BY <1>3, StopStep
  <1>4. ASSUME NEW e \in Environments, EditEnvironment(e)
        PROVE  ConfigurationInv'
    BY <1>4, EditStep
  <1>5. ASSUME NEW form \in Forms, NEW cleared, NEW reverted, Save(form, cleared, reverted)
        PROVE  ConfigurationInv'
    BY <1>5, SaveStep
  <1>6. CASE UNCHANGED vars
    <2>1. DrawInv' /\ TypeInv'
      BY <1>6 DEF ConfigurationInv, DrawInv, TypeInv, vars
    <2>2. /\ \A f : Inherited(f)' = Inherited(f) /\ Settled(f)' = Settled(f)
          /\ from_env(file)' = from_env(file)
      BY <1>6 DEF Inherited, Settled, Default, Merged, from_env, vars
    <2>3. SettingsInv'
      BY <1>6, <2>2 DEF ConfigurationInv, SettingsInv, Movable, vars, validate_identity
    <2>4. QED
      BY <2>1, <2>3 DEF ConfigurationInv
  <1>7. QED
    BY <1>1, <1>2, <1>3, <1>4, <1>5, <1>6 DEF Next

\* What a save, a revert or a change of the environment leaves in file and
\* environment, and what is known of the settings that a process runs with.
THEOREM ConfigurationInvariance == Spec => []ConfigurationInv
  BY ConfigurationInit, ConfigurationStep, PTL DEF Spec

\* Every variable has its type: no process runs with settings that nobody chose.
THEOREM TypeCorrect == Spec => []TypeOK
  <1>1. DatabaseInv /\ ConfigurationInv => TypeOK
    BY KnownInSettings
    DEF DatabaseInv, ConfigurationInv, DrawInv, TypeInv, TypeOK, Settings
  <1>2. QED
    BY <1>1, DatabaseInvariance, ConfigurationInvariance, PTL

\* The file has only what somebody changed, a secret that was drawn, and, once
\* somebody has changed the kind of deployment, the format of the log.
THEOREM InheritedStays == Spec => []InheritedStaysInherited
  <1>1. ConfigurationInv => InheritedStaysInherited
    BY DEF ConfigurationInv, SettingsInv, InheritedStaysInherited
  <1>2. QED
    BY <1>1, ConfigurationInvariance, PTL

\* What the page accepts lets the next process start.
THEOREM AcceptedStarts == Spec => []AcceptedSettingsStart
  <1>1. ConfigurationInv => AcceptedSettingsStart
    BY DEF ConfigurationInv, SettingsInv, AcceptedSettingsStart
  <1>2. QED
    BY <1>1, ConfigurationInvariance, PTL

\* What was saved last is in force after the next start, but for a format of the
\* log that follows the file's kind of deployment and a secret that was stored,
\* not in force yet and left blank.
THEOREM SavesTakeEffect == Spec => SaveTakesEffect
  <1>1. ASSUME ConfigurationInv, [Next]_vars, process' = "up", process # "up",
               NEW f \in DOMAIN saved \ undone, f = "LOG_FORMAT" => ~FormatFollowsFile
        PROVE  settings'[f] = saved[f]
    <2>1. settings' = from_env(file)
      BY <1>1 DEF Next, vars, Classify, Stamp, Begin, Finish, Note, Serve, Stop,
                  EditEnvironment, Save
    <2>2. f \in Fields /\ DOMAIN file \subseteq Fields
      BY <1>1 DEF ConfigurationInv, TypeInv
    <2>3. from_env(file)[f] = IF f \in DOMAIN file THEN file[f] ELSE Inherited(f)
      BY <1>1, <2>2, InForce DEF FormatFollowsFile
    <2>4. QED
      BY <1>1, <2>1, <2>3 DEF ConfigurationInv, SettingsInv
  <1>2. ConfigurationInv /\ [Next]_vars
          => [process' = "up" /\ process # "up" =>
                \A f \in DOMAIN saved \ undone :
                    \/ settings'[f] = saved[f]
                    \/ f = "LOG_FORMAT" /\ FormatFollowsFile]_vars
    BY <1>1
  <1>3. QED
    BY <1>2, ConfigurationInvariance, PTL DEF Spec, SaveTakesEffect

=============================================================================
