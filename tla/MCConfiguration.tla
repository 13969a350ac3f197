-------------------------- MODULE MCConfiguration --------------------------
(***************************************************************************)
(* Configuration on small instances.                                        *)
(***************************************************************************)
EXTENDS Configuration, Sequences, TLC

\* Nothing set; production as it should be, and with the http default; both
\* secrets and a format of the log.
MCEnvironments ==
    {<< >>,
     ("APP_ENV" :> "production") @@ ("PUBLIC_BASE_URL" :> "https"),
     "APP_ENV" :> "production",
     ("SESSION_SECRET" :> "s") @@ ("SMTP_PASSWORD" :> "p") @@ ("LOG_FORMAT" :> "json")}

MCDrawn(n) == "drawn " \o ToString(n)

At(version) == [tables |-> version, half |-> FALSE, stamped |-> TRUE,
                version |-> version, foreign |-> FALSE]
\* An empty one, one of each revision, one from before revisions, somebody else's.
MCDatabases ==
    {[At(0) EXCEPT !.stamped = FALSE], [At(1) EXCEPT !.stamped = FALSE, !.version = 0],
     [At(1) EXCEPT !.stamped = FALSE, !.version = 0, !.foreign = TRUE]}
      \cup {At(v) : v \in 1..HEAD_REVISION}

=============================================================================
