----------------------- MODULE CatalogImportLifecycle -----------------------
(***************************************************************************)
(* What the catalog-import queue promises of each upload, whatever row id   *)
(* it was given, whatever the worker and the process were doing: the upload *)
(* moves only along the edges of _ALLOWED_TRANSITIONS, leaves by a route    *)
(* that may remove it or with the account that owns it, and puts its own    *)
(* reviewed proposals into the shared catalog in the very step that makes   *)
(* it `applied`.                                                            *)
(***************************************************************************)
EXTENDS Naturals

CONSTANTS Uploads, Admins, NoAdmin

VARIABLES
    life,       \* per upload: its state; "new" before, "gone" after
    owner,      \* per upload: the account its row belongs to
    accounts,   \* the accounts that exist
    published   \* per upload: times its proposals were written to the catalog

vars == <<life, owner, accounts, published>>

Init ==
    /\ life = [u \in Uploads |-> "new"]
    /\ owner = [u \in Uploads |-> NoAdmin]
    /\ accounts = Admins
    /\ published = [u \in Uploads |-> 0]

\* The uploads S, all in a state of `from`, go to state `to`.
Move(S, from, to) ==
    /\ S # {}
    /\ \A u \in S : life[u] \in from
    /\ life' = [u \in Uploads |-> IF u \in S THEN to ELSE life[u]]

\* An upload is admitted for an account, or refused after its row was reserved.
Submit(u, a) ==
    /\ a \in accounts
    /\ Move({u}, {"new"}, "queued")
    /\ owner' = [owner EXCEPT ![u] = a]
    /\ UNCHANGED <<accounts, published>>
Refuse(u) ==
    /\ Move({u}, {"new"}, "gone")
    /\ UNCHANGED <<owner, accounts, published>>

\* One extraction starts at a time, and ends in one of three ways; recovery and
\* expiry may take several uploads at once.
Progress(S) ==
    /\ \/ \E u \in S : /\ S = {u}
                       /\ \/ Move(S, {"queued"}, "extracting")
                          \/ Move(S, {"extracting"}, "review")
                          \/ Move(S, {"extracting"}, "failed")
       \/ Move(S, {"extracting"}, "queued")
       \/ Move(S, {"failed"}, "expired")
    /\ UNCHANGED <<owner, accounts, published>>

Retry(u) ==
    /\ Move({u}, {"failed"}, "queued")
    /\ UNCHANGED <<owner, accounts, published>>

Apply(u) ==
    /\ Move({u}, {"review"}, "applied")
    /\ published' = [published EXCEPT ![u] = @ + 1]
    /\ UNCHANGED <<owner, accounts>>

\* A batch is deleted only before it is claimed or after it stopped; an
\* account takes exactly its own batches along, in whatever state they are.
Delete(u) ==
    /\ Move({u}, {"queued", "failed", "review"}, "gone")
    /\ owner' = [owner EXCEPT ![u] = NoAdmin]
    /\ UNCHANGED <<accounts, published>>
DeleteAccount(a) ==
    /\ a \in accounts
    /\ accounts' = accounts \ {a}
    /\ life' = [u \in Uploads |-> IF owner[u] = a THEN "gone" ELSE life[u]]
    /\ owner' = [u \in Uploads |-> IF owner[u] = a THEN NoAdmin ELSE owner[u]]
    /\ UNCHANGED published

Next ==
    \/ \E u \in Uploads, a \in Admins : Submit(u, a)
    \/ \E u \in Uploads : Refuse(u) \/ Retry(u) \/ Apply(u) \/ Delete(u)
    \/ \E S \in SUBSET Uploads : Progress(S)
    \/ \E a \in Admins : DeleteAccount(a)

Spec == Init /\ [][Next]_vars

=============================================================================
