--------------------------- MODULE SlidingWindow ---------------------------
(***************************************************************************)
(* What the rate limiter promises, in terms of the calls that were allowed  *)
(* and nothing else: a call is allowed exactly when the window ending now  *)
(* has room for it among all calls, among those for its address and among  *)
(* those from its client; a call that is refused counts for nobody. Of a   *)
(* key the limiter may forget what came before, whenever it allows a call,  *)
(* since it has room for so many keys only; never of a key it just charged.  *)
(***************************************************************************)
EXTENDS Naturals, Sequences, FiniteSets

CONSTANTS Emails, IPs, limit, window, global_limit, max_keys

VARIABLES
    now,        \* the clock
    log,        \* the calls allowed
    since,      \* per key: how many of them are forgotten
    refused     \* calls refused since the last one allowed

vars == <<now, log, since, refused>>

Keys == Emails \cup IPs

Init ==
    /\ now = 0 /\ log = << >> /\ refused = 0
    /\ since = [k \in Keys |-> 0]

\* The calls of the window, after the first `from`, that concern one of `keys`.
Calls(from, keys) ==
    {n \in from + 1..Len(log) : log[n].at + window > now /\ log[n].keys \cap keys # {}}

HasRoom(pair) ==
    /\ Cardinality(Calls(0, Keys)) < global_limit
    /\ \A k \in pair : Cardinality(Calls(since[k], {k})) < limit

Forgettable(pair) == IF max_keys < 2 THEN Keys ELSE Keys \ pair

Admit(pair) ==
    /\ HasRoom(pair)
    /\ log' = Append(log, [at |-> now, keys |-> pair])
    /\ \E S \in SUBSET Forgettable(pair) :
         since' = [k \in Keys |-> IF k \in S THEN Len(log) + 1 ELSE since[k]]
    /\ refused' = 0
    /\ UNCHANGED now

Reject(pair) ==
    /\ ~HasRoom(pair)
    /\ refused' = refused + 1
    /\ UNCHANGED <<now, log, since>>

Pass ==
    /\ now' = now + 1
    /\ UNCHANGED <<log, since, refused>>

Next == Pass \/ \E e \in Emails, i \in IPs : Admit({e, i}) \/ Reject({e, i})

Spec == Init /\ [][Next]_vars

=============================================================================
