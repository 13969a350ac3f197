---------------------------- MODULE RateLimiter ----------------------------
(***************************************************************************)
(* The limiter that the login, registration, verification and reset routes *)
(* and the administrator's mails ask before they act: a sliding window     *)
(* over all calls it allowed, one for each operation and address, and one  *)
(* for each operation and client.                                          *)
(*                                                                         *)
(* allow() has no await in it and its routes run on the event loop, so a   *)
(* call is one step. A key is an operation with an address, or with a      *)
(* client; that both name the same operation makes no difference here. A   *)
(* definition that stands directly above the one it varies, with no        *)
(* comment of its own, is a wrong version of it.                           *)
(***************************************************************************)
EXTENDS SequencesExt

CONSTANTS
    Emails, IPs,    \* keys of the two kinds
    limit, window, global_limit, max_keys,
    MaxNow,         \* bound on the clock
    MaxAllowed,     \* bound on the calls allowed
    MaxRefused      \* bound on the calls refused one after the other

ASSUME LimiterAssumption ==
    /\ limit \in Nat /\ window \in Nat /\ global_limit \in Nat /\ max_keys \in Nat
    /\ MaxNow \in Nat /\ MaxAllowed \in Nat /\ MaxRefused \in Nat
    /\ Emails \cap IPs = {}

Keys == Emails \cup IPs

VARIABLES
    now,            \* the monotonic clock
    order,          \* keys of events, from the one to be evicted first
    events,         \* per key the times of the calls it was charged with
    global_events,  \* the times of all calls allowed
    log,            \* ghost: the calls allowed, with their keys
    evicted,        \* ghost: per key, how long log was when it was evicted last
    refused         \* ghost: calls refused since the last one allowed

vars == <<now, order, events, global_events, log, evicted, refused>>

Init ==
    /\ now = 0
    /\ order = << >> /\ events = << >> /\ global_events = << >>
    /\ log = << >> /\ evicted = [k \in Keys |-> 0] /\ refused = 0

\* How many times at the head of a queue are at the cutoff or before it, and the
\* queue without them.
Outdated(times) ==
    CHOOSE n \in 0..Len(times) :
        /\ \A m \in 1..n : times[m] + window <= now
        /\ n < Len(times) => times[n + 1] + window > now
Recent(times) == SubSeq(times, Outdated(times) + 1, Len(times))

Queue(k) == IF k \in DOMAIN events THEN events[k] ELSE << >>
WholeBucket(k) == Queue(k)
Bucket(k) == Recent(Queue(k))
OverFull(k) == Len(Bucket(k)) > limit
Full(k) == Len(Bucket(k)) >= limit
GloballyFull == Len(Recent(global_events)) >= global_limit

\* setdefault, and move_to_end.
Found(o, k) == IF k \in ToSet(o) THEN o ELSE Append(o, k)
Place(o, k) == CHOOSE n \in DOMAIN o : o[n] = k
Moved(o, k) == Append(IF k \in ToSet(o) THEN RemoveAt(o, Place(o, k)) ELSE o, k)

\* The oldest keys go, with the calls they were charged with.
TrimmedOne(o) == IF Len(o) > max_keys THEN Tail(o) ELSE o
TrimsNewest(o) == IF Len(o) > max_keys THEN SubSeq(o, 1, max_keys) ELSE o
Trimmed(o) == IF Len(o) > max_keys THEN SubSeq(o, Len(o) - max_keys + 1, Len(o)) ELSE o

RefuseAll ==
    /\ GloballyFull
    /\ global_events' = Recent(global_events)
    /\ UNCHANGED <<order, events>>

\* The address is looked at first; both buckets looked at are kept, also new ones.
RefuseKey(e, i) ==
    /\ ~GloballyFull
    /\ \/ Full(e) /\ order' = Found(order, e)
       \/ ~Full(e) /\ Full(i) /\ order' = Found(Moved(order, e), i)
    /\ events' = [k \in ToSet(order') |->
                    IF k = e \/ (k = i /\ ~Full(e)) THEN Bucket(k) ELSE events[k]]
    /\ global_events' = Recent(global_events)

Refuse(e, i) ==
    /\ refused < MaxRefused /\ refused' = refused + 1
    /\ RefuseAll \/ RefuseKey(e, i)
    /\ UNCHANGED <<now, log, evicted>>

Allow(e, i) ==
    /\ ~GloballyFull /\ ~Full(e) /\ ~Full(i)
    /\ Len(log) < MaxAllowed
    /\ LET used == Moved(Moved(order, e), i)
       IN  /\ order' = Trimmed(used)
           /\ evicted' = [k \in DOMAIN evicted |->
                            IF k \in ToSet(used) \ ToSet(order') THEN Len(log) + 1
                            ELSE evicted[k]]
    /\ events' = [k \in ToSet(order') |->
                    IF k \in {e, i} THEN Append(Bucket(k), now) ELSE events[k]]
    /\ global_events' = Append(Recent(global_events), now)
    /\ log' = Append(log, [at |-> now, keys |-> {e, i}])
    /\ refused' = 0
    /\ UNCHANGED now

Tick ==
    /\ now < MaxNow /\ now' = now + 1
    /\ UNCHANGED <<order, events, global_events, log, evicted, refused>>

Next == Tick \/ \E e \in Emails : \E i \in IPs : Allow(e, i) \/ Refuse(e, i)

Spec == Init /\ [][Next]_vars

---------------------------------------------------------------------------
\* The limiter as a window over the calls allowed, and the calls in it.
Window == INSTANCE SlidingWindow WITH since <- evicted
Calls(from, keys) == Window!Calls(from, keys)

\* At no time does the window hold more allowed calls than the limits say: over
\* all keys always, for one address or client since its key was last evicted.
WindowsHold ==
    /\ Cardinality(Calls(0, Keys)) <= global_limit
    /\ \A k \in Keys : Cardinality(Calls(evicted[k], {k})) <= limit

\* A call is refused for calls that were allowed and are still in the window and
\* for nothing else: refused calls are charged to nobody, and a key is charged
\* with no other key's calls, whatever was pruned or evicted in between.
CountsAreExact ==
    /\ Len(Recent(global_events)) = Cardinality(Calls(0, Keys))
    /\ \A k \in Keys : Len(Bucket(k)) = Cardinality(Calls(evicted[k], {k}))

\* docs/architecture/components/identity-and-sessions.md, "bounded by max_keys":
\* so it is after every call allowed. A refused call evicts nothing and may leave
\* a new key, so in between there is one key more for each.
KeysAreBounded ==
    /\ Len(order) <= max_keys + refused
    /\ DOMAIN events = ToSet(order) /\ Cardinality(ToSet(order)) = Len(order)

\* The limiter is a sliding window over the calls it allowed, to the call: it
\* refuses none that the window has room for and allows no other, however lazily
\* its queues are pruned and in whatever order they are looked at, and forgets
\* only keys it did not just charge (identity-and-sessions.md, "sliding-window",
\* "LRU eviction").
IsSlidingWindow == Window!Spec

=============================================================================
