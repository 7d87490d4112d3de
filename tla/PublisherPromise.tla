-------------------------- MODULE PublisherPromise --------------------------
(***************************************************************************)
(* What the latest-event-wins publisher promises to the producer of live   *)
(* observations and to the streaming service, with no threads, locks,      *)
(* counters or retries: the fate of every event and the log of events the  *)
(* service has accepted.                                                   *)
(*                                                                         *)
(*   unseen -> pending -> inflight -> delivered | exhausted                *)
(*                pending -> overwritten   (a newer event took the slot)   *)
(*                pending -> abandoned     (closed before a worker ran)    *)
(***************************************************************************)
EXTENDS Integers, Sequences, FiniteSets

CONSTANTS
    MaxEvents,   \* bound: events are numbered 1..MaxEvents in submission order
    MaxRetries   \* retries after the first attempt of one event

VARIABLES
    fate,        \* fate of each event
    accepted     \* events in the order the service accepted them

Events == 1 .. MaxEvents

Fates == {"unseen", "pending", "inflight", "delivered", "overwritten", "exhausted", "abandoned"}

Having(f) == {e \in Events : fate[e] = f}

\* How often the service accepted event e.
AcceptedCopies(e) == Cardinality({i \in DOMAIN accepted : accepted[i] = e})

Init ==
    /\ fate = [e \in Events |-> "unseen"]
    /\ accepted = <<>>

\* The lowest unseen event is generated; it replaces whatever was pending.
Generate(e) ==
    /\ fate[e] = "unseen"
    /\ \A d \in Events : d < e => fate[d] # "unseen"
    /\ fate' = [d \in Events |-> IF d = e THEN "pending"
                                 ELSE IF fate[d] = "pending" THEN "overwritten"
                                 ELSE fate[d]]
    /\ UNCHANGED accepted

\* Delivery of one event at a time starts, always with the newest event.
Take(e) ==
    /\ fate[e] = "pending"
    /\ Having("inflight") = {}
    /\ \A d \in Events : d > e => fate[d] = "unseen"
    /\ fate' = [fate EXCEPT ![e] = "inflight"]
    /\ UNCHANGED accepted

\* An event is reported delivered only when the service has accepted it.
Deliver(e) ==
    /\ fate[e] = "inflight"
    /\ AcceptedCopies(e) > 0
    /\ fate' = [fate EXCEPT ![e] = "delivered"]
    /\ UNCHANGED accepted

Exhaust(e) ==
    /\ fate[e] = "inflight"
    /\ fate' = [fate EXCEPT ![e] = "exhausted"]
    /\ UNCHANGED accepted

Abandon(e) ==
    /\ fate[e] = "pending"
    /\ fate' = [fate EXCEPT ![e] = "abandoned"]
    /\ UNCHANGED accepted

\* The service accepts one copy of an event whose delivery was started, at
\* most one copy per attempt, possibly long after the publisher gave up.
Accept(e) ==
    /\ fate[e] \in {"inflight", "delivered", "exhausted"}
    /\ AcceptedCopies(e) <= MaxRetries
    /\ accepted' = Append(accepted, e)
    /\ UNCHANGED fate

Next ==
    \E e \in Events :
        Generate(e) \/ Take(e) \/ Deliver(e) \/ Exhaust(e) \/ Abandon(e) \/ Accept(e)

Spec == Init /\ [][Next]_<<fate, accepted>>

=============================================================================
