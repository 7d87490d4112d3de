-------------------------- MODULE InspectionPromise --------------------------
(***************************************************************************)
(* What the Vision API promises about an inspection request: it becomes    *)
(* durable as a whole or not at all, a success is answered only after      *)
(* that, and it is announced channel by channel only after the answer.     *)
(***************************************************************************)
EXTENDS Naturals, Sequences

CONSTANTS
    Requests,
    Channels(_)   \* the channels that announce a request, in order

VARIABLES
    durable,      \* requests whose result is in PostgreSQL
    response,     \* what the client was told, "none" so far or "lost" with a process
    announced     \* the channels each request was broadcast on

Init ==
    /\ durable = {}
    /\ response = [r \in Requests |-> "none"]
    /\ announced = [r \in Requests |-> <<>>]

Persist(r) ==
    /\ response[r] = "none"
    /\ durable' = durable \union {r}
    /\ UNCHANGED <<response, announced>>

Succeed(r) ==
    /\ response[r] = "none"
    /\ r \in durable
    /\ response' = [response EXCEPT ![r] = "ok"]
    /\ UNCHANGED <<durable, announced>>

Fail(r) ==
    /\ response[r] = "none"
    /\ response' = [response EXCEPT ![r] = "failed"]
    /\ UNCHANGED <<durable, announced>>

\* A process dies with the requests it was working on.
Lose(S) ==
    /\ \A r \in S : response[r] = "none"
    /\ response' = [r \in Requests |-> IF r \in S THEN "lost" ELSE response[r]]
    /\ UNCHANGED <<durable, announced>>

Announce(r) ==
    /\ response[r] = "ok"
    /\ Len(announced[r]) < Len(Channels(r))
    /\ announced' = [announced EXCEPT ![r] = Append(@, Channels(r)[Len(@) + 1])]
    /\ UNCHANGED <<durable, response>>

Next ==
    \/ \E r \in Requests : Persist(r) \/ Succeed(r) \/ Fail(r) \/ Announce(r)
    \/ \E S \in SUBSET Requests : Lose(S)

Spec == Init /\ [][Next]_<<durable, response, announced>>

=============================================================================
