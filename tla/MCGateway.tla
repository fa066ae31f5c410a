----------------------------- MODULE MCGateway ------------------------------
(* The router as a machine for TLC: it answers one request after another.  *)
EXTENDS Gateway

VARIABLES
    asked,      \* the request answered last
    exhausted,  \* had the client used up its quota?
    refused     \* the status of the refusal, or 0

Nothing == [method |-> "GET", path |-> "/health", credential |-> "none",
            json |-> FALSE, preflight |-> FALSE]

Init == asked = Nothing /\ exhausted = FALSE /\ refused = 0

Answer(q) ==
    /\ asked' = q
    /\ exhausted' \in BOOLEAN
    /\ refused' = IF Served(q, exhausted') THEN 0 ELSE Refusal(q, exhausted')

Next == \E q \in Request : Answer(q)

Spec == Init /\ [][Next]_<<asked, exhausted, refused>>

\* The request for a documented route as the README lists it: with the JSON content type
\* when it lists a body, with nothing but the credentials when it lists none.
AsListed(q) ==
    /\ RouteOf(q) \in DocumentedPublic \cup DocumentedUser \cup DocumentedAdmin
    /\ q.json = (RouteOf(q) \in WithBody) /\ ~q.preflight

\* README, section "API": an endpoint is served to whoever asks as the section lists it
\* (main.go:102-167).
ListedRequestsServed ==
    AsListed(asked) /\ Enough(asked, exhausted) => refused = 0
=============================================================================
