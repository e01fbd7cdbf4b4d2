-------------------------- MODULE ProxiedExchange --------------------------
(***************************************************************************)
(* What the reverse proxy promises for each request.  What is asked is     *)
(* decided by the message alone: one route, or a refusal.  A refusal is    *)
(* answered by the proxy and reaches nobody.  A request for a route goes   *)
(* upstream at most once, to that route's server, with the raw value of    *)
(* that route and no other; its answer is what that server has said, or    *)
(* that the call failed.  An answer is final.  ReverseProxy.tla, with its  *)
(* threads and its matching loop, implements this module.                  *)
(***************************************************************************)
EXTENDS Naturals, Sequences

CONSTANTS Requests, Routes, UpstreamOf, Statuses

VARIABLES
    open,      \* the proxy takes requests
    state,     \* per request: "away", "taken", "forwarded", "answered" or "lost"
    asked,     \* the route asked for, if there is one, or the refusal due
    sent,      \* what has gone upstream
    heard,     \* what has come back, 0 for nothing and 1 for a failed call
    answer     \* what the client gets

vars == <<open, state, asked, sent, heard, answer>>

NoAnswer == [by |-> "none", status |-> 0]
NotAsked == [route |-> {}, refusal |-> 0]
Asks     == {[route |-> {r}, refusal |-> 0] : r \in Routes}
                \cup {[route |-> {}, refusal |-> s] : s \in {400, 401}}

Init ==
    /\ open = TRUE
    /\ state  = [q \in Requests |-> "away"]
    /\ asked  = [q \in Requests |-> NotAsked]
    /\ sent   = [q \in Requests |-> <<>>]
    /\ heard  = [q \in Requests |-> 0]
    /\ answer = [q \in Requests |-> NoAnswer]

Goes(q, from, to) == state[q] = from /\ state' = [state EXCEPT ![q] = to]
Answers(q, by, s) == answer' = [answer EXCEPT ![q] = [by |-> by, status |-> s]]

Take(q) ==
    /\ open /\ Goes(q, "away", "taken")
    /\ \E a \in Asks : asked' = [asked EXCEPT ![q] = a]
    /\ UNCHANGED <<open, sent, heard, answer>>

Refuse(q) ==
    /\ asked[q].route = {}
    /\ Goes(q, "taken", "answered") /\ Answers(q, "proxy", asked[q].refusal)
    /\ UNCHANGED <<open, asked, sent, heard>>

Forward(q) ==
    /\ Goes(q, "taken", "forwarded")
    /\ \E r \in asked[q].route :
          sent' = [sent EXCEPT ![q] = Append(@, [to |-> UpstreamOf[r], raws |-> {r}])]
    /\ UNCHANGED <<open, asked, heard, answer>>

Hear(q) ==
    /\ state[q] = "forwarded" /\ heard[q] = 0
    /\ \E s \in Statuses \cup {1} : heard' = [heard EXCEPT ![q] = s]
    /\ UNCHANGED <<open, state, asked, sent, answer>>

Return(q) ==
    /\ heard[q] # 0
    /\ Goes(q, "forwarded", "answered")
    /\ IF heard[q] = 1 THEN Answers(q, "proxy", 502) ELSE Answers(q, "upstream", heard[q])
    /\ UNCHANGED <<open, asked, sent, heard>>

\* The process ends: a request without an answer never gets one.
Close ==
    /\ open /\ open' = FALSE
    /\ state' = [q \in Requests |->
                    IF state[q] \in {"away", "answered"} THEN state[q] ELSE "lost"]
    /\ UNCHANGED <<asked, sent, heard, answer>>

Next ==
    \/ \E q \in Requests : Take(q) \/ Refuse(q) \/ Forward(q) \/ Hear(q) \/ Return(q)
    \/ Close

Spec == Init /\ [][Next]_vars
=============================================================================
