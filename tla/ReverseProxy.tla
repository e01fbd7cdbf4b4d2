---------------------------- MODULE ReverseProxy ----------------------------
(***************************************************************************)
(* The requests of one invocation, from their arrival at the loopback      *)
(* listener to the answer: `serve`, `handle`, `forward`, `select_route`    *)
(* and `respond_with_upstream` of src/src/proxy.rs.                        *)
(*                                                                         *)
(* The accept loop gives every request a thread; the threads share the     *)
(* routes, which never change.  A request is what the program can tell     *)
(* apart in it: whether its target is origin-form, whether an outbound     *)
(* request can be built from it (and from the raw value and the upstream   *)
(* of its route), and which values each header carries.                    *)
(* Phantoms are drawn from 256 bits of entropy, so two routes never share  *)
(* one, and what is not a phantom of this invocation is Other.             *)
(***************************************************************************)
EXTENDS Naturals, Sequences

CONSTANTS
    Requests,      \* as many requests as are considered
    NRoutes,       \* number of `proxy-secret`s of the invocation
    HeaderNames,   \* header names in lower case
    HeaderOf,      \* the credential header of each route
    Origins,       \* the servers there are
    UpstreamOf,    \* the upstream of each route
    Messages       \* the requests a client may send

Routes == 1..NRoutes
CredentialHeaders == {HeaderOf[r] : r \in Routes}

Phantom(r) == <<"phantom", r>>
Raw(r)     == <<"raw", r>>       \* the template with the raw value in it
Other(n)   == <<"other", n>>     \* any other value; of `content-length`, n
Presentable == ({"phantom"} \X Routes) \cup ({"other"} \X Nat)

ASSUME RoutesAssumption ==
    /\ NRoutes \in Nat \ {0}
    /\ HeaderOf \in [Routes -> HeaderNames]
    /\ UpstreamOf \in [Routes -> Origins]
    /\ {"content-length", "transfer-encoding"} \subseteq HeaderNames
    /\ CredentialHeaders
         \cap {"host", "content-length", "transfer-encoding", "connection"} = {}

Message == [originForm : BOOLEAN, usable : BOOLEAN,
            headers : [HeaderNames -> Seq(Presentable)]]

ASSUME MessagesAssumption ==
    \A m \in Messages :
        /\ m \in Message
        /\ m.headers["content-length"] \in Seq({"other"} \X Nat)
        /\ Len(m.headers["content-length"]) <= 1

NoMessage == [originForm |-> FALSE, usable |-> FALSE,
              headers |-> [n \in HeaderNames |-> <<>>]]

UpstreamStatuses == {200, 302, 401, 500}
NoReply == 0
Broken  == 1      \* connection, TLS or transport error
NoAnswer == [by |-> "none", status |-> 0]

VARIABLES
    serving,    \* the process runs and its accept loop with it
    phase,      \* per request: "away", "queued", "checking", "selecting",
                \* "building", "sent", "answered", or "lost" with the process
    message,    \* what the client sent
    cursor,     \* the next route `select_route` looks at
    matched,    \* the routes that matched so far
    contact,    \* what the proxy sent, and to which origin
    reply,      \* what the upstream call came to
    answer      \* what the client gets

vars == <<serving, phase, message, cursor, matched, contact, reply, answer>>

Phases == {"away", "queued", "checking", "selecting", "building", "sent",
           "answered", "lost"}
Outbound == [to : Origins, body : BOOLEAN,
             headers : [HeaderNames -> Seq(Presentable \cup ({"raw"} \X Routes))]]

TypeOK ==
    /\ serving \in BOOLEAN
    /\ phase \in [Requests -> Phases]
    /\ message \in [Requests -> Message]
    /\ cursor \in [Requests -> 1..(NRoutes + 1)]
    /\ matched \in [Requests -> SUBSET Routes]
    /\ contact \in [Requests -> Seq(Outbound)]
    /\ reply \in [Requests -> UpstreamStatuses \cup {NoReply, Broken}]
    /\ answer \in [Requests -> [by : {"none", "proxy", "upstream"}, status : 0..599]]

Init ==
    /\ serving = TRUE
    /\ phase = [q \in Requests |-> "away"]
    /\ message = [q \in Requests |-> NoMessage]
    /\ cursor = [q \in Requests |-> 1]
    /\ matched = [q \in Requests |-> {}]
    /\ contact = [q \in Requests |-> <<>>]
    /\ reply = [q \in Requests |-> NoReply]
    /\ answer = [q \in Requests |-> NoAnswer]

-----------------------------------------------------------------------------
(* Helpers.                                                                *)

\* The handler thread of q goes from one phase to the next.
Goes(q, from, to) == phase[q] = from /\ phase' = [phase EXCEPT ![q] = to]

Values(q, r) == message[q].headers[HeaderOf[r]]

HopByHop == {"connection", "keep-alive", "proxy-authenticate", "proxy-authorization",
             "te", "trailer", "transfer-encoding", "upgrade"}

\* Faulty: only the header of the selected route is withheld.
FaultyForwardsHeader(n, r) ==
    /\ n \notin HopByHop
    /\ n \notin {"host", "content-length", "expect"}
    /\ n # HeaderOf[r]

\* The caller's headers that pass; route r is the one selected.
ForwardsHeader(n, r) ==
    /\ n \notin HopByHop
    /\ n \notin {"host", "content-length", "expect"}
    /\ n \notin CredentialHeaders

\* tiny_http: Transfer-Encoding overrides Content-Length.
BodyLength(m) ==
    IF m.headers["transfer-encoding"] # <<>> \/ m.headers["content-length"] = <<>>
      THEN <<>>
      ELSE <<m.headers["content-length"][1][2]>>

\* Faulty: a length that is not given counts as a body.
FaultyHasBody(m) == BodyLength(m) # <<0>>

HasBody(m) ==
    IF BodyLength(m) # <<>> THEN BodyLength(m)[1] > 0
                            ELSE m.headers["transfer-encoding"] # <<>>

OutboundOf(m, r) ==
    [to      |-> UpstreamOf[r],
     headers |-> [n \in HeaderNames |->
                     IF n = HeaderOf[r] THEN
                         (IF ForwardsHeader(n, r) THEN m.headers[n] ELSE <<>>) \o <<Raw(r)>>
                     ELSE IF ForwardsHeader(n, r) THEN m.headers[n] ELSE <<>>],
     body    |-> HasBody(m)]

\* A rejection is answered without an upstream; Rejection::status.
Reject(q, from, status) ==
    /\ Goes(q, from, "answered")
    /\ answer' = [answer EXCEPT ![q] = [by |-> "proxy", status |-> status]]

-----------------------------------------------------------------------------
(* The server.                                                             *)

Arrive(q) ==
    /\ serving
    /\ Goes(q, "away", "queued")
    /\ \E m \in Messages : message' = [message EXCEPT ![q] = m]
    /\ UNCHANGED <<serving, cursor, matched, contact, reply, answer>>

\* Faulty: requests are handled in the accept loop.
FaultyAccept(q) ==
    /\ \A p \in Requests : phase[p] \notin {"checking", "selecting", "building", "sent"}
    /\ Goes(q, "queued", "checking")
    /\ UNCHANGED <<serving, message, cursor, matched, contact, reply, answer>>

\* One turn of the accept loop: the request gets its thread.
Accept(q) ==
    /\ Goes(q, "queued", "checking")
    /\ UNCHANGED <<serving, message, cursor, matched, contact, reply, answer>>

\* The process ends, and every thread with it.
Stop ==
    /\ serving /\ serving' = FALSE
    /\ phase' = [q \in Requests |->
                    IF phase[q] \in {"away", "answered"} THEN phase[q] ELSE "lost"]
    /\ UNCHANGED <<message, cursor, matched, contact, reply, answer>>

\* No thread for the next request: thread::spawn panics in the main thread.
SpawnPanics == Stop /\ \E q \in Requests : phase[q] = "queued"

\* incoming_requests ends, or the sidecar is removed.
ServeEnds == Stop

-----------------------------------------------------------------------------
(* A handler thread: forward, up to the upstream call.                     *)

CheckTarget(q) ==
    /\ message[q].originForm
    /\ Goes(q, "checking", "selecting")
    /\ UNCHANGED <<serving, message, cursor, matched, contact, reply, answer>>

RejectTarget(q) ==
    /\ ~message[q].originForm
    /\ Reject(q, "checking", 400)
    /\ UNCHANGED <<serving, message, cursor, matched, contact, reply>>

\* Faulty: any occurrence of the header may match.
FaultyCompareRoute(q) ==
    /\ phase[q] = "selecting" /\ cursor[q] \in Routes
    /\ Len(Values(q, cursor[q])) > 0
    /\ matched' = IF \E i \in DOMAIN Values(q, cursor[q]) :
                         Values(q, cursor[q])[i] = Phantom(cursor[q])
                    THEN [matched EXCEPT ![q] = @ \cup {cursor[q]}]
                    ELSE matched
    /\ cursor' = [cursor EXCEPT ![q] = @ + 1]
    /\ UNCHANGED <<serving, phase, message, contact, reply, answer>>

\* One turn of the loop of select_route: `[value]`, matches_presented.
CompareRoute(q) ==
    /\ phase[q] = "selecting" /\ cursor[q] \in Routes
    /\ Len(Values(q, cursor[q])) = 1
    /\ matched' = IF Values(q, cursor[q])[1] = Phantom(cursor[q])
                    THEN [matched EXCEPT ![q] = @ \cup {cursor[q]}]
                    ELSE matched
    /\ cursor' = [cursor EXCEPT ![q] = @ + 1]
    /\ UNCHANGED <<serving, phase, message, contact, reply, answer>>

\* Faulty: the loop advances twice.
FaultySkipRoute(q) ==
    /\ phase[q] = "selecting" /\ cursor[q] \in Routes
    /\ Len(Values(q, cursor[q])) = 0
    /\ cursor' = [cursor EXCEPT ![q] = @ + 2]
    /\ UNCHANGED <<serving, phase, message, matched, contact, reply, answer>>

\* `[]`: the header is absent.
SkipRoute(q) ==
    /\ phase[q] = "selecting" /\ cursor[q] \in Routes
    /\ Len(Values(q, cursor[q])) = 0
    /\ cursor' = [cursor EXCEPT ![q] = @ + 1]
    /\ UNCHANGED <<serving, phase, message, matched, contact, reply, answer>>

\* The header appears more than once.
RejectDuplicate(q) ==
    /\ cursor[q] \in Routes
    /\ Len(Values(q, cursor[q])) > 1
    /\ Reject(q, "selecting", 400)
    /\ UNCHANGED <<serving, message, cursor, matched, contact, reply>>

RejectNoMatch(q) ==
    /\ cursor[q] = NRoutes + 1 /\ matched[q] = {}
    /\ Reject(q, "selecting", 401)
    /\ UNCHANGED <<serving, message, cursor, matched, contact, reply>>

RejectAmbiguous(q) ==
    /\ cursor[q] = NRoutes + 1
    /\ \E r, s \in matched[q] : r # s
    /\ Reject(q, "selecting", 400)
    /\ UNCHANGED <<serving, message, cursor, matched, contact, reply>>

\* `[route] => Ok(route)`
SelectRoute(q) ==
    /\ cursor[q] = NRoutes + 1
    /\ \E r \in Routes : matched[q] = {r}
    /\ Goes(q, "selecting", "building")
    /\ UNCHANGED <<serving, message, cursor, matched, contact, reply, answer>>

\* The method does not parse, or no outbound request can be built.
RejectUnusable(q) ==
    /\ ~message[q].usable
    /\ Reject(q, "building", 400)
    /\ UNCHANGED <<serving, message, cursor, matched, contact, reply>>

\* agent.run: headers and body go to the configured upstream.
Send(q) ==
    /\ message[q].usable
    /\ Goes(q, "building", "sent")
    /\ \E r \in matched[q] :
          contact' = [contact EXCEPT ![q] = Append(@, OutboundOf(message[q], r))]
    /\ UNCHANGED <<serving, message, cursor, matched, reply, answer>>

-----------------------------------------------------------------------------
(* The upstream, and the answer.                                           *)

UpstreamReplies(q) ==
    /\ phase[q] = "sent" /\ reply[q] = NoReply
    /\ \E s \in UpstreamStatuses \cup {Broken} : reply' = [reply EXCEPT ![q] = s]
    /\ UNCHANGED <<serving, phase, message, cursor, matched, contact, answer>>

\* Faulty: a redirect is followed with the headers of the first request.
FaultyRelay(q) ==
    /\ reply[q] \in UpstreamStatuses
    /\ IF reply[q] = 302
         THEN /\ phase[q] = "sent" /\ UNCHANGED <<phase, answer>>
              /\ reply' = [reply EXCEPT ![q] = NoReply]
              /\ \E o \in Origins :
                   contact' = [contact EXCEPT ![q] = <<[@[1] EXCEPT !.to = o]>>]
         ELSE /\ Goes(q, "sent", "answered")
              /\ answer' = [answer EXCEPT ![q] = [by |-> "upstream", status |-> reply[q]]]
              /\ UNCHANGED <<reply, contact>>
    /\ UNCHANGED <<serving, message, cursor, matched>>

\* respond_with_upstream: any status is relayed, a redirect is not followed.
Relay(q) ==
    /\ reply[q] \in UpstreamStatuses
    /\ Goes(q, "sent", "answered")
    /\ answer' = [answer EXCEPT ![q] = [by |-> "upstream", status |-> reply[q]]]
    /\ UNCHANGED <<serving, message, cursor, matched, contact, reply>>

\* Faulty: a status of 400 or more is an error of the agent.
FaultyUpstreamFailed(q) ==
    /\ reply[q] = Broken \/ reply[q] >= 400
    /\ Reject(q, "sent", 502)
    /\ UNCHANGED <<serving, message, cursor, matched, contact, reply>>

\* Faulty: a call that fails is made once more.
FaultyRetry(q) ==
    /\ reply[q] = Broken /\ phase[q] = "sent"
    /\ IF Len(contact[q]) = 1
         THEN /\ contact' = [contact EXCEPT ![q] = @ \o @]
              /\ reply' = [reply EXCEPT ![q] = NoReply]
              /\ UNCHANGED <<phase, answer>>
         ELSE Reject(q, "sent", 502) /\ UNCHANGED <<contact, reply>>
    /\ UNCHANGED <<serving, message, cursor, matched>>

\* Rejection::Upstream
UpstreamFailed(q) ==
    /\ reply[q] = Broken
    /\ Reject(q, "sent", 502)
    /\ UNCHANGED <<serving, message, cursor, matched, contact, reply>>

-----------------------------------------------------------------------------
Handles(q) ==
    \/ CheckTarget(q) \/ RejectTarget(q)
    \/ CompareRoute(q) \/ SkipRoute(q) \/ RejectDuplicate(q)
    \/ RejectNoMatch(q) \/ RejectAmbiguous(q) \/ SelectRoute(q)
    \/ RejectUnusable(q) \/ Send(q)
    \/ Relay(q) \/ UpstreamFailed(q)

Next ==
    \/ \E q \in Requests : Arrive(q) \/ Accept(q) \/ Handles(q) \/ UpstreamReplies(q)
    \/ SpawnPanics \/ ServeEnds

SafeSpec == Init /\ [][Next]_vars

\* The queue of the server is first in, first out, and its threads are
\* scheduled; an upstream need not reply, and the agent has no timeout.
Spec == SafeSpec /\ \A q \in Requests : WF_vars(Accept(q)) /\ WF_vars(Handles(q))

-----------------------------------------------------------------------------
(* Properties.                                                             *)

\* What a message means, said without a loop.
Duplicated(m) == \E r \in Routes : Len(m.headers[HeaderOf[r]]) > 1
Meant(m)      == {r \in Routes : m.headers[HeaderOf[r]] = <<Phantom(r)>>}

Forwardable(m, r) ==
    m.originForm /\ ~Duplicated(m) /\ Meant(m) = {r} /\ m.usable

\* An upstream is contacted only for a well-formed message that presents the
\* phantom of exactly one route, once, and it is that route's upstream; no
\* redirect leads anywhere else (proxy.rs:48-54, 332-337).
OnlyMeantUpstream ==
    \A q \in Requests : \A i \in DOMAIN contact[q] :
        \E r \in Routes : Forwardable(message[q], r) /\ contact[q][i].to = UpstreamOf[r]

\* No value the caller chose reaches an upstream in any credential header, of
\* whichever route; the one raw value sent is that of the route whose upstream
\* it goes to (proxy.rs:383-393).
CredentialsAreInjected ==
    \A q \in Requests : \A i \in DOMAIN contact[q] : \A h \in CredentialHeaders :
        LET sent == contact[q][i].headers[h] IN
        sent # <<>> => \E r \in Routes : /\ sent = <<Raw(r)>> /\ HeaderOf[r] = h
                                         /\ contact[q][i].to = UpstreamOf[r]

\* The outbound request has a body if and only if the caller's has one: a
\* bodyless GET is not turned into an empty upload (proxy.rs:297-307).
FramingFollowsBody ==
    \A q \in Requests : \A i \in DOMAIN contact[q] :
        LET h == message[q].headers IN
        contact[q][i].body <=>
            \/ h["transfer-encoding"] # <<>>
            \/ h["content-length"] # <<>> /\ h["content-length"] # <<Other(0)>>

\* The answer is the one the message and the upstream call for: 400 when the
\* message is malformed or ambiguous, 401 when nothing was matched, 502 when
\* the call failed, and else the upstream's own; and a refused request never
\* reached an upstream (proxy.rs:204-228).
VerdictFaithful ==
    \A q \in Requests : answer[q] # NoAnswer =>
        LET m == message[q]  r == reply[q] IN
        /\ answer[q].by = "upstream" =>
             /\ r \in UpstreamStatuses /\ answer[q].status = r
             /\ contact[q] # <<>>
        /\ answer[q].by = "proxy" =>
             \/ answer[q].status = 502 /\ r = Broken /\ contact[q] # <<>>
             \/ /\ contact[q] = <<>> /\ ~(\E s \in Routes : Forwardable(m, s))
                /\ answer[q].status =
                     IF m.originForm /\ ~Duplicated(m) /\ Meant(m) = {} THEN 401 ELSE 400

\* Whatever other upstreams do, a request that has arrived gets as far as its
\* own upstream or its rejection, while the process runs (proxy.rs:74-75).
OthersDoNotBlock ==
    \A q \in Requests :
        phase[q] = "queued" ~> phase[q] \in {"sent", "answered", "lost"}

-----------------------------------------------------------------------------
(* The promise of ProxiedExchange, of which this is the implementation.    *)

StateNow == [q \in Requests |->
    CASE phase[q] \in {"queued", "checking", "selecting", "building"} -> "taken"
      [] phase[q] = "sent" -> "forwarded"
      [] OTHER -> phase[q]]

\* What a message asks for, said without a loop.
Ask(m) ==
    LET meant == {r \in Routes : Forwardable(m, r)} IN
    [route   |-> meant,
     refusal |-> IF meant # {} THEN 0
                 ELSE IF m.originForm /\ ~Duplicated(m) /\ Meant(m) = {} THEN 401 ELSE 400]

AskedNow == [q \in Requests |->
    IF phase[q] = "away" THEN [route |-> {}, refusal |-> 0] ELSE Ask(message[q])]

\* The routes whose raw value stands anywhere in an outbound request.
Raws(o) == {r \in Routes : \E n \in HeaderNames :
               \E k \in DOMAIN o.headers[n] : o.headers[n][k] = Raw(r)}

SentNow == [q \in Requests |->
    [i \in DOMAIN contact[q] |-> [to |-> contact[q][i].to, raws |-> Raws(contact[q][i])]]]

Exchange == INSTANCE ProxiedExchange WITH
    Statuses <- UpstreamStatuses, open <- serving, state <- StateNow,
    asked <- AskedNow, sent <- SentNow, heard <- reply

\* A request is one exchange: what it asks for follows from its message, at
\* most one upstream is called, once and with no raw value but its own, and
\* the answer, given once, is that server's or the refusal that is due
\* (proxy.rs:48-54, 204-228, 332-337, 383-393).
ImplementsExchange == Exchange!Spec

=============================================================================
