------------------------- MODULE ReverseProxyProofs -------------------------
(***************************************************************************)
(* Proofs about ReverseProxy, for every number of requests and routes and  *)
(* every assignment of headers and upstreams to the routes.                *)
(***************************************************************************)
EXTENDS ReverseProxy, SequenceTheorems, TLAPS

\* Before the upstream call nothing has been sent, replied or answered.
Fresh(q) ==
    phase[q] \in {"away", "queued", "checking", "selecting", "building"} =>
        contact[q] = <<>> /\ reply[q] = NoReply /\ answer[q] = NoAnswer

\* Before the loop of select_route.
Unseen(q) ==
    phase[q] \in {"away", "queued", "checking"} => cursor[q] = 1 /\ matched[q] = {}

\* The loop invariant of select_route: the routes already seen have at most
\* one value each, and those that match are exactly the matched ones.
Selecting(q) ==
    phase[q] = "selecting" =>
        /\ message[q].originForm
        /\ \A r \in Routes : r < cursor[q] => Len(Values(q, r)) \in {0, 1}
        /\ \A r \in Routes :
             r \in matched[q] <=> r < cursor[q] /\ Values(q, r) = <<Phantom(r)>>

\* After the loop, exactly one route is meant, and it is the one selected.
Selected(q) ==
    phase[q] \in {"building", "sent"} =>
        \E r \in Routes : /\ message[q].originForm /\ ~Duplicated(message[q])
                          /\ Meant(message[q]) = {r} /\ matched[q] = {r}

\* What has been sent is the outbound request of the one route meant.
Contacted(q) ==
    /\ contact[q] # <<>> =>
         \E r \in Routes : /\ Forwardable(message[q], r)
                           /\ contact[q] = <<OutboundOf(message[q], r)>>
    /\ phase[q] = "sent" => contact[q] # <<>>
    /\ reply[q] # NoReply => contact[q] # <<>>
    /\ phase[q] # "answered" => answer[q] = NoAnswer

\* VerdictFaithful, of one request.
Verdict(q) ==
    answer[q] # NoAnswer =>
        LET m == message[q]  r == reply[q] IN
        /\ answer[q].by = "upstream" =>
             /\ r \in UpstreamStatuses /\ answer[q].status = r
             /\ contact[q] # <<>>
        /\ answer[q].by = "proxy" =>
             \/ answer[q].status = 502 /\ r = Broken /\ contact[q] # <<>>
             \/ /\ contact[q] = <<>> /\ ~(\E s \in Routes : Forwardable(m, s))
                /\ answer[q].status =
                     IF m.originForm /\ ~Duplicated(m) /\ Meant(m) = {} THEN 401 ELSE 400

RequestInv(q) ==
    /\ Fresh(q) /\ Unseen(q) /\ Selecting(q) /\ Selected(q) /\ Contacted(q) /\ Verdict(q)

IInv == TypeOK /\ \A q \in Requests : RequestInv(q)

-----------------------------------------------------------------------------
\* What the outbound request is made of: in a credential header, either
\* nothing or the raw value of the route it goes to.
LEMMA OutboundCredential ==
    ASSUME NEW m, NEW r \in Routes, NEW h \in CredentialHeaders,
           h \in HeaderNames
    PROVE  /\ OutboundOf(m, r).to = UpstreamOf[r]
           /\ OutboundOf(m, r).headers[h] = IF h = HeaderOf[r] THEN <<Raw(r)>> ELSE <<>>
<1>1. ~ForwardsHeader(h, r)
  BY DEF ForwardsHeader
<1>2. <<>> \o <<Raw(r)>> = <<Raw(r)>>
  OBVIOUS
<1> QED
  BY <1>1, <1>2 DEF OutboundOf

LEMMA OutboundType ==
    ASSUME NEW m \in Message, NEW r \in Routes PROVE OutboundOf(m, r) \in Outbound
<1> DEFINE V == Presentable \cup ({"raw"} \X Routes)
<1>1. UpstreamOf[r] \in Origins
  BY RoutesAssumption
<1>2. HasBody(m) \in BOOLEAN
  <2>1. CASE BodyLength(m) # <<>>
    BY <2>1 DEF HasBody
  <2>2. CASE BodyLength(m) = <<>>
    BY <2>2 DEF HasBody
  <2> QED
    BY <2>1, <2>2
<1>3. \A n \in HeaderNames : OutboundOf(m, r).headers[n] \in Seq(V)
  <2> TAKE n \in HeaderNames
  <2>1. m.headers[n] \in Seq(V)
    <3>1. m.headers[n] \in Seq(Presentable)
      BY DEF Message
    <3> QED
      BY <3>1
  <2>2. <<Raw(r)>> \in Seq(V) /\ <<>> \in Seq(V)
    <3>1. Raw(r) \in V
      BY DEF Raw
    <3> QED
      BY <3>1
  <2>3. \A s \in Seq(V) : s \o <<Raw(r)>> \in Seq(V)
    BY <2>2
  <2> QED
    BY <2>1, <2>2, <2>3 DEF OutboundOf
<1>4. OutboundOf(m, r).headers \in [HeaderNames -> Seq(V)]
  BY <1>3 DEF OutboundOf
<1> QED
  BY <1>1, <1>2, <1>4 DEF OutboundOf, Outbound

-----------------------------------------------------------------------------
LEMMA InitIInv == Init => IInv
<1> SUFFICES ASSUME Init PROVE IInv
  OBVIOUS
<1>1. TypeOK
  <2>1. NoMessage \in Message
    BY DEF NoMessage, Message
  <2>2. 1 \in 1..(NRoutes + 1)
    BY RoutesAssumption
  <2> QED
    BY <2>1, <2>2 DEF Init, TypeOK, Phases, NoReply, NoAnswer
<1>2. \A q \in Requests : RequestInv(q)
  BY DEF Init, RequestInv, Fresh, Unseen, Selecting, Selected, Contacted, Verdict, NoAnswer
<1> QED
  BY <1>1, <1>2 DEF IInv

\* A step of one request leaves the invariant of every other one alone.
LEMMA Others ==
    ASSUME NEW p, RequestInv(p),
           phase'[p] = phase[p], message'[p] = message[p], cursor'[p] = cursor[p],
           matched'[p] = matched[p], contact'[p] = contact[p], reply'[p] = reply[p],
           answer'[p] = answer[p]
    PROVE  RequestInv(p)'
BY DEF RequestInv, Fresh, Unseen, Selecting, Selected, Contacted, Verdict, Values

\* At the end of the loop `matched` is what the message means.
LEMMA LoopEnds ==
    ASSUME IInv, NEW q \in Requests, phase[q] = "selecting", cursor[q] = NRoutes + 1
    PROVE  /\ message[q].originForm /\ ~Duplicated(message[q])
           /\ Meant(message[q]) = matched[q]
<1>1. \A r \in Routes : r < cursor[q]
  BY RoutesAssumption DEF Routes
<1>2. \A r \in Routes : Len(Values(q, r)) \in {0, 1}
  BY <1>1 DEF IInv, RequestInv, Selecting
<1>3. \A r \in Routes : r \in matched[q] <=> Values(q, r) = <<Phantom(r)>>
  BY <1>1 DEF IInv, RequestInv, Selecting
<1>4. message[q].originForm
  BY DEF IInv, RequestInv, Selecting
<1>5. ~Duplicated(message[q])
  <2>1. \A k : k \in {0, 1} => ~(k > 1)
    OBVIOUS
  <2>2. \A r \in Routes : ~(Len(Values(q, r)) > 1)
    BY <1>2, <2>1
  <2> QED
    BY <2>2 DEF Duplicated, Values
<1>6. Meant(message[q]) = matched[q]
  <2>1. matched[q] \subseteq Routes
    BY DEF IInv, TypeOK
  <2> QED
    BY <1>3, <2>1 DEF Meant, Values
<1> QED
  BY <1>4, <1>5, <1>6

LEMMA StepIInv == IInv /\ [Next]_vars => IInv'
<1> SUFFICES ASSUME IInv, [Next]_vars PROVE IInv'
  OBVIOUS
<1> USE DEF IInv, TypeOK, Phases
<1>1. ASSUME NEW q \in Requests, Arrive(q) PROVE IInv'
  <2>1. PICK m \in Messages : message' = [message EXCEPT ![q] = m]
    BY <1>1 DEF Arrive
  <2>2. m \in Message
    BY MessagesAssumption
  <2>3. TypeOK'
    BY <1>1, <2>1, <2>2 DEF Arrive, Goes
  <2>4. RequestInv(q)'
    BY <1>1, <2>1, <2>2 DEF Arrive, Goes, RequestInv, Fresh, Unseen, Selecting, Selected, Contacted, Verdict
  <2>5. \A p \in Requests : p # q => RequestInv(p)'
    BY <1>1, <2>1, Others DEF Arrive, Goes
  <2> QED
    BY <2>3, <2>4, <2>5
<1>2. ASSUME NEW q \in Requests, Accept(q) PROVE IInv'
  <2>1. TypeOK'
    BY <1>2 DEF Accept, Goes
  <2>2. RequestInv(q)'
    BY <1>2 DEF Accept, Goes, RequestInv, Fresh, Unseen, Selecting, Selected, Contacted, Verdict
  <2>3. \A p \in Requests : p # q => RequestInv(p)'
    BY <1>2, Others DEF Accept, Goes
  <2> QED
    BY <2>1, <2>2, <2>3
<1>3. CASE Stop
  <2>1. TypeOK'
    BY <1>3 DEF Stop
  <2>2. \A p \in Requests : RequestInv(p)'
    BY <1>3 DEF Stop, RequestInv, Fresh, Unseen, Selecting, Selected, Contacted, Verdict
  <2> QED
    BY <2>1, <2>2
<1>4. ASSUME NEW q \in Requests, CheckTarget(q) PROVE IInv'
  <2>1. TypeOK'
    BY <1>4 DEF CheckTarget, Goes
  <2>2. RequestInv(q)'
    BY <1>4 DEF CheckTarget, Goes, RequestInv, Fresh, Unseen, Selecting, Selected, Contacted, Verdict, Routes
  <2>3. \A p \in Requests : p # q => RequestInv(p)'
    BY <1>4, Others DEF CheckTarget, Goes
  <2> QED
    BY <2>1, <2>2, <2>3
<1>5. ASSUME NEW q \in Requests, RejectTarget(q) PROVE IInv'
  <2>1. TypeOK'
    BY <1>5 DEF RejectTarget, Reject, Goes
  <2>2. RequestInv(q)'
    BY <1>5 DEF RejectTarget, Reject, Goes, RequestInv, Fresh, Unseen, Selecting, Selected, Contacted, Verdict, Forwardable
  <2>3. \A p \in Requests : p # q => RequestInv(p)'
    BY <1>5, Others DEF RejectTarget, Reject, Goes
  <2> QED
    BY <2>1, <2>2, <2>3
<1>6. ASSUME NEW q \in Requests, CompareRoute(q) PROVE IInv'
  <2>1. cursor[q] + 1 \in 1..(NRoutes + 1) /\ cursor[q] \in Routes
    BY <1>6, RoutesAssumption DEF CompareRoute, Routes
  <2>2. TypeOK'
    BY <1>6, <2>1 DEF CompareRoute
  <2>3. Selecting(q)'
    <3>1. \A r \in Routes : r < cursor[q] + 1 <=> r < cursor[q] \/ r = cursor[q]
      BY <2>1 DEF Routes
    <3>2. Values(q, cursor[q])[1] = Phantom(cursor[q])
            <=> Values(q, cursor[q]) = <<Phantom(cursor[q])>>
      <4>1. Values(q, cursor[q]) \in Seq(Presentable)
        BY <2>1, RoutesAssumption DEF Values, Message
      <4> QED
        BY <1>6, <4>1 DEF CompareRoute
    <3>3. \A r \in Routes : r \in matched'[q]
            <=> r \in matched[q] \/ (r = cursor[q] /\ Values(q, r) = <<Phantom(r)>>)
      BY <1>6, <2>1, <3>2 DEF CompareRoute
    <3>4. cursor'[q] = cursor[q] + 1 /\ message' = message
      BY <1>6 DEF CompareRoute
    <3>5. /\ message[q].originForm
          /\ \A r \in Routes : r < cursor[q] => Len(Values(q, r)) \in {0, 1}
          /\ \A r \in Routes : r \in matched[q] <=> r < cursor[q] /\ Values(q, r) = <<Phantom(r)>>
      BY <1>6 DEF CompareRoute, RequestInv, Selecting
    <3>6. Len(Values(q, cursor[q])) = 1
      BY <1>6 DEF CompareRoute
    <3>7. \A r \in Routes : Values(q, r)' = Values(q, r)
      BY <3>4 DEF Values
    <3>8. \A r \in Routes : r < cursor'[q] => Len(Values(q, r)') \in {0, 1}
      <4> HIDE DEF IInv, TypeOK
      <4> QED
        BY <3>1, <3>4, <3>5, <3>6, <3>7
    <3>9. \A r \in Routes : r \in matched'[q] <=> r < cursor'[q] /\ Values(q, r)' = <<Phantom(r)>>
      <4> HIDE DEF IInv, TypeOK
      <4> QED
        BY <3>1, <3>3, <3>4, <3>5, <3>7
    <3> QED
      BY <3>4, <3>5, <3>8, <3>9 DEF Selecting
  <2>4. RequestInv(q)'
    BY <1>6, <2>3 DEF CompareRoute, RequestInv, Fresh, Unseen, Selected, Contacted, Verdict
  <2>5. \A p \in Requests : p # q => RequestInv(p)'
    BY <1>6, Others DEF CompareRoute
  <2> QED
    BY <2>2, <2>4, <2>5
<1>7. ASSUME NEW q \in Requests, SkipRoute(q) PROVE IInv'
  <2>1. cursor[q] + 1 \in 1..(NRoutes + 1) /\ cursor[q] \in Routes
    BY <1>7, RoutesAssumption DEF SkipRoute, Routes
  <2>2. TypeOK'
    BY <1>7, <2>1 DEF SkipRoute
  <2>3. Selecting(q)'
    <3>1. \A r \in Routes : r < cursor[q] + 1 <=> r < cursor[q] \/ r = cursor[q]
      BY <2>1 DEF Routes
    <3>2. Values(q, cursor[q]) # <<Phantom(cursor[q])>>
      BY <1>7 DEF SkipRoute
    <3>3. cursor'[q] = cursor[q] + 1 /\ message' = message /\ matched' = matched
      BY <1>7 DEF SkipRoute
    <3>4. /\ message[q].originForm
          /\ \A r \in Routes : r < cursor[q] => Len(Values(q, r)) \in {0, 1}
          /\ \A r \in Routes : r \in matched[q] <=> r < cursor[q] /\ Values(q, r) = <<Phantom(r)>>
      BY <1>7 DEF SkipRoute, RequestInv, Selecting
    <3>5. Len(Values(q, cursor[q])) = 0
      BY <1>7 DEF SkipRoute
    <3>6. \A r \in Routes : Values(q, r)' = Values(q, r)
      BY <3>3 DEF Values
    <3>7. \A r \in Routes : r < cursor'[q] => Len(Values(q, r)') \in {0, 1}
      <4> HIDE DEF IInv, TypeOK
      <4> QED
        BY <3>1, <3>3, <3>4, <3>5, <3>6
    <3>8. \A r \in Routes : r \in matched'[q] <=> r < cursor'[q] /\ Values(q, r)' = <<Phantom(r)>>
      <4> HIDE DEF IInv, TypeOK
      <4> QED
        BY <3>1, <3>2, <3>3, <3>4, <3>6
    <3> QED
      BY <3>3, <3>4, <3>7, <3>8 DEF Selecting
  <2>4. RequestInv(q)'
    BY <1>7, <2>3 DEF SkipRoute, RequestInv, Fresh, Unseen, Selected, Contacted, Verdict
  <2>5. \A p \in Requests : p # q => RequestInv(p)'
    BY <1>7, Others DEF SkipRoute
  <2> QED
    BY <2>2, <2>4, <2>5
<1>8. ASSUME NEW q \in Requests, RejectDuplicate(q) PROVE IInv'
  <2>1. TypeOK'
    BY <1>8 DEF RejectDuplicate, Reject, Goes
  <2>2. Duplicated(message[q])
    BY <1>8 DEF RejectDuplicate, Duplicated, Values
  <2>3. RequestInv(q)'
    BY <1>8, <2>2 DEF RejectDuplicate, Reject, Goes, RequestInv, Fresh, Unseen, Selecting, Selected, Contacted, Verdict, Forwardable
  <2>4. \A p \in Requests : p # q => RequestInv(p)'
    BY <1>8, Others DEF RejectDuplicate, Reject, Goes
  <2> QED
    BY <2>1, <2>3, <2>4
<1>9. ASSUME NEW q \in Requests, RejectNoMatch(q) PROVE IInv'
  <2>1. TypeOK'
    BY <1>9 DEF RejectNoMatch, Reject, Goes
  <2>2. /\ message[q].originForm /\ ~Duplicated(message[q])
        /\ Meant(message[q]) = {}
    BY LoopEnds, <1>9 DEF RejectNoMatch, Reject, Goes
  <2>3. RequestInv(q)'
    BY <1>9, <2>2 DEF RejectNoMatch, Reject, Goes, RequestInv, Fresh, Unseen, Selecting, Selected, Contacted, Verdict, Forwardable
  <2>4. \A p \in Requests : p # q => RequestInv(p)'
    BY <1>9, Others DEF RejectNoMatch, Reject, Goes
  <2> QED
    BY <2>1, <2>3, <2>4
<1>10. ASSUME NEW q \in Requests, RejectAmbiguous(q) PROVE IInv'
  <2>1. TypeOK'
    BY <1>10 DEF RejectAmbiguous, Reject, Goes
  <2>2. \E r, s \in Meant(message[q]) : r # s
    BY LoopEnds, <1>10 DEF RejectAmbiguous, Reject, Goes
  <2>3. RequestInv(q)'
    BY <1>10, <2>2 DEF RejectAmbiguous, Reject, Goes, RequestInv, Fresh, Unseen, Selecting, Selected, Contacted, Verdict, Forwardable
  <2>4. \A p \in Requests : p # q => RequestInv(p)'
    BY <1>10, Others DEF RejectAmbiguous, Reject, Goes
  <2> QED
    BY <2>1, <2>3, <2>4
<1>11. ASSUME NEW q \in Requests, SelectRoute(q) PROVE IInv'
  <2>1. TypeOK'
    BY <1>11 DEF SelectRoute, Goes
  <2>2. \E r \in Routes : /\ message[q].originForm /\ ~Duplicated(message[q])
                          /\ Meant(message[q]) = {r} /\ matched[q] = {r}
    BY LoopEnds, <1>11 DEF SelectRoute, Goes
  <2>3. RequestInv(q)'
    BY <1>11, <2>2 DEF SelectRoute, Goes, RequestInv, Fresh, Unseen, Selecting, Selected, Contacted, Verdict
  <2>4. \A p \in Requests : p # q => RequestInv(p)'
    BY <1>11, Others DEF SelectRoute, Goes
  <2> QED
    BY <2>1, <2>3, <2>4
<1>12. ASSUME NEW q \in Requests, RejectUnusable(q) PROVE IInv'
  <2>1. TypeOK'
    BY <1>12 DEF RejectUnusable, Reject, Goes
  <2>2. Meant(message[q]) # {}
    BY <1>12 DEF RejectUnusable, Reject, Goes, RequestInv, Selected
  <2>3. RequestInv(q)'
    BY <1>12, <2>2 DEF RejectUnusable, Reject, Goes, RequestInv, Fresh, Unseen, Selecting, Selected, Contacted, Verdict, Forwardable
  <2>4. \A p \in Requests : p # q => RequestInv(p)'
    BY <1>12, Others DEF RejectUnusable, Reject, Goes
  <2> QED
    BY <2>1, <2>3, <2>4
<1>13. ASSUME NEW q \in Requests, Send(q) PROVE IInv'
  <2>1. PICK r \in matched[q] :
          contact' = [contact EXCEPT ![q] = Append(@, OutboundOf(message[q], r))]
    BY <1>13 DEF Send
  <2>2. r \in Routes /\ Forwardable(message[q], r)
    BY <1>13, <2>1 DEF Send, Goes, RequestInv, Selected, Forwardable
  <2>3. OutboundOf(message[q], r) \in Outbound
    BY <2>2, OutboundType
  <2>4. contact'[q] = <<OutboundOf(message[q], r)>>
    <3>1. contact[q] = <<>>
      BY <1>13 DEF Send, Goes, RequestInv, Fresh
    <3>2. contact'[q] = Append(contact[q], OutboundOf(message[q], r))
      BY <2>1
    <3>3. \A x : Append(<<>>, x) = <<x>>
      OBVIOUS
    <3> QED
      BY <3>1, <3>2, <3>3
  <2>5. TypeOK'
    BY <1>13, <2>1, <2>3 DEF Send, Goes
  <2>6. Contacted(q)'
    <3>1. contact'[q] # <<>>
      <4>1. \A x : <<x>> # <<>>
        OBVIOUS
      <4> QED
        BY <2>4, <4>1
    <3>2. message'[q] = message[q] /\ answer'[q] = NoAnswer
      BY <1>13 DEF Send, Goes, RequestInv, Fresh
    <3> QED
      BY <2>2, <2>4, <3>1, <3>2 DEF Contacted
  <2>7. RequestInv(q)'
    <3>1. phase'[q] = "sent" /\ answer'[q] = NoAnswer
      BY <1>13 DEF Send, Goes, RequestInv, Fresh
    <3>2. Selected(q)'
      BY <1>13 DEF Send, Goes, RequestInv, Selected
    <3> QED
      BY <2>6, <3>1, <3>2 DEF RequestInv, Fresh, Unseen, Selecting, Verdict
  <2>8. \A p \in Requests : p # q => RequestInv(p)'
    BY <1>13, <2>1, Others DEF Send, Goes
  <2> QED
    BY <2>5, <2>7, <2>8
<1>14. ASSUME NEW q \in Requests, UpstreamReplies(q) PROVE IInv'
  <2>1. PICK s \in UpstreamStatuses \cup {Broken} : reply' = [reply EXCEPT ![q] = s]
    BY <1>14 DEF UpstreamReplies
  <2>2. TypeOK'
    BY <1>14, <2>1 DEF UpstreamReplies
  <2>3. RequestInv(q)'
    <3>1. phase'[q] = "sent" /\ phase[q] = "sent" /\ contact'[q] = contact[q]
          /\ answer'[q] = answer[q] /\ message'[q] = message[q]
          /\ matched'[q] = matched[q]
      BY <1>14 DEF UpstreamReplies
    <3>2. contact[q] # <<>> /\ answer[q] = NoAnswer
      BY <3>1 DEF RequestInv, Contacted
    <3>3. Contacted(q)'
      BY <3>1, <3>2 DEF RequestInv, Contacted
    <3>4. Selected(q)'
      <4>1. Selected(q)
        BY DEF RequestInv
      <4>2. PICK r \in Routes : /\ message[q].originForm /\ ~Duplicated(message[q])
                                /\ Meant(message[q]) = {r} /\ matched[q] = {r}
        BY <3>1, <4>1 DEF Selected
      <4> QED
        BY <3>1, <4>2 DEF Selected
    <3>5. Verdict(q)' /\ Fresh(q)' /\ Unseen(q)' /\ Selecting(q)'
      BY <3>1, <3>2 DEF Fresh, Unseen, Selecting, Verdict
    <3> QED
      BY <3>3, <3>4, <3>5 DEF RequestInv
  <2>4. \A p \in Requests : p # q => RequestInv(p)'
    BY <1>14, <2>1, Others DEF UpstreamReplies
  <2> QED
    BY <2>2, <2>3, <2>4
<1>15. ASSUME NEW q \in Requests, Relay(q) PROVE IInv'
  <2>1. TypeOK'
    BY <1>15 DEF Relay, Goes, UpstreamStatuses
  <2>2. RequestInv(q)'
    BY <1>15 DEF Relay, Goes, RequestInv, Fresh, Unseen, Selecting, Selected, Contacted, Verdict
  <2>3. \A p \in Requests : p # q => RequestInv(p)'
    BY <1>15, Others DEF Relay, Goes
  <2> QED
    BY <2>1, <2>2, <2>3
<1>16. ASSUME NEW q \in Requests, UpstreamFailed(q) PROVE IInv'
  <2>1. TypeOK'
    BY <1>16 DEF UpstreamFailed, Reject, Goes
  <2>2. RequestInv(q)'
    BY <1>16 DEF UpstreamFailed, Reject, Goes, RequestInv, Fresh, Unseen, Selecting, Selected, Contacted, Verdict
  <2>3. \A p \in Requests : p # q => RequestInv(p)'
    BY <1>16, Others DEF UpstreamFailed, Reject, Goes
  <2> QED
    BY <2>1, <2>2, <2>3
<1>17. CASE UNCHANGED vars
  BY <1>17, Others DEF vars
<1> QED
  BY <1>1, <1>2, <1>3, <1>4, <1>5, <1>6, <1>7, <1>8, <1>9, <1>10, <1>11, <1>12,
     <1>13, <1>14, <1>15, <1>16, <1>17 DEF Next, Handles, SpawnPanics, ServeEnds

LEMMA Invariance == SafeSpec => []IInv
BY InitIInv, StepIInv, PTL DEF SafeSpec

-----------------------------------------------------------------------------
\* TypeOK is an invariant.
THEOREM TypeCorrect == SafeSpec => []TypeOK
<1>1. IInv => TypeOK
  BY DEF IInv
<1> QED
  BY Invariance, <1>1, PTL

\* For any routes, also when they share headers or upstreams: an upstream is
\* contacted only for a message that means exactly its route.
THEOREM OnlyMeantUpstreamIsReached == SafeSpec => []OnlyMeantUpstream
<1>1. IInv => OnlyMeantUpstream
  <2> SUFFICES ASSUME IInv, NEW q \in Requests, NEW i \in DOMAIN contact[q]
               PROVE  \E r \in Routes : /\ Forwardable(message[q], r)
                                        /\ contact[q][i].to = UpstreamOf[r]
    BY DEF OnlyMeantUpstream
  <2>1. contact[q] # <<>>
    OBVIOUS
  <2>2. PICK r \in Routes : /\ Forwardable(message[q], r)
                            /\ contact[q] = <<OutboundOf(message[q], r)>>
    BY <2>1 DEF IInv, RequestInv, Contacted
  <2>3. contact[q][i] = OutboundOf(message[q], r)
    BY <2>2
  <2> QED
    BY <2>2, <2>3 DEF OutboundOf
<1> QED
  BY Invariance, <1>1, PTL

\* For any routes: no credential header carries a caller's value upstream, and
\* a raw value goes to the upstream of its own route only.
THEOREM OnlyRawIsInjected == SafeSpec => []CredentialsAreInjected
<1>1. IInv => CredentialsAreInjected
  <2> SUFFICES ASSUME IInv, NEW q \in Requests, NEW i \in DOMAIN contact[q],
                      NEW h \in CredentialHeaders, contact[q][i].headers[h] # <<>>
               PROVE  \E r \in Routes : /\ contact[q][i].headers[h] = <<Raw(r)>>
                                        /\ HeaderOf[r] = h
                                        /\ contact[q][i].to = UpstreamOf[r]
    BY DEF CredentialsAreInjected
  <2>1. contact[q] # <<>>
    OBVIOUS
  <2>2. PICK r \in Routes : contact[q] = <<OutboundOf(message[q], r)>>
    <3>1. Contacted(q)
      BY DEF IInv, RequestInv
    <3> QED
      BY <2>1, <3>1 DEF Contacted
  <2>3. contact[q][i] = OutboundOf(message[q], r)
    BY <2>2
  <2>4. h \in HeaderNames
    BY RoutesAssumption DEF CredentialHeaders
  <2>5. /\ OutboundOf(message[q], r).to = UpstreamOf[r]
        /\ OutboundOf(message[q], r).headers[h]
             = IF h = HeaderOf[r] THEN <<Raw(r)>> ELSE <<>>
    BY <2>4, OutboundCredential
  <2>6. h = HeaderOf[r]
    BY <2>3, <2>5
  <2> QED
    BY <2>3, <2>5, <2>6
<1> QED
  BY Invariance, <1>1, PTL

\* The answer is always the one that the message and the upstream call for:
\* the loop of select_route computes what Duplicated and Meant define.
THEOREM VerdictIsFaithful == SafeSpec => []VerdictFaithful
<1>1. IInv => VerdictFaithful
  BY DEF IInv, RequestInv, Verdict, VerdictFaithful
<1> QED
  BY Invariance, <1>1, PTL

-----------------------------------------------------------------------------
\* Every message is one that a client may send, or none yet.
MessageInv == \A q \in Requests : message[q] \in Messages \cup {NoMessage}

LEMMA MessageInvariance == SafeSpec => []MessageInv
<1>1. Init => MessageInv
  BY DEF Init, MessageInv
<1>2. IInv /\ MessageInv /\ [Next]_vars => MessageInv'
  <2> SUFFICES ASSUME IInv, MessageInv, [Next]_vars PROVE MessageInv'
    OBVIOUS
  <2>1. CASE \E q \in Requests : Arrive(q)
    BY <2>1 DEF Arrive, MessageInv, IInv, TypeOK
  <2>2. CASE message' = message
    BY <2>2 DEF MessageInv
  <2> QED
    BY <2>1, <2>2 DEF Next, Handles, SpawnPanics, ServeEnds, Stop, Accept, CheckTarget,
       RejectTarget, CompareRoute, SkipRoute, RejectDuplicate, RejectNoMatch,
       RejectAmbiguous, SelectRoute, RejectUnusable, Send, UpstreamReplies, Relay,
       UpstreamFailed, vars
<1> QED
  BY <1>1, <1>2, Invariance, PTL DEF SafeSpec

\* The length tiny_http reports and the check of the encoding together say
\* whether the caller's request has a body (proxy.rs:297-307).
LEMMA BodyLemma ==
    ASSUME NEW m \in Messages
    PROVE  HasBody(m) <=>
             \/ m.headers["transfer-encoding"] # <<>>
             \/ /\ m.headers["content-length"] # <<>>
                /\ m.headers["content-length"] # <<Other(0)>>
<1> DEFINE te == m.headers["transfer-encoding"]
           cl == m.headers["content-length"]
<1>1. cl \in Seq({"other"} \X Nat) /\ Len(cl) <= 1
  BY MessagesAssumption
<1>2. CASE te # <<>> \/ cl = <<>>
  <2>1. BodyLength(m) = <<>>
    BY <1>2 DEF BodyLength
  <2> QED
    BY <1>2, <2>1 DEF HasBody
<1>3. CASE te = <<>> /\ cl # <<>>
  <2>1. PICK n \in Nat : cl = <<Other(n)>>
    <3>1. Len(cl) = 1 /\ cl[1] \in {"other"} \X Nat
      <4> DEFINE T == {"other"} \X Nat
      <4> HIDE DEF T, cl
      <4>1. cl \in Seq(T) /\ Len(cl) <= 1 /\ cl # <<>>
        BY <1>1, <1>3 DEF T
      <4>2. Len(cl) = 1
        <5>1. Len(cl) \in Nat \ {0}
          BY <4>1, EmptySeq
        <5>2. \A k \in Nat \ {0} : k <= 1 => k = 1
          OBVIOUS
        <5> QED
          BY <4>1, <5>1, <5>2
      <4>3. cl[1] \in T
        BY <4>1, <4>2
      <4> QED
        BY <4>2, <4>3 DEF T
    <3>2. PICK n \in Nat : cl[1] = <<"other", n>>
      BY <3>1
    <3>3. cl = <<cl[1]>>
      <4>1. DOMAIN cl = 1..1 /\ DOMAIN <<cl[1]>> = 1..1
        BY <1>1, <3>1
      <4>2. \A j \in 1..1 : cl[j] = <<cl[1]>>[j]
        OBVIOUS
      <4> QED
        BY <1>1, <4>1, <4>2
    <3> QED
      BY <3>2, <3>3 DEF Other
  <2>2. BodyLength(m) = <<n>>
    BY <1>3, <2>1 DEF BodyLength, Other
  <2>3. <<n>> # <<>> /\ <<n>>[1] = n
    OBVIOUS
  <2>4. HasBody(m) <=> n > 0
    BY <2>2, <2>3 DEF HasBody
  <2>5. cl # <<Other(0)>> <=> n > 0
    BY <2>1 DEF Other
  <2> QED
    BY <1>3, <2>4, <2>5
<1> QED
  BY <1>2, <1>3

\* For any routes and messages, the outbound request has a body if and only if
\* the caller's has one (proxy.rs:297-307).
THEOREM FramingIsFollowed == SafeSpec => []FramingFollowsBody
<1>1. IInv /\ MessageInv => FramingFollowsBody
  <2> SUFFICES ASSUME IInv, MessageInv, NEW q \in Requests, NEW i \in DOMAIN contact[q]
               PROVE  LET h == message[q].headers IN
                      contact[q][i].body <=>
                          \/ h["transfer-encoding"] # <<>>
                          \/ /\ h["content-length"] # <<>>
                             /\ h["content-length"] # <<Other(0)>>
    BY DEF FramingFollowsBody
  <2>1. contact[q] # <<>>
    OBVIOUS
  <2>2. PICK r \in Routes : /\ Forwardable(message[q], r)
                            /\ contact[q] = <<OutboundOf(message[q], r)>>
    BY <2>1 DEF IInv, RequestInv, Contacted
  <2>3. message[q] \in Messages
    BY <2>2 DEF MessageInv, NoMessage, Forwardable
  <2>4. contact[q][i].body = HasBody(message[q])
    BY <2>2 DEF OutboundOf
  <2> QED
    BY <2>3, <2>4, BodyLemma
<1> QED
  BY <1>1, Invariance, MessageInvariance, PTL
-----------------------------------------------------------------------------
(* The refinement: ReverseProxy implements ProxiedExchange.  Every rejection *)
(* is a Refuse, Send is the Forward, and the matching loop shows nothing.    *)

Sought(m) == {r \in Routes : Forwardable(m, r)}

\* A message asks for one route at most, and is refused otherwise.
LEMMA AskIs ==
    ASSUME NEW m
    PROVE  /\ Ask(m).route = Sought(m)
           /\ \A r \in Sought(m) : Ask(m) = [route |-> {r}, refusal |-> 0]
           /\ Ask(m) \in Exchange!Asks
<1>1. \A r, s \in Sought(m) : r = s
  BY DEF Sought, Forwardable
<1>2. \A r \in Sought(m) : Sought(m) = {r}
  BY <1>1
<1>3. Ask(m).route = Sought(m)
  BY DEF Ask, Sought
<1>4. \A r \in Sought(m) : Ask(m) = [route |-> {r}, refusal |-> 0]
  BY <1>2 DEF Ask, Sought
<1>5. Ask(m) \in Exchange!Asks
  <2>1. CASE Sought(m) = {}
    <3>1. \E s \in {400, 401} : Ask(m) = [route |-> {}, refusal |-> s]
      BY <2>1 DEF Ask, Sought
    <3> QED
      BY <3>1 DEF Exchange!Asks
  <2>2. CASE Sought(m) # {}
    <3>1. PICK r \in Sought(m) : Ask(m) = [route |-> {r}, refusal |-> 0]
      BY <1>4, <2>2
    <3>2. r \in Routes
      BY DEF Sought
    <3> QED
      BY <3>1, <3>2 DEF Exchange!Asks
  <2> QED
    BY <2>1, <2>2
<1> QED
  BY <1>3, <1>4, <1>5

\* The outbound request carries the raw value of its route and no other, in
\* whichever header, since the caller has none to send.
LEMMA OutboundRaws ==
    ASSUME NEW m \in Message, NEW r \in Routes
    PROVE  Raws(OutboundOf(m, r)) = {r}
<1> DEFINE sent == OutboundOf(m, r).headers
<1>1. sent[HeaderOf[r]] = <<Raw(r)>> /\ HeaderOf[r] \in HeaderNames
  <2>1. HeaderOf[r] \in CredentialHeaders /\ HeaderOf[r] \in HeaderNames
    BY RoutesAssumption DEF CredentialHeaders
  <2> QED
    BY <2>1, OutboundCredential
<1>2. ASSUME NEW n \in HeaderNames, NEW k \in DOMAIN sent[n], NEW s \in Routes,
             sent[n][k] = Raw(s)
      PROVE  s = r
  <2>1. CASE n = HeaderOf[r]
    <3>1. sent[n] = <<Raw(r)>>
      BY <1>1, <2>1
    <3>2. k = 1
      BY <3>1
    <3> QED
      BY <1>2, <3>1, <3>2 DEF Raw
  <2>2. CASE n # HeaderOf[r]
    <3>1. sent[n] = IF ForwardsHeader(n, r) THEN m.headers[n] ELSE <<>>
      BY <2>2 DEF OutboundOf
    <3>2. sent[n] = m.headers[n] /\ m.headers[n] \in Seq(Presentable)
      BY <3>1 DEF Message
    <3>3. sent[n][k] \in Presentable
      BY <3>2, ElementOfSeq
    <3> QED
      BY <1>2, <3>3 DEF Presentable, Raw
  <2> QED
    BY <2>1, <2>2
<1>3. \E n \in HeaderNames : \E k \in DOMAIN sent[n] : sent[n][k] = Raw(r)
  <2>1. 1 \in DOMAIN sent[HeaderOf[r]] /\ sent[HeaderOf[r]][1] = Raw(r)
    BY <1>1
  <2> QED
    BY <1>1, <2>1
<1> QED
  BY <1>2, <1>3 DEF Raws

\* A rejection is the refusal that the message calls for.
LEMMA Refuses ==
    ASSUME IInv, IInv', NEW q \in Requests, NEW from, NEW status \in {400, 401},
           from \in {"checking", "selecting", "building"}, Reject(q, from, status),
           UNCHANGED <<serving, message, contact, reply>>
    PROVE  Exchange!Refuse(q)
<1>1. /\ phase[q] = from /\ phase' = [phase EXCEPT ![q] = "answered"]
      /\ answer' = [answer EXCEPT ![q] = [by |-> "proxy", status |-> status]]
  BY DEF Reject, Goes
<1>2. contact'[q] = <<>>
  BY <1>1 DEF IInv, RequestInv, Fresh
<1>3. answer'[q] = [by |-> "proxy", status |-> status]
  BY <1>1 DEF IInv, TypeOK
<1>4. Verdict(q)' /\ message'[q] = message[q]
  BY DEF IInv, RequestInv
<1>5. /\ Sought(message[q]) = {}
      /\ status = IF message[q].originForm /\ ~Duplicated(message[q])
                        /\ Meant(message[q]) = {} THEN 401 ELSE 400
  BY <1>2, <1>3, <1>4 DEF Verdict, NoAnswer, Sought
<1>6. Ask(message[q]) = [route |-> {}, refusal |-> status]
  BY <1>5 DEF Ask, Sought
<1>7. AskedNow[q] = [route |-> {}, refusal |-> status]
  BY <1>1, <1>6 DEF AskedNow
<1>8. StateNow[q] = "taken" /\ StateNow' = [StateNow EXCEPT ![q] = "answered"]
  <2>1. StateNow[q] = "taken"
    BY <1>1 DEF StateNow
  <2>2. \A p \in Requests : phase'[p] = IF p = q THEN "answered" ELSE phase[p]
    BY <1>1 DEF IInv, TypeOK
  <2>3. \A p \in Requests : StateNow'[p] = IF p = q THEN "answered" ELSE StateNow[p]
    BY <2>2 DEF StateNow
  <2>4. StateNow' = [p \in Requests |-> StateNow'[p]]
        /\ DOMAIN StateNow = Requests
    BY DEF StateNow
  <2> QED
    BY <2>1, <2>3, <2>4
<1>9. AskedNow' = AskedNow /\ SentNow' = SentNow
  BY <1>1 DEF AskedNow, SentNow, IInv, TypeOK
<1> QED
  BY <1>1, <1>7, <1>8, <1>9 DEF Exchange!Refuse, Exchange!Goes, Exchange!Answers

LEMMA RefinesInit == Init => Exchange!Init
BY DEF Init, Exchange!Init, StateNow, AskedNow, SentNow, Exchange!NotAsked,
       Exchange!NoAnswer, NoAnswer, NoReply

LEMMA RefinesStep == IInv /\ IInv' /\ [Next]_vars => [Exchange!Next]_(Exchange!vars)
<1> SUFFICES ASSUME IInv, IInv', [Next]_vars
             PROVE  Exchange!Next \/ UNCHANGED Exchange!vars
  OBVIOUS
<1>1. ASSUME NEW q \in Requests, Arrive(q) PROVE Exchange!Take(q)
  <2>1. PICK m \in Messages : message' = [message EXCEPT ![q] = m]
    BY <1>1 DEF Arrive
  <2>2. phase[q] = "away" /\ phase' = [phase EXCEPT ![q] = "queued"] /\ serving
        /\ UNCHANGED <<serving, contact, reply, answer>>
    BY <1>1 DEF Arrive, Goes
  <2>3. StateNow[q] = "away" /\ StateNow' = [StateNow EXCEPT ![q] = "taken"]
    BY <2>2 DEF StateNow, IInv, TypeOK
  <2>4. AskedNow' = [AskedNow EXCEPT ![q] = Ask(m)]
    BY <2>1, <2>2 DEF AskedNow, IInv, TypeOK
  <2>5. SentNow' = SentNow
    BY <2>2 DEF SentNow
  <2> QED
    BY <2>2, <2>3, <2>4, <2>5, AskIs DEF Exchange!Take, Exchange!Goes
<1>2. ASSUME NEW q \in Requests,
             Accept(q) \/ CheckTarget(q) \/ CompareRoute(q) \/ SkipRoute(q) \/ SelectRoute(q)
      PROVE  UNCHANGED Exchange!vars
  <2>1. /\ phase[q] \in {"queued", "checking", "selecting"}
        /\ \E to \in {"checking", "selecting", "building"} :
              phase' = [phase EXCEPT ![q] = to]
        /\ UNCHANGED <<serving, message, contact, reply, answer>>
    <3>1. CASE CompareRoute(q) \/ SkipRoute(q)
      <4>1. phase' = [phase EXCEPT ![q] = "selecting"]
        BY <3>1 DEF CompareRoute, SkipRoute, IInv, TypeOK
      <4> QED
        BY <3>1, <4>1 DEF CompareRoute, SkipRoute
    <3>2. CASE Accept(q) \/ CheckTarget(q) \/ SelectRoute(q)
      BY <3>2 DEF Accept, CheckTarget, SelectRoute, Goes
    <3> QED
      BY <1>2, <3>1, <3>2
  <2>2. StateNow' = StateNow /\ AskedNow' = AskedNow /\ SentNow' = SentNow
    BY <2>1 DEF StateNow, AskedNow, SentNow, IInv, TypeOK
  <2> QED
    BY <2>1, <2>2 DEF Exchange!vars
<1>3. ASSUME NEW q \in Requests,
             RejectTarget(q) \/ RejectDuplicate(q) \/ RejectNoMatch(q)
               \/ RejectAmbiguous(q) \/ RejectUnusable(q)
      PROVE  Exchange!Refuse(q)
  <2>1. /\ \E from \in {"checking", "selecting", "building"}, s \in {400, 401} :
              Reject(q, from, s)
        /\ UNCHANGED <<serving, message, contact, reply>>
    BY <1>3 DEF RejectTarget, RejectDuplicate, RejectNoMatch, RejectAmbiguous, RejectUnusable
  <2> QED
    BY <2>1, Refuses
<1>4. ASSUME NEW q \in Requests, Send(q) PROVE Exchange!Forward(q)
  <2>1. PICK r \in matched[q] :
          contact' = [contact EXCEPT ![q] = Append(@, OutboundOf(message[q], r))]
    BY <1>4 DEF Send
  <2>2. r \in Routes /\ r \in Sought(message[q]) /\ contact[q] = <<>>
    BY <1>4, <2>1 DEF Send, Goes, IInv, RequestInv, Selected, Forwardable, Sought, Fresh
  <2>3. /\ phase[q] = "building" /\ phase' = [phase EXCEPT ![q] = "sent"]
        /\ UNCHANGED <<serving, message, reply, answer>>
    BY <1>4 DEF Send, Goes
  <2>4. StateNow[q] = "taken" /\ StateNow' = [StateNow EXCEPT ![q] = "forwarded"]
    BY <2>3 DEF StateNow, IInv, TypeOK
  <2>5. AskedNow[q].route = Sought(message[q]) /\ AskedNow' = AskedNow
    BY <2>3, AskIs DEF AskedNow, IInv, TypeOK
  <2>6. SentNow' = [SentNow EXCEPT ![q] = Append(@, [to |-> UpstreamOf[r], raws |-> {r}])]
    <3> DEFINE o == OutboundOf(message[q], r)
               e == [to |-> UpstreamOf[r], raws |-> {r}]
    <3>1. message[q] \in Message
      BY DEF IInv, TypeOK
    <3>2. o.to = UpstreamOf[r] /\ Raws(o) = {r}
      BY <2>2, <3>1, OutboundRaws DEF OutboundOf
    <3> HIDE DEF o
    <3>3. contact'[q] = <<o>>
      <4>1. contact'[q] = Append(contact[q], o)
        BY <2>1 DEF o, IInv, TypeOK
      <4> QED
        BY <2>2, <4>1
    <3>4. SentNow'[q] = <<e>>
      <4>1. SentNow'[q] = [i \in DOMAIN contact'[q] |->
                             [to |-> contact'[q][i].to, raws |-> Raws(contact'[q][i])]]
        BY DEF SentNow
      <4>2. DOMAIN <<o>> = {1} /\ <<o>>[1] = o /\ DOMAIN <<e>> = {1} /\ <<e>>[1] = e
        OBVIOUS
      <4> QED
        BY <3>2, <3>3, <4>1, <4>2
    <3>5. SentNow[q] = <<>>
      BY <2>2 DEF SentNow
    <3>6. Append(SentNow[q], e) = <<e>>
      BY <3>5
    <3>7. \A p \in Requests : p # q => SentNow'[p] = SentNow[p]
      BY <2>1 DEF SentNow
    <3> QED
      BY <3>4, <3>6, <3>7 DEF SentNow
  <2> QED
    BY <2>2, <2>3, <2>4, <2>5, <2>6 DEF Exchange!Forward, Exchange!Goes
<1>5. ASSUME NEW q \in Requests, UpstreamReplies(q) PROVE Exchange!Hear(q)
  <2>1. StateNow[q] = "forwarded" /\ StateNow' = StateNow
        /\ AskedNow' = AskedNow /\ SentNow' = SentNow
    BY <1>5 DEF UpstreamReplies, StateNow, AskedNow, SentNow
  <2> QED
    BY <1>5, <2>1 DEF UpstreamReplies, Exchange!Hear, NoReply, Broken
<1>6. ASSUME NEW q \in Requests, Relay(q) \/ UpstreamFailed(q) PROVE Exchange!Return(q)
  <2>1. /\ phase[q] = "sent" /\ phase' = [phase EXCEPT ![q] = "answered"]
        /\ UNCHANGED <<serving, message, contact, reply>>
    BY <1>6 DEF Relay, UpstreamFailed, Reject, Goes
  <2>2. StateNow[q] = "forwarded" /\ StateNow' = [StateNow EXCEPT ![q] = "answered"]
    BY <2>1 DEF StateNow, IInv, TypeOK
  <2>3. AskedNow' = AskedNow /\ SentNow' = SentNow
    BY <2>1 DEF AskedNow, SentNow, IInv, TypeOK
  <2>4. reply[q] # 0 /\ IF reply[q] = 1 THEN Exchange!Answers(q, "proxy", 502)
                                         ELSE Exchange!Answers(q, "upstream", reply[q])
    BY <1>6 DEF Relay, UpstreamFailed, Reject, Exchange!Answers, UpstreamStatuses, Broken
  <2> QED
    BY <2>1, <2>2, <2>3, <2>4 DEF Exchange!Return, Exchange!Goes
<1>7. CASE Stop
  <2>1. StateNow' = [q \in Requests |->
            IF StateNow[q] \in {"away", "answered"} THEN StateNow[q] ELSE "lost"]
    BY <1>7 DEF Stop, StateNow, IInv, TypeOK, Phases
  <2>2. AskedNow' = AskedNow /\ SentNow' = SentNow
    BY <1>7 DEF Stop, AskedNow, SentNow
  <2> QED
    BY <1>7, <2>1, <2>2 DEF Stop, Exchange!Next, Exchange!Close
<1>8. CASE UNCHANGED vars
  BY <1>8 DEF vars, Exchange!vars, StateNow, AskedNow, SentNow
<1> QED
  BY <1>1, <1>2, <1>3, <1>4, <1>5, <1>6, <1>7, <1>8
     DEF Next, Handles, SpawnPanics, ServeEnds, Exchange!Next

\* For any routes and messages, every request is one exchange: the threads and
\* the matching loop do nothing that ProxiedExchange does not allow.
THEOREM RefinesExchange == SafeSpec => ImplementsExchange
BY RefinesInit, RefinesStep, Invariance, PTL DEF SafeSpec, ImplementsExchange, Exchange!Spec
=============================================================================
