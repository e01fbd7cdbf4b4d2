--------------------------- MODULE MCReverseProxy ---------------------------
(* Three routes, two of which share a credential header; each has its own  *)
(* upstream.  `Every` is each message over five header names, `Few` the    *)
(* ones that differ in what becomes of them.                               *)
EXTENDS ReverseProxy

MCHeaderNames == {"x-api-key", "authorization", "accept", "content-length",
                  "transfer-encoding"}
MCHeaderOf   == <<"x-api-key", "authorization", "x-api-key">>
MCUpstreamOf == <<"origin1", "origin2", "origin3">>
MCOrigins    == {"origin1", "origin2", "origin3", "elsewhere"}

MCOtherValue == Other(0)
MCValues == {Phantom(r) : r \in Routes} \cup {MCOtherValue}
UpToTwo  == {<<>>} \cup {<<v>> : v \in MCValues} \cup {<<v, w>> : v, w \in MCValues}

Headers(key, auth, accept, length, chunked) ==
    [n \in HeaderNames |->
        CASE n = "x-api-key"      -> key
          [] n = "authorization"  -> auth
          [] n = "accept"         -> accept
          [] n = "content-length" -> length
          [] OTHER                -> chunked]

Every ==
    {[originForm |-> o, usable |-> u, headers |-> Headers(k, a, x, l, c)] :
        o, u \in BOOLEAN, k, a \in UpToTwo, x \in {<<>>, <<MCOtherValue>>},
        l \in {<<>>, <<Other(0)>>, <<Other(1)>>}, c \in {<<>>, <<Other(1)>>}}

Plain(k, a) == [originForm |-> TRUE, usable |-> TRUE,
                headers |-> Headers(k, a, <<>>, <<>>, <<>>)]

Few == {Plain(<<Phantom(1)>>, <<>>), Plain(<<>>, <<Phantom(2)>>),
        Plain(<<Phantom(1)>>, <<Phantom(2)>>),
        Plain(<<Phantom(1)>>, <<Phantom(2), Phantom(2)>>),
        Plain(<<MCOtherValue>>, <<>>)}
=============================================================================
