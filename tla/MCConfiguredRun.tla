--------------------------- MODULE MCConfiguredRun ---------------------------
(* A document with two providers, two contexts and two policies, in which   *)
(* one layer at a time is replaced by a variant; every text of up to six    *)
(* pieces with the brackets and colons of a port or an address as an        *)
(* upstream; and every access-token output of three characters.*)
EXTENDS ConfiguredRun

CONSTANT five   \* an argument that is the number 5

MCNumber == [d \in {"0", "80", "65535", "65536"} |->
                CASE d = "0" -> 0 [] d = "80" -> 80 [] d = "65535" -> 65535 [] OTHER -> 65536]

NoProps == [x \in {} |-> ""]
N(name, args, children) == [name |-> name, args |-> args, props |-> NoProps, children |-> children]
S(name, value) == N(name, <<value>>, <<>>)
Secret(env, provider, name) ==
    [name |-> "secret", args |-> <<env>>, children |-> <<>>,
     props |-> [x \in {"provider", "secret-name"} |-> IF x = "provider" THEN provider ELSE name]]

\* Providers.
Exec(args)        == N("access-token", <<>>, <<N("exec", args, <<>>)>>)
Bws(id, children) == N("bws", <<id>>, children)
BwsOf(id, name)   == Bws(id, <<S("project", name), Exec(<<"pass", "show">>)>>)
TwoBws            == <<BwsOf("bws-a", "red"), BwsOf("bws-b", "blue")>>

Providers ==
    {TwoBws, <<BwsOf("bws-a", "red")>>, <<BwsOf("bws-a", "red"), BwsOf("bws-b", "red")>>,
     <<BwsOf("bws-a", "red"), BwsOf("bws-b", "green")>>,
     <<BwsOf("bws-a", "red"), BwsOf("bws-a", "blue")>>, <<N("vault", <<"bws-a">>, <<>>)>>}
    \cup {<<Bws("bws-a", c)>> : c \in {
            <<S("project", "red")>>, <<Exec(<<"pass">>)>>,
            <<S("project", "red"), S("project", "red"), Exec(<<"pass">>)>>,
            <<S("project", "red"), Exec(<<"pass">>), Exec(<<"pass">>)>>,
            <<S("project", "red"), Exec(<<>>)>>,
            <<S("project", "red"), N("access-token", <<>>, <<S("file", "x")>>)>>,
            <<S("project", "red"), Exec(<<"pass">>), S("region", "eu")>>}}

\* Contexts.
Settings(user, dir, name) == <<S("user", user), S("workdir", dir), S("container-name", name)>>
Docker(id, children) == N("docker", <<id>>, children)
TwoDocker == <<Docker("ctx", Settings("me", "/w", "dev")),
               Docker("ctx2", Settings("-x", "/w", "dev") \o <<S("runtime", "podman")>>)>>

Contexts ==
    {TwoDocker, <<TwoDocker[1], TwoDocker[1]>>, <<>>, <<N("vm", <<"ctx">>, <<>>)>>}
    \cup {<<TwoDocker[1], Docker("ctx2", c)>> : c \in {
            Settings("me", "/w", "--tty"), Settings("me", "/w", ""), Settings("nul", "/w", "dev"),
            <<S("user", "me"), S("workdir", "/w")>>,
            Settings("me", "/w", "dev") \o <<S("runtime", "sh -c")>>,
            Settings("me", "/w", "dev") \o <<S("user", "me")>>}}

\* Policies.
Origin1 == <<"https://", "name">>
Proxy(env, provider, name, base, header, template, upstream) ==
    N("proxy-secret", <<env>>,
      <<S("provider", provider), S("secret-name", name), S("base-url-env", base),
        N("inject-header", <<header, template>>, <<>>), S("upstream", upstream)>>)
Plain(env, base, header, template) == Proxy(env, "bws-b", "key", base, header, template, Origin1)
Command(id, children) == N("command", <<id>>, children)

Entries == {
    <<>>, <<Secret("TOKEN", "bws-a", "token")>>,
    <<Secret("TOKEN", "bws-a", "key"), Secret("OTHER", "bws-b", "key")>>,
    <<Secret("TOKEN", "bws-a", "key"), Secret("OTHER", "bws-b", "key"), Secret("PATH", "bws-a", "token")>>,
    <<Secret("TOKEN", "bws-b", "key"), Plain("KEY", "URL", "x-api-key", "{}")>>,
    <<Plain("KEY", "URL", "x-api-key", "{}"), Plain("KEY2", "URL2", "x-api-key", "{}")>>,
    <<Plain("KEY", "URL", "x-api-key", "{}"), Plain("KEY2", "URL", "x-api-key", "{}")>>,
    <<Plain("KEY", "KEY", "x-api-key", "{}")>>,
    <<Secret("TOKEN", "bws-a", "key"), Secret("TOKEN", "bws-a", "token")>>,
    <<Secret("KEY", "bws-a", "key"), Plain("KEY", "URL", "x-api-key", "{}")>>,
    <<Secret("URL", "bws-a", "key"), Plain("KEY", "URL", "x-api-key", "{}")>>,
    <<Secret("TOKEN", "bws-c", "key")>>, <<Secret("", "bws-a", "key")>>,
    <<Secret("--tty", "bws-a", "key")>>, <<Secret("A=B", "bws-a", "key")>>,
    <<Proxy("KEY", "bws-c", "key", "URL", "x-api-key", "{}", Origin1)>>,
    <<Plain("KEY", "URL", "Host", "{}")>>, <<Plain("KEY", "URL", "a b", "{}")>>,
    <<Plain("KEY", "URL", "x-api-key", "{} {}")>>, <<Plain("KEY", "URL", "x-api-key", "{}nul")>>,
    <<N("proxy-secret", <<"KEY">>, <<S("provider", "bws-a")>>)>>,
    <<N("env", <<"KEY">>, <<>>)>>, <<N("secret", <<"KEY">>, <<>>)>>}

Policies ==
    {<<Command("cmd", e), Command("cmd2", <<>>)>> : e \in Entries}
    \cup {<<Command(id, <<>>)>> : id \in {"--tty", "", "nul"}}
    \cup {<<Command("cmd", <<>>), Command("cmd", <<>>)>>, <<N("allow", <<"cmd">>, <<>>)>>,
          <<N("command", <<five>>, <<>>)>>}

Usual == <<Command("cmd", <<Secret("TOKEN", "bws-b", "key"), Plain("KEY", "URL", "x-api-key", "{}")>>)>>

\* Documents.
Root(version, sections) ==
    [name |-> "iwaya", args |-> <<>>, children |-> sections,
     props |-> [x \in {"version"} |-> version]]
Document(providers, contexts, policies) ==
    <<Root("#1", <<N("providers", <<>>, providers), N("contexts", <<>>, contexts),
                   N("policies", <<>>, policies)>>)>>

\* Sections in another order, in two parts, missing or unknown; other roots.
Frames == {
    <<Root("#1", <<N("policies", <<>>, Usual), N("contexts", <<>>, TwoDocker),
                   N("providers", <<>>, <<TwoBws[1]>>), N("providers", <<>>, <<TwoBws[2]>>)>>)>>,
    <<Root("#1", <<N("providers", <<>>, TwoBws), N("contexts", <<>>, TwoDocker),
                   N("policies", <<>>, Usual), N("providers", <<>>, <<TwoBws[1]>>)>>)>>,
    <<Root("#1", <<N("policies", <<>>, Usual)>>)>>, <<Root("#1", <<N("hooks", <<>>, <<>>)>>)>>,
    <<Root("#1", <<>>)>>, <<Root("#2", <<>>)>>, <<N("iwaya", <<>>, <<>>)>>,
    <<N("config", <<>>, <<>>)>>, <<>>, <<Root("#1", <<>>), Root("#1", <<>>)>>}

UpTo(n, pieces) == UNION {[1..m -> pieces] : m \in 0..n}
Texts ==
    {<<"https://">> \o t : t \in UpTo(5, {":", "[", "]", "hex", "80"}) \cup UpTo(2, Pieces)}
        \cup UpTo(2, Pieces)
\* A run of digits is maximal.
Spelled == {t \in Texts : \A i \in 1..(Len(t) - 1) : ~({t[i], t[i + 1]} \subseteq Digits)}

MCDocuments ==
    {Document(p, TwoDocker, q) : p \in Providers, q \in Policies}
    \cup {Document(TwoBws, c, Usual) : c \in Contexts}
    \cup Frames
    \cup {Document(TwoBws, TwoDocker,
            <<Command("cmd", <<Proxy("KEY", "bws-a", "key", "URL", "x-api-key", "{}", t)>>)>>) :
              t \in Spelled}

MCDashed       == {"-x", "--tty", "--interactive", "--env", "--user", "--workdir"}
MCLowerCase    == [h \in {"x-api-key", "Host"} |-> IF h = "Host" THEN "host" ELSE h]

\* The invocations, the accounts and the environment.
MCRequests == {[context |-> c, command |-> "cmd", args |-> <<"--env", "X">>] : c \in {"ctx", "ctx2", "none"}}

MCAccounts ==
    {[projects |-> ps, secrets |-> [id \in {"r", "b"} |-> IF id = "r" THEN rs ELSE <<"key", "token">>]] :
        ps \in {<<[id |-> "r", name |-> "red"], [id |-> "b", name |-> "blue"]>>,
                <<[id |-> "b", name |-> "red"], [id |-> "r", name |-> "red"]>>},
        rs \in {<<"key", "token", "key">>, <<"key", "other">>}}

MCStdouts   == UNION {[1..n -> {"t", "CR", "LF"}] : n \in 0..3}
MCInherited == [n \in {"TOKEN", "KEY", "PATH"} |-> <<"inherited">>]
=============================================================================
