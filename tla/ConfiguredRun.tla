---------------------------- MODULE ConfiguredRun ----------------------------
(***************************************************************************)
(* What a configuration makes of an invocation: the stages of `execute`    *)
(* (src/src/main.rs) after the load, with the data they hand on.  The      *)
(* selected policy is grouped by provider, `bws::resolve` finds the values *)
(* of a group in the listings of an account, and `build_argv` and the      *)
(* environment are what the container runtime gets.                        *)
(*                                                                         *)
(* Invocation follows the same calls for who holds which raw value when;   *)
(* here it is the question which value goes under which name.              *)
(***************************************************************************)
EXTENDS Configuration

CONSTANTS
    Requests,   \* what is typed: a context, a command, its arguments
    Accounts,   \* what bws lists: the projects and, by project, the keys
    Stdouts,    \* what an access-token command may print
    Inherited   \* the environment iwaya was started in

ASSUME AccountsAssumption ==
    \A a \in Accounts :
        /\ IsSequence(a.projects)
        /\ \A i \in DOMAIN a.projects : IsSequence(a.secrets[a.projects[i].id])

ASSUME RequestsAssumption == \A r \in Requests : r.args \in Seq({r.args[i] : i \in DOMAIN r.args})

\* The options that build_argv writes begin with a dash.
ASSUME OptionsAssumption ==
    {"--interactive", "--tty", "--env", "--user", "--workdir"} \subseteq Dashed

ASSUME StdoutsAssumption == \A out \in Stdouts : out \in Seq({out[i] : i \in DOMAIN out})

VARIABLES
    account,    \* what bws lists during the invocation
    stage,      \* "loading", "acquiring", "finding", "collecting",
                \* "delivering", "sent", "ready", "running" or "failed"
    request, context, policy,   \* what is selected
    group,      \* the declared secret whose provider comes next
    stdout, token,      \* the access token of the group, while it is in use
    project,            \* and the id of its project
    resolved,           \* provider -> secret name -> value
    acquired,           \* the providers whose access token has been asked for
    argv, environment,  \* what the runtime is started with
    routes,             \* what the proxy is sent
    exit

selection == <<request, context, policy>>
credential    == <<stdout, token, project>>
delivery  == <<argv, environment, routes>>
runVars   == <<account, stage, selection, group, credential, resolved, acquired,
               delivery, exit>>

Nothing == [x \in {} |-> x]

RunInit ==
    /\ Init
    /\ account = Nothing /\ stage = "loading"
    /\ request = Nothing /\ context = Nothing /\ policy = Nothing
    /\ group = 1
    /\ stdout = <<>> /\ token = <<>> /\ project = ""
    /\ resolved = Nothing /\ acquired = <<>>
    /\ argv = <<>> /\ environment = Nothing /\ routes = <<>> /\ exit = 0

\* `Failure::exit_code`.
Fail(code) ==
    /\ stage' = "failed" /\ exit' = code
    /\ UNCHANGED <<vars, account, selection, group, credential, resolved, acquired, delivery>>

-----------------------------------------------------------------------------
(* Load and selection.                                                     *)

Load ==
    stage = "loading" /\ Next /\ UNCHANGED runVars

ConfigFails == stage = "loading" /\ phase \in {"rejected", "unreadable"} /\ Fail(3)

\* The declared secrets, direct ones first.
Declared(p) ==
    LET Pair(s) == [provider |-> s.provider, name |-> s.name] IN
    [i \in DOMAIN p.secrets |-> Pair(p.secrets[i])]
        \o [i \in DOMAIN p.proxied |-> Pair(p.proxied[i])]

\* Faulty: the outcome of the validation is not looked at.
FaultySelect(r) ==
    /\ stage = "loading" /\ phase \in {"accepted", "rejected"}
    /\ \E c \in Lookup("contexts", r.context), p \in Lookup("policies", r.command) :
          /\ context' = config["contexts"][c]
          /\ policy' = config["policies"][p]
    /\ request' = r /\ account' \in Accounts /\ stage' = "acquiring"
    /\ UNCHANGED <<vars, group, credential, resolved, acquired, delivery, exit>>

Select(r) ==
    /\ stage = "loading" /\ phase = "accepted"
    /\ \E c \in Lookup("contexts", r.context), p \in Lookup("policies", r.command) :
          /\ context' = config["contexts"][c]
          /\ policy' = config["policies"][p]
    /\ request' = r /\ account' \in Accounts /\ stage' = "acquiring"
    /\ UNCHANGED <<vars, group, credential, resolved, acquired, delivery, exit>>

SelectFails(r) ==
    /\ stage = "loading" /\ phase = "accepted"
    /\ Lookup("contexts", r.context) = {} \/ Lookup("policies", r.command) = {}
    /\ request' = r /\ stage' = "failed" /\ exit' = 4
    /\ UNCHANGED <<vars, account, context, policy, group, credential, resolved,
                   acquired, delivery>>

-----------------------------------------------------------------------------
(* bws::resolve, for one group after the other.                            *)

\* Faulty: the line feed alone goes first.
FaultyStrip(out) ==
    LET n == Len(out) IN
    IF n >= 1 /\ out[n] = "LF" THEN SubSeq(out, 1, n - 1)
    ELSE IF n >= 2 /\ out[n - 1] = "CR" /\ out[n] = "LF" THEN SubSeq(out, 1, n - 2)
    ELSE out

\* strip_one_trailing_line_ending
Strip(out) ==
    LET n == Len(out) IN
    IF n >= 2 /\ out[n - 1] = "CR" /\ out[n] = "LF" THEN SubSeq(out, 1, n - 2)
    ELSE IF n >= 1 /\ out[n] = "LF" THEN SubSeq(out, 1, n - 1)
    ELSE out

Provider(id) == config["providers"][CHOOSE i \in Lookup("providers", id) : TRUE]

Declares(i) == i \in DOMAIN Declared(policy)
Id          == Declared(policy)[group].provider

\* Faulty: a declaration is compared with the one before it only.
FaultyLeads(i) ==
    Declares(i) /\ (i > 1 => Declared(policy)[i - 1].provider # Declared(policy)[i].provider)

\* names_by_provider has a group for each provider, in the order in which the
\* providers are mentioned first.
Leads(i) ==
    /\ Declares(i)
    /\ \A j \in 1..(i - 1) : Declared(policy)[j].provider # Declared(policy)[i].provider

\* The names of the group, also those that are declared further on.
Names == {Declared(policy)[j].name : j \in {k \in DOMAIN Declared(policy) :
                                               Declared(policy)[k].provider = Id}}

\* The declaration has joined the group of an earlier one.
JoinsGroup ==
    /\ stage = "acquiring" /\ Declares(group) /\ ~Leads(group)
    /\ group' = group + 1
    /\ UNCHANGED <<vars, account, stage, selection, credential, resolved, acquired,
                   delivery, exit>>

AcquireToken(out) ==
    /\ stage = "acquiring" /\ Leads(group)
    /\ Lookup("providers", Id) # {}
    /\ Strip(out) # <<>>
    /\ stdout' = out /\ token' = Strip(out)
    /\ acquired' = Append(acquired, Id)
    /\ stage' = "finding"
    /\ UNCHANGED <<vars, account, selection, group, project, resolved, delivery, exit>>

\* The command does not start, fails, prints no UTF-8, or prints nothing.
AcquireFails ==
    /\ stage = "acquiring" /\ Leads(group)
    /\ Lookup("providers", Id) # {}
    /\ Fail(5)

\* The projects of that name; `find` takes the first.
FirstProject(name) ==
    {i \in DOMAIN account.projects :
        /\ account.projects[i].name = name
        /\ \A j \in 1..(i - 1) : account.projects[j].name # name}

FindProject ==
    /\ stage = "finding"
    /\ \E i \in FirstProject(Provider(Id).project) :
          project' = account.projects[i].id
    /\ stage' = "collecting"
    /\ UNCHANGED <<vars, account, selection, group, stdout, token, resolved,
                   acquired, delivery, exit>>

ProjectUnknown ==
    /\ stage = "finding"
    /\ FirstProject(Provider(Id).project) = {}
    /\ Fail(5)

\* bws does not start, exits with an error, or prints what is no such list.
BwsFails == stage \in {"finding", "collecting"} /\ Fail(5)

Listing == account.secrets[project]
Found   == {Listing[i] : i \in DOMAIN Listing} \cap Names

\* Where a name stands for the last time.
LastOf(names, name) ==
    CHOOSE i \in DOMAIN names :
        names[i] = name /\ \A j \in (i + 1)..Len(names) : names[j] # name

\* Collecting into a HashMap: a later secret of one key replaces an earlier.
Collected == [key \in Found |-> <<"raw", project, LastOf(Listing, key)>>]

\* `resolved.insert`, and the token is dropped as bws::resolve returns.
Resolve ==
    /\ resolved' = [id \in DOMAIN resolved \cup {Id} |->
                      IF id = Id THEN Collected ELSE resolved[id]]
    /\ stdout' = <<>> /\ token' = <<>> /\ project' = ""
    /\ group' = group + 1 /\ stage' = "acquiring"
    /\ UNCHANGED <<vars, account, selection, acquired, delivery, exit>>

\* Faulty: a missing key is not noticed.
FaultyCollectSecrets == stage = "collecting" /\ Resolve

CollectSecrets == stage = "collecting" /\ Names \subseteq Found /\ Resolve

SecretUnknown == stage = "collecting" /\ ~(Names \subseteq Found) /\ Fail(5)

AllResolved ==
    /\ stage = "acquiring" /\ group = Len(Declared(policy)) + 1
    /\ stage' = "delivering"
    /\ UNCHANGED <<vars, account, selection, group, credential, resolved, acquired,
                   delivery, exit>>

-----------------------------------------------------------------------------
(* The runtime.                                                            *)

\* What a policy declares, in the order of the vectors: the direct secrets,
\* then the credential and the URL of one proxied secret after the other.
InOrder(p) ==
    [i \in DOMAIN p.secrets |-> <<"secret", i>>]
        \o [k \in 1..(2 * Len(p.proxied)) |->
               IF k % 2 = 1 THEN <<"phantom", (k + 1) \div 2>> ELSE <<"url", k \div 2>>]

Options(p) ==
    [k \in 1..(2 * Len(InOrder(p))) |->
        IF k % 2 = 1 THEN "--env" ELSE EnvOf(p, InOrder(p)[k \div 2])]

\* build_argv
Argv ==
    <<context.runtime, "exec", "--interactive", "--tty">> \o Options(policy)
        \o <<"--user", context.user, "--workdir", context.workdir>>
        \o <<context.container, policy.id>> \o request.args

Value(s) == resolved[s.provider][s.name]

\* What each of them carries: a resolved value, a phantom, or the loopback URL.
Carried(d) ==
    CASE d[1] = "secret"  -> Value(policy.secrets[d[2]])
      [] d[1] = "phantom" -> <<"phantom", d[2]>>
      [] d[1] = "url"     -> <<"url">>

\* apply_injected_environment and apply_proxy_environment: Command::env
\* overrides what is inherited and what has been set before.
Environment ==
    LET names == [i \in DOMAIN InOrder(policy) |-> EnvOf(policy, InOrder(policy)[i])]
        given == {names[i] : i \in DOMAIN names}
    IN [n \in DOMAIN Inherited \cup given |->
           IF n \in given THEN Carried(InOrder(policy)[LastOf(names, n)]) ELSE Inherited[n]]

\* exec_runtime: without a proxied secret nothing comes before the runtime.
ExecRuntime ==
    /\ stage = "delivering" /\ policy.proxied = <<>>
    /\ argv' = Argv /\ environment' = Environment
    /\ stage' = "running"
    /\ UNCHANGED <<vars, account, selection, group, credential, resolved, acquired,
                   routes, exit>>

\* provision and into_transfer.  A raw value is known by where it is listed; what
\* a request makes of its characters is in ReverseProxy.
Routes ==
    [i \in DOMAIN policy.proxied |->
        LET x == policy.proxied[i] IN
        [header |-> x.header, template |-> x.template, upstream |-> x.upstream,
         phantom |-> <<"phantom", i>>, raw |-> Value(x)]]

\* parse_transfer, in the sidecar.
TransferParses(rs) == rs # <<>> /\ \A i \in DOMAIN rs : IsHttpOrigin(rs[i].upstream)

\* Sidecar::start has written the whole document.
SendTransfer ==
    /\ stage = "delivering" /\ policy.proxied # <<>>
    /\ routes' = Routes
    /\ stage' = "sent"
    /\ UNCHANGED <<vars, account, selection, group, credential, resolved, acquired,
                   argv, environment, exit>>

\* Sidecar::start has read the port.
ProxyReady ==
    /\ stage = "sent" /\ stage' = "ready"
    /\ UNCHANGED <<vars, account, selection, group, credential, resolved, acquired,
                   delivery, exit>>

\* supervise_runtime
SuperviseRuntime ==
    /\ stage = "ready"
    /\ argv' = Argv /\ environment' = Environment
    /\ stage' = "running"
    /\ UNCHANGED <<vars, account, selection, group, credential, resolved, acquired,
                   routes, exit>>

\* Faulty: the image is made while values are still missing.
FaultyStartFails == stage \in {"acquiring", "delivering"} /\ Fail(6)

\* exec_runtime returns; or there is no phantom, no image, or no sidecar that
\* takes the whole document.
StartFails == stage = "delivering" /\ Fail(6)

\* The sidecar has the document, and is closed before it reports a port.
NotReady == stage = "sent" /\ Fail(6)

\* supervise returns an error: no handlers, no runtime, or, when the runtime has
\* been started, no status of it.
SuperviseFails ==
    /\ stage = "ready" \/ (stage = "running" /\ policy.proxied # <<>>)
    /\ Fail(6)

Delivers       == ExecRuntime \/ SendTransfer \/ ProxyReady \/ SuperviseRuntime
ExecutionFails == StartFails \/ NotReady \/ SuperviseFails

RunNext ==
    \/ Load \/ ConfigFails
    \/ \E r \in Requests : Select(r) \/ SelectFails(r)
    \/ \E out \in Stdouts : AcquireToken(out)
    \/ AcquireFails \/ FindProject \/ ProjectUnknown \/ BwsFails
    \/ JoinsGroup \/ CollectSecrets \/ SecretUnknown \/ AllResolved
    \/ Delivers \/ ExecutionFails

RunSpec == RunInit /\ [][RunNext]_<<vars, runVars>>

-----------------------------------------------------------------------------
(* How the runtime reads its arguments (external): options up to the first *)
(* argument that does not look like one, of which some take a value.       *)

Reads(args) ==
    LET End(i) == [env |-> {}, settings |-> {}, rest |-> SubSeq(args, i, Len(args))]
        from[i \in 3..(Len(args) + 1)] ==
            IF i > Len(args) \/ args[i] \notin Dashed THEN End(i)
            ELSE IF args[i] \in {"--interactive", "--tty"} THEN from[i + 1]
            ELSE IF args[i] = "--env" /\ i < Len(args)
              THEN [from[i + 2] EXCEPT !.env = @ \cup {args[i + 1]}]
            ELSE IF args[i] \in {"--user", "--workdir"} /\ i < Len(args)
              THEN [from[i + 2] EXCEPT !.settings = @ \cup {<<args[i], args[i + 1]>>}]
            ELSE End(Len(args) + 1)     \* an unknown option: nothing runs
    IN from[3]

-----------------------------------------------------------------------------
(* Properties.                                                             *)

RunTypeOK ==
    /\ TypeOK
    /\ account \in Accounts \cup {Nothing}
    /\ stage \in {"loading", "acquiring", "finding", "collecting", "delivering",
                  "sent", "ready", "running", "failed"}
    /\ stage # "loading" => exit = 3 \/ phase = "accepted"
    /\ group \in Nat \ {0}
    /\ exit \in {0, 3, 4, 5, 6} /\ (exit # 0 <=> stage = "failed")

\* The context and the policy are those the document declares under the names
\* that were typed, and the runtime reads back from the argv just what they
\* say: no name, user, container or command is taken for an option or for the
\* value of one, and the user's own arguments reach the command unchanged
\* (validate.rs:19-28, 51-63; run.rs:29-32).
RuntimeReadsThePolicy ==
    stage = "running" =>
        /\ context.id = request.context
        /\ policy.id = request.command
        /\ \E p \in Positions("contexts") : context = EntryAt("contexts", p)
        /\ \E p \in Positions("policies") : policy = EntryAt("policies", p)
        /\ argv[1] = context.runtime
        /\ Reads(argv) =
             [env      |-> {EnvOf(policy, d) : d \in Declarations(policy)},
              settings |-> {<<"--user", context.user>>, <<"--workdir", context.workdir>>},
              rest     |-> <<context.container, request.command>> \o request.args]

\* The value of a secret, by the listings of bws: the last of that key in the
\* first project of the name its provider declares.
IsMeant(v, s) ==
    \E p \in Positions("providers"), i \in DOMAIN account.projects :
        /\ EntryAt("providers", p).id = s.provider
        /\ account.projects[i].name = EntryAt("providers", p).project
        /\ \A j \in DOMAIN account.projects :
              account.projects[j].name = account.projects[i].name => i <= j
        /\ LET listing == account.secrets[account.projects[i].id] IN
           \E k \in DOMAIN listing :
              /\ v = <<"raw", account.projects[i].id, k>> /\ listing[k] = s.name
              /\ \A j \in DOMAIN listing : listing[j] = s.name => j <= k

\* Every variable the policy declares has the value it is declared to have:
\* no two providers or projects are mixed up, none is overwritten by another
\* or inherited, the credential of a proxied secret is the phantom of the route
\* that carries its value to its upstream, and nothing else of the environment
\* changes (run.rs:101-153, validate.rs:65-68).
EnvironmentIsDeclared ==
    stage = "running" =>
        /\ \A d \in Declarations(policy) :
              LET given == environment[EnvOf(policy, d)] IN
              /\ d[1] = "secret"  => IsMeant(given, policy.secrets[d[2]])
              /\ d[1] = "url"     => given = <<"url">>
              /\ d[1] = "phantom" =>
                   \E r \in DOMAIN routes :
                      /\ routes[r].phantom = given
                      /\ IsMeant(routes[r].raw, policy.proxied[d[2]])
                      /\ routes[r].upstream = policy.proxied[d[2]].upstream
        /\ \A n \in DOMAIN environment :
              \/ \E d \in Declarations(policy) : EnvOf(policy, d) = n
              \/ n \in DOMAIN Inherited /\ environment[n] = Inherited[n]

\* Once the sidecar has been sent anything, and for the rest of the invocation
\* however it ends, what it has been sent is a transfer that its proxy parses;
\* each route sends the value that is meant by one proxied secret of the policy
\* to the upstream declared with it, in the header declared with it, and
\* that header is none the proxy sets itself (proxy.rs:135-153, 360-377;
\* main.rs:268-294).
TransferIsSound ==
    /\ stage \in {"sent", "ready"} => routes # <<>>
    /\ routes # <<>> =>
         /\ TransferParses(routes)
         /\ \A i \in DOMAIN routes : \E k \in DOMAIN policy.proxied :
               /\ IsMeant(routes[i].raw, policy.proxied[k])
               /\ routes[i].upstream = policy.proxied[k].upstream
               /\ routes[i].header = policy.proxied[k].header
               /\ LowerCase[routes[i].header] \notin ProxyOwned

\* The secret has a value.
Holds(s) == s.provider \in DOMAIN resolved /\ s.name \in DOMAIN resolved[s.provider]

\* The lookups that `execute` takes for granted succeed: the provider of every
\* group exists, and at the end every declared secret has its value
\* (main.rs:227-230, 239-245).
LookupsSucceed ==
    /\ stage = "acquiring" /\ Declares(group) => Lookup("providers", Id) # {}
    /\ stage = "delivering" =>
          \A i \in DOMAIN Declared(policy) : Holds(Declared(policy)[i])

\* The access token of a provider is asked for once in an invocation, however
\* many secrets it supplies, and only when one is declared (main.rs:202-222).
OneTokenPerProvider ==
    \A i \in DOMAIN acquired :
        /\ acquired[i] \in References(policy)
        /\ \A j \in DOMAIN acquired : acquired[i] = acquired[j] => i = j

\* The token is what the command has printed, less one line ending of either
\* kind and nothing else (bws.rs:205-206).
TokenIsStdout ==
    LET Endings == {<<"LF">>, <<"CR", "LF">>} IN
    stage \in {"finding", "collecting"} =>
        /\ token # <<>>
        /\ \E e \in Endings \cup {<<>>} :
              /\ stdout = token \o e
              /\ \A f \in Endings : Len(f) > Len(e) =>
                    ~(\E t \in {SubSeq(stdout, 1, n) : n \in 0..Len(stdout)} : stdout = t \o f)

\* The exit code tells the stage that failed, and nothing of a later stage has
\* happened: a document or selection that is at fault asks no provider, nothing
\* is sent or started unless every secret has its value, and where proxied
\* secrets are declared no runtime is started before the transfer has been sent, also
\* when the failure comes later than that (main.rs:74-88, 202-205, 264-267).
ExitTellsStage ==
    stage = "failed" =>
        /\ exit # 6 => argv = <<>> /\ routes = <<>>
        /\ exit = 3 => acquired = <<>> /\ (phase = "unreadable" \/ ~WellFormed)
        /\ exit = 4 =>
             /\ acquired = <<>> /\ WellFormed
             /\ \/ \A p \in Positions("contexts") : EntryAt("contexts", p).id # request.context
                \/ \A p \in Positions("policies") : EntryAt("policies", p).id # request.command
        /\ exit = 5 => Declared(policy) # <<>>
        /\ exit = 6 =>
             /\ \A i \in DOMAIN Declared(policy) : Holds(Declared(policy)[i])
             /\ argv # <<>> => routes # <<>>

=============================================================================
