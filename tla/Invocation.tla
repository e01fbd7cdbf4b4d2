----------------------------- MODULE Invocation -----------------------------
(***************************************************************************)
(* One `iwaya exec`, from the configuration to the exit code: `execute` in *)
(* src/src/main.rs with the resolution (bws.rs), the transfer              *)
(* (transfer.rs), the sidecar (sidecar.rs), the start of the proxy         *)
(* (main.rs run_proxy, proxy.rs run_proxy_mode) and the start of the       *)
(* target (run.rs).  `supervise` appears by its contract, RuntimeCall.     *)
(*                                                                         *)
(* The supervisor interleaves with the `docker run` client, the container, *)
(* the proxy inside it, the target, and whoever signals or kills them.     *)
(* `held` records, for every place a raw secret can be, which ones are     *)
(* there: the custody of the raw values is the point of the program.       *)
(***************************************************************************)
EXTENDS FiniteSets

CONSTANTS
    Secrets,      \* the (provider, secret name) pairs that can be declared
    Providers,    \* BWS providers
    ProviderOf    \* the provider of each secret

ASSUME ProviderAssumption == ProviderOf \in [Secrets -> Providers]

\* Variables of `execute`, buffers and processes that can hold a raw value.
Supervisor == {"resolved", "environment", "provisioned", "transfer", "command"}
Holders == Supervisor \cup {"pipe", "proxy", "runtime"}

VARIABLES
    direct, proxied,   \* what the policy declares: `secret` and `proxy-secret`
    stored,            \* the secrets that exist in the BWS projects
    pc,                \* where `execute` is
    todo,              \* providers still to resolve
    failure,           \* the Failure that `execute` reports, or "none"
    installed,         \* the signal handlers of `supervise` are in place
    death,             \* iwaya died: "none", "signal" or "kill9"
    held,              \* which raw values each holder has
    line,              \* how much of the transfer line has been written
    client,            \* the `docker run` client: "none", "running", "ended"
    container,         \* the sidecar: "none", "created", "running", "removed"
    proxy,             \* the process in it: "none", "reading", "armed",
                       \* "listening" or "gone"
    stdout,            \* what the readiness read finds: "open", "port", "junk",
                       \* "closed"
    rmFailed,          \* `rm --force` failed
    runtime            \* the target: "none", "running", "doomed", "ended"

policyVars  == <<direct, proxied, stored>>
controlVars == <<pc, todo, failure, installed, death>>
sidecarVars == <<line, client, container, proxy, stdout, rmFailed>>
vars == <<policyVars, controlVars, held, sidecarVars, runtime>>

TypeOK ==
    /\ direct \subseteq Secrets /\ proxied \subseteq Secrets
    /\ stored \subseteq Secrets
    /\ pc \in {"load", "select", "token", "projects", "secrets", "environment",
               "exec", "replaced", "provision", "image", "transfer", "sidecar",
               "deliver", "ready", "command", "register", "spawn", "startRelay",
               "wait", "teardown", "reap", "exited"}
    /\ todo \subseteq Providers
    /\ failure \in {"none", "config", "selection", "resolution", "provision",
                    "image", "sidecar", "execution", "panic"}
    /\ installed \in BOOLEAN
    /\ death \in {"none", "signal", "kill9"}
    /\ held \in [Holders -> SUBSET Secrets]
    /\ line \in {"none", "partial", "body", "line"}
    /\ client \in {"none", "running", "ended"}
    /\ container \in {"none", "created", "running", "removed"}
    /\ proxy \in {"none", "reading", "armed", "listening", "gone"}
    /\ stdout \in {"open", "port", "junk", "closed"}
    /\ rmFailed \in BOOLEAN
    /\ runtime \in {"none", "running", "doomed", "ended"}

Init ==
    /\ direct \in SUBSET Secrets /\ proxied \in SUBSET Secrets
    /\ stored \in SUBSET Secrets
    /\ pc = "load" /\ todo = {} /\ failure = "none"
    /\ installed = FALSE /\ death = "none"
    /\ held = [h \in Holders |-> {}]
    /\ line = "none" /\ client = "none" /\ container = "none"
    /\ proxy = "none" /\ stdout = "open" /\ rmFailed = FALSE
    /\ runtime = "none"

-----------------------------------------------------------------------------
(* Helpers.                                                                *)

Declared   == direct \cup proxied
Current    == CHOOSE p \in todo : TRUE            \* next of names_by_provider
Named(p)   == {s \in Declared : ProviderOf[s] = p}
Listed(p)  == {s \in stored : ProviderOf[s] = p}  \* `bws secret list`

Step(from, to) == pc = from /\ pc' = to /\ UNCHANGED <<todo, failure, installed, death>>
Put(h, S)      == held' = [held EXCEPT ![h] = S]
Move(h, g)     == held' = [held EXCEPT ![h] = {}, ![g] = held[h]]

\* The supervisor's variables go out of scope.
Forget == held' = [h \in Holders |-> IF h \in Supervisor THEN {} ELSE held[h]]

\* `return Err(..)` while no sidecar exists: iwaya reports and exits.
Fail(from, kind) ==
    /\ pc = from /\ pc' = "exited" /\ failure' = kind
    /\ Forget
    /\ UNCHANGED <<policyVars, todo, installed, death, sidecarVars, runtime>>

\* The same once a `Sidecar` is alive: its Drop runs before anything else ends.
Abort(from, kind) ==
    /\ pc = from /\ pc' = "teardown" /\ failure' = kind
    /\ UNCHANGED <<policyVars, todo, installed, death, sidecarVars>>

-----------------------------------------------------------------------------
(* Configuration, selection and resolution.                                *)

LoadConfig ==
    /\ Step("load", "select")
    /\ UNCHANGED <<policyVars, held, sidecarVars, runtime>>
LoadFails == Fail("load", "config")

\* Faulty: grouped by secret, not by provider.
FaultySelectPolicy ==
    /\ pc = "select"
    /\ todo' = Declared
    /\ pc' = IF Declared = {} THEN "environment" ELSE "token"
    /\ UNCHANGED <<policyVars, failure, installed, death, held, sidecarVars, runtime>>

\* names_by_provider groups what the policy declares.
SelectPolicy ==
    /\ pc = "select"
    /\ todo' = {ProviderOf[s] : s \in Declared}
    /\ pc' = IF Declared = {} THEN "environment" ELSE "token"
    /\ UNCHANGED <<policyVars, failure, installed, death, held, sidecarVars, runtime>>
SelectFails == Fail("select", "selection")

AcquireToken ==
    /\ Step("token", "projects")
    /\ UNCHANGED <<policyVars, held, sidecarVars, runtime>>
FindProject ==
    /\ Step("projects", "secrets")
    /\ UNCHANGED <<policyVars, held, sidecarVars, runtime>>

\* Faulty: everything `bws secret list` returns is kept.
FaultyResolveUnfiltered ==
    /\ pc = "secrets"
    /\ Named(Current) \subseteq Listed(Current)
    /\ Put("resolved", held["resolved"] \cup Listed(Current))
    /\ todo' = todo \ {Current}
    /\ pc' = IF todo' = {} THEN "environment" ELSE "token"
    /\ UNCHANGED <<policyVars, failure, installed, death, sidecarVars, runtime>>

\* Faulty: a name that is not listed is skipped.
FaultyResolvePartly ==
    /\ pc = "secrets"
    /\ Put("resolved", held["resolved"] \cup (Listed(Current) \cap Named(Current)))
    /\ todo' = todo \ {Current}
    /\ pc' = IF todo' = {} THEN "environment" ELSE "token"
    /\ UNCHANGED <<policyVars, failure, installed, death, sidecarVars, runtime>>

\* One provider is resolved: what is listed and not declared is dropped.
ResolveSecrets ==
    /\ pc = "secrets"
    /\ Named(Current) \subseteq Listed(Current)
    /\ Put("resolved", held["resolved"] \cup (Listed(Current) \cap Named(Current)))
    /\ todo' = todo \ {Current}
    /\ pc' = IF todo' = {} THEN "environment" ELSE "token"
    /\ UNCHANGED <<policyVars, failure, installed, death, sidecarVars, runtime>>

SecretMissing ==
    /\ Fail("secrets", "resolution")
    /\ ~(Named(Current) \subseteq Listed(Current))

\* A command that cannot start, fails or prints something unusable.
ResolveFails == \E step \in {"token", "projects", "secrets"} : Fail(step, "resolution")

\* Faulty: the environment is built from every declaration.
FaultyEnvironmentOfAll ==
    /\ Step("environment", IF proxied = {} THEN "exec" ELSE "provision")
    /\ Put("environment", Declared \cap held["resolved"])
    /\ UNCHANGED <<policyVars, sidecarVars, runtime>>

\* `resolved_value` clones each value the policy declares.
BuildEnvironment ==
    /\ Step("environment", IF proxied = {} THEN "exec" ELSE "provision")
    /\ Put("environment", direct \cap held["resolved"])
    /\ UNCHANGED <<policyVars, sidecarVars, runtime>>

-----------------------------------------------------------------------------
(* Direct delivery: exec replaces iwaya, and its memory with it.           *)

Exec ==
    /\ Step("exec", "replaced")
    /\ held' = [h \in Holders |-> IF h = "runtime" THEN held["environment"] ELSE {}]
    /\ runtime' = "running"
    /\ UNCHANGED <<policyVars, sidecarVars>>
ExecFails == Fail("exec", "execution")

-----------------------------------------------------------------------------
(* Proxy-backed delivery: provision, image, transfer, sidecar.             *)

\* One phantom and one clone of the raw value per `proxy-secret`.
Provision(s) ==
    /\ s \in proxied \ held["provisioned"]
    /\ Step("provision", "provision")
    /\ Put("provisioned", held["provisioned"] \cup ({s} \cap held["resolved"]))
    /\ UNCHANGED <<policyVars, sidecarVars, runtime>>
ProvisionFails == Fail("provision", "provision")

\* Faulty: the resolver's map lives on.
FaultyKeepResolved ==
    /\ held["provisioned"] = proxied
    /\ Step("provision", "image")
    /\ UNCHANGED <<policyVars, held, sidecarVars, runtime>>

\* drop(resolved)
DropResolved ==
    /\ held["provisioned"] = proxied
    /\ Step("provision", "image")
    /\ Put("resolved", {})
    /\ UNCHANGED <<policyVars, sidecarVars, runtime>>

EnsureImage ==
    /\ Step("image", "transfer")
    /\ UNCHANGED <<policyVars, held, sidecarVars, runtime>>
ImageFails == Fail("image", "image")

IntoTransfer ==
    /\ Step("transfer", "sidecar")
    /\ Move("provisioned", "transfer")
    /\ UNCHANGED <<policyVars, sidecarVars, runtime>>

StartClient ==
    /\ Step("sidecar", "deliver")
    /\ client' = "running"
    /\ UNCHANGED <<policyVars, held, line, container, proxy, stdout, rmFailed, runtime>>

\* No name, no client, or a transfer that is not one line.
StartClientFails == Fail("sidecar", "sidecar")

\* The write of the transfer, cut where iwaya can be killed in it: some bytes,
\* the whole document, the newline.
Deliver ==
    /\ client = "running"
    /\ line' = CASE line = "none" -> "partial"
                 [] line = "partial" -> "body"
                 [] OTHER -> "line"
    /\ Step("deliver", IF line = "body" THEN "ready" ELSE "deliver")
    /\ Put("pipe", IF proxy = "gone" THEN {} ELSE held["transfer"])
    /\ UNCHANGED <<policyVars, client, container, proxy, stdout, rmFailed, runtime>>

\* The client is gone: EPIPE.
DeliverFails ==
    /\ client = "ended"
    /\ Abort("deliver", "sidecar")
    /\ UNCHANGED <<held, runtime>>

\* `start` returns the sidecar; `execute` drops the transfer.
Ready ==
    /\ stdout = "port"
    /\ Step("ready", "command")
    /\ Put("transfer", {})
    /\ UNCHANGED <<policyVars, sidecarVars, runtime>>

\* Faulty: giving up on a readiness read that has found nothing yet.
FaultyNotReadyGivesUp ==
    /\ stdout # "port"
    /\ Abort("ready", "sidecar")
    /\ UNCHANGED <<held, runtime>>

\* Faulty: an error return before the `Sidecar` value exists.
FaultyNotReadyReturns ==
    /\ stdout \in {"closed", "junk"}
    /\ Fail("ready", "sidecar")

\* End of file, or a first line that is no readiness report.
NotReady ==
    /\ stdout \in {"closed", "junk"}
    /\ Abort("ready", "sidecar")
    /\ UNCHANGED <<held, runtime>>

-----------------------------------------------------------------------------
(* The target, and the end of the invocation.                              *)

\* apply_injected_environment consumes the environment.
BuildCommand ==
    /\ Step("command", "register")
    /\ Move("environment", "command")
    /\ UNCHANGED <<policyVars, sidecarVars, runtime>>

Register ==
    /\ pc = "register" /\ pc' = "spawn" /\ installed' = TRUE
    /\ UNCHANGED <<policyVars, todo, failure, death, held, sidecarVars, runtime>>

StartTarget ==
    /\ Step("spawn", "startRelay")
    /\ runtime' = "running"
    /\ Put("runtime", held["command"])
    /\ UNCHANGED <<policyVars, sidecarVars>>

RelayStarts ==
    /\ Step("startRelay", "wait")
    /\ UNCHANGED <<policyVars, held, sidecarVars, runtime>>

\* supervise returns Err before there is a target.
StartTargetFails ==
    /\ \E from \in {"register", "spawn"} : Abort(from, "execution")
    /\ Put("command", {})
    /\ UNCHANGED runtime

\* thread::spawn panics; unwinding drops the sidecar, not the target.
RelayPanics ==
    /\ Abort("startRelay", "panic")
    /\ Put("command", {})
    /\ UNCHANGED runtime

\* RuntimeCall!AnswerCode
SuperviseReturns ==
    /\ runtime = "ended"
    /\ Step("wait", "teardown")
    /\ Put("command", {})
    /\ UNCHANGED <<policyVars, sidecarVars, runtime>>

\* Faulty: the error path leaves the target alone.
FaultySuperviseFails ==
    /\ Abort("wait", "execution")
    /\ Put("command", {})
    /\ UNCHANGED runtime

\* RuntimeCall!AnswerError: a target still running is doomed.
SuperviseFails ==
    /\ Abort("wait", "execution")
    /\ Put("command", {})
    /\ runtime' = IF runtime = "running" THEN "doomed" ELSE runtime

\* Faulty: the name given to `rm` is not the container's.
FaultyRemoveOther ==
    /\ Step("teardown", "reap")
    /\ UNCHANGED <<policyVars, held, sidecarVars, runtime>>

\* `rm --force` on the container's name.
Remove ==
    /\ Step("teardown", "reap")
    /\ container' = IF container = "none" THEN "none" ELSE "removed"
    /\ proxy' = IF container = "running" THEN "gone" ELSE proxy
    /\ held' = IF container = "running"
                 THEN [held EXCEPT !["pipe"] = {}, !["proxy"] = {}] ELSE held
    /\ UNCHANGED <<policyVars, line, client, stdout, rmFailed, runtime>>
RemoveFails ==
    /\ Step("teardown", "reap")
    /\ rmFailed' = TRUE
    /\ UNCHANGED <<policyVars, held, line, client, container, proxy, stdout, runtime>>

\* self.child.wait() on the client, and the exit of iwaya.
Reap ==
    /\ client = "ended"
    /\ Step("reap", "exited")
    /\ Forget
    /\ UNCHANGED <<policyVars, sidecarVars, runtime>>

-----------------------------------------------------------------------------
(* The docker client, the container and the proxy.                         *)

ClientCreates ==
    /\ client = "running" /\ container = "none"
    /\ container' = "created"
    /\ UNCHANGED <<policyVars, controlVars, held, line, client, proxy, stdout,
                   rmFailed, runtime>>

ClientStarts ==
    /\ client = "running" /\ container = "created"
    /\ container' = "running" /\ proxy' = "reading"
    /\ UNCHANGED <<policyVars, controlVars, held, line, client, stdout, rmFailed,
                   runtime>>

\* What the client buffered and no proxy can read is lost with it.
ClientGone ==
    /\ client' = "ended"
    /\ stdout' = IF stdout = "open" THEN "closed" ELSE stdout
    /\ IF proxy = "reading" THEN UNCHANGED held ELSE Put("pipe", {})

\* No such image, no such network namespace: the client removes what it created.
ClientRefused ==
    /\ client = "running" /\ container \in {"none", "created"}
    /\ ClientGone
    /\ container' = IF container = "created" THEN "removed" ELSE container
    /\ UNCHANGED <<policyVars, controlVars, line, proxy, rmFailed, runtime>>

\* A signal from the terminal or from elsewhere ends the client, not the
\* container.
ClientKilled ==
    /\ client = "running"
    /\ ClientGone
    /\ UNCHANGED <<policyVars, controlVars, line, container, proxy, rmFailed,
                   runtime>>

ClientEnds ==
    /\ client = "running" /\ container = "removed"
    /\ ClientGone
    /\ UNCHANGED <<policyVars, controlVars, line, container, proxy, rmFailed,
                   runtime>>

\* The proxy's process ends and `--rm` removes its container.
ProxyGone ==
    /\ proxy' = "gone" /\ container' = "removed"
    /\ held' = [held EXCEPT !["pipe"] = {}, !["proxy"] = {}]
    /\ UNCHANGED <<policyVars, controlVars, line, client, stdout, rmFailed, runtime>>

\* The proxy's end of file: nobody holds the pipe any more.
WriterGone == pc = "exited" \/ client = "ended"

\* Faulty: whatever was read at end of file is taken for the document.
FaultyProxyArms ==
    /\ proxy = "reading"
    /\ line = "line" \/ WriterGone
    /\ proxy' = "armed"
    /\ Move("pipe", "proxy")
    /\ UNCHANGED <<policyVars, controlVars, line, client, container, stdout,
                   rmFailed, runtime>>

\* read_line ends at the newline or at end of file; the document parses.
ProxyArms ==
    /\ proxy = "reading"
    /\ line = "line" \/ (line = "body" /\ WriterGone)
    /\ proxy' = "armed"
    /\ Move("pipe", "proxy")
    /\ UNCHANGED <<policyVars, controlVars, line, client, container, stdout,
                   rmFailed, runtime>>

\* A truncated document does not parse.
ProxyRejects ==
    /\ proxy = "reading"
    /\ line \in {"none", "partial"} /\ WriterGone
    /\ ProxyGone

\* Faulty: the readiness line is written and never flushed.
FaultyProxySilent ==
    /\ proxy = "armed"
    /\ proxy' = "listening"
    /\ UNCHANGED <<policyVars, controlVars, held, line, client, container, stdout,
                   rmFailed, runtime>>

\* bind and the readiness line; a defective image may print anything else.
ProxyReports ==
    /\ proxy = "armed"
    /\ proxy' = "listening"
    /\ stdout' \in IF stdout = "open" THEN {"port", "junk"} ELSE {stdout}
    /\ UNCHANGED <<policyVars, controlVars, held, line, client, container,
                   rmFailed, runtime>>

\* bind fails, or the process dies at any time.
ProxyDies ==
    /\ proxy \in {"reading", "armed", "listening"}
    /\ ProxyGone

-----------------------------------------------------------------------------
(* The target's end, and what can happen to iwaya.                         *)

TargetEnds ==
    /\ runtime \in {"running", "doomed"}
    /\ runtime' = "ended"
    /\ Put("runtime", {})
    /\ UNCHANGED <<policyVars, controlVars, sidecarVars>>

\* The process is gone, whatever it held with it.
Dies(how) ==
    /\ pc \notin {"replaced", "exited"}
    /\ pc' = "exited" /\ death' = how
    /\ Forget
    /\ UNCHANGED <<policyVars, todo, failure, installed, sidecarVars, runtime>>

\* SIGINT, SIGTERM, SIGHUP or SIGQUIT before `Signals::new` has its default
\* action; afterwards it is caught, relayed, or ignored.
FatalSignal == ~installed /\ Dies("signal")
Kill9 == Dies("kill9")

-----------------------------------------------------------------------------
SupervisorWorks ==
    \/ LoadConfig \/ SelectPolicy \/ AcquireToken \/ FindProject
    \/ ResolveSecrets \/ SecretMissing \/ BuildEnvironment \/ Exec
    \/ (\E s \in Secrets : Provision(s)) \/ DropResolved \/ EnsureImage
    \/ IntoTransfer \/ StartClient \/ Deliver \/ DeliverFails \/ Ready \/ NotReady
    \/ BuildCommand \/ Register \/ StartTarget \/ RelayStarts
    \/ SuperviseReturns \/ Remove \/ Reap

SupervisorFails ==
    \/ LoadFails \/ SelectFails \/ ResolveFails \/ ExecFails \/ ProvisionFails
    \/ ImageFails \/ StartClientFails \/ StartTargetFails \/ RelayPanics
    \/ SuperviseFails \/ RemoveFails

SidecarWorks ==
    ClientCreates \/ ClientStarts \/ ClientEnds
    \/ ProxyArms \/ ProxyRejects \/ ProxyReports

SidecarFails == ClientRefused \/ ClientKilled \/ ProxyDies

Next ==
    \/ SupervisorWorks \/ SupervisorFails \/ SidecarWorks \/ SidecarFails
    \/ TargetEnds \/ FatalSignal \/ Kill9

SafeSpec == Init /\ [][Next]_vars

\* The supervisor, the docker client and the proxy are scheduled; no failure,
\* signal or death has to happen.  The target may run forever.
Spec == SafeSpec /\ WF_vars(SupervisorWorks) /\ WF_vars(SidecarWorks)
-----------------------------------------------------------------------------
(* Properties.                                                             *)

\* Secrets the policy declares only as `proxy-secret`.
ProxiedOnly == proxied \ direct

\* A secret declared only as `proxy-secret` never reaches the target's
\* environment or what is prepared for it (security-model.md, "Secret
\* Lifecycle"; main.rs:247-251, 303-309).
RawConfinement ==
    \A h \in {"environment", "command", "runtime"} : held[h] \cap ProxiedOnly = {}

\* Nothing the policy does not declare is kept, although BWS lists whole
\* projects, and the proxy is sent nothing it is not to inject (bws.rs:132-148).
OnlyDeclared ==
    /\ \A h \in Holders : held[h] \subseteq Declared
    /\ \A h \in {"provisioned", "transfer", "pipe", "proxy"} : held[h] \subseteq proxied

\* While a supervised target runs, iwaya holds no proxied value and no copy of
\* the resolver's, the provisioning's or the transfer's (main.rs:276-298).
SupervisorPurged ==
    runtime # "none" /\ pc # "replaced" =>
        /\ \A h \in {"resolved", "environment", "provisioned", "transfer"} : held[h] = {}
        /\ held["command"] \subseteq direct

\* The target starts with everything or not at all: every declared secret
\* existed, the direct ones are all in its environment, and with a
\* `proxy-secret` a proxy that reported readiness was armed with all of them
\* (main.rs:202-205, 264-267).
TargetStartsComplete ==
    [][runtime = "none" /\ runtime' # "none" =>
          /\ Declared \subseteq stored
          /\ held'["runtime"] = direct
          /\ proxied # {} => /\ stdout = "port"
                             /\ proxy \in {"listening", "gone"}
                             /\ proxy = "listening" => held["proxy"] = proxied]_vars

\* A proxy serves only what a complete transfer gave it, also when iwaya dies in
\* the middle of writing it (proxy.rs:108-122, sidecar.rs:79-87).
OnlyWholeTransferArms ==
    proxy \in {"armed", "listening"} =>
        line \in {"body", "line"} /\ held["proxy"] = proxied

\* iwaya does not take the sidecar away from a target that goes on running,
\* unless a panic unwinds through `supervise` (run.rs:185-201, main.rs:300-302).
SidecarOutlivesTarget ==
    pc \in {"teardown", "reap"} /\ runtime = "running" => failure = "panic"

\* When iwaya ends by itself and `rm` worked, no container, proxy or proxied
\* value is left, on any path (sidecar.rs:17-19, 127-146).
NoSidecarLeftBehind ==
    pc = "exited" /\ death = "none" /\ ~rmFailed =>
        /\ container \in {"none", "removed"}
        /\ proxy \in {"none", "gone"}
        /\ held["proxy"] = {} /\ held["pipe"] = {}

\* `rm --force` never runs ahead of a client that is still to create the
\* container: what it would miss, the reaping would wait for (sidecar.rs:131-139).
RemovalFindsContainer ==
    pc = "teardown" /\ client = "running" => container \in {"running", "removed"}

\* The readiness read is decided as long as the client and the proxy make
\* progress: it has no timeout (sidecar.rs:104-109).
ReadinessIsDecided == pc = "deliver" ~> pc \notin {"deliver", "ready"}

\* An invocation whose target has ended or that failed does end, unless the
\* container could not be removed (sidecar.rs:131-139).
EndIsReported ==
    (runtime = "ended" \/ failure # "none") ~> (pc \in {"exited", "replaced"} \/ rmFailed)

\* The invocation keeps the promise about the secrets.
Delivery == INSTANCE SecretDelivery WITH
    armed <- held["proxy"], announced <- (stdout = "port"),
    target <- runtime, given <- held["runtime"]

\* The detailed protocol implements the abstract delivery.
ImplementsSecretDelivery == Delivery!Spec

-----------------------------------------------------------------------------
(* What comments and documents say, and the code does not do.              *)

\* "every exit path of the supervisor - including early failures - tears the
\* sidecar down" (sidecar.rs:17-19); "drops afterward on every path, so the
\* container is removed exactly when the invocation is over" (main.rs:300-302).
\* At the least, then, iwaya does not end while a proxy that has the raw values and
\* has reported its port goes on serving.
EveryExitRemovesSidecar ==
    [][pc # "exited" /\ pc' = "exited" /\ death' # "kill9" /\ ~rmFailed =>
          ~(container' = "running" /\ proxy' = "listening" /\ held'["proxy"] # {})]_vars

\* "iwaya ... exits with its exit status" (docs/design/docker-execution.md:157).
EndOfTargetEndsIwaya ==
    (runtime = "ended" /\ failure = "none" /\ pc = "teardown") ~> pc = "exited"
=============================================================================
