# iwaya in TLA+

TLA+ modules that model iwaya, TLC configurations that check them on small
instances, and TLAPS proofs for every value of the constants. Source paths are
relative to the repository root; line numbers are those of the commit beside
which this project is kept.

## 1. Inventory

iwaya runs one command in a container with secrets resolved from Bitwarden
Secrets Manager (BWS). A policy declares `secret`s, whose raw values go into the
target's environment, and `proxy-secret`s, whose raw values go only to a proxy in
a sidecar container; the target gets a phantom credential in their place.

| Component | Source | State it keeps | Operations |
|---|---|---|---|
| Configuration | `src/config/` | the parsed `Config`, immutable | load, parse, validate, selection of context and policy |
| Invocation pipeline | `src/main.rs` `execute` | local variables: the resolved map, the environment, the provisioned routes, the transfer, the `Sidecar` | the sequence load, select, resolve, build, and direct or proxied execution |
| Secret resolution | `src/bws.rs` | none between calls; a map per provider | acquire the token, find the project, list its secrets, take the declared ones |
| Transfer | `src/transfer.rs` | one provisioned route per `proxy-secret` | provision (phantom and clone of the raw value), into_transfer, serialise to one line |
| Sidecar | `src/sidecar.rs` | the `docker run` child, the container's name | start (spawn, write the transfer, read readiness), teardown, Drop |
| Target | `src/run.rs` | the child, the relay thread, the signal handlers | exec_runtime, supervise_runtime, supervise, forward_signal, exit_code_of |
| Proxy start | `src/main.rs` `run_proxy`, `src/proxy.rs` `run_proxy_mode` | routes, listener | read one line, parse, bind, report the port |
| Reverse proxy | `src/proxy.rs`, `src/phantom.rs` | shared routes; per request a thread | serve, handle, select_route, forward, respond_with_upstream |
| Proxy image | `src/proxy_image.rs` | open handles on the materials, a temporary context | build_material, image_tag, image_exists, write_build_context, build_image |

Components interact by calls (the pipeline calls every other one), by processes
(the docker client, the container, the proxy and the target), by a pipe that
carries the transfer, by the readiness line, by signals and by the image store of
the daemon. What is hard:

* three processes that iwaya starts and does not control, and signals that reach
  the whole process group or one process, at any time;
* raw values copied from variable to variable to pipe: where they are depends on
  how far the sequence has come and how it ended;
* every call that fails, or dies in the middle, after earlier ones took effect;
* two threads in `supervise`, one of which blocks for ever unless told to stop;
* concurrent requests, one thread each, over shared routes;
* paths and tags that name other files and images when they are used again.

The hazards, each at its line and with the properties that would catch it, are
listed in `PROJECT.json`.

## 2. Plan

| Order | Module | Content | State |
|---|---|---|---|
| 1 | `RuntimeCall` | abstract contract of `supervise` | done |
| 2 | `Supervision`, `SupervisionProofs` | the two threads of `supervise`, implements `RuntimeCall` | done |
| 3 | `SecretDelivery` | abstract promise about the secrets of an invocation | done |
| 4 | `Invocation`, `InvocationProofs` | `execute` with sidecar, proxy start and target; uses the contract of 1, implements 3 | done |
| 5 | `ProxiedExchange` | abstract promise about one request to the proxy | done |
| 6 | `ReverseProxy`, `ReverseProxyProofs` | the requests the armed proxy serves, implements 5 | done |
| 7 | `ProxyImage`, `ProxyImageProofs` | `ensure_proxy_image` by several supervisors | done |
| 8 | `HttpOrigin`, `OriginProofs` | `is_http_origin`, compared with what an origin is | done |
| 9 | `Configuration`, `ConfigurationProofs` | `config::load`: the parse of a document and its validation, compared with a well-formed document | done |
| 10 | `ConfiguredRun`, `ConfiguredRunProofs`, `ArgvProofs` | what an accepted document makes of an invocation: `bws::resolve`, `build_argv`, the environment, the transfer; extends 9 | done |
| 11 | `Session` | several invocations at once | left out: the image store is all of iwaya that they share, and 7 has several supervisors of it |

Every module that is proved about is free of RECURSIVE operators, takes its
parameters as CONSTANTS with named assumptions, has one action per operation and
states its invariant as a conjunction of named parts.

## 3. Supervision

`RuntimeCall.tla` states what `supervise` promises its caller: the runtime is
started at most once, an exit code is answered only when the runtime ended that
way, an error only when nothing is left running that is not doomed by SIGKILL,
and a runtime that has ended is answered for.

`Supervision.tla` is the protocol of `run.rs` 155-226. `mainPc` follows the main
thread (`Register` one signal at a time, `Spawn`, `StartRelay`, `Reap`, `Close`,
`Join`, `WaitSucceeded`/`Kill`/`Rewait` and their failures), `relayPc` the relay
thread; `caught` holds the flags of the signal-hook iterator, one per signal, so
coalescing is a set insertion; `child`, `ending`, `inbox`, `reused` and `stray`
are the kernel's side: a zombie's pid is kept, a reaped one may be given to a
stranger, and a signal sent then is recorded in `stray`. `autoReap` is the
inherited SIGCHLD disposition: with SIG_IGN the kernel reaps the child and `wait`
ends with ECHILD.

| Run | Question | Bounds |
|---|---|---|
| `supervision` | exit code, no orphan on a return, signals during the start, relay over before the return, the window in which a signal can go astray; caught signals are relayed, an ended runtime is answered, `RuntimeCall` is implemented with its fairness | signals 2 (terminal and process) and 15 (process only), exit codes 0 and 255 |
| `supervision_stray` | finding 1 | the same |
| `supervision_orphan` | finding 2 | the same |

Two signals are enough for one to be in flight while another is caught and for
registration to be half done; one of each kind is needed because a terminal
signals the child as well. 0 and 255 are the ends of the range of exit codes.
Fairness is weak for the steps of the two threads (the operating system schedules
them) and for the delivery of SIGKILL; it is strong for the relay's choice of a
signal, because the iterator scans its flags in turn. The child need not end,
nobody need send a signal, and no failure need happen.

## 4. Invocation

`SecretDelivery.tla` states the promise about the secrets: the target gets
exactly the direct secrets or does not run; proxied ones are given only to a proxy
armed with all of them at once and announced before the target starts; nothing
arms a proxy behind a running target.

`Invocation.tla` is `execute` with everything it calls, a `pc` value between
each two effects. `held` maps every place a raw value can be (`resolved`,
`environment`, `provisioned`, `transfer`, `command` in iwaya; the `pipe`; the
`proxy`; the `runtime`) to the secrets that are there. The docker client
(`client`), the container, the proxy process, the readiness output (`stdout`) and
the target (`runtime`) take their own steps. `supervise` appears by its contract:
`SuperviseReturns` is `RuntimeCall!AnswerCode`, `SuperviseFails` is
`RuntimeCall!AnswerError`, and the panic of `thread::spawn` is `RelayPanics`.
`failure` is the `Failure` variant that will be reported. The name of the
container, the text of every message and the encoding of the transfer are
abstracted: `line` says how much of the transfer line has been written, which is
what the reader's parse depends on.

| Run | Question | Bounds |
|---|---|---|
| `invocation` | custody of the raw values, completeness of the start, order of the teardown, no sidecar left, and `SecretDelivery` is implemented | three secrets, two of one provider; every policy over them, every content of the projects |
| `invocation_live` | the readiness read is decided; an invocation that ended or failed does exit unless `rm` failed | two secrets of two providers |
| `invocation_signal`, `invocation_hang` | findings 3 and 4 | two secrets |

Two secrets of one provider let one be declared or stored without the other; a
second provider lets one provider fail after another succeeded. Fairness is weak
for the supervisor, and for the client and the proxy; the target may run for
ever, and no failure, signal or death has to happen.

## 5. Reverse proxy

`ProxiedExchange.tla` states what the proxy promises for each request: the message
alone decides whether a route or a refusal is asked for; a refusal reaches nobody; a
request goes upstream at most once, to its route's server and with no raw value but
that route's, in whatever header; its answer, given once, is what that server said, or
that the call failed. When the process ends, nothing is sent or answered any more.

`ReverseProxy.tla` is `proxy.rs` from `serve` on. Every request has a phase, which
is where its thread is in `forward`; the loop of `select_route` is stepped route
by route (`CompareRoute`, `SkipRoute`, `RejectDuplicate`), with `matched` its
vector. A message is
what the code can tell apart: whether the target is origin-form, whether a request
can be built from it, and the values of every header. A phantom is the pair of the
word and its route, because 256 bits of entropy do not repeat; every other value
is `Other`. `contact` records what was sent to which origin, `answer` what the
client got. The properties say what a message means without a loop (`Duplicated`,
`Meant`), so they compare the code's loop with a definition. For the refinement the
phases up to the upstream call are one state (`StateNow`), a message is what it asks
for (`Ask`), and an outbound request is its server and the routes whose raw value
stands anywhere in its headers (`Raws`).

| Run | Question | Bounds |
|---|---|---|
| `reverse_proxy` | which upstream a message reaches, with which headers and framing, and the answer; `ProxiedExchange` is implemented | one request, any of the 21168 messages over five headers with up to two values in each credential header; three routes, two of them with the same header |
| `reverse_proxy_live` | a request does not wait for another one's upstream | two requests, five messages |

Requests share only the routes, which never change, so one request is enough for
what becomes of a message; two values show a repeated header and three routes let
a match precede, follow or share the header of another. Fairness is weak for the
accept loop (tiny_http's queue is first in, first out) and for each thread; an
upstream need not reply, and ureq is given no timeout.

## 6. Proxy image

`ProxyImage.tla` is `ensure_proxy_image`, run by several supervisors. `disk` says
which file is under a path, `content` what a file contains; both change while
supervisors run (`Replace` is a rename over the path, `Overwrite` a write in
place, which the kernel refuses for a file being executed). A supervisor opens its
own binary through `/proc/self/exe` (`OpenExe`) and its libraries by path
(`OpenLibrary`), digests them, looks for the tag, and copies and builds if the
inspection fails for whatever reason. One that is killed while `docker build` runs
leaves a client that tags the image at any later time (`OrphanedBuild`). A tag is
the function from paths to digested contents: 48 bits of SHA-256 and the
length-prefixed encoding are taken to be injective.

| Run | Question | Bounds |
|---|---|---|
| `proxy_image` | the sidecar runs its supervisor's binary, a tag describes its image, no context is left unless its removal fails | two supervisors, the binary and one library, two files per path, two contents; symmetric |
| `proxy_image_deleted` | finding 5 | the same |

Two supervisors can build the same tag at once, or one before and one after a
change; one library is enough to differ from the binary, which is opened in another
way; two files and two contents let a path change and change back.

## 7. Configuration, and what a run makes of it

`Invocation` takes any policy over the declared secrets as its input, and asks who
holds which raw value when. Where that policy comes from, and which value goes
under which name, is the matter of three modules that extend one another.

`HttpOrigin.tla` is `is_http_origin`. A text is a sequence of the pieces the
function tells apart; a maximal run of digits is one piece with its value, so a run
that does not fit `u32` is out of range like any other above 65535. `IsHttpOrigin`
follows the scans for the first `]` and the last `:`, `Origin` says
`scheme host [port]` without a scan.

`Configuration.tla` is `config::load`. A document is a sequence of nodes with
arguments, properties and children. `phase`, `section` and `index` are the position
of the two loops: `ReadRoot`, then `ParseNode` or `RejectNode` for each node of each
section in the order of the document, then `CheckEntry` or `RejectEntry` for each
entry, list after list, as `validate` does. `ProviderParses`, `ContextParses` and
`PolicyParses` are the parsers of the three layers; `IsSound` and `EntryIsValid` are
the body of a loop of `validate`. The strings are values, and what the code asks of
their characters (a leading dash, a NUL byte, a `=`, white space) are sets of them, which
are CONSTANTS. All messages of `ConfigError::Invalid` are one, so the order of the
checks of one entry does not matter. `WellFormed` is the declarative definition:
it speaks of the nodes of the document and has no cursor, no lists and no lookups.

`ConfiguredRun.tla` adds the stages of `execute`: `Select`; `AcquireToken`,
`FindProject` and `CollectSecrets` for one provider after the other, with the
failures of each; then `ExecRuntime`, or one after the other `SendTransfer`, `ProxyReady`
and `SuperviseRuntime`. A failure with code 6 comes before the transfer has been sent
(`StartFails`), after it (`NotReady`), or when the runtime is started or waited for
(`SuperviseFails`); what has been sent by then stays sent. The vector
`names_by_provider` is not built: `group` is the declaration whose provider comes next,
`Leads` says that it is the first of its provider, and `Names` are all the names of
that provider. `account` is what `bws` lists, with projects of one name and
secrets of one key repeated; a raw value is the triple of the word, its project and
its place in the listing, so every mix-up shows. `Options` and `Argv` are `build_argv`, and
`Environment` is the result of the calls of `Command::env`, the last of which wins.
`Routes` is the transfer, and `TransferParses` what `parse_transfer` asks of it in
the sidecar: with `TransferIsSound` this is where `RoutesAssumption` of
`ReverseProxy` comes from. That a route can be served is not claimed: it takes more
than `validate` asks for (see Not modelled).
`Reads` is external: how `docker exec` and `podman exec` read their arguments.

| Run | Question | Bounds |
|---|---|---|
| `configured_run` | the verdict of a load is right; the runtime reads back the policy from its arguments; every variable has its declared value; what the sidecar is sent parses, and each value in it goes where it is declared to go, also when a later step fails; tokens, lookups and exit codes | 4097 documents: two providers, two contexts and two policies, in which one or two layers at a time are replaced by every variant of a defect; sections repeated, missing and out of order; every upstream of up to five of the pieces that matter after a scheme, and of any two pieces; four accounts, token outputs of up to three characters |

Two providers let their projects, tokens and values be confused; an account with
two projects of the same name, and one with a key listed twice, decide between first and
last; three interleaved declarations of two providers split a group if it is
compared with its predecessor only. A pair of defects in one document adds nothing
about a verdict that is the conjunction of all checks, and an upstream of five
pieces has brackets, colons, a host and a port in every order. The invocation
begins for two contexts and one that does not exist. Deadlock is not checked, since a
run that has delivered, or has failed, is over. The run states safety only; that an invocation
ends is the matter of section 4.

## Findings

1. `supervision_stray`: `supervise` reaps the child before it closes and joins
   the relay thread, so a signal already taken is sent to a pid that may belong
   to another process by then; the comments say the call then fails with ESRCH.
   `StrayWindow` shows this is the only such window.
2. `supervision_orphan`: `thread::spawn` panics when no thread can be created;
   the runtime is left running.
3. `invocation_signal`: between the spawn of the sidecar and the installation of
   the handlers a signal ends iwaya by its default action and no Drop runs. In the
   trace the proxy has read the whole transfer, has reported its port and iwaya has
   read it; then the signal comes, and a sidecar that serves with the raw values
   stays. (A signal that comes before the transfer is complete does no such harm: the
   proxy reads the end of the pipe, rejects, and `--rm` removes the container.)
4. `invocation_hang`: if `rm --force` fails, the teardown waits for a client that
   has no reason to end, and the status of a target that ended is never reported.
5. `proxy_image_deleted`: a library whose path got a new file is opened without an
   error and shipped; a comment says the open then fails.

Four more places where the text is stricter than the code. No run is spent on
them, because each can be read off the model:

* `proxy_image.rs` 330 says the image is made before any secret is resolved;
  `execute` makes it after (`EnsureImage` follows `Provision`).
* `docs/design/security-model.md` 135 says the supervisor holds no proxied value
  once the sidecar has received it; `execute` drops the transfer when the readiness
  line has been read, which is later (`Deliver` keeps it, `Ready` drops it).
* `proxy.rs` 336 says a repeated credential header is rejected before any phantom
  comparison; the loop finds it when it comes to its route, after earlier phantoms
  (`CompareRoute` before `RejectDuplicate`). It is rejected all the same.
* `proxy_image.rs` 27 says digest and copy cannot diverge, even if the path is
  replaced; that holds of a replaced path, but a library overwritten in
  place between `HashMaterial` and `CopyMaterial` makes them diverge, which is why
  `TagMatchesContent` excepts `written`.

## What is proved

For every value of the constants, about the safety part of each specification:

* `SupervisionProofs.tla`: `IInv` is the type invariant with `MainInv` (what is
  set up by when), `RelayInv` (the relay's position against the main thread's),
  `ChildInv` (a status exists exactly when the child ended; only a running child
  has signals pending) and `ReturnInv`. `ExitFaithful` alone is not inductive: that
  the code is computed from the status of a reaped child needs `ChildInv`, and
  that an error return leaves no orphan needs the pending SIGKILL at `rewait`.
  From it: `TypeCorrect`, `ExitCodeIsFaithful`, `NoReturnOrphans`,
  `SignalsNeverOrphan`, `RelayIsOver`, `StrayOnlyInWindow`
  and the step simulation `RefinesRuntimeCall`.
  The lemma `ExitCodeLemma` carries the arithmetic: signal numbers end at 64, so
  `128 + n` never wraps.
* `InvocationProofs.tla`: `IInv` says, part by part, what has been resolved
  (`ResolveInv`), where the direct and the proxied values are at each `pc`
  (`DirectInv`, `ProxiedInv`), what is in the pipe and the proxy (`PipeInv`), how
  client and container are related (`ClientInv`), when a target exists
  (`TargetInv`) and what is left at the end (`EndInv`). From it every safety
  property of the run `invocation` and `RefinesSecretDelivery`.
* `ReverseProxyProofs.tla`: `IInv` holds for each request apart, and the lemma
  `Others` says a step of one request leaves the others' alone. Its heart is the
  loop invariant `Selecting`: the routes before the cursor have at most one value
  each, and those that match are exactly the matched ones. At the end of the loop
  this is `Duplicated` and `Meant`, whatever the number of routes and however they
  share headers; `Contacted` then carries it over the upstream call. From it
  `OnlyMeantUpstreamIsReached`, `OnlyRawIsInjected`, `VerdictIsFaithful` and, with
  `BodyLemma` on the framing headers, `FramingIsFollowed`. The step simulation
  `RefinesExchange` uses the same invariant: every one of the five rejections is the
  one `Refuse` (the lemma `Refuses`, from `Verdict` of the state after it), and `Send` is
  the `Forward` because the outbound request holds no other raw value (`OutboundRaws`).
* `ProxyImageProofs.tla`: `IInv` says of each supervisor that what it has opened is
  a file, for the binary the one that runs (`OpenInv`), that what has been digested
  or copied is what the handle still yields unless the file was overwritten
  (`HashInv`, `CopyInv`), that a returned tag names an image (`TaggedInv`), and
  that a build left behind by a killed supervisor has the whole context (`OrphanInv`).
  `TagMatchesContent` is part of it: a sidecar may start from an image somebody else
  built under the same tag, so `SidecarRunsOwnExe` is not inductive without it. The
  other half is `DigestOfExe`: a binary in execution is never overwritten. From it
  `TypeCorrect`, `SidecarIsOwnExe`, `TagDescribesImage`; `NoContextIsLeft` is
  inductive by itself.
* `OriginProofs.tla`: `ScanIsExact`, for a text of any length. The
  two directions need that the bracket or colon the scan stops at is the only one
  a host can be cut at: a host in brackets holds no `]`, any other host no `:`.
* `ConfigurationProofs.tla`: `IInv` joins the types, the root (`RootInv`), where the entries
  come from (`ImageInv`), what has passed the validation (`CheckedInv`) and the verdict. That a
  duplicate in the lists is a duplicate in the document, and a missing entry a missing
  one, needs more: `MatchInv`, a bijection between the indices of each list and the
  positions the cursor has read. When the parse is over these are all the positions
  (`AllIsRead`), and `VerdictIsExact` and `OriginsAreExact` follow.
* `ConfiguredRunProofs.tla`: `RInv` runs along the declared secrets. Below `group`
  the provider of every declaration has been asked for its token once
  (`AcquiredInv`), each of its names has a value, and every value is the one its listing
  means (`ResolvedInv`). That the environment is right needs in addition that the names of an accepted
  policy are distinct (from `CheckedInv`, through `PolicyIs`): only then is the last
  `Command::env` of a name the only one (`CarriesItsOwn`). From it the types,
  `NoLookupFails`, `TokensAreAskedForOnce`, `TokensAreOutputs`,
  `EnvironmentIsExact`, `ExitCodesAreExact` and `TransfersAreSound`. The last two need
  `RuntimeInv` after a failure as well: an exit code of 6 leaves either nothing sent and
  nothing started, or the routes as they were sent.
* `ArgvProofs.tla`: `RuntimeReadsItsPolicy`, for a policy with any number of variables
  and a command line of any length. `ArgvIs` says where in `Argv` each part stands.
  The reader `Reads` is a function that recurses towards the end of its arguments: that there
  is a function which satisfies its equation is proved first, from the last position back
  (`ReaderExists`), and then that it takes the pairs of `--env` one after the
  other and stops at the container (`EnvIsRead`, `OptionsAreRead`). It stops
  there because a container name that passed `ContextIsSound` has no dash; everything
  after it, the user's own `--env` included, is `rest`. The theorem speaks of the document as well:
  `SelectionInv` and `ImageInv` lead from the variables `context` and `policy` back to its nodes.

The assumptions are `SignalsAssumption` (signal numbers lie in 1..64 and SIGKILL
cannot be caught; exit codes lie in 0..255), `ProviderAssumption` (every secret
has a provider), `RoutesAssumption` (there is a route, and no credential header is
one of the four that `config/validate.rs` refuses), `MessagesAssumption` (messages
are well typed and give at most one `content-length`), `ImageAssumption` (the
binary is not one of its libraries, and placeholders differ from values),
`NumberAssumption` (a run of digits is no other piece), `DocumentsAssumption`,
`AccountsAssumption`, `RequestsAssumption`, `StdoutsAssumption` and `UpstreamsAssumption`
(these are sequences where the code has them: the nodes down to the settings, what `bws`
lists, the arguments, what a token command prints, the text of an upstream) and
`OptionsAssumption` (the five options that `build_argv` writes begin with a dash).

Two definitions recurse over data: `Children`, which keeps the nodes of one name as the
loops of the parsers do, and `Reads`. Both are recursive functions on numbers, and
two lemmas of `ConfigurationProofs` stand in for the induction that the provers lack:
`Smallest` (a set of numbers that is not empty has a smallest one) and `Climb` (a set that holds 0
and with each number below a bound the next one holds them all up to the bound). So what the functions
yield is proved for every length (`KeptExists` and `ChildrenAre`, `ReaderExists` and
`OptionsAreRead`), and no fact about them is assumed.

Only model-checked: every liveness property (`CaughtIsRelayed`, `EndedIsAnswered`,
`ReadinessIsDecided`, `EndIsReported`, `OthersDoNotBlock` and the fairness part of
`ImplementsRuntimeCall`), because liveness under fairness, and ENABLED, are out of this
prover's reach. Every safety property of a passing run is proved, and of the three
refinements the whole of `ImplementsSecretDelivery` and `ImplementsExchange`.
Two safety properties are theorems only, because a refinement that a run checks says
more: `ReturnLeavesNoOrphan` (an answer of `RuntimeCall` needs a runtime that has ended, or is
about to) and `VerdictFaithful` (`ProxiedExchange` answers with what was decided).

## Not modelled

* The grammars of the command line (clap), of KDL and of the JSON of `bws`, which
  are libraries: what they parse to is the input of `ConfiguredRun` and
  `Configuration`. The wording of messages and their line numbers.
* Several invocations at once, apart from the image store: they share no other
  state of iwaya. The phantom of one is unknown to the proxy of another because
  `ReverseProxy` takes any value of a header that is no phantom of its routes as
  `Other`.
* The bytes of the transfer document, of HTTP messages and of ELF headers. The
  transfer is abstracted to how much of its line has been written, an HTTP message
  to the values of its headers, an ELF header to the paths it names.
* Response headers, streaming and keep-alive connections, which tiny_http and ureq
  implement.
* The characters of a raw value, and what the URI parser of the HTTP library asks of a host
  beyond `is_http_origin` (which lets `[:]` through). Either makes the proxy refuse each
  request of a route (`proxy.rs` 299-302) after the transfer has been accepted; in
  `ReverseProxy` such a request is one that is not `usable`.
* The `docker exec` client apart from the process it starts in the container: `runtime` in
  `Invocation` stands for both. A client that is killed while the process goes on is
  therefore not told apart from one whose process has ended.
* Entropy: a phantom, a container name and the name of a context are assumed fresh.
* The end-to-end tests, the packaging and the scripts: they have no state of the
  program.
