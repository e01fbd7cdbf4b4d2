------------------------- MODULE ConfiguredRunProofs -------------------------
(***************************************************************************)
(* What an accepted configuration makes of an invocation.  The argument    *)
(* runs along the declared secrets: below `group` every secret of the      *)
(* providers met so far has a value, the value is the one its listing      *)
(* means, and the token of each of those providers has been asked for once.*)
(***************************************************************************)
EXTENDS ConfiguredRun, ConfigurationProofs

Resolving == stage \in {"acquiring", "finding", "collecting"}
Done      == stage \in {"delivering", "sent", "ready", "running"} \/ exit = 6

\* A context and a policy have been selected.
Selected == Resolving \/ Done \/ exit = 5

StageInv ==
    /\ stage \in {"loading", "acquiring", "finding", "collecting", "delivering",
                  "sent", "ready", "running", "failed"}
    /\ exit \in {0, 3, 4, 5, 6} /\ (exit # 0 <=> stage = "failed")
    /\ account \in Accounts \cup {Nothing} /\ group \in Nat \ {0}
    /\ stage \notin {"sent", "ready", "running"} /\ exit # 6 => argv = <<>> /\ routes = <<>>
    /\ stage = "loading" => acquired = <<>> /\ resolved = Nothing /\ group = 1
    /\ exit = 3 => acquired = <<>> /\ phase \in {"rejected", "unreadable"}
    /\ exit = 4 =>
         /\ acquired = <<>> /\ phase = "accepted"
         /\ Lookup("contexts", request.context) = {} \/ Lookup("policies", request.command) = {}

SelectionInv ==
    Selected =>
        /\ phase = "accepted" /\ account \in Accounts
        /\ \E i \in DOMAIN config["policies"] : policy = config["policies"][i]
        /\ \E i \in DOMAIN config["contexts"] : context = config["contexts"][i]
        /\ request \in Requests
        /\ policy.id = request.command /\ context.id = request.context

CursorInv ==
    /\ stage \in {"finding", "collecting"} => Leads(group)
    /\ stage = "acquiring" => group <= Len(Declared(policy)) + 1
    /\ Done => group = Len(Declared(policy)) + 1
    /\ exit = 5 => Declares(group)

TokenInv ==
    stage \in {"finding", "collecting"} =>
        stdout \in Stdouts /\ token = Strip(stdout) /\ token # <<>>

\* The provider of that declaration has been asked for its token.
Past(k) == k < group \/ (k = group /\ stage \in {"finding", "collecting"})

AcquiredInv ==
    /\ acquired \in Seq(References(policy))
    /\ \A i, j \in DOMAIN acquired : acquired[i] = acquired[j] => i = j
    /\ Resolving \/ Done =>
         /\ \A k \in DOMAIN Declared(policy) : Past(k) =>
               \E i \in DOMAIN acquired : acquired[i] = Declared(policy)[k].provider
         /\ \A i \in DOMAIN acquired : \E k \in DOMAIN Declared(policy) :
               Past(k) /\ acquired[i] = Declared(policy)[k].provider

ProjectInv ==
    stage = "collecting" =>
        \E i \in FirstProject(Provider(Id).project) : project = account.projects[i].id

\* Whatever has been resolved is what is meant, and the names of a provider
\* that has been dealt with are all there.
ResolvedInv ==
    Resolving \/ Done =>
        /\ \A id \in DOMAIN resolved : \A name \in DOMAIN resolved[id] :
              IsMeant(resolved[id][name], [provider |-> id, name |-> name])
        /\ \A k, m \in DOMAIN Declared(policy) :
              k < group /\ Declared(policy)[m].provider = Declared(policy)[k].provider =>
                  Holds(Declared(policy)[m])

\* What has been sent stays sent, also when what comes after it fails.
RuntimeInv ==
    /\ stage \in {"sent", "ready"} => policy.proxied # <<>> /\ routes = Routes /\ argv = <<>>
    /\ stage = "running" =>
         /\ environment = Environment /\ argv = Argv
         /\ IF policy.proxied # <<>> THEN routes = Routes ELSE routes = <<>>
    /\ exit = 6 => \/ policy.proxied # <<>> /\ routes = Routes
                   \/ argv = <<>> /\ routes = <<>>

RInv == /\ IInv /\ StageInv /\ SelectionInv /\ CursorInv /\ TokenInv /\ AcquiredInv
        /\ ProjectInv /\ ResolvedInv /\ RuntimeInv

-----------------------------------------------------------------------------
(* Sequences.                                                              *)

\* LastOf finds a name that is there, and finds it where it stands last.
LEMMA LastIs ==
    ASSUME NEW names, IsSequence(names), NEW name, NEW i \in DOMAIN names, names[i] = name
    PROVE  /\ LastOf(names, name) \in DOMAIN names
           /\ names[LastOf(names, name)] = name
           /\ \A j \in DOMAIN names : names[j] = name => j <= LastOf(names, name)
  <1> DEFINE n == Len(names)
             S == {n - j : j \in {k \in DOMAIN names : names[k] = name}}
             P(k) == names[k] = name /\ \A j \in (k + 1)..Len(names) : names[j] # name
  <1>1. n \in Nat /\ DOMAIN names = 1..n
    BY DEF IsSequence
  <1> HIDE DEF n
  <1>2. S \in SUBSET Nat /\ S # {}
    BY <1>1
  <1> HIDE DEF S
  <1>3. PICK m \in S : \A k \in S : m <= k
    BY <1>2, Smallest
  <1> USE DEF S
  <1>4. PICK k \in DOMAIN names : names[k] = name /\ m = n - k
    OBVIOUS
  <1>5. \A j \in (k + 1)..n : names[j] # name
    <2> SUFFICES ASSUME NEW j \in (k + 1)..n, names[j] = name PROVE FALSE
      OBVIOUS
    <2>1. j \in DOMAIN names /\ k \in Nat /\ j \in Nat /\ j > k
      BY <1>1
    <2>2. (n - j) \in S
      BY <2>1
    <2>3. n - k <= n - j
      BY <2>2, <1>3, <1>4
    <2>4. QED
      BY <2>1, <2>3, <1>1
  <1> HIDE DEF S
  <1>6. k \in DOMAIN names /\ P(k)
    BY <1>4, <1>5 DEF n
  <1>7. LastOf(names, name) \in DOMAIN names /\ P(LastOf(names, name))
    BY <1>6 DEF LastOf
  <1>8. \A j \in DOMAIN names : names[j] = name => j <= LastOf(names, name)
    <2> DEFINE l == LastOf(names, name)
    <2> SUFFICES ASSUME NEW j \in DOMAIN names, names[j] = name, ~(j <= l) PROVE FALSE
      OBVIOUS
    <2>1. j \in (l + 1)..n
      BY <1>1, <1>7
    <2>2. QED
      BY <2>1, <1>7 DEF n
  <1>9. QED
    BY <1>7, <1>8

LEMMA ConcatIs ==
    ASSUME NEW S, NEW s \in Seq(S), NEW t \in Seq(S), NEW c, c = s \o t
    PROVE  /\ c \in Seq(S) /\ Len(c) = Len(s) + Len(t)
           /\ DOMAIN c = 1..(Len(s) + Len(t))
           /\ \A i \in 1..Len(s) : c[i] = s[i]
           /\ \A i \in 1..Len(t) : c[Len(s) + i] = t[i]
  <1>1. /\ c \in Seq(S) /\ Len(c) = Len(s) + Len(t)
        /\ DOMAIN c = 1..(Len(s) + Len(t))
    OBVIOUS
  <1>2. \A i \in 1..Len(s) : c[i] = s[i]
    OBVIOUS
  <1>3. ASSUME NEW i \in 1..Len(t) PROVE c[Len(s) + i] = t[i]
    <2>1. (Len(s) + i) \in 1..(Len(s) + Len(t)) /\ ~(Len(s) + i <= Len(s))
            /\ (Len(s) + i) - Len(s) = i
      OBVIOUS
    <2>2. QED
      BY <2>1
  <1>4. QED
    BY <1>1, <1>2, <1>3

LEMMA DeclaredIs ==
    ASSUME NEW p, IsSequence(p.secrets), IsSequence(p.proxied)
    PROVE  /\ IsSequence(Declared(p))
           /\ \A i \in DOMAIN p.secrets : \E k \in DOMAIN Declared(p) :
                 Declared(p)[k] = [provider |-> p.secrets[i].provider, name |-> p.secrets[i].name]
           /\ \A i \in DOMAIN p.proxied : \E k \in DOMAIN Declared(p) :
                 Declared(p)[k] = [provider |-> p.proxied[i].provider, name |-> p.proxied[i].name]
           /\ References(p) = {Declared(p)[k].provider : k \in DOMAIN Declared(p)}
  <1> DEFINE Pair(s) == [provider |-> s.provider, name |-> s.name]
             a == [i \in DOMAIN p.secrets |-> Pair(p.secrets[i])]
             b == [i \in DOMAIN p.proxied |-> Pair(p.proxied[i])]
             S == {Pair(p.secrets[i]) : i \in DOMAIN p.secrets}
                     \cup {Pair(p.proxied[i]) : i \in DOMAIN p.proxied}
             n == Len(p.secrets)
             m == Len(p.proxied)
  <1>1. n \in Nat /\ m \in Nat /\ DOMAIN p.secrets = 1..n /\ DOMAIN p.proxied = 1..m
    BY DEF IsSequence
  <1> HIDE DEF n, m
  <1>2. /\ a \in Seq(S) /\ Len(a) = n /\ \A i \in 1..n : a[i] = Pair(p.secrets[i])
        /\ b \in Seq(S) /\ Len(b) = m /\ \A i \in 1..m : b[i] = Pair(p.proxied[i])
    BY <1>1
  <1>3. Declared(p) = a \o b
    BY DEF Declared
  <1> HIDE DEF a, b, S, Pair
  <1>4. /\ Len(Declared(p)) = n + m /\ DOMAIN Declared(p) = 1..(n + m)
        /\ \A i \in 1..n : Declared(p)[i] = Pair(p.secrets[i])
        /\ \A i \in 1..m : Declared(p)[n + i] = Pair(p.proxied[i])
    <2>1. a \in Seq(S) /\ b \in Seq(S)
      BY <1>2
    <2>7. /\ Declared(p) \in Seq(S) /\ Len(Declared(p)) = Len(a) + Len(b)
          /\ DOMAIN Declared(p) = 1..(Len(a) + Len(b))
          /\ \A i \in 1..Len(a) : Declared(p)[i] = a[i]
          /\ \A i \in 1..Len(b) : Declared(p)[Len(a) + i] = b[i]
      BY <2>1, <1>3, ConcatIs
    <2>2. Len(a) = n /\ Len(b) = m
      BY <1>2
    <2>3. Len(Declared(p)) = n + m /\ DOMAIN Declared(p) = 1..(n + m)
      BY <2>7, <2>2
    <2>4. \A i \in 1..n : Declared(p)[i] = Pair(p.secrets[i])
      BY <2>7, <2>2, <1>2
    <2>5. \A i \in 1..m : Declared(p)[n + i] = Pair(p.proxied[i])
      BY <2>7, <2>2, <1>2
    <2>6. QED
      BY <2>3, <2>4, <2>5
  <1>5. \A i \in DOMAIN p.secrets : i \in DOMAIN Declared(p) /\ Declared(p)[i] = Pair(p.secrets[i])
    BY <1>1, <1>4
  <1>6. \A i \in DOMAIN p.proxied :
           (n + i) \in DOMAIN Declared(p) /\ Declared(p)[n + i] = Pair(p.proxied[i])
    BY <1>1, <1>4
  <1>7. \A k \in DOMAIN Declared(p) :
           \/ \E i \in DOMAIN p.secrets : Declared(p)[k] = Pair(p.secrets[i])
           \/ \E i \in DOMAIN p.proxied : Declared(p)[k] = Pair(p.proxied[i])
    <2> SUFFICES ASSUME NEW k \in DOMAIN Declared(p)
                 PROVE  \/ \E i \in DOMAIN p.secrets : Declared(p)[k] = Pair(p.secrets[i])
                        \/ \E i \in DOMAIN p.proxied : Declared(p)[k] = Pair(p.proxied[i])
      OBVIOUS
    <2>1. CASE k \in 1..n
      BY <2>1, <1>1, <1>4
    <2>2. CASE k \notin 1..n
      <3>1. (k - n) \in 1..m /\ n + (k - n) = k
        BY <2>2, <1>1, <1>4
      <3>2. Declared(p)[k] = Pair(p.proxied[k - n])
        BY <3>1, <1>4
      <3>3. QED
        BY <3>1, <3>2, <1>1
    <2>3. QED
      BY <2>1, <2>2
  <1>8. \A x : Pair(x).provider = x.provider
    BY DEF Pair
  <1>9. References(p) = {Declared(p)[k].provider : k \in DOMAIN Declared(p)}
    BY <1>5, <1>6, <1>7, <1>8 DEF References
  <1>10. IsSequence(Declared(p))
    BY <1>1, <1>4 DEF IsSequence
  <1>11. QED
    BY <1>5, <1>6, <1>9, <1>10 DEF Pair

LEMMA InOrderIs ==
    ASSUME NEW p, IsSequence(p.secrets), IsSequence(p.proxied)
    PROVE  /\ IsSequence(InOrder(p))
           /\ \A k \in DOMAIN InOrder(p) : InOrder(p)[k] \in Declarations(p)
           /\ \A d \in Declarations(p) : \E k \in DOMAIN InOrder(p) : InOrder(p)[k] = d
  <1> DEFINE n == Len(p.secrets)
             m == Len(p.proxied)
             a == [i \in DOMAIN p.secrets |-> <<"secret", i>>]
             b == [k \in 1..(2 * m) |->
                      IF k % 2 = 1 THEN <<"phantom", (k + 1) \div 2>> ELSE <<"url", k \div 2>>]
             S == Declarations(p)
  <1>1. n \in Nat /\ m \in Nat /\ DOMAIN p.secrets = 1..n /\ DOMAIN p.proxied = 1..m
    BY DEF IsSequence
  <1>2. InOrder(p) = a \o b
    BY DEF InOrder
  <1> HIDE DEF n, m
  <1>3. a \in Seq(S) /\ Len(a) = n /\ \A i \in 1..n : a[i] = <<"secret", i>>
    BY <1>1 DEF Declarations
  <1>4. ASSUME NEW k \in 1..(2 * m)
        PROVE  b[k] \in S
    <2>1. CASE k % 2 = 1
      <3>1. ((k + 1) \div 2) \in 1..m
        BY <2>1, <1>1
      <3>2. QED
        BY <3>1, <2>1, <1>1 DEF Declarations
    <2>2. CASE k % 2 # 1
      <3>1. (k \div 2) \in 1..m
        BY <2>2, <1>1
      <3>2. QED
        BY <3>1, <2>2, <1>1 DEF Declarations
    <2>3. QED
      BY <2>1, <2>2
  <1>5. b \in Seq(S) /\ Len(b) = 2 * m
    BY <1>4, <1>1
  <1>6. \A i \in 1..m : /\ (2 * i - 1) \in 1..(2 * m) /\ b[2 * i - 1] = <<"phantom", i>>
                        /\ (2 * i) \in 1..(2 * m) /\ b[2 * i] = <<"url", i>>
    BY <1>1
  <1> HIDE DEF a, b
  <1>7. /\ InOrder(p) \in Seq(S) /\ Len(InOrder(p)) = n + 2 * m
        /\ \A i \in 1..n : InOrder(p)[i] = a[i]
        /\ \A i \in 1..(2 * m) : InOrder(p)[n + i] = b[i] /\ (n + i) \in 1..(n + 2 * m)
    <2>1. /\ InOrder(p) \in Seq(S) /\ Len(InOrder(p)) = Len(a) + Len(b)
          /\ DOMAIN InOrder(p) = 1..(Len(a) + Len(b))
          /\ \A i \in 1..Len(a) : InOrder(p)[i] = a[i]
          /\ \A i \in 1..Len(b) : InOrder(p)[Len(a) + i] = b[i]
      BY <1>2, <1>3, <1>5, ConcatIs
    <2>2. \A i \in 1..(2 * m) : (n + i) \in 1..(n + 2 * m)
      BY <1>1
    <2>3. QED
      BY <2>1, <2>2, <1>3, <1>5
  <1>8. DOMAIN InOrder(p) = 1..(n + 2 * m)
    BY <1>7
  <1>9. ASSUME NEW d \in S PROVE \E k \in DOMAIN InOrder(p) : InOrder(p)[k] = d
    <2>1. CASE \E i \in 1..n : d = <<"secret", i>>
      BY <2>1, <1>1, <1>3, <1>7, <1>8
    <2>2. CASE \E i \in 1..m : d = <<"phantom", i>>
      BY <2>2, <1>6, <1>7, <1>8
    <2>3. CASE \E i \in 1..m : d = <<"url", i>>
      BY <2>3, <1>6, <1>7, <1>8
    <2>4. QED
      BY <2>1, <2>2, <2>3, <1>1 DEF Declarations
  <1>10. QED
    BY <1>7, <1>8, <1>9, <1>1 DEF IsSequence

-----------------------------------------------------------------------------
(* The policy that is selected.                                            *)

LEMMA PolicyIs ==
    ASSUME IInv, phase = "accepted", NEW i \in DOMAIN config["policies"],
           NEW p, p = config["policies"][i]
    PROVE  /\ IsSequence(p.secrets) /\ IsSequence(p.proxied) /\ NamesAreSound(p)
           /\ \A id \in References(p) : Lookup("providers", id) # {}
  <1>1. "policies" \in Lists /\ document \in Documents
    BY DEF Lists, IInv, TypeInv
  <1>2. PICK q \in Positions("policies") : /\ RootIsValid /\ Parses("policies", NodeAt(q))
                                           /\ p = EntryAt("policies", q)
    BY <1>1 DEF IInv, ImageInv
  <1>3. PICK s \in DOMAIN Sections : Sections[s].name = "policies"
                /\ \E n \in DOMAIN Sections[s].children : q = <<s, n>>
    BY PositionIs
  <1>4. PICK n \in DOMAIN Sections[s].children : q = <<s, n>>
    BY <1>3
  <1> DEFINE node == Sections[s].children[n]
  <1>5. PolicyParses(node) /\ p = PolicyOf(node)
    BY <1>2, <1>4 DEF NodeAt, Parses, EntryAt, Parsed
  <1>6. IsSequence(p.secrets) /\ IsSequence(p.proxied)
    BY <1>1, <1>2, <1>3, <1>5, PolicyOfIs
  <1>7. EntryIsValid("policies", i)
    BY <1>1 DEF IInv, CheckedInv, Checked
  <1>8. QED
    BY <1>6, <1>7 DEF EntryIsValid, IsSound

-----------------------------------------------------------------------------
(* The stages.                                                             *)

\* A step of a run is one of the load, or leaves the load alone.
LEMMA LoadSteps == [RunNext]_<<vars, runVars>> => [Next]_vars
  BY DEF RunNext, Load, ConfigFails, Fail, Select, SelectFails, AcquireToken, AcquireFails,
         FindProject, ProjectUnknown, BwsFails, JoinsGroup, CollectSecrets, Resolve,
         SecretUnknown, AllResolved, Delivers, ExecRuntime, SendTransfer, ProxyReady,
         SuperviseRuntime, ExecutionFails, StartFails, NotReady, SuperviseFails

\* What is selected stays, and so does all it was selected from.
LEMMA SelectionStays ==
    ASSUME [RunNext]_<<vars, runVars>>, stage # "loading"
    PROVE  /\ vars' = vars /\ document' = document /\ phase' = phase /\ config' = config
           /\ account' = account /\ context' = context /\ policy' = policy /\ request' = request
  BY DEF RunNext, Load, ConfigFails, Fail, Select, SelectFails, AcquireToken, AcquireFails,
         FindProject, ProjectUnknown, BwsFails, JoinsGroup, CollectSecrets, Resolve,
         SecretUnknown, AllResolved, Delivers, ExecRuntime, SendTransfer, ProxyReady,
         SuperviseRuntime, ExecutionFails, StartFails, NotReady, SuperviseFails,
         runVars, selection, vars

\* The first steps, up to a selection.
LEMMA FirstSteps ==
    ASSUME [RunNext]_<<vars, runVars>>, stage = "loading"
    PROVE  \/ UNCHANGED runVars
           \/ ConfigFails
           \/ \E r \in Requests : Select(r) \/ SelectFails(r)
  BY DEF RunNext, Load, Fail, AcquireToken, AcquireFails,
         FindProject, ProjectUnknown, BwsFails, JoinsGroup, CollectSecrets, Resolve,
         SecretUnknown, AllResolved, Delivers, ExecRuntime, SendTransfer, ProxyReady,
         SuperviseRuntime, ExecutionFails, StartFails, NotReady, SuperviseFails

\* The steps once there is a selection.
LEMMA LaterSteps ==
    ASSUME [RunNext]_<<vars, runVars>>, stage # "loading"
    PROVE  \/ UNCHANGED runVars \/ JoinsGroup \/ AllResolved
           \/ \E out \in Stdouts : AcquireToken(out)
           \/ FindProject \/ CollectSecrets \/ Delivers
           \/ AcquireFails \/ ProjectUnknown \/ BwsFails \/ SecretUnknown \/ ExecutionFails
  BY DEF RunNext, Load, ConfigFails, Select, SelectFails

\* The steps of the delivery, and its failures: all has been resolved before and
\* stays so.
LEMMA DeliverySteps ==
    ASSUME StageInv, Delivers \/ ExecutionFails
    PROVE  /\ stage \in {"delivering", "sent", "ready", "running"} /\ exit = 0
           /\ \/ stage' \in {"sent", "ready", "running"} /\ exit' = 0
              \/ stage' = "failed" /\ exit' = 6
           /\ group' = group /\ resolved' = resolved /\ acquired' = acquired
           /\ Done /\ Done' /\ ~Resolving /\ ~Resolving'
  <1>1. CASE Delivers
    BY <1>1 DEF Delivers, ExecRuntime, SendTransfer, ProxyReady, SuperviseRuntime, StageInv,
       Done, Resolving
  <1>2. CASE ExecutionFails
    BY <1>2 DEF ExecutionFails, StartFails, NotReady, SuperviseFails, Fail, StageInv,
       Done, Resolving
  <1>3. QED
    BY <1>1, <1>2

LEMMA StageStep == StageInv /\ [RunNext]_<<vars, runVars>> => StageInv'
  <1> SUFFICES ASSUME StageInv, [RunNext]_<<vars, runVars>> PROVE StageInv'
    OBVIOUS
  <1>1. CASE stage = "loading"
    <2>1. CASE UNCHANGED runVars
      BY <1>1, <2>1 DEF StageInv, runVars, delivery
    <2>2. CASE ConfigFails
      BY <1>1, <2>2 DEF StageInv, ConfigFails, Fail, vars, delivery
    <2>3. ASSUME NEW r \in Requests, Select(r) PROVE StageInv'
      BY <1>1, <2>3 DEF StageInv, Select, delivery
    <2>4. ASSUME NEW r \in Requests, SelectFails(r) PROVE StageInv'
      BY <1>1, <2>4 DEF StageInv, SelectFails, vars, Lookup, delivery
    <2>5. QED
      BY <1>1, <2>1, <2>2, <2>3, <2>4, FirstSteps
  <1>2. CASE stage # "loading"
    <2>1. phase' = phase /\ config' = config /\ account' = account /\ request' = request
      BY <1>2, SelectionStays
    <2>2. \A l, id : Lookup(l, id)' = Lookup(l, id)
      BY <2>1 DEF Lookup
    <2>3. CASE UNCHANGED runVars
      BY <2>1, <2>2, <2>3 DEF StageInv, runVars, delivery
    <2>4. CASE AcquireFails \/ ProjectUnknown \/ BwsFails \/ SecretUnknown
      BY <2>1, <2>2, <2>4 DEF StageInv, AcquireFails, ProjectUnknown, BwsFails, SecretUnknown,
         Fail, delivery
    <2>5. ASSUME NEW out \in Stdouts, AcquireToken(out) PROVE StageInv'
      BY <2>1, <2>2, <2>5 DEF StageInv, AcquireToken, delivery
    <2>6. CASE FindProject \/ JoinsGroup \/ AllResolved
      BY <2>1, <2>2, <2>6 DEF StageInv, FindProject, JoinsGroup, AllResolved, delivery
    <2>7. CASE CollectSecrets
      <3>1. /\ stage = "collecting" /\ stage' = "acquiring" /\ group' = group + 1
            /\ argv' = argv /\ routes' = routes /\ acquired' = acquired /\ exit' = exit
        BY <2>7 DEF CollectSecrets, Resolve, delivery
      <3>2. QED
        BY <2>1, <2>2, <3>1 DEF StageInv
    <2>8. CASE Delivers \/ ExecutionFails
      <3>1. /\ group' = group /\ exit' \in {0, 6} /\ (exit' = 0 => stage' # "failed")
            /\ \/ stage' \in {"sent", "ready", "running"} /\ exit' = 0
               \/ stage' = "failed" /\ exit' = 6
        BY <2>8, DeliverySteps
      <3>2. QED
        BY <2>1, <3>1 DEF StageInv
    <2>9. QED
      BY <1>2, <2>3, <2>4, <2>5, <2>6, <2>7, <2>8
         DEF RunNext, Load, ConfigFails, Select, SelectFails
  <1>3. QED
    BY <1>1, <1>2

LEMMA SelectionStep ==
    StageInv /\ SelectionInv /\ [RunNext]_<<vars, runVars>> => SelectionInv'
  <1> SUFFICES ASSUME StageInv, SelectionInv, [RunNext]_<<vars, runVars>> PROVE SelectionInv'
    OBVIOUS
  <1>1. CASE stage = "loading"
    <2>1. CASE UNCHANGED runVars
      BY <1>1, <2>1 DEF StageInv, SelectionInv, Selected, Resolving, Done, runVars
    <2>2. CASE ConfigFails
      BY <1>1, <2>2 DEF SelectionInv, Selected, Resolving, Done, ConfigFails, Fail
    <2>3. ASSUME NEW r \in Requests, Select(r) PROVE SelectionInv'
      <3>1. PICK p \in Lookup("policies", r.command), c \in Lookup("contexts", r.context) :
               policy' = config["policies"][p] /\ context' = config["contexts"][c]
        BY <2>3 DEF Select
      <3>2. /\ p \in DOMAIN config["policies"] /\ config["policies"][p].id = r.command
            /\ c \in DOMAIN config["contexts"] /\ config["contexts"][c].id = r.context
        BY <3>1 DEF Lookup
      <3>3. QED
        BY <2>3, <3>1, <3>2 DEF SelectionInv, Select, vars
    <2>4. ASSUME NEW r \in Requests, SelectFails(r) PROVE SelectionInv'
      BY <1>1, <2>4 DEF SelectionInv, Selected, Resolving, Done, SelectFails
    <2>5. QED
      BY <1>1, <2>1, <2>2, <2>3, <2>4, FirstSteps
  <1>2. CASE stage # "loading"
    <2>1. Selected' => Selected
      BY <1>2, LaterSteps, DeliverySteps DEF Selected, Resolving, Done, StageInv, Fail,
         AcquireToken, AcquireFails, FindProject, ProjectUnknown, BwsFails, JoinsGroup,
         CollectSecrets, Resolve, SecretUnknown, AllResolved, runVars
    <2>2. /\ phase' = phase /\ config' = config /\ account' = account /\ policy' = policy
          /\ context' = context /\ request' = request
      BY <1>2, SelectionStays
    <2>3. QED
      BY <2>1, <2>2 DEF SelectionInv
  <1>3. QED
    BY <1>1, <1>2

-----------------------------------------------------------------------------
(* The cursor.                                                             *)

\* What every step of the proofs below has at hand.
StepFacts == IInv /\ StageInv /\ SelectionInv /\ [RunNext]_<<vars, runVars>>

LEMMA DeclaredOf ==
    ASSUME IInv, SelectionInv, Selected
    PROVE  /\ IsSequence(policy.secrets) /\ IsSequence(policy.proxied) /\ NamesAreSound(policy)
           /\ \A id \in References(policy) : Lookup("providers", id) # {}
           /\ IsSequence(Declared(policy))
           /\ References(policy) = {Declared(policy)[k].provider : k \in DOMAIN Declared(policy)}
  <1>1. PICK i \in DOMAIN config["policies"] : policy = config["policies"][i]
    BY DEF SelectionInv
  <1>2. phase = "accepted"
    BY DEF SelectionInv
  <1>3. /\ IsSequence(policy.secrets) /\ IsSequence(policy.proxied) /\ NamesAreSound(policy)
        /\ \A id \in References(policy) : Lookup("providers", id) # {}
    BY <1>1, <1>2, PolicyIs
  <1>4. QED
    BY <1>3, DeclaredIs

\* The policy of a Select is one that the lemmas above apply to.
LEMMA SelectedIs ==
    ASSUME IInv, NEW r, Select(r)
    PROVE  IsSequence(Declared(policy'))
  <1>1. PICK p \in Lookup("policies", r.command) : policy' = config["policies"][p]
    BY DEF Select
  <1>2. p \in DOMAIN config["policies"] /\ phase = "accepted"
    BY <1>1 DEF Lookup, Select
  <1>3. PICK q : q = policy'
    OBVIOUS
  <1>4. IsSequence(q.secrets) /\ IsSequence(q.proxied)
    BY <1>1, <1>2, <1>3, PolicyIs
  <1>5. IsSequence(Declared(q))
    BY <1>4, DeclaredIs
  <1>6. QED
    BY <1>3, <1>5

LEMMA CursorStep == StepFacts /\ CursorInv => CursorInv'
  <1> SUFFICES ASSUME StepFacts, CursorInv PROVE CursorInv'
    OBVIOUS
  <1> USE DEF StepFacts
  <1>1. CASE stage = "loading"
    <2>1. CASE UNCHANGED runVars \/ ConfigFails
      BY <1>1, <2>1 DEF CursorInv, StageInv, runVars, ConfigFails, Fail, Done
    <2>2. ASSUME NEW r \in Requests, Select(r) PROVE CursorInv'
      <3>1. IsSequence(Declared(policy'))
        BY <2>2, SelectedIs
      <3>2. stage' = "acquiring" /\ group' = 1 /\ exit' = 0
        BY <1>1, <2>2 DEF Select, StageInv
      <3>3. 1 <= Len(Declared(policy')) + 1
        BY <3>1 DEF IsSequence
      <3>4. QED
        BY <3>2, <3>3 DEF CursorInv, Done
    <2>3. ASSUME NEW r \in Requests, SelectFails(r) PROVE CursorInv'
      BY <2>3 DEF CursorInv, SelectFails, Done
    <2>4. QED
      BY <1>1, <2>1, <2>2, <2>3, FirstSteps
  <1>2. CASE stage # "loading" /\ ~Selected
    <2>1. stage = "failed" /\ exit \in {3, 4}
      BY <1>2 DEF StageInv, Selected, Resolving, Done
    <2>2. stage' = "failed" /\ exit' = exit
      BY <1>2, <2>1, LaterSteps, DeliverySteps DEF runVars, JoinsGroup, AllResolved,
         AcquireToken, FindProject, CollectSecrets, AcquireFails, ProjectUnknown, BwsFails,
         SecretUnknown
    <2>3. QED
      BY <2>1, <2>2 DEF CursorInv, Done
  <1>3. CASE stage # "loading" /\ Selected
    <2>1. PICK D : D = Declared(policy)
      OBVIOUS
    <2>2. policy' = policy
      BY <1>3, SelectionStays
    <2>3. D = Declared(policy')
      BY <2>1, <2>2
    <2>4. IsSequence(D)
      BY <1>3, <2>1, DeclaredOf
    <2>5. \A i : Leads(i) => Declares(i)
      BY DEF Leads
    <2>6. \A i : Declares(i) <=> i \in DOMAIN D
      BY <2>1 DEF Declares
    <2>7. \A i : Declares(i)' <=> i \in DOMAIN D
      BY <2>3 DEF Declares
    <2>8. \A i : Leads(i)' <=> Leads(i)
      BY <2>1, <2>3, <2>6, <2>7 DEF Leads
    <2>9. Leads(group)' <=> Leads(group')
      BY <2>2 DEF Leads, Declares
    <2>10. Declares(group)' <=> Declares(group')
      BY <2>2 DEF Declares
    <2> DEFINE N == Len(D)
    <2>11. N \in Nat /\ DOMAIN D = 1..N /\ group \in Nat
      BY <2>4 DEF IsSequence, StageInv
    <2>12. /\ stage \in {"finding", "collecting"} => Leads(group)
           /\ stage = "acquiring" => group <= N + 1
           /\ Done => group = N + 1
           /\ exit = 5 => Declares(group)
      BY <2>1 DEF CursorInv
    <2>13. SUFFICES /\ stage' \in {"finding", "collecting"} => Leads(group')
                    /\ stage' = "acquiring" => group' <= N + 1
                    /\ Done' => group' = N + 1
                    /\ exit' = 5 => Declares(group')
      BY <2>3, <2>9, <2>10 DEF CursorInv
    <2> HIDE DEF N
    <2>14. CASE UNCHANGED runVars
      BY <2>12, <2>14 DEF runVars, Done
    <2>15. CASE JoinsGroup
      BY <2>6, <2>11, <2>12, <2>15 DEF JoinsGroup, Done, StageInv
    <2>16. CASE AllResolved
      BY <2>1, <2>12, <2>16 DEF AllResolved, Done, StageInv, N
    <2>17. ASSUME NEW out \in Stdouts, AcquireToken(out)
           PROVE  Leads(group') /\ stage' = "finding" /\ ~Done' /\ exit' # 5
      BY <2>17 DEF AcquireToken, Done, StageInv
    <2>18. CASE FindProject
      BY <2>12, <2>18 DEF FindProject, Done, StageInv
    <2>19. CASE CollectSecrets
      <3>1. /\ stage = "collecting" /\ stage' = "acquiring" /\ group' = group + 1 /\ exit' = exit
        BY <2>19 DEF CollectSecrets, Resolve
      <3>2. QED
        BY <2>5, <2>6, <2>11, <2>12, <3>1 DEF StageInv, Done
    <2>20. CASE Delivers \/ ExecutionFails
      <3>1. /\ Done /\ group' = group /\ exit' # 5
            /\ stage' \notin {"acquiring", "finding", "collecting"}
        BY <2>20, DeliverySteps
      <3>2. QED
        BY <2>12, <3>1
    <2>21. CASE AcquireFails \/ ProjectUnknown \/ BwsFails \/ SecretUnknown
      BY <2>5, <2>12, <2>21 DEF AcquireFails, ProjectUnknown, BwsFails, SecretUnknown, Fail, Done
    <2>22. QED
      BY <1>3, <2>14, <2>15, <2>16, <2>17, <2>18, <2>19, <2>20, <2>21, LaterSteps
  <1>4. QED
    BY <1>1, <1>2, <1>3

-----------------------------------------------------------------------------
(* The tokens.                                                             *)

LEMMA TokenStep == StageInv /\ TokenInv /\ [RunNext]_<<vars, runVars>> => TokenInv'
  <1> SUFFICES ASSUME StageInv, TokenInv, [RunNext]_<<vars, runVars>>,
                      stage' \in {"finding", "collecting"}
               PROVE  stdout' \in Stdouts /\ token' = Strip(stdout') /\ token' # <<>>
    BY DEF TokenInv
  <1>1. stage # "loading"
    BY FirstSteps DEF StageInv, runVars, ConfigFails, Fail, Select, SelectFails
  <1>2. CASE UNCHANGED runVars \/ FindProject
    BY <1>2 DEF TokenInv, runVars, credential, FindProject
  <1>3. ASSUME NEW out \in Stdouts, AcquireToken(out)
        PROVE  stdout' \in Stdouts /\ token' = Strip(stdout') /\ token' # <<>>
    BY <1>3 DEF AcquireToken
  <1>4. QED
    BY <1>1, <1>2, <1>3, LaterSteps, DeliverySteps DEF JoinsGroup, AllResolved, CollectSecrets,
       Resolve, AcquireFails, ProjectUnknown, BwsFails, SecretUnknown, Fail

LEMMA AcquiredStep == StepFacts /\ CursorInv /\ AcquiredInv => AcquiredInv'
  <1> SUFFICES ASSUME StepFacts, CursorInv, AcquiredInv PROVE AcquiredInv'
    OBVIOUS
  <1> USE DEF StepFacts
  <1>1. CASE acquired' = <<>> /\ ~(Resolving \/ Done)'
    BY <1>1 DEF AcquiredInv
  <1>2. CASE stage = "loading"
    <2>1. CASE UNCHANGED runVars \/ ConfigFails
      BY <1>1, <1>2, <2>1 DEF StageInv, runVars, ConfigFails, Fail, Resolving, Done
    <2>2. ASSUME NEW r \in Requests, Select(r) PROVE AcquiredInv'
      <3>1. IsSequence(Declared(policy'))
        BY <2>2, SelectedIs
      <3>2. stage' = "acquiring" /\ group' = 1 /\ acquired' = <<>>
        BY <1>2, <2>2 DEF Select, StageInv
      <3>3. \A k \in DOMAIN Declared(policy') : ~Past(k)'
        BY <3>1, <3>2 DEF IsSequence, Past
      <3>4. QED
        BY <3>2, <3>3 DEF AcquiredInv
    <2>3. ASSUME NEW r \in Requests, SelectFails(r) PROVE AcquiredInv'
      BY <1>1, <1>2, <2>3 DEF StageInv, SelectFails, Resolving, Done
    <2>4. QED
      BY <1>2, <2>1, <2>2, <2>3, FirstSteps
  <1>3. CASE stage # "loading" /\ ~Selected
    <2>1. stage = "failed" /\ exit \in {3, 4} /\ acquired = <<>>
      BY <1>3 DEF StageInv, Selected, Resolving, Done
    <2>2. stage' = "failed" /\ exit' = exit /\ acquired' = acquired
      BY <1>3, <2>1, LaterSteps, DeliverySteps DEF runVars, JoinsGroup, AllResolved,
         AcquireToken, FindProject, CollectSecrets, AcquireFails, ProjectUnknown, BwsFails,
         SecretUnknown
    <2>3. QED
      BY <1>1, <2>1, <2>2 DEF Resolving, Done
  <1>4. CASE stage # "loading" /\ Selected
    <2>1. PICK D : D = Declared(policy)
      OBVIOUS
    <2>2. policy' = policy
      BY <1>4, SelectionStays
    <2>3. PICK R : R = References(policy)
      OBVIOUS
    <2>4. IsSequence(D) /\ R = {D[k].provider : k \in DOMAIN D}
      BY <1>4, <2>1, <2>3, DeclaredOf
    <2>5. D = Declared(policy') /\ R = References(policy')
      BY <2>1, <2>2, <2>3
    <2> DEFINE N == Len(D)
               Was(k) == k < group \/ (k = group /\ stage \in {"finding", "collecting"})
               Will(k) == k < group' \/ (k = group' /\ stage' \in {"finding", "collecting"})
    <2>6. N \in Nat /\ DOMAIN D = 1..N /\ group \in Nat
      BY <2>4 DEF IsSequence, StageInv
    <2>7. /\ acquired \in Seq(R)
          /\ \A i, j \in DOMAIN acquired : acquired[i] = acquired[j] => i = j
          /\ Resolving \/ Done =>
               /\ \A k \in DOMAIN D : Was(k) => \E i \in DOMAIN acquired : acquired[i] = D[k].provider
               /\ \A i \in DOMAIN acquired : \E k \in DOMAIN D :
                     Was(k) /\ acquired[i] = D[k].provider
      BY <2>1, <2>3 DEF AcquiredInv, Past
    <2> DEFINE Goal ==
          /\ acquired' \in Seq(R)
          /\ \A i, j \in DOMAIN acquired' : acquired'[i] = acquired'[j] => i = j
          /\ (Resolving \/ Done)' =>
               /\ \A k \in DOMAIN D : Will(k) =>
                     \E i \in DOMAIN acquired' : acquired'[i] = D[k].provider
               /\ \A i \in DOMAIN acquired' : \E k \in DOMAIN D :
                     Will(k) /\ acquired'[i] = D[k].provider
    <2>8. SUFFICES Goal
      BY <2>5 DEF AcquiredInv, Past
    <2>9. \A i : Leads(i) <=> i \in DOMAIN D /\ \A j \in 1..(i - 1) : D[j].provider # D[i].provider
      BY <2>1 DEF Leads, Declares
    <2> HIDE DEF N
    <2>10. ASSUME acquired' = acquired, (Resolving \/ Done)' => Resolving \/ Done,
                  (Resolving \/ Done)' => \A k \in DOMAIN D : Will(k) <=> Was(k)
           PROVE  Goal
      BY <2>7, <2>10
    <2>11. CASE UNCHANGED runVars
      <3>1. acquired' = acquired /\ group' = group /\ stage' = stage /\ exit' = exit
        BY <2>11 DEF runVars
      <3>2. QED
        BY <2>10, <3>1 DEF Resolving, Done
    <2>12. CASE JoinsGroup
      <3>1. /\ stage = "acquiring" /\ group \in DOMAIN D /\ ~Leads(group)
            /\ group' = group + 1 /\ acquired' = acquired /\ stage' = stage
        BY <2>1, <2>12 DEF JoinsGroup, Declares
      <3>2. PICK j \in 1..(group - 1) : D[j].provider = D[group].provider
        BY <3>1, <2>9
      <3>3. j \in DOMAIN D /\ Was(j)
        BY <3>1, <2>6
      <3>4. \A k \in DOMAIN D : Will(k) <=> Was(k) \/ k = group
        BY <3>1, <2>6
      <3>5. /\ \A k \in DOMAIN D : Was(k) => \E i \in DOMAIN acquired : acquired[i] = D[k].provider
            /\ \A i \in DOMAIN acquired : \E k \in DOMAIN D :
                  Was(k) /\ acquired[i] = D[k].provider
        BY <2>7, <3>1 DEF Resolving
      <3> HIDE DEF Was, Will
      <3>6. \A k \in DOMAIN D : Will(k) => \E i \in DOMAIN acquired : acquired[i] = D[k].provider
        BY <3>2, <3>3, <3>4, <3>5
      <3>7. \A i \in DOMAIN acquired : \E k \in DOMAIN D : Will(k) /\ acquired[i] = D[k].provider
        BY <3>4, <3>5
      <3>8. QED
        BY <2>7, <3>1, <3>6, <3>7
    <2>13. ASSUME NEW out \in Stdouts, AcquireToken(out) PROVE Goal
      <3>1. PICK id : id = D[group].provider
        OBVIOUS
      <3>2. /\ stage = "acquiring" /\ Leads(group) /\ group' = group /\ stage' = "finding"
            /\ acquired' = Append(acquired, id)
        BY <2>1, <2>13, <3>1 DEF AcquireToken, Id
      <3>3. group \in DOMAIN D /\ \A j \in 1..(group - 1) : D[j].provider # id
        BY <2>9, <3>1, <3>2
      <3>4. /\ \A k \in DOMAIN D : Was(k) => \E i \in DOMAIN acquired : acquired[i] = D[k].provider
            /\ \A i \in DOMAIN acquired : \E k \in DOMAIN D :
                  Was(k) /\ acquired[i] = D[k].provider
        BY <2>7, <3>2 DEF Resolving
      <3>5. \A k \in DOMAIN D : /\ Will(k) <=> Was(k) \/ k = group
                                /\ Was(k) => k \in 1..(group - 1)
        BY <2>6, <3>2
      <3>6. id \in R
        BY <2>4, <3>1, <3>3
      <3> HIDE DEF Was, Will
      <3>7. \A i \in DOMAIN acquired : acquired[i] # id
        BY <3>3, <3>4, <3>5
      <3>8. PICK n \in Nat : /\ n = Len(acquired) /\ DOMAIN acquired = 1..n
                             /\ acquired' \in Seq(R) /\ DOMAIN acquired' = 1..(n + 1)
                             /\ acquired'[n + 1] = id
                             /\ \A i \in 1..n : acquired'[i] = acquired[i]
        BY <2>7, <3>2, <3>6
      <3>9. \A i \in DOMAIN acquired' : i \in DOMAIN acquired \/ i = n + 1
        BY <3>8
      <3>10. \A i \in DOMAIN acquired : i \in DOMAIN acquired'
        BY <3>8
      <3>11. \A i, j \in DOMAIN acquired' : acquired'[i] = acquired'[j] => i = j
        BY <2>7, <3>7, <3>8, <3>9
      <3>12. \A k \in DOMAIN D : Will(k) => \E i \in DOMAIN acquired' : acquired'[i] = D[k].provider
        <4>1. (n + 1) \in DOMAIN acquired'
          BY <3>8
        <4>2. QED
          BY <4>1, <3>1, <3>4, <3>5, <3>8, <3>10
      <3>13. \A i \in DOMAIN acquired' : \E k \in DOMAIN D : Will(k) /\ acquired'[i] = D[k].provider
        BY <3>1, <3>3, <3>4, <3>5, <3>8, <3>9
      <3>14. QED
        BY <3>8, <3>11, <3>12, <3>13
    <2>14. CASE FindProject
      <3>1. acquired' = acquired /\ group' = group /\ stage = "finding" /\ stage' = "collecting"
        BY <2>14 DEF FindProject
      <3>2. QED
        BY <2>10, <3>1 DEF Resolving
    <2>15. CASE CollectSecrets
      <3>1. /\ acquired' = acquired /\ group' = group + 1
            /\ stage = "collecting" /\ stage' = "acquiring"
        BY <2>15 DEF CollectSecrets, Resolve
      <3>2. QED
        BY <2>6, <2>10, <3>1 DEF Resolving
    <2>16. CASE AllResolved
      <3>1. /\ acquired' = acquired /\ group' = group
            /\ stage = "acquiring" /\ stage' = "delivering"
        BY <2>16 DEF AllResolved
      <3>2. QED
        BY <2>10, <3>1 DEF Resolving
    <2>17. CASE Delivers \/ ExecutionFails
      <3>1. /\ acquired' = acquired /\ group' = group /\ Done
            /\ stage \notin {"finding", "collecting"} /\ stage' \notin {"finding", "collecting"}
        BY <2>17, DeliverySteps
      <3>2. QED
        BY <2>10, <3>1
    <2>18. CASE AcquireFails \/ ProjectUnknown \/ BwsFails \/ SecretUnknown
      <3>1. acquired' = acquired /\ stage' = "failed" /\ exit' = 5
        BY <2>18 DEF AcquireFails, ProjectUnknown, BwsFails, SecretUnknown, Fail
      <3>2. QED
        BY <2>10, <3>1 DEF Resolving, Done
    <2>19. QED
      BY <1>4, <2>11, <2>12, <2>13, <2>14, <2>15, <2>16, <2>17, <2>18, LaterSteps
  <1>5. QED
    BY <1>2, <1>3, <1>4

-----------------------------------------------------------------------------
(* The values.                                                             *)

LEMMA ProjectStep ==
    StageInv /\ ProjectInv /\ [RunNext]_<<vars, runVars>> => ProjectInv'
  <1> SUFFICES ASSUME StageInv, ProjectInv, [RunNext]_<<vars, runVars>>, stage' = "collecting"
               PROVE  (\E i \in FirstProject(Provider(Id).project) : project = account.projects[i].id)'
    BY DEF ProjectInv
  <1>1. stage # "loading"
    BY FirstSteps DEF StageInv, runVars, ConfigFails, Fail, Select, SelectFails
  <1>2. CASE UNCHANGED runVars \/ FindProject
    <2>1. group' = group
      BY <1>2 DEF runVars, FindProject
    <2>2. policy' = policy /\ config' = config /\ account' = account
      BY <1>1, SelectionStays
    <2>3. Id' = Id
      BY <2>1, <2>2 DEF Id
    <2>4. \A id : Provider(id)' = Provider(id)
      BY <2>2 DEF Provider, Lookup
    <2>5. \A name : FirstProject(name)' = FirstProject(name)
      BY <2>2 DEF FirstProject
    <2>6. PICK name : name = Provider(Id).project
      OBVIOUS
    <2>7. name = (Provider(Id).project)'
      BY <2>3, <2>4, <2>6
    <2>8. \E i \in FirstProject(name) : project' = account'.projects[i].id
      BY <1>1, <1>2, <2>2, <2>6 DEF ProjectInv, FindProject, runVars, credential
    <2>9. QED
      BY <2>5, <2>7, <2>8
  <1>3. QED
    BY <1>1, <1>2, LaterSteps, DeliverySteps DEF JoinsGroup, AllResolved, AcquireToken,
       CollectSecrets, Resolve, AcquireFails, ProjectUnknown, BwsFails, SecretUnknown, Fail

\* The provider of an identifier that is declared is an entry of the document.
LEMMA ProviderIs ==
    ASSUME IInv, NEW id, Lookup("providers", id) # {}
    PROVE  \E p \in Positions("providers") :
              EntryAt("providers", p) = Provider(id) /\ EntryAt("providers", p).id = id
  <1> DEFINE i == CHOOSE i \in Lookup("providers", id) : TRUE
  <1>1. i \in Lookup("providers", id)
    OBVIOUS
  <1>2. Provider(id) = config["providers"][i]
    BY DEF Provider
  <1> HIDE DEF i
  <1>3. i \in DOMAIN config["providers"] /\ config["providers"][i].id = id
    BY <1>1 DEF Lookup
  <1>4. "providers" \in Lists
    BY DEF Lists
  <1>5. QED
    BY <1>2, <1>3, <1>4 DEF IInv, ImageInv

\* What IsMeant says does not depend on anything a later step changes.
LEMMA SameMeaning ==
    ASSUME document' = document, account' = account
    PROVE  \A v, s : IsMeant(v, s)' <=> IsMeant(v, s)
  <1>1. /\ \A l : Positions(l)' = Positions(l)
        /\ \A l, p : EntryAt(l, p)' = EntryAt(l, p)
    BY SameDocument
  <1>2. QED
    BY <1>1 DEF IsMeant

LEMMA CollectedIsMeant ==
    ASSUME IInv, SelectionInv, Selected, ProjectInv, stage = "collecting", Declares(group),
           NEW name \in Found
    PROVE  IsMeant(Collected[name], [provider |-> Id, name |-> name])
  <1>1. Id \in References(policy)
    BY DeclaredOf DEF Id, Declares
  <1>2. PICK p \in Positions("providers") :
           EntryAt("providers", p) = Provider(Id) /\ EntryAt("providers", p).id = Id
    BY <1>1, DeclaredOf, ProviderIs
  <1>3. PICK i \in FirstProject(Provider(Id).project) : project = account.projects[i].id
    BY DEF ProjectInv
  <1>4. /\ i \in DOMAIN account.projects /\ account.projects[i].name = Provider(Id).project
        /\ \A j \in 1..(i - 1) : account.projects[j].name # Provider(Id).project
    BY <1>3 DEF FirstProject
  <1>5. IsSequence(account.projects) /\ IsSequence(account.secrets[project])
    BY <1>3, <1>4, AccountsAssumption DEF SelectionInv
  <1>6. \A j \in DOMAIN account.projects :
           account.projects[j].name = account.projects[i].name => i <= j
    <2> SUFFICES ASSUME NEW j \in DOMAIN account.projects, ~(i <= j)
                 PROVE  account.projects[j].name # account.projects[i].name
      OBVIOUS
    <2>1. j \in 1..(i - 1)
      BY <1>4, <1>5 DEF IsSequence
    <2>2. QED
      BY <2>1, <1>4
  <1>7. Listing = account.secrets[account.projects[i].id] /\ IsSequence(Listing)
    BY <1>3, <1>5 DEF Listing
  <1>8. PICK n \in DOMAIN Listing : Listing[n] = name
    BY DEF Found
  <1> DEFINE k == LastOf(Listing, name)
  <1>9. /\ k \in DOMAIN Listing /\ Listing[k] = name
        /\ \A j \in DOMAIN Listing : Listing[j] = name => j <= k
    BY <1>7, <1>8, LastIs
  <1>10. Collected[name] = <<"raw", account.projects[i].id, k>>
    BY <1>3 DEF Collected
  <1> HIDE DEF k
  <1> DEFINE s == [provider |-> Id, name |-> name]
  <1>11. s.provider = Id /\ s.name = name
    OBVIOUS
  <1> HIDE DEF s
  <1>12. QED
    <2>1. IsMeant(Collected[name], s)
      BY <1>2, <1>4, <1>6, <1>7, <1>9, <1>10, <1>11 DEF IsMeant
    <2>2. QED
      BY <2>1 DEF s

LEMMA ResolvedStep ==
    StepFacts /\ CursorInv /\ ProjectInv /\ ResolvedInv => ResolvedInv'
  <1> SUFFICES ASSUME StepFacts, CursorInv, ProjectInv, ResolvedInv, (Resolving \/ Done)'
               PROVE  ResolvedInv'
    BY DEF ResolvedInv
  <1> USE DEF StepFacts
  <1>1. CASE stage = "loading"
    <2>1. CASE UNCHANGED runVars \/ ConfigFails
      BY <1>1, <2>1 DEF StageInv, runVars, ConfigFails, Fail, Resolving, Done
    <2>2. ASSUME NEW r \in Requests, Select(r) PROVE ResolvedInv'
      <3>1. IsSequence(Declared(policy'))
        BY <2>2, SelectedIs
      <3>2. group' = 1 /\ DOMAIN resolved' = {}
        BY <1>1, <2>2 DEF Select, StageInv, Nothing
      <3>3. \A k \in DOMAIN Declared(policy') : ~(k < group')
        BY <3>1, <3>2 DEF IsSequence
      <3>4. QED
        BY <3>2, <3>3 DEF ResolvedInv
    <2>3. ASSUME NEW r \in Requests, SelectFails(r) PROVE ResolvedInv'
      BY <2>3 DEF SelectFails, Resolving, Done
    <2>4. QED
      BY <1>1, <2>1, <2>2, <2>3, FirstSteps
  <1>2. CASE stage # "loading"
    <2>1. /\ document' = document /\ account' = account /\ policy' = policy
      BY <1>2, SelectionStays
    <2>2. \A v, s : IsMeant(v, s)' <=> IsMeant(v, s)
      BY <2>1, SameMeaning
    <2>3. PICK D : D = Declared(policy)
      OBVIOUS
    <2>4. D = Declared(policy')
      BY <2>1, <2>3
    <2> DEFINE Had(s) == s.provider \in DOMAIN resolved /\ s.name \in DOMAIN resolved[s.provider]
               Has2(s) == s.provider \in DOMAIN resolved' /\ s.name \in DOMAIN resolved'[s.provider]
    <2>5. SUFFICES
            /\ \A id \in DOMAIN resolved' : \A name \in DOMAIN resolved'[id] :
                  IsMeant(resolved'[id][name], [provider |-> id, name |-> name])
            /\ \A k, m \in DOMAIN D :
                  k < group' /\ D[m].provider = D[k].provider => Has2(D[m])
      BY <2>2, <2>4 DEF ResolvedInv, Holds
    <2> HIDE DEF Had, Has2
    <2>6. ASSUME Resolving \/ Done
          PROVE  /\ \A id \in DOMAIN resolved : \A name \in DOMAIN resolved[id] :
                       IsMeant(resolved[id][name], [provider |-> id, name |-> name])
                 /\ \A k, m \in DOMAIN D :
                       k < group /\ D[m].provider = D[k].provider => Had(D[m])
      BY <2>3, <2>6 DEF ResolvedInv, Holds, Had
    <2>7. ASSUME resolved' = resolved, Resolving \/ Done, group' = group
          PROVE  /\ \A id \in DOMAIN resolved' : \A name \in DOMAIN resolved'[id] :
                       IsMeant(resolved'[id][name], [provider |-> id, name |-> name])
                 /\ \A k, m \in DOMAIN D :
                       k < group' /\ D[m].provider = D[k].provider => Has2(D[m])
      BY <2>6, <2>7 DEF Had, Has2
    <2>8. Resolving \/ Done => Selected
      BY DEF Selected
    <2>9. CASE UNCHANGED runVars
      <3>1. resolved' = resolved /\ group' = group /\ (Resolving \/ Done)
        BY <2>9 DEF runVars, Resolving, Done
      <3>2. QED
        BY <2>7, <3>1
    <2>10. ASSUME NEW out \in Stdouts, AcquireToken(out)
           PROVE  resolved' = resolved /\ group' = group /\ Resolving
      BY <2>10 DEF AcquireToken, Resolving
    <2>11. CASE FindProject \/ AllResolved \/ Delivers \/ ExecutionFails
      <3>1. resolved' = resolved /\ group' = group /\ (Resolving \/ Done)
        BY <2>11, DeliverySteps DEF FindProject, AllResolved, Resolving
      <3>2. QED
        BY <2>7, <3>1
    <2>12. CASE JoinsGroup
      <3>1. /\ group \in DOMAIN D /\ ~Leads(group) /\ resolved' = resolved
            /\ group' = group + 1 /\ Resolving
        BY <2>3, <2>12 DEF JoinsGroup, Declares, Resolving
      <3>2. PICK j \in 1..(group - 1) : D[j].provider = D[group].provider
        BY <2>3, <3>1 DEF Leads, Declares
      <3>3. IsSequence(D)
        BY <2>3, <2>8, <3>1, DeclaredOf
      <3>4. j \in DOMAIN D /\ j < group
        BY <3>1, <3>3 DEF IsSequence
      <3>5. \A k \in DOMAIN D : k < group' => k < group \/ k = group
        BY <3>1, <3>3 DEF IsSequence
      <3>6. \A s : Has2(s) <=> Had(s)
        BY <3>1 DEF Had, Has2
      <3>7. \A k, m \in DOMAIN D : k < group /\ D[m].provider = D[k].provider => Had(D[m])
        BY <2>6, <3>1
      <3>8. \A k, m \in DOMAIN D :
               k < group' /\ D[m].provider = D[k].provider => Has2(D[m])
        BY <3>2, <3>4, <3>5, <3>6, <3>7
      <3>9. QED
        BY <2>6, <3>1, <3>8
    <2>13. CASE CollectSecrets
      <3>1. /\ stage = "collecting" /\ Names \subseteq Found /\ group' = group + 1
            /\ resolved' = [id \in DOMAIN resolved \cup {Id} |->
                              IF id = Id THEN Collected ELSE resolved[id]]
        BY <2>13 DEF CollectSecrets, Resolve
      <3>2. Resolving /\ Selected
        BY <3>1 DEF Resolving, Selected
      <3>3. Declares(group)
        BY <3>1 DEF CursorInv, Leads
      <3>4. \A name \in Found : IsMeant(Collected[name], [provider |-> Id, name |-> name])
        BY <3>1, <3>2, <3>3, CollectedIsMeant
      <3>5. DOMAIN Collected = Found
        BY DEF Collected
      <3>6. PICK here, new : here = Id /\ new = Collected
        OBVIOUS
      <3>7. /\ DOMAIN resolved' = DOMAIN resolved \cup {here} /\ resolved'[here] = new
            /\ \A id \in DOMAIN resolved \ {here} : resolved'[id] = resolved[id]
        BY <3>1, <3>6
      <3>8. \A id \in DOMAIN resolved' : \A name \in DOMAIN resolved'[id] :
               IsMeant(resolved'[id][name], [provider |-> id, name |-> name])
        <4> SUFFICES ASSUME NEW id \in DOMAIN resolved', NEW name \in DOMAIN resolved'[id]
                     PROVE  IsMeant(resolved'[id][name], [provider |-> id, name |-> name])
          OBVIOUS
        <4>1. CASE id = here
          BY <4>1, <3>4, <3>5, <3>6, <3>7
        <4>2. CASE id # here
          BY <4>2, <2>6, <3>2, <3>7
        <4>3. QED
          BY <4>1, <4>2
      <3>9. group \in DOMAIN D /\ D[group].provider = here
        BY <2>3, <3>3, <3>6 DEF Declares, Id
      <3>10. \A m \in DOMAIN D : D[m].provider = here => D[m].name \in DOMAIN new
        BY <2>3, <3>1, <3>5, <3>6 DEF Names
      <3>11. IsSequence(D)
        BY <2>3, <3>2, DeclaredOf
      <3>12. \A k \in DOMAIN D : k < group' => k < group \/ k = group
        BY <3>1, <3>9, <3>11 DEF IsSequence
      <3>13. \A m \in DOMAIN D : D[m].provider = here => Has2(D[m])
        BY <3>7, <3>10 DEF Has2
      <3>14. \A s : s.provider # here /\ Had(s) => Has2(s)
        BY <3>7 DEF Has2, Had
      <3>15. \A k, m \in DOMAIN D : k < group /\ D[m].provider = D[k].provider => Had(D[m])
        BY <2>6, <3>2
      <3>16. \A k, m \in DOMAIN D :
                k < group' /\ D[m].provider = D[k].provider => Has2(D[m])
        BY <3>9, <3>12, <3>13, <3>14, <3>15
      <3>17. QED
        BY <3>8, <3>16
    <2>14. ~(AcquireFails \/ ProjectUnknown \/ BwsFails \/ SecretUnknown)
      BY DEF AcquireFails, ProjectUnknown, BwsFails, SecretUnknown, Fail, Resolving, Done
    <2>15. QED
      BY <1>2, <2>7, <2>9, <2>10, <2>11, <2>12, <2>13, <2>14, LaterSteps
  <1>3. QED
    BY <1>1, <1>2

-----------------------------------------------------------------------------
(* The runtime.                                                            *)

\* What the runtime is given follows from the policy and the values.
LEMMA SameDelivery ==
    ASSUME policy' = policy, resolved' = resolved, context' = context, request' = request
    PROVE  Environment' = Environment /\ Routes' = Routes /\ Argv' = Argv
  <1>1. \A s : Value(s)' = Value(s)
    BY DEF Value
  <1>2. \A d : Carried(d)' = Carried(d)
    BY <1>1 DEF Carried
  <1>3. InOrder(policy)' = InOrder(policy)
    OBVIOUS
  <1>4. Environment' = Environment
    BY <1>2, <1>3 DEF Environment
  <1>5. Routes' = Routes
    BY <1>1 DEF Routes
  <1>6. Argv' = Argv
    BY DEF Argv
  <1>7. QED
    BY <1>4, <1>5, <1>6

LEMMA RuntimeStep == StageInv /\ RuntimeInv /\ [RunNext]_<<vars, runVars>> => RuntimeInv'
  <1> SUFFICES ASSUME StageInv, RuntimeInv, [RunNext]_<<vars, runVars>> PROVE RuntimeInv'
    OBVIOUS
  <1>1. CASE ~Done
    <2>1. stage' \notin {"sent", "ready", "running"} /\ exit' # 6
      <3>1. CASE stage = "loading"
        BY <3>1, FirstSteps DEF StageInv, runVars, ConfigFails, Fail, Select, SelectFails
      <3>2. CASE stage # "loading"
        <4>1. CASE UNCHANGED runVars
          BY <1>1, <4>1 DEF Done, runVars
        <4>2. CASE JoinsGroup \/ AllResolved \/ FindProject \/ CollectSecrets
          <5>1. /\ stage \in {"acquiring", "finding", "collecting"} /\ exit' = exit
                /\ stage' \in {"acquiring", "collecting", "delivering"}
            BY <4>2 DEF JoinsGroup, AllResolved, FindProject, CollectSecrets, Resolve
          <5>2. QED
            BY <5>1 DEF StageInv
        <4>3. ASSUME NEW out \in Stdouts, AcquireToken(out)
              PROVE  stage' \notin {"sent", "ready", "running"} /\ exit' # 6
          BY <4>3 DEF StageInv, AcquireToken
        <4>4. CASE AcquireFails \/ ProjectUnknown \/ BwsFails \/ SecretUnknown
          BY <4>4 DEF AcquireFails, ProjectUnknown, BwsFails, SecretUnknown, Fail
        <4>5. QED
          BY <1>1, <3>2, <4>1, <4>2, <4>3, <4>4, LaterSteps, DeliverySteps
      <3>3. QED
        BY <3>1, <3>2
    <2>2. QED
      BY <2>1 DEF RuntimeInv
  <1>2. CASE Done
    <2>1. stage # "loading"
      BY <1>2 DEF Done, StageInv
    <2>2. policy' = policy /\ context' = context /\ request' = request
      BY <2>1, SelectionStays
    <2>3. UNCHANGED runVars \/ Delivers \/ ExecutionFails
      BY <1>2, <2>1, LaterSteps DEF Done, StageInv, JoinsGroup, AllResolved, AcquireToken,
         FindProject, CollectSecrets, AcquireFails, ProjectUnknown, BwsFails, SecretUnknown
    <2>4. resolved' = resolved
      BY <2>3, DeliverySteps DEF runVars
    <2>5. Environment' = Environment /\ Routes' = Routes /\ Argv' = Argv
      BY <2>2, <2>4, SameDelivery
    <2> DEFINE Goal ==
          /\ stage' \in {"sent", "ready"} =>
               policy.proxied # <<>> /\ routes' = Routes /\ argv' = <<>>
          /\ stage' = "running" =>
               /\ environment' = Environment /\ argv' = Argv
               /\ IF policy.proxied # <<>> THEN routes' = Routes ELSE routes' = <<>>
          /\ exit' = 6 => \/ policy.proxied # <<>> /\ routes' = Routes
                          \/ argv' = <<>> /\ routes' = <<>>
    <2>6. SUFFICES Goal
      BY <2>2, <2>5 DEF RuntimeInv
    <2>7. CASE UNCHANGED runVars
      BY <2>7 DEF runVars, delivery, RuntimeInv
    <2>8. CASE ExecRuntime \/ SendTransfer
      BY <2>8 DEF ExecRuntime, SendTransfer, StageInv
    <2>9. CASE ProxyReady \/ SuperviseRuntime
      BY <2>9 DEF ProxyReady, SuperviseRuntime, StageInv, RuntimeInv, delivery
    <2>10. CASE StartFails
      BY <2>10 DEF StartFails, Fail, StageInv, delivery
    <2>11. CASE NotReady \/ SuperviseFails
      BY <2>11 DEF NotReady, SuperviseFails, Fail, RuntimeInv, delivery
    <2>12. QED
      BY <2>3, <2>7, <2>8, <2>9, <2>10, <2>11 DEF Delivers, ExecutionFails
  <1>3. QED
    BY <1>1, <1>2

\* There is a route for every proxied secret.
LEMMA RoutesAreNotEmpty ==
    ASSUME IsSequence(policy.proxied), policy.proxied # <<>>
    PROVE  Routes # <<>>
  <1>1. PICK rs : rs = Routes
    OBVIOUS
  <1>2. DOMAIN rs = DOMAIN policy.proxied
    BY <1>1 DEF Routes
  <1>3. rs # <<>>
    BY <1>2 DEF IsSequence
  <1>4. QED
    BY <1>1, <1>3

\* Every variable carries what the one declaration of it says.
LEMMA CarriesItsOwn ==
    ASSUME IInv, SelectionInv, Selected, NEW d \in Declarations(policy)
    PROVE  /\ EnvOf(policy, d) \in DOMAIN Environment
           /\ Environment[EnvOf(policy, d)] = Carried(d)
  <1> DEFINE o     == InOrder(policy)
             names == [i \in DOMAIN o |-> EnvOf(policy, o[i])]
             given == {names[i] : i \in DOMAIN names}
             n     == EnvOf(policy, d)
  <1>1. /\ IsSequence(o)
        /\ \A k \in DOMAIN o : o[k] \in Declarations(policy)
        /\ \E k \in DOMAIN o : o[k] = d
    BY DeclaredOf, InOrderIs
  <1>2. PICK k \in DOMAIN o : o[k] = d
    BY <1>1
  <1>3. Environment =
          [x \in DOMAIN Inherited \cup given |->
             IF x \in given THEN Carried(o[LastOf(names, x)]) ELSE Inherited[x]]
    BY DEF Environment
  <1>4. IsSequence(names) /\ DOMAIN names = DOMAIN o
    <2>1. Len(o) \in Nat /\ DOMAIN o = 1..Len(o)
      BY <1>1 DEF IsSequence
    <2> HIDE DEF o
    <2>2. Len(names) = Len(o) /\ DOMAIN names = DOMAIN o
      BY <2>1
    <2>3. QED
      BY <1>1, <2>2 DEF IsSequence
  <1>5. names[k] = n
    BY <1>2
  <1>6. \A i \in DOMAIN names : names[i] = EnvOf(policy, o[i])
    OBVIOUS
  <1>7. n \in given
    BY <1>2, <1>4, <1>5
  <1> HIDE DEF o, names, n, given
  <1> DEFINE l == LastOf(names, n)
  <1>8. l \in DOMAIN names /\ names[l] = n
    BY <1>2, <1>4, <1>5, LastIs
  <1> HIDE DEF l
  <1>9. o[l] \in Declarations(policy) /\ EnvOf(policy, o[l]) = EnvOf(policy, d)
    BY <1>1, <1>4, <1>6, <1>8 DEF n
  <1>10. NamesAreSound(policy)
    BY DeclaredOf
  <1>11. o[l] = d
    BY <1>9, <1>10 DEF NamesAreSound
  <1>12. n \in DOMAIN Environment /\ Environment[n] = Carried(o[LastOf(names, n)])
    BY <1>3, <1>7
  <1>13. QED
    BY <1>11, <1>12 DEF l, n

\* Once all is resolved every declared secret has a value.
LEMMA AllHold ==
    ASSUME RInv, Done
    PROVE  \A k \in DOMAIN Declared(policy) : Holds(Declared(policy)[k])
  <1>1. IsSequence(Declared(policy)) /\ group = Len(Declared(policy)) + 1
    BY DeclaredOf DEF RInv, CursorInv, Selected
  <1>2. \A k \in DOMAIN Declared(policy) : k < group
    BY <1>1 DEF IsSequence
  <1>3. QED
    BY <1>2 DEF RInv, ResolvedInv

\* A secret that has a value has the one that is meant.
LEMMA ValueIsMeant ==
    ASSUME RInv, Done, NEW s,
           NEW k \in DOMAIN Declared(policy),
           Declared(policy)[k] = [provider |-> s.provider, name |-> s.name]
    PROVE  IsMeant(Value(s), s)
  <1>1. Selected /\ Done
    BY DEF Selected
  <1>4. Holds(Declared(policy)[k])
    BY AllHold
  <1>5. s.provider \in DOMAIN resolved /\ s.name \in DOMAIN resolved[s.provider]
    BY <1>4 DEF Holds
  <1>6. IsMeant(Value(s), [provider |-> s.provider, name |-> s.name])
    BY <1>1, <1>5 DEF RInv, ResolvedInv, Value
  <1> DEFINE t == [provider |-> s.provider, name |-> s.name]
  <1>7. t.provider = s.provider /\ t.name = s.name
    OBVIOUS
  <1> HIDE DEF t
  <1>8. IsMeant(Value(s), t)
    BY <1>6 DEF t
  <1>9. QED
    BY <1>7, <1>8 DEF IsMeant

-----------------------------------------------------------------------------
(* The theorems.                                                           *)

LEMMA RunInitInv == RunInit => RInv
  <1> SUFFICES ASSUME RunInit PROVE RInv
    OBVIOUS
  <1>1. IInv
    BY InitInv DEF RunInit
  <1>2. /\ stage = "loading" /\ exit = 0 /\ group = 1 /\ account = Nothing /\ acquired = <<>>
        /\ resolved = Nothing /\ argv = <<>> /\ routes = <<>>
    BY DEF RunInit
  <1>3. acquired \in Seq(References(policy)) /\ DOMAIN acquired = {}
    BY <1>2
  <1>4. StageInv
    BY <1>2 DEF StageInv
  <1>5. ~Resolving /\ ~Done /\ ~Selected
    BY <1>2 DEF Resolving, Done, Selected
  <1>6. SelectionInv /\ ResolvedInv
    BY <1>5 DEF SelectionInv, ResolvedInv
  <1>7. CursorInv /\ TokenInv /\ ProjectInv /\ RuntimeInv
    BY <1>2, <1>5 DEF CursorInv, TokenInv, ProjectInv, RuntimeInv
  <1>8. AcquiredInv
    BY <1>3, <1>5 DEF AcquiredInv
  <1>9. QED
    BY <1>1, <1>4, <1>6, <1>7, <1>8 DEF RInv

LEMMA RunNextInv == RInv /\ [RunNext]_<<vars, runVars>> => RInv'
  <1> SUFFICES ASSUME RInv, [RunNext]_<<vars, runVars>> PROVE RInv'
    OBVIOUS
  <1>1. /\ IInv /\ StageInv /\ SelectionInv /\ CursorInv /\ TokenInv /\ AcquiredInv
        /\ ProjectInv /\ ResolvedInv /\ RuntimeInv
    BY DEF RInv
  <1>2. StepFacts
    BY <1>1 DEF StepFacts
  <1>3. IInv'
    BY <1>1, LoadSteps, NextInv
  <1>4. StageInv' /\ SelectionInv' /\ CursorInv' /\ TokenInv'
    BY <1>1, <1>2, StageStep, SelectionStep, CursorStep, TokenStep
  <1>5. AcquiredInv' /\ ProjectInv' /\ ResolvedInv' /\ RuntimeInv'
    BY <1>1, <1>2, AcquiredStep, ProjectStep, ResolvedStep, RuntimeStep
  <1>6. QED
    BY <1>3, <1>4, <1>5 DEF RInv

\* The invariant above holds in every state of a run.
THEOREM RunInvariant == RunSpec => []RInv
  <1>1. RunInit => RInv
    BY RunInitInv
  <1>2. RInv /\ [RunNext]_<<vars, runVars>> => RInv'
    BY RunNextInv
  <1>3. QED
    BY <1>1, <1>2, PTL DEF RunSpec

\* Every variable of a run has its type.
THEOREM RunTypes == RunSpec => []RunTypeOK
  <1>1. RInv => RunTypeOK
    <2> SUFFICES ASSUME RInv PROVE RunTypeOK
      OBVIOUS
    <2>1. TypeOK
      BY DEF RInv, IInv, TypeInv, TypeOK
    <2>2. stage # "loading" => exit \in {3, 4} \/ Selected
      BY DEF RInv, StageInv, Selected, Resolving, Done
    <2>3. stage # "loading" => exit = 3 \/ phase = "accepted"
      BY <2>2 DEF RInv, StageInv, SelectionInv
    <2>4. QED
      BY <2>1, <2>3 DEF RInv, StageInv, RunTypeOK
  <1>2. QED
    BY <1>1, RunInvariant, PTL

\* The provider of every group is an entry of the document, and before anything
\* is delivered every declared secret has a value: neither lookup of `execute`
\* can fail (main.rs:227-230, 239-245).
THEOREM NoLookupFails == RunSpec => []LookupsSucceed
  <1>1. RInv => LookupsSucceed
    <2> SUFFICES ASSUME RInv PROVE LookupsSucceed
      OBVIOUS
    <2>1. ASSUME stage = "acquiring", Declares(group) PROVE Lookup("providers", Id) # {}
      <3>1. Selected
        BY <2>1 DEF Selected, Resolving
      <3>2. Id \in References(policy)
        BY <2>1, <3>1, DeclaredOf DEF RInv, Id, Declares
      <3>3. QED
        BY <3>1, <3>2, DeclaredOf DEF RInv
    <2>2. ASSUME stage = "delivering"
          PROVE  \A k \in DOMAIN Declared(policy) : Holds(Declared(policy)[k])
      BY <2>2, AllHold DEF Done
    <2>3. QED
      BY <2>1, <2>2 DEF LookupsSucceed
  <1>2. QED
    BY <1>1, RunInvariant, PTL

\* No access-token command runs twice in an invocation, and none runs for a
\* provider that supplies nothing (main.rs:202-222).
THEOREM TokensAreAskedForOnce == RunSpec => []OneTokenPerProvider
  <1>1. RInv => OneTokenPerProvider
    BY DEF RInv, AcquiredInv, OneTokenPerProvider
  <1>2. QED
    BY <1>1, RunInvariant, PTL

LEMMA StripIs ==
    ASSUME NEW S, NEW out \in Seq(S), NEW t, t = Strip(out)
    PROVE  \E e \in {<<"LF">>, <<"CR", "LF">>} \cup {<<>>} :
              /\ out = t \o e
              /\ \A f \in {<<"LF">>, <<"CR", "LF">>} : Len(f) > Len(e) =>
                    ~(\E u \in {SubSeq(out, 1, n) : n \in 0..Len(out)} : out = u \o f)
  <1>1. PICK n : n = Len(out) /\ n \in Nat
    OBVIOUS
  <1>2. ASSUME NEW m \in 0..n, out = SubSeq(out, 1, m) \o <<"LF">>
        PROVE  n >= 1 /\ out[n] = "LF"
    <2>1. n = m + 1
      BY <1>1, <1>2
    <2>2. out[m + 1] = "LF"
      BY <1>1, <1>2
    <2>3. QED
      BY <2>1, <2>2
  <1>3. ASSUME NEW m \in 0..n, out = SubSeq(out, 1, m) \o <<"CR", "LF">>
        PROVE  n >= 2 /\ out[n - 1] = "CR" /\ out[n] = "LF"
    <2>1. n = m + 2
      BY <1>1, <1>3
    <2>2. out[m + 1] = "CR" /\ out[m + 2] = "LF"
      BY <1>1, <1>3
    <2>3. QED
      BY <2>1, <2>2
  <1>4. CASE n >= 2 /\ out[n - 1] = "CR" /\ out[n] = "LF"
    <2>1. t = SubSeq(out, 1, n - 2)
      BY <1>1, <1>4 DEF Strip
    <2>2. out = t \o <<"CR", "LF">>
      BY <1>1, <1>4, <2>1
    <2>3. Len(<<"LF">>) = 1 /\ Len(<<"CR", "LF">>) = 2
      OBVIOUS
    <2>4. \A f \in {<<"LF">>, <<"CR", "LF">>} : ~(Len(f) > Len(<<"CR", "LF">>))
      <3>1. ~(Len(<<"LF">>) > Len(<<"CR", "LF">>)) /\ ~(Len(<<"CR", "LF">>) > Len(<<"CR", "LF">>))
        BY <2>3
      <3>2. QED
        BY <3>1, Zenon
    <2>5. QED
      BY <2>2, <2>4, Zenon
  <1>5. CASE ~(n >= 2 /\ out[n - 1] = "CR" /\ out[n] = "LF") /\ n >= 1 /\ out[n] = "LF"
    <2>1. t = SubSeq(out, 1, n - 1)
      BY <1>1, <1>5 DEF Strip
    <2>2. out = t \o <<"LF">>
      BY <1>1, <1>5, <2>1
    <2>3. \A m \in 0..n : out # SubSeq(out, 1, m) \o <<"CR", "LF">>
      BY <1>3, <1>5
    <2>4. ~(Len(<<"LF">>) > Len(<<"LF">>))
      OBVIOUS
    <2>5. ASSUME NEW f \in {<<"LF">>, <<"CR", "LF">>}, Len(f) > Len(<<"LF">>),
                 NEW u \in {SubSeq(out, 1, m) : m \in 0..Len(out)}, out = u \o f
          PROVE  FALSE
      <3>1. f = <<"CR", "LF">>
        BY <2>4, <2>5, Zenon
      <3>2. PICK m \in 0..n : u = SubSeq(out, 1, m)
        BY <1>1, Zenon
      <3>3. QED
        BY <2>3, <2>5, <3>1, <3>2, Zenon
    <2>6. QED
      BY <2>2, <2>5, Zenon
  <1>6. CASE ~(n >= 1 /\ out[n] = "LF")
    <2>1. t = out
      BY <1>1, <1>6 DEF Strip
    <2>2. out = t \o <<>>
      BY <2>1
    <2>3. \A m \in 0..n : /\ out # SubSeq(out, 1, m) \o <<"CR", "LF">>
                          /\ out # SubSeq(out, 1, m) \o <<"LF">>
      BY <1>1, <1>2, <1>3, <1>6
    <2>4. QED
      BY <1>1, <2>2, <2>3
  <1>7. QED
    BY <1>1, <1>4, <1>5, <1>6

\* The access token is the output of its command less one line ending
\* (strip_one_trailing_line_ending, bws.rs:205-206).
THEOREM TokensAreOutputs == RunSpec => []TokenIsStdout
  <1>1. RInv => TokenIsStdout
    <2> SUFFICES ASSUME RInv, stage \in {"finding", "collecting"} PROVE TokenIsStdout
      BY DEF TokenIsStdout
    <2>1. stdout \in Stdouts /\ token = Strip(stdout) /\ token # <<>>
      BY DEF RInv, TokenInv
    <2>2. stdout \in Seq({stdout[i] : i \in DOMAIN stdout})
      BY <2>1, StdoutsAssumption
    <2>3. \E e \in {<<"LF">>, <<"CR", "LF">>} \cup {<<>>} :
              /\ stdout = token \o e
              /\ \A f \in {<<"LF">>, <<"CR", "LF">>} : Len(f) > Len(e) =>
                    ~(\E u \in {SubSeq(stdout, 1, n) : n \in 0..Len(stdout)} : stdout = u \o f)
      BY <2>1, <2>2, StripIs
    <2>4. QED
      BY <2>1, <2>3 DEF TokenIsStdout
  <1>2. QED
    BY <1>1, RunInvariant, PTL

\* An identifier that is not found is declared nowhere in the document.
LEMMA NotDeclared ==
    ASSUME IInv, phase = "accepted", NEW l \in Lists, NEW id, Lookup(l, id) = {}
    PROVE  \A p \in Positions(l) : EntryAt(l, p).id # id
  <1>1. \A m : Read(m) = Positions(m)
    BY AllIsRead DEF IInv
  <1>2. PICK f \in [DOMAIN config[l] -> Positions(l)] : Matches(l, f)
    BY <1>1 DEF IInv, MatchInv, Active
  <1>3. \A i \in DOMAIN config[l] : config[l][i].id # id
    BY LookupFinds DEF IInv, TypeInv
  <1>4. QED
    BY <1>1, <1>2, <1>3 DEF Matches

\* An exit code of 3 or 4 means that no provider has been asked and says what of
\* the document or of the selection is at fault; only one of 6 can come after
\* something has been sent or started, and then every secret had its value, and a
\* runtime beside a sidecar had its transfer before it (Failure::exit_code,
\* main.rs:74-88, 202-205, 264-294).
THEOREM ExitCodesAreExact == RunSpec => []ExitTellsStage
  <1>1. RInv => ExitTellsStage
    <2> SUFFICES ASSUME RInv, stage = "failed" PROVE ExitTellsStage
      BY DEF ExitTellsStage
    <2>1. exit # 6 => argv = <<>> /\ routes = <<>>
      BY DEF RInv, StageInv
    <2>2. ASSUME exit = 3 PROVE acquired = <<>> /\ (phase = "unreadable" \/ ~WellFormed)
      BY <2>2 DEF RInv, StageInv, IInv, VerdictInv
    <2>3. ASSUME exit = 4
          PROVE  /\ acquired = <<>> /\ WellFormed
                 /\ \/ \A p \in Positions("contexts") : EntryAt("contexts", p).id # request.context
                    \/ \A p \in Positions("policies") : EntryAt("policies", p).id # request.command
      <3>1. /\ acquired = <<>> /\ phase = "accepted" /\ IInv
            /\ Lookup("contexts", request.context) = {} \/ Lookup("policies", request.command) = {}
        BY <2>3 DEF RInv, StageInv
      <3>2. "contexts" \in Lists /\ "policies" \in Lists
        BY DEF Lists
      <3>3. WellFormed
        BY <3>1, AcceptedIsWellFormed
      <3>4. QED
        BY <3>1, <3>2, <3>3, NotDeclared
    <2>4. ASSUME exit = 5 PROVE Declared(policy) # <<>>
      <3>1. group \in DOMAIN Declared(policy)
        BY <2>4 DEF RInv, CursorInv, Declares
      <3>2. QED
        BY <3>1
    <2>5. ASSUME exit = 6
          PROVE  /\ \A k \in DOMAIN Declared(policy) : Holds(Declared(policy)[k])
                 /\ argv # <<>> => routes # <<>>
      <3>1. Done /\ Selected /\ IInv /\ SelectionInv
        BY <2>5 DEF Selected, Done, RInv
      <3>2. \A k \in DOMAIN Declared(policy) : Holds(Declared(policy)[k])
        BY <3>1, AllHold
      <3>3. \/ policy.proxied # <<>> /\ routes = Routes
            \/ argv = <<>> /\ routes = <<>>
        BY <2>5 DEF RInv, RuntimeInv
      <3>4. policy.proxied # <<>> => Routes # <<>>
        BY <3>1, DeclaredOf, RoutesAreNotEmpty
      <3>5. QED
        BY <3>2, <3>3, <3>4
    <2>6. QED
      BY <2>1, <2>2, <2>3, <2>4, <2>5 DEF ExitTellsStage
  <1>2. QED
    BY <1>1, RunInvariant, PTL

\* Every variable a policy declares reaches the runtime with the value it is
\* declared to have, and nothing else is changed (apply_injected_environment,
\* apply_proxy_environment, provision).
THEOREM EnvironmentIsExact == RunSpec => []EnvironmentIsDeclared
  <1>1. RInv => EnvironmentIsDeclared
    <2> SUFFICES ASSUME RInv, stage = "running" PROVE EnvironmentIsDeclared
      BY DEF EnvironmentIsDeclared
    <2>1. Selected /\ Done /\ IInv /\ SelectionInv
      BY DEF Selected, Done, RInv
    <2>2. environment = Environment /\ (policy.proxied # <<>> => routes = Routes)
      BY DEF RInv, RuntimeInv
    <2>3. IsSequence(policy.secrets) /\ IsSequence(policy.proxied)
      BY <2>1, DeclaredOf
    <2>4. /\ \A i \in DOMAIN policy.secrets : IsMeant(Value(policy.secrets[i]), policy.secrets[i])
          /\ \A i \in DOMAIN policy.proxied : IsMeant(Value(policy.proxied[i]), policy.proxied[i])
      BY <2>1, <2>3, DeclaredIs, ValueIsMeant
    <2>5. ASSUME NEW d \in Declarations(policy)
          PROVE  LET given == environment[EnvOf(policy, d)] IN
                 /\ d[1] = "secret"  => IsMeant(given, policy.secrets[d[2]])
                 /\ d[1] = "url"     => given = <<"url">>
                 /\ d[1] = "phantom" =>
                      \E r \in DOMAIN routes :
                         /\ routes[r].phantom = given
                         /\ IsMeant(routes[r].raw, policy.proxied[d[2]])
                         /\ routes[r].upstream = policy.proxied[d[2]].upstream
      <3>1. PICK given : given = environment[EnvOf(policy, d)]
        OBVIOUS
      <3>2. given = Carried(d)
        BY <2>1, <2>2, <3>1, CarriesItsOwn
      <3>3. ASSUME d[1] = "secret" PROVE IsMeant(given, policy.secrets[d[2]])
        <4>1. d[2] \in DOMAIN policy.secrets
          BY <3>3 DEF Declarations
        <4>2. given = Value(policy.secrets[d[2]])
          BY <3>2, <3>3 DEF Carried
        <4>3. QED
          BY <2>4, <4>1, <4>2
      <3>4. ASSUME d[1] = "url" PROVE given = <<"url">>
        BY <3>2, <3>4 DEF Carried
      <3>5. ASSUME d[1] = "phantom"
            PROVE  \E r \in DOMAIN routes :
                      /\ routes[r].phantom = given
                      /\ IsMeant(routes[r].raw, policy.proxied[d[2]])
                      /\ routes[r].upstream = policy.proxied[d[2]].upstream
        <4>1. PICK r \in DOMAIN policy.proxied : r = d[2]
          BY <3>5 DEF Declarations
        <4>2. given = <<"phantom", r>>
          BY <3>2, <3>5, <4>1 DEF Carried
        <4>3. policy.proxied # <<>>
          BY <4>1
        <4>4. /\ r \in DOMAIN routes /\ routes[r].phantom = <<"phantom", r>>
              /\ routes[r].raw = Value(policy.proxied[r])
              /\ routes[r].upstream = policy.proxied[r].upstream
          BY <2>2, <4>3 DEF Routes
        <4>5. IsMeant(routes[r].raw, policy.proxied[r])
          BY <2>4, <4>4
        <4>6. QED
          BY <4>1, <4>2, <4>4, <4>5
      <3>6. QED
        BY <3>1, <3>3, <3>4, <3>5
    <2>6. ASSUME NEW n \in DOMAIN environment
          PROVE  \/ \E d \in Declarations(policy) : EnvOf(policy, d) = n
                 \/ n \in DOMAIN Inherited /\ environment[n] = Inherited[n]
      <3> DEFINE o     == InOrder(policy)
                 names == [i \in DOMAIN o |-> EnvOf(policy, o[i])]
                 given == {names[i] : i \in DOMAIN names}
      <3>1. \A k \in DOMAIN o : o[k] \in Declarations(policy)
        BY <2>3, InOrderIs
      <3>2. environment =
              [x \in DOMAIN Inherited \cup given |->
                 IF x \in given THEN Carried(o[LastOf(names, x)]) ELSE Inherited[x]]
        BY <2>2 DEF Environment
      <3> HIDE DEF o
      <3>3. \A x \in given : \E d \in Declarations(policy) : EnvOf(policy, d) = x
        BY <3>1
      <3> HIDE DEF names, given
      <3>4. CASE n \in given
        BY <3>3, <3>4
      <3>5. CASE n \notin given
        BY <3>2, <3>5
      <3>6. QED
        BY <3>4, <3>5
    <2>7. QED
      BY <2>5, <2>6 DEF EnvironmentIsDeclared
  <1>2. QED
    BY <1>1, RunInvariant, PTL

\* Whatever the sidecar has been sent is a transfer its proxy parses, and sends each
\* value only where the document declares it to go, in a header the proxy leaves
\* alone (into_transfer, parse_transfer, validate_proxy_secret).
THEOREM TransfersAreSound == RunSpec => []TransferIsSound
  <1>1. RInv => TransferIsSound
    <2> SUFFICES ASSUME RInv PROVE TransferIsSound
      OBVIOUS
    <2>1. stage \in {"sent", "ready"} \/ routes # <<>> =>
             Done /\ policy.proxied # <<>> /\ routes = Routes
      BY DEF RInv, StageInv, RuntimeInv, Done
    <2>2. CASE ~(stage \in {"sent", "ready"} \/ routes # <<>>)
      BY <2>2 DEF TransferIsSound
    <2>3. CASE stage \in {"sent", "ready"} \/ routes # <<>>
      <3>1. Done /\ policy.proxied # <<>> /\ routes = Routes
        BY <2>1, <2>3
      <3>2. Selected /\ IInv /\ SelectionInv
        BY <3>1 DEF Selected, RInv
      <3>3. IsSequence(policy.secrets) /\ IsSequence(policy.proxied)
        BY <3>2, DeclaredOf
      <3>4. \A i \in DOMAIN policy.proxied : ProxiedIsSound(policy.proxied[i])
        <4>1. PICK i \in DOMAIN config["policies"] :
                policy = config["policies"][i] /\ phase = "accepted"
          BY <3>2 DEF SelectionInv
        <4>2. EntryIsValid("policies", i)
          BY <3>2, <4>1 DEF IInv, CheckedInv, Checked, Lists
        <4>3. QED
          BY <4>1, <4>2 DEF EntryIsValid, IsSound
      <3>5. \A i \in DOMAIN policy.proxied : IsMeant(Value(policy.proxied[i]), policy.proxied[i])
        BY <3>1, <3>3, DeclaredIs, ValueIsMeant
      <3>6. /\ DOMAIN routes = DOMAIN policy.proxied
            /\ \A i \in DOMAIN routes :
                  /\ routes[i].header = policy.proxied[i].header
                  /\ routes[i].upstream = policy.proxied[i].upstream
                  /\ routes[i].raw = Value(policy.proxied[i])
        BY <3>1 DEF Routes
      <3>7. routes # <<>>
        BY <3>1, <3>3, RoutesAreNotEmpty
      <3>8. \A i \in DOMAIN policy.proxied :
               /\ IsHttpOrigin(policy.proxied[i].upstream)
               /\ LowerCase[policy.proxied[i].header] \notin ProxyOwned
        BY <3>4 DEF ProxiedIsSound
      <3>9. TransferParses(routes)
        BY <3>6, <3>7, <3>8 DEF TransferParses
      <3>10. ASSUME NEW i \in DOMAIN routes
             PROVE  \E k \in DOMAIN policy.proxied :
                       /\ IsMeant(routes[i].raw, policy.proxied[k])
                       /\ routes[i].upstream = policy.proxied[k].upstream
                       /\ routes[i].header = policy.proxied[k].header
                       /\ LowerCase[routes[i].header] \notin ProxyOwned
        <4>1. i \in DOMAIN policy.proxied /\ IsMeant(routes[i].raw, policy.proxied[i])
          BY <3>5, <3>6
        <4>2. QED
          BY <4>1, <3>6, <3>8
      <3>11. QED
        BY <3>7, <3>9, <3>10 DEF TransferIsSound
    <2>4. QED
      BY <2>2, <2>3
  <1>2. QED
    BY <1>1, RunInvariant, PTL

=============================================================================
