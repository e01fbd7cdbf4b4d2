-------------------------- MODULE InvocationProofs --------------------------
(***************************************************************************)
(* Proofs about Invocation, for every set of secrets, every policy and     *)
(* every content of the BWS projects.                                      *)
(***************************************************************************)
EXTENDS Invocation, TLAPS

\* Positions of `execute`, in order.
Resolving == {"token", "projects", "secrets"}
Before    == {"load", "select"} \cup Resolving \cup {"environment"}
NoSidecar == Before \cup {"exec", "replaced", "provision", "image", "transfer", "sidecar"}
Starting  == {"deliver", "ready"}
Ending    == {"teardown", "reap"}
Supervise == {"register", "spawn", "startRelay", "wait"}
Complete  == {"environment", "exec", "replaced", "provision", "image", "transfer",
              "sidecar", "command"} \cup Starting \cup Supervise

\* What has been resolved so far, and what the resolution depended on.
ResolveInv ==
    /\ pc \in Resolving => todo # {}
    /\ pc \in Resolving =>
         \A s \in Declared : ProviderOf[s] \in todo \/ s \in held["resolved"] \cap stored
    /\ pc \in Complete => Declared \subseteq stored
    /\ pc \in {"environment", "exec", "provision"} => Declared \subseteq held["resolved"]
    /\ pc \notin Resolving \cup {"environment", "exec", "provision"} => held["resolved"] = {}
    /\ pc \in {"exec", "replaced"} => proxied = {}

\* Where the direct values are.
DirectInv ==
    /\ held["environment"] =
         IF pc \in {"exec", "provision", "image", "transfer", "sidecar", "command"}
                     \cup Starting
           THEN direct
         ELSE IF pc \in Ending /\ runtime = "none" THEN held["environment"] ELSE {}
    /\ held["environment"] \subseteq direct
    /\ held["command"] = IF pc \in Supervise THEN direct ELSE {}
    /\ held["runtime"] = IF runtime \in {"running", "doomed"} THEN direct ELSE {}

\* Where the proxied values are.
ProxiedInv ==
    /\ held["resolved"] \subseteq Declared
    /\ held["provisioned"] \subseteq proxied
    /\ pc \in {"image", "transfer"} => held["provisioned"] = proxied
    /\ pc \notin {"provision", "image", "transfer"} => held["provisioned"] = {}
    /\ held["transfer"] \subseteq proxied
    /\ pc \in {"sidecar"} \cup Starting => held["transfer"] = proxied
    /\ pc \notin {"sidecar"} \cup Starting \cup Ending => held["transfer"] = {}
    /\ runtime # "none" => held["transfer"] = {}

\* The pipe and the proxy.
PipeInv ==
    /\ held["pipe"] \subseteq proxied
    /\ client = "running" /\ proxy \in {"none", "reading"} /\ line # "none"
         => held["pipe"] = proxied
    /\ proxy = "reading" /\ line # "none" => held["pipe"] = proxied
    /\ held["pipe"] # {} => proxy = "reading" \/ (client = "running" /\ proxy = "none")
    /\ held["proxy"] = IF proxy \in {"armed", "listening"} THEN proxied ELSE {}
    /\ proxy \in {"armed", "listening"} => line \in {"body", "line"}
    /\ pc \in NoSidecar => line = "none"
    /\ pc = "deliver" => line # "line"
    /\ pc = "deliver" /\ client = "running" => proxy \in {"none", "reading", "gone"}

\* The docker client and the container.
ClientInv ==
    /\ pc \in NoSidecar => client = "none"
    /\ client = "none" =>
         /\ pc \in NoSidecar \cup {"exited"}
         /\ container = "none" /\ proxy = "none" /\ stdout = "open" /\ line = "none"
    /\ proxy \in {"reading", "armed", "listening"} <=> container = "running"
    /\ proxy = "gone" => container = "removed"
    /\ stdout = "closed" => client = "ended"
    /\ client = "ended" => stdout # "open"
    /\ stdout \in {"port", "junk"} => proxy \in {"listening", "gone"}
    /\ pc \in {"command"} \cup Supervise => stdout = "port"
    /\ pc \in Ending => stdout # "open"

\* The target.
TargetInv ==
    /\ pc \in (NoSidecar \ {"replaced"}) \cup Starting \cup {"command", "register", "spawn"}
         => runtime = "none"
    /\ runtime # "none" /\ pc # "replaced" => stdout = "port"
    /\ pc \in Ending /\ runtime = "running" => failure = "panic"

\* What is left at the end.
EndInv ==
    /\ pc = "exited" => \A h \in Supervisor : held[h] = {}
    /\ rmFailed => pc \in {"reap", "exited"}
    /\ pc \in {"reap", "exited"} /\ death = "none" /\ ~rmFailed
         => container \in {"none", "removed"}
    /\ pc = "exited" /\ death = "none" => client \in {"none", "ended"}

IInv ==
    /\ TypeOK
    /\ ResolveInv
    /\ DirectInv
    /\ ProxiedInv
    /\ PipeInv
    /\ ClientInv
    /\ TargetInv
    /\ EndInv
-----------------------------------------------------------------------------
LEMMA InitIInv == Init => IInv
BY DEF Init, IInv, TypeOK, ResolveInv, DirectInv, ProxiedInv, PipeInv, ClientInv,
       TargetInv, EndInv, Resolving, Before, NoSidecar, Starting, Ending,
       Supervise, Complete, Supervisor, Holders

\* The provider at hand is one of those still to resolve.
LEMMA CurrentInTodo == ASSUME todo # {} PROVE Current \in todo
BY DEF Current

\* Resolving one provider: the declared secrets of that provider and of every
\* provider before it are held, and they exist in its projects.
LEMMA ResolveSecretsKeeps == ASSUME IInv, ResolveSecrets PROVE IInv'
<1> USE DEF IInv, Resolving, Before, NoSidecar, Starting, Ending, Supervise,
            Complete, Supervisor, Holders, policyVars, sidecarVars, Put
<1>1. /\ pc = "secrets" /\ todo # {} /\ todo' = todo \ {Current}
      /\ pc' = IF todo' = {} THEN "environment" ELSE "token"
      /\ Current \in todo
  BY CurrentInTodo DEF ResolveSecrets, ResolveInv
<1>2. \A s \in Declared : ProviderOf[s] = Current
        => s \in Listed(Current) \cap Named(Current) /\ s \in stored
  BY DEF ResolveSecrets, Named, Listed
<1>3. /\ held["resolved"] \subseteq held'["resolved"]
      /\ Listed(Current) \cap Named(Current) \subseteq held'["resolved"]
      /\ held'["resolved"] \subseteq Declared
      /\ \A h \in Holders \ {"resolved"} : held'[h] = held[h]
      /\ held' \in [Holders -> SUBSET Secrets]
  <2>1. Listed(Current) \cap Named(Current) \subseteq Declared \cap Secrets
    BY DEF Named, Declared, TypeOK
  <2>2. held["resolved"] \subseteq Declared
    BY DEF ProxiedInv
  <2> QED
    BY <2>1, <2>2 DEF ResolveSecrets, TypeOK
<1>4. TypeOK'
  BY <1>1, <1>3 DEF ResolveSecrets, TypeOK
<1>5. ResolveInv'
  <2>1. \A s \in Declared :
          ProviderOf[s] \in todo' \/ s \in held'["resolved"] \cap stored
    BY <1>1, <1>2, <1>3 DEF ResolveInv
  <2>2. UNCHANGED <<direct, proxied, stored>>
    BY DEF ResolveSecrets
  <2> QED
    BY <1>1, <2>1, <2>2 DEF ResolveInv, Declared
<1>6. ProxiedInv'
  BY <1>1, <1>3 DEF ResolveSecrets, ProxiedInv, Declared
<1>7. DirectInv' /\ PipeInv' /\ ClientInv' /\ TargetInv' /\ EndInv'
  BY <1>1, <1>3 DEF ResolveSecrets, DirectInv, PipeInv, ClientInv, TargetInv, EndInv
<1> QED
  BY <1>4, <1>5, <1>6, <1>7

LEMMA NextIInv == IInv /\ [Next]_vars => IInv'
<1> SUFFICES ASSUME IInv, [Next]_vars PROVE IInv'
  OBVIOUS
<1> USE ProviderAssumption
    DEF IInv, TypeOK, ResolveInv, DirectInv, ProxiedInv, PipeInv, ClientInv,
        TargetInv, EndInv, Resolving, Before, NoSidecar, Starting, Ending,
        Supervise, Complete, Supervisor, Holders, policyVars, controlVars,
        sidecarVars, Declared, Step, Put, Move, Forget, Fail, Abort
<1>1. CASE SupervisorWorks
  <2>1. CASE LoadConfig
    BY <2>1 DEF LoadConfig
  <2>2. CASE SelectPolicy
    BY <2>2 DEF SelectPolicy
  <2>3. CASE AcquireToken
    BY <2>3 DEF AcquireToken
  <2>4. CASE FindProject
    BY <2>4 DEF FindProject
  <2>5. CASE ResolveSecrets
    BY <2>5, ResolveSecretsKeeps
  <2>6. CASE SecretMissing
    BY <2>6 DEF SecretMissing
  <2>7. CASE BuildEnvironment
    BY <2>7 DEF BuildEnvironment
  <2>8. CASE Exec
    BY <2>8 DEF Exec
  <2>9. ASSUME NEW s \in Secrets, Provision(s) PROVE IInv'
    BY <2>9 DEF Provision
  <2>10. CASE DropResolved
    BY <2>10 DEF DropResolved
  <2>11. CASE EnsureImage
    BY <2>11 DEF EnsureImage
  <2>12. CASE IntoTransfer
    BY <2>12 DEF IntoTransfer
  <2>13. CASE StartClient
    BY <2>13 DEF StartClient
  <2>14. CASE Deliver
    BY <2>14 DEF Deliver
  <2>15. CASE DeliverFails
    BY <2>15 DEF DeliverFails
  <2>16. CASE Ready
    BY <2>16 DEF Ready
  <2>17. CASE NotReady
    BY <2>17 DEF NotReady
  <2>18. CASE BuildCommand
    BY <2>18 DEF BuildCommand
  <2>19. CASE Register
    BY <2>19 DEF Register
  <2>20. CASE StartTarget
    BY <2>20 DEF StartTarget
  <2>21. CASE RelayStarts
    BY <2>21 DEF RelayStarts
  <2>22. CASE SuperviseReturns
    BY <2>22 DEF SuperviseReturns
  <2>23. CASE Remove
    <3>1. TypeOK'
      BY <2>23 DEF Remove
    <3>2. ResolveInv'
      BY <2>23 DEF Remove
    <3>3. DirectInv'
      BY <2>23 DEF Remove
    <3>4. ProxiedInv'
      BY <2>23 DEF Remove
    <3>5. PipeInv'
      BY <2>23 DEF Remove
    <3>6. ClientInv'
      BY <2>23 DEF Remove
    <3>7. TargetInv'
      BY <2>23 DEF Remove
    <3>8. EndInv'
      BY <2>23 DEF Remove
    <3> QED
      BY <3>1, <3>2, <3>3, <3>4, <3>5, <3>6, <3>7, <3>8
  <2>24. CASE Reap
    BY <2>24 DEF Reap
  <2> QED
    BY <1>1, <2>1, <2>2, <2>3, <2>4, <2>5, <2>6, <2>7, <2>8, <2>9, <2>10,
       <2>11, <2>12, <2>13, <2>14, <2>15, <2>16, <2>17, <2>18, <2>19, <2>20,
       <2>21, <2>22, <2>23, <2>24 DEF SupervisorWorks
<1>2. CASE SupervisorFails
  <2>1. CASE LoadFails
    BY <2>1 DEF LoadFails
  <2>2. CASE SelectFails
    BY <2>2 DEF SelectFails
  <2>3. CASE ResolveFails
    BY <2>3 DEF ResolveFails
  <2>4. CASE ExecFails
    BY <2>4 DEF ExecFails
  <2>5. CASE ProvisionFails
    BY <2>5 DEF ProvisionFails
  <2>6. CASE ImageFails
    BY <2>6 DEF ImageFails
  <2>7. CASE StartClientFails
    BY <2>7 DEF StartClientFails
  <2>8. CASE StartTargetFails
    BY <2>8 DEF StartTargetFails
  <2>9. CASE RelayPanics
    BY <2>9 DEF RelayPanics
  <2>10. CASE SuperviseFails
    BY <2>10 DEF SuperviseFails
  <2>11. CASE RemoveFails
    BY <2>11 DEF RemoveFails
  <2> QED
    BY <1>2, <2>1, <2>2, <2>3, <2>4, <2>5, <2>6, <2>7, <2>8, <2>9, <2>10,
       <2>11 DEF SupervisorFails
<1>3. CASE SidecarWorks
  <2>1. CASE ClientCreates
    BY <2>1 DEF ClientCreates
  <2>2. CASE ClientStarts
    BY <2>2 DEF ClientStarts
  <2>3. CASE ClientEnds
    BY <2>3 DEF ClientEnds, ClientGone
  <2>4. CASE ProxyArms
    BY <2>4 DEF ProxyArms, WriterGone
  <2>5. CASE ProxyRejects
    BY <2>5 DEF ProxyRejects, ProxyGone
  <2>6. CASE ProxyReports
    BY <2>6 DEF ProxyReports
  <2> QED
    BY <1>3, <2>1, <2>2, <2>3, <2>4, <2>5, <2>6 DEF SidecarWorks
<1>4. CASE SidecarFails
  <2>1. CASE ClientRefused
    BY <2>1 DEF ClientRefused, ClientGone
  <2>2. CASE ClientKilled
    BY <2>2 DEF ClientKilled, ClientGone
  <2>3. CASE ProxyDies
    BY <2>3 DEF ProxyDies, ProxyGone
  <2> QED
    BY <1>4, <2>1, <2>2, <2>3 DEF SidecarFails
<1>5. CASE TargetEnds
  BY <1>5 DEF TargetEnds
<1>6. CASE FatalSignal
  BY <1>6 DEF FatalSignal, Dies
<1>7. CASE Kill9
  BY <1>7 DEF Kill9, Dies
<1>8. CASE UNCHANGED vars
  BY <1>8 DEF vars
<1> QED
  BY <1>1, <1>2, <1>3, <1>4, <1>5, <1>6, <1>7, <1>8 DEF Next

LEMMA Invariance == SafeSpec => []IInv
BY InitIInv, NextIInv, PTL DEF SafeSpec

-----------------------------------------------------------------------------
\* Every variable of the invocation keeps its type.
THEOREM TypeCorrect == SafeSpec => []TypeOK
BY Invariance, PTL DEF IInv

\* A secret declared only as `proxy-secret` never reaches the target or what is
\* prepared for it, for any policy (main.rs:247-251, run.rs:125-138).
THEOREM ProxiedNeverReachesTarget == SafeSpec => []RawConfinement
<1>1. IInv => RawConfinement
  BY DEF IInv, DirectInv, RawConfinement, ProxiedOnly
<1> QED
  BY <1>1, Invariance, PTL

\* Only declared secrets are kept, and only proxied ones travel to the proxy
\* (bws.rs:132-148, transfer.rs:88-110).
THEOREM NothingUndeclared == SafeSpec => []OnlyDeclared
<1>1. IInv => OnlyDeclared
  BY DEF IInv, TypeOK, DirectInv, ProxiedInv, PipeInv, OnlyDeclared, Holders,
         Supervisor, Declared
<1> QED
  BY <1>1, Invariance, PTL

\* While a supervised target runs, iwaya holds no proxied-only value
\* (main.rs:276-298).
THEOREM SupervisorIsPurged == SafeSpec => []SupervisorPurged
<1>1. IInv => SupervisorPurged
  BY DEF IInv, TypeOK, ResolveInv, DirectInv, ProxiedInv, TargetInv, SupervisorPurged,
         NoSidecar, Before, Resolving, Starting, Ending, Supervise
<1> QED
  BY <1>1, Invariance, PTL

\* Only a complete transfer arms a proxy (proxy.rs:108-122).
THEOREM WholeTransferArms == SafeSpec => []OnlyWholeTransferArms
<1>1. IInv => OnlyWholeTransferArms
  BY DEF IInv, PipeInv, OnlyWholeTransferArms
<1> QED
  BY <1>1, Invariance, PTL

\* Unless `supervise` panics, the sidecar is not taken from a running target
\* (run.rs:185-201, main.rs:300-302).
THEOREM TargetKeepsSidecar == SafeSpec => []SidecarOutlivesTarget
<1>1. IInv => SidecarOutlivesTarget
  BY DEF IInv, TargetInv, SidecarOutlivesTarget, Ending
<1> QED
  BY <1>1, Invariance, PTL

\* An iwaya that ends by itself leaves no sidecar unless `rm` failed
\* (sidecar.rs:17-19, 127-146).
THEOREM NoSidecarIsLeft == SafeSpec => []NoSidecarLeftBehind
<1>1. IInv => NoSidecarLeftBehind
  BY DEF IInv, TypeOK, PipeInv, ClientInv, EndInv, NoSidecarLeftBehind
<1> QED
  BY <1>1, Invariance, PTL

\* `rm --force` never precedes the creation of the container it is to remove
\* (sidecar.rs:131-139).
THEOREM RemovalIsNotEarly == SafeSpec => []RemovalFindsContainer
<1>1. IInv => RemovalFindsContainer
  BY DEF IInv, TypeOK, ClientInv, RemovalFindsContainer, Ending
<1> QED
  BY <1>1, Invariance, PTL

-----------------------------------------------------------------------------
(* The refinement: Invocation implements SecretDelivery.                   *)

\* What the abstract delivery sees of the invocation.
Seen == <<direct, proxied, held["proxy"], stdout = "port", runtime, held["runtime"]>>

LEMMA SeenIsAll == ASSUME UNCHANGED Seen PROVE UNCHANGED Delivery!vars
BY DEF Seen, Delivery!vars

\* Steps of the supervisor the abstract delivery does not see.
LEMMA SupervisorIsQuiet ==
    ASSUME IInv, SupervisorWorks \/ SupervisorFails
    PROVE  UNCHANGED Seen \/ Exec \/ StartTarget \/ Remove \/ SuperviseFails
<1> USE DEF IInv, TypeOK, Holders, Supervisor, policyVars, controlVars, sidecarVars,
            Step, Put, Move, Forget, Fail, Abort, Seen
<1>1. CASE LoadConfig
  BY <1>1 DEF LoadConfig
<1>2. CASE SelectPolicy
  BY <1>2 DEF SelectPolicy
<1>3. CASE AcquireToken
  BY <1>3 DEF AcquireToken
<1>4. CASE FindProject
  BY <1>4 DEF FindProject
<1>5. CASE ResolveSecrets
  BY <1>5 DEF ResolveSecrets
<1>6. CASE SecretMissing
  BY <1>6 DEF SecretMissing
<1>7. CASE BuildEnvironment
  BY <1>7 DEF BuildEnvironment
<1>8. ASSUME NEW s \in Secrets, Provision(s) PROVE UNCHANGED Seen
  BY <1>8 DEF Provision
<1>9. CASE DropResolved
  BY <1>9 DEF DropResolved
<1>10. CASE EnsureImage
  BY <1>10 DEF EnsureImage
<1>11. CASE IntoTransfer
  BY <1>11 DEF IntoTransfer
<1>12. CASE StartClient
  BY <1>12 DEF StartClient
<1>13. CASE Deliver
  BY <1>13 DEF Deliver
<1>14. CASE DeliverFails
  BY <1>14 DEF DeliverFails
<1>15. CASE Ready
  BY <1>15 DEF Ready
<1>16. CASE NotReady
  BY <1>16 DEF NotReady
<1>17. CASE BuildCommand
  BY <1>17 DEF BuildCommand
<1>18. CASE Register
  BY <1>18 DEF Register
<1>19. CASE RelayStarts
  BY <1>19 DEF RelayStarts
<1>20. CASE SuperviseReturns
  BY <1>20 DEF SuperviseReturns
<1>21. CASE Reap
  BY <1>21 DEF Reap
<1>22. CASE LoadFails
  BY <1>22 DEF LoadFails
<1>23. CASE SelectFails
  BY <1>23 DEF SelectFails
<1>24. CASE ResolveFails
  BY <1>24 DEF ResolveFails
<1>25. CASE ExecFails
  BY <1>25 DEF ExecFails
<1>26. CASE ProvisionFails
  BY <1>26 DEF ProvisionFails
<1>27. CASE ImageFails
  BY <1>27 DEF ImageFails
<1>28. CASE StartClientFails
  BY <1>28 DEF StartClientFails
<1>29. CASE StartTargetFails
  BY <1>29 DEF StartTargetFails
<1>30. CASE RelayPanics
  BY <1>30 DEF RelayPanics
<1>31. CASE RemoveFails
  BY <1>31 DEF RemoveFails
<1> QED
  BY <1>1, <1>2, <1>3, <1>4, <1>5, <1>6, <1>7, <1>8, <1>9, <1>10, <1>11,
     <1>12, <1>13, <1>14, <1>15, <1>16, <1>17, <1>18, <1>19, <1>20, <1>21,
     <1>22, <1>23, <1>24, <1>25, <1>26, <1>27, <1>28, <1>29, <1>30, <1>31 DEF
     SupervisorWorks, SupervisorFails

\* A target that is started gets all direct secrets; everything declared exists;
\* and a proxy that is needed has been announced and holds all it needs.
LEMMA StartIsComplete ==
    ASSUME IInv, Exec \/ StartTarget
    PROVE  /\ runtime = "none" /\ runtime' = "running"
           /\ Declared \subseteq stored
           /\ held'["runtime"] = direct
           /\ proxied # {} => /\ stdout = "port"
                              /\ proxy \in {"listening", "gone"}
                              /\ proxy = "listening" => held["proxy"] = proxied
           /\ UNCHANGED <<direct, proxied, stdout>> /\ held'["proxy"] = held["proxy"]
<1> USE DEF IInv, TypeOK, ResolveInv, DirectInv, PipeInv, ClientInv, TargetInv,
            Holders, Supervisor, Before, Resolving, NoSidecar, Starting, Supervise,
            Complete, policyVars, sidecarVars, Step, Put
<1>1. CASE Exec
  BY <1>1 DEF Exec
<1>2. CASE StartTarget
  BY <1>2 DEF StartTarget
<1> QED
  BY <1>1, <1>2

LEMMA RefinesInit == Init => Delivery!Init
BY DEF Init, Delivery!Init, Holders

LEMMA RefinesStep == IInv /\ [Next]_vars => [Delivery!Next]_(Delivery!vars)
<1> SUFFICES ASSUME IInv, [Next]_vars
             PROVE  Delivery!Next \/ UNCHANGED Delivery!vars
  OBVIOUS
<1> USE DEF IInv, TypeOK, Holders, Supervisor, policyVars, controlVars, sidecarVars,
            Step, Put, Move
<1>1. CASE Exec \/ StartTarget
  <2>1. Delivery!Start
    BY <1>1, StartIsComplete DEF Delivery!Start
  <2> QED
    BY <2>1 DEF Delivery!Next
<1>2. CASE Remove
  <2>1. CASE container = "running"
    <3>1. Delivery!Disarm
      BY <1>2, <2>1 DEF Remove, Delivery!Disarm
    <3> QED
      BY <3>1 DEF Delivery!Next
  <2>2. CASE container # "running"
    BY <1>2, <2>2, SeenIsAll DEF Remove, Seen
  <2> QED
    BY <2>1, <2>2
<1>3. CASE SuperviseFails
  <2>1. CASE runtime = "running"
    <3>1. Delivery!Doom
      BY <1>3, <2>1 DEF SuperviseFails, Abort, Delivery!Doom
    <3> QED
      BY <3>1 DEF Delivery!Next
  <2>2. CASE runtime # "running"
    BY <1>3, <2>2, SeenIsAll DEF SuperviseFails, Abort, Seen
  <2> QED
    BY <2>1, <2>2
<1>4. CASE SupervisorWorks \/ SupervisorFails
  BY <1>1, <1>2, <1>3, <1>4, SupervisorIsQuiet, SeenIsAll
<1>5. CASE ClientCreates \/ ClientStarts
  BY <1>5, SeenIsAll DEF ClientCreates, ClientStarts, Seen
<1>6. CASE ClientEnds \/ ClientRefused \/ ClientKilled
  BY <1>6, SeenIsAll DEF ClientEnds, ClientRefused, ClientKilled, ClientGone, Seen
<1>7. CASE ProxyRejects \/ ProxyDies
  <2>1. Delivery!Disarm
    BY <1>7 DEF ProxyRejects, ProxyDies, ProxyGone, Delivery!Disarm
  <2> QED
    BY <2>1 DEF Delivery!Next
<1>8. CASE ProxyArms
  <2>1. runtime = "none"
    BY <1>8 DEF ProxyArms, TargetInv, ClientInv, NoSidecar
  <2>2. held["pipe"] = proxied /\ held["proxy"] = {}
    BY <1>8 DEF ProxyArms, PipeInv
  <2>3. Delivery!Arm
    BY <1>8, <2>1, <2>2 DEF ProxyArms, Delivery!Arm
  <2> QED
    BY <2>3 DEF Delivery!Next
<1>9. CASE ProxyReports
  <2>1. CASE stdout' = "port" /\ stdout # "port"
    <3>1. runtime = "none"
      BY <1>9, <2>1 DEF ProxyReports, TargetInv, ClientInv, NoSidecar
    <3>2. Delivery!Announce
      BY <1>9, <2>1, <3>1 DEF ProxyReports, PipeInv, Delivery!Announce
    <3> QED
      BY <3>2 DEF Delivery!Next
  <2>2. CASE (stdout' = "port") = (stdout = "port")
    BY <1>9, <2>2, SeenIsAll DEF ProxyReports, Seen
  <2> QED
    BY <1>9, <2>1, <2>2 DEF ProxyReports
<1>10. CASE TargetEnds
  <2>1. Delivery!End
    BY <1>10 DEF TargetEnds, Delivery!End
  <2> QED
    BY <2>1 DEF Delivery!Next
<1>11. CASE FatalSignal \/ Kill9
  BY <1>11, SeenIsAll DEF FatalSignal, Kill9, Dies, Forget, Seen
<1>12. CASE UNCHANGED vars
  BY <1>12, SeenIsAll DEF vars, Seen
<1> QED
  BY <1>4, <1>5, <1>6, <1>7, <1>8, <1>9, <1>10, <1>11, <1>12
  DEF Next, SidecarWorks, SidecarFails

\* The invocation keeps the promise about the secrets, whatever fails or dies:
\* the target gets the direct secrets or does not run, and the proxied ones only
\* ever arm an announced proxy.
THEOREM RefinesSecretDelivery == SafeSpec => ImplementsSecretDelivery
BY RefinesInit, RefinesStep, Invariance, PTL
   DEF SafeSpec, ImplementsSecretDelivery, Delivery!Spec

\* All or nothing, at the very step that starts the target (main.rs:202-205,
\* 264-267).
THEOREM TargetStartIsComplete == SafeSpec => TargetStartsComplete
<1> DEFINE StartsWhole ==
      runtime = "none" /\ runtime' # "none" =>
          /\ Declared \subseteq stored
          /\ held'["runtime"] = direct
          /\ proxied # {} => /\ stdout = "port"
                             /\ proxy \in {"listening", "gone"}
                             /\ proxy = "listening" => held["proxy"] = proxied
<1>1. IInv /\ [Next]_vars => [StartsWhole]_vars
  <2> SUFFICES ASSUME IInv, Next, runtime = "none", runtime' # "none"
               PROVE  StartsWhole
    OBVIOUS
  <2>1. Exec \/ StartTarget
    <3>1. CASE SupervisorWorks \/ SupervisorFails
      BY <3>1, SupervisorIsQuiet DEF Seen, Remove, SuperviseFails, sidecarVars
    <3>2. CASE SidecarWorks \/ SidecarFails
      BY <3>2 DEF SidecarWorks, SidecarFails, ClientCreates, ClientStarts, ClientEnds,
           ProxyArms, ProxyRejects, ProxyReports, ClientRefused, ClientKilled,
           ProxyDies, ProxyGone
    <3>3. CASE TargetEnds \/ FatalSignal \/ Kill9
      BY <3>3 DEF TargetEnds, FatalSignal, Kill9, Dies
    <3> QED
      BY <3>1, <3>2, <3>3 DEF Next
  <2> QED
    BY <2>1, StartIsComplete
<1> QED
  BY <1>1, Invariance, PTL DEF SafeSpec, TargetStartsComplete
=============================================================================
