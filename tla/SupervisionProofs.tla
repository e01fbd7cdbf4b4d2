------------------------- MODULE SupervisionProofs -------------------------
(***************************************************************************)
(* Proofs about Supervision, for every set of forwarded signals and exit   *)
(* codes.  Safety only: the theorems are about SafeSpec, which Spec        *)
(* implies; liveness under fairness stays with TLC.                        *)
(***************************************************************************)
EXTENDS Supervision, TLAPS

Returning == {"close", "join", "kill", "rewait"}

\* Where the main thread is, and what it has set up by then.
MainInv ==
    /\ mainPc = "done" <=> outcome # "pending"
    /\ child = "none" => relayPc = "none" /\ mainPc \in {"register", "spawn", "done"}
    /\ child # "none" => mainPc \notin {"register", "spawn"} /\ installed = Signals
    /\ mainPc = "spawn" => installed = Signals
    /\ mainPc = "startRelay" => relayPc = "none"

\* The relay thread is over before `supervise` returns.
RelayInv ==
    /\ relayPc # "none" => relaySig \in Signals \/ relayPc # "send"
    /\ mainPc \in {"kill", "rewait"} => relayPc = "exit"
    /\ mainPc = "done" /\ outcome # "killed" => relayPc \in {"none", "exit"}

\* The child process, its pid and its status.
ChildInv ==
    /\ child \in {"none", "running"} => ending = NoEnding
    /\ child \in {"zombie", "gone"} => ending \in Endings
    /\ child # "running" => inbox = {}
    /\ child = "zombie" => ~autoReap
    /\ child = "gone" /\ ~autoReap => mainPc \in {"close", "join", "done"}
    /\ reused => child = "gone"

\* What has been decided when `supervise` ends.
ReturnInv ==
    /\ ExitFaithful
    /\ mainPc = "rewait" /\ child = "running" => SIGKILL \in inbox
    /\ ReturnLeavesNoOrphan

IInv == TypeOK /\ MainInv /\ RelayInv /\ ChildInv /\ ReturnInv

-----------------------------------------------------------------------------
\* exit_code_of computes the shell's code: u8 arithmetic never wraps, because
\* signal numbers end at 64 (run.rs:221-226).
LEMMA ExitCodeLemma ==
    ASSUME NEW e \in Endings
    PROVE  /\ ExitCodeOf(e) = Call!ShellCode(e)
           /\ ExitCodeOf(e) = IF e.by = "exit" THEN e.n ELSE 128 + e.n
           /\ ExitCodeOf(e) \in 0..255
<1>1. CASE e.by = "exit"
  <2>1. e.n \in 0..255
    <3>1. e.n \in ExitCodes
      BY <1>1 DEF Endings
    <3>2. ExitCodes \subseteq 0..255
      BY SignalsAssumption
    <3> QED
      BY <3>1, <3>2
  <2> QED
    BY <1>1, <2>1 DEF ExitCodeOf, Call!ShellCode
<1>2. CASE e.by # "exit"
  <2>1. e.n \in 1..64
    <3>1. e.n \in Signals \cup {SIGKILL}
      BY <1>2 DEF Endings
    <3>2. Signals \subseteq 1..64
      BY SignalsAssumption
    <3>3. SIGKILL \in 1..64
      BY DEF SIGKILL
    <3> QED
      BY <3>1, <3>2, <3>3
  <2>2. (128 + e.n) % 256 = 128 + e.n
    BY <2>1
  <2> QED
    BY <1>2, <2>1, <2>2 DEF ExitCodeOf, Call!ShellCode
<1> QED
  BY <1>1, <1>2

LEMMA NoEndingIsNone == NoEnding \notin Endings
BY DEF NoEnding, Endings

-----------------------------------------------------------------------------
LEMMA InitIInv == Init => IInv
<1> SUFFICES ASSUME Init PROVE IInv
  OBVIOUS
<1> USE DEF Init
<1>1. TypeOK
  <2>1. /\ mainPc = "register" /\ outcome = "pending" /\ code \in 0..255
        /\ relayPc = "none" /\ child = "none"
    OBVIOUS
  <2>2. /\ installed = {} /\ caught = {} /\ inbox = {} /\ stray = {}
        /\ relaySig \in Signals \cup {0}
    OBVIOUS
  <2>3. closed \in BOOLEAN /\ reused \in BOOLEAN /\ autoReap \in BOOLEAN
    OBVIOUS
  <2>4. ending \in Endings \cup {NoEnding}
    OBVIOUS
  <2> QED
    BY <2>1, <2>2, <2>3, <2>4 DEF TypeOK
<1>2. MainInv
  BY DEF MainInv
<1>3. RelayInv
  BY DEF RelayInv
<1>4. ChildInv
  BY DEF ChildInv
<1>5. ReturnInv
  BY DEF ReturnInv, ExitFaithful, ReturnLeavesNoOrphan
<1> QED
  BY <1>1, <1>2, <1>3, <1>4, <1>5 DEF IInv

\* A signal received by iwaya is flagged, or ends the invocation.
LEMMA ReceiveLemma ==
    ASSUME TypeOK, NEW s \in Signals, IwayaReceives(s)
    PROVE  /\ caught' \subseteq Signals
           /\ \/ mainPc' = "done" /\ outcome' = "killed" /\ code' = code
              \/ mainPc' = mainPc /\ outcome' = outcome /\ code' = code
BY DEF TypeOK, IwayaReceives, mainVars

LEMMA NextIInv == IInv /\ [Next]_vars => IInv'
<1> SUFFICES ASSUME IInv, [Next]_vars PROVE IInv'
  OBVIOUS
<1> USE SignalsAssumption, NoEndingIsNone
    DEF IInv, TypeOK, MainInv, RelayInv, ChildInv, ReturnInv, ExitFaithful,
        ReturnLeavesNoOrphan, mainVars, signalVars, relayVars, childVars,
        Goto, Answer
<1>1. ASSUME NEW s \in Signals, Register(s) PROVE IInv'
  BY <1>1 DEF Register
<1>2. CASE RegisterFails
  BY <1>2 DEF RegisterFails
<1>3. CASE Spawn
  BY <1>3 DEF Spawn
<1>4. CASE SpawnFails
  BY <1>4 DEF SpawnFails
<1>5. CASE StartRelay
  BY <1>5 DEF StartRelay
<1>6. CASE StartRelayPanics
  BY <1>6 DEF StartRelayPanics
<1>7. CASE Reap
  BY <1>7 DEF Reap
<1>8. CASE WaitLost
  BY <1>8 DEF WaitLost
<1>9. CASE WaitFails
  BY <1>9 DEF WaitFails
<1>10. CASE Close
  BY <1>10 DEF Close
<1>11. CASE Join
  <2>1. CASE WaitSucceeded /\ Answer("join", "code", ExitCodeOf(ending))
    <3>1. ending \in Endings
      BY <2>1 DEF WaitSucceeded
    <3>2. /\ code' = IF ending.by = "exit" THEN ending.n ELSE 128 + ending.n
          /\ code' \in 0..255
      BY <2>1, <3>1, ExitCodeLemma
    <3> QED
      BY <1>11, <2>1, <3>1, <3>2 DEF Join, WaitSucceeded
  <2>2. CASE ~WaitSucceeded /\ Goto("join", "kill")
    BY <1>11, <2>2 DEF Join, WaitSucceeded
  <2> QED
    BY <1>11, <2>1, <2>2 DEF Join
<1>12. CASE Kill
  BY <1>12 DEF Kill, SendToPid
<1>13. CASE Rewait
  BY <1>13 DEF Rewait
<1>14. CASE RewaitFails
  BY <1>14 DEF RewaitFails
<1>15. ASSUME NEW s \in Signals, RelayNext(s) PROVE IInv'
  BY <1>15 DEF RelayNext
<1>16. CASE RelaySend
  BY <1>16 DEF RelaySend, SendToPid
<1>17. CASE RelayExit
  BY <1>17 DEF RelayExit
<1>18. ASSUME NEW s \in Signals, PidSignal(s) PROVE IInv'
  <2>1. TypeOK'
    BY <1>18, ReceiveLemma DEF PidSignal
  <2>2. MainInv'
    BY <1>18 DEF PidSignal, IwayaReceives
  <2>3. RelayInv'
    BY <1>18 DEF PidSignal, IwayaReceives
  <2>4. ChildInv'
    BY <1>18 DEF PidSignal, IwayaReceives
  <2>5. ReturnInv'
    BY <1>18 DEF PidSignal, IwayaReceives
  <2> QED
    BY <2>1, <2>2, <2>3, <2>4, <2>5 DEF IInv
<1>19. ASSUME NEW s \in TerminalSignals, TerminalSignal(s) PROVE IInv'
  <2>1. s \in Signals
    BY SignalsAssumption
  <2>2. TypeOK'
    BY <1>19, <2>1, ReceiveLemma DEF TerminalSignal
  <2>3. MainInv'
    BY <1>19, <2>1 DEF TerminalSignal, IwayaReceives
  <2>4. RelayInv'
    BY <1>19, <2>1 DEF TerminalSignal, IwayaReceives
  <2>5. ChildInv'
    BY <1>19, <2>1 DEF TerminalSignal, IwayaReceives
  <2>6. ReturnInv'
    BY <1>19, <2>1 DEF TerminalSignal, IwayaReceives
  <2> QED
    BY <2>2, <2>3, <2>4, <2>5, <2>6 DEF IInv
<1>20. CASE IwayaKilled
  BY <1>20 DEF IwayaKilled
<1>21. ASSUME NEW e \in Endings, ChildEnds(e) PROVE IInv'
  BY <1>21 DEF ChildEnds, ChildStops
<1>22. ASSUME NEW s \in Signals, ChildIgnores(s) PROVE IInv'
  BY <1>22 DEF ChildIgnores
<1>23. CASE ChildKilled
  <2>1. [by |-> "signal", n |-> SIGKILL] \in Endings
    BY DEF Endings
  <2> QED
    BY <1>23, <2>1 DEF ChildKilled, ChildStops
<1>24. CASE PidReused
  BY <1>24 DEF PidReused
<1>25. CASE UNCHANGED vars
  BY <1>25 DEF vars
<1> QED
  BY <1>1, <1>2, <1>3, <1>4, <1>5, <1>6, <1>7, <1>8, <1>9, <1>10, <1>11,
     <1>12, <1>13, <1>14, <1>15, <1>16, <1>17, <1>18, <1>19, <1>20, <1>21,
     <1>22, <1>23, <1>24, <1>25
  DEF Next, Main, Relay, Environment

LEMMA Invariance == SafeSpec => []IInv
BY InitIInv, NextIInv, PTL DEF SafeSpec
-----------------------------------------------------------------------------
\* Every variable of the supervision keeps its type.
THEOREM TypeCorrect == SafeSpec => []TypeOK
BY Invariance, PTL DEF IInv

\* `supervise` returns the shell's code for how the runtime ended, and only
\* after the runtime has been reaped (run.rs:185-192, 221-226).
THEOREM ExitCodeIsFaithful == SafeSpec => []ExitFaithful
BY Invariance, PTL DEF IInv, ReturnInv

\* No path on which `supervise` returns leaves the runtime running without a
\* SIGKILL on its way (run.rs:193-201).
THEOREM NoReturnOrphans == SafeSpec => []ReturnLeavesNoOrphan
BY Invariance, PTL DEF IInv, ReturnInv

\* No forwarded signal terminates iwaya while the runtime exists: all handlers
\* are installed before the runtime is spawned (run.rs:160-167).
THEOREM SignalsNeverOrphan == SafeSpec => SignalNeverOrphans
<1>1. IInv /\ [Next]_vars
        => [\A s \in Signals :
              (PidSignal(s) \/ TerminalSignal(s)) /\ outcome' = "killed"
                  => child = "none"]_vars
  <2> SUFFICES ASSUME IInv, NEW s \in Signals,
                      PidSignal(s) \/ TerminalSignal(s), outcome' = "killed"
               PROVE  child = "none"
    OBVIOUS
  <2>1. outcome = "pending" /\ IwayaReceives(s)
    BY DEF PidSignal, TerminalSignal
  <2>2. s \notin installed
    BY <2>1 DEF IwayaReceives, mainVars
  <2> QED
    BY <2>2 DEF IInv, MainInv
<1> QED
  BY <1>1, Invariance, PTL DEF SafeSpec, SignalNeverOrphans

\* The relay thread is over when `supervise` returns: the join orders every
\* signal it sends before the return (run.rs:185-189).
THEOREM RelayIsOver == SafeSpec => RelayStopsBeforeReturn
<1>1. IInv /\ [Next]_vars => [mainPc = "done" => relayPc' = relayPc]_vars
  <2> SUFFICES ASSUME IInv, Next, mainPc = "done" PROVE relayPc' = relayPc
    BY DEF vars, relayVars
  <2>1. outcome = "killed" \/ relayPc \in {"none", "exit"}
    BY DEF IInv, RelayInv
  <2>2. CASE Main
    BY <2>2 DEF Main, Goto, Answer, Register, RegisterFails, Spawn, SpawnFails,
         StartRelay, StartRelayPanics, Reap, WaitLost, WaitFails, Close, Join,
         Kill, Rewait, RewaitFails
  <2>3. CASE Relay
    BY <2>1, <2>3 DEF Relay, RelayNext, RelaySend, RelayExit
  <2>4. CASE Environment
    BY <2>4 DEF Environment, PidSignal, TerminalSignal, IwayaKilled, ChildEnds,
         ChildIgnores, ChildKilled, PidReused, relayVars
  <2> QED
    BY <2>2, <2>3, <2>4 DEF Next
<1> QED
  BY <1>1, Invariance, PTL DEF SafeSpec, RelayStopsBeforeReturn

\* A signal can go to a stranger only between the reaping of the runtime and the
\* join of the relay thread, and then it is the one the relay holds; SIGKILL
\* never does (run.rs:185-189).
THEOREM StrayOnlyInWindow == SafeSpec => StrayWindow
<1>1. IInv /\ [Next]_vars
        => [stray' # stray /\ ~autoReap =>
              /\ mainPc \in {"close", "join"}
              /\ stray' = stray \cup {relaySig}]_vars
  <2> SUFFICES ASSUME IInv, Next, stray' # stray, ~autoReap
               PROVE  mainPc \in {"close", "join"} /\ stray' = stray \cup {relaySig}
    BY DEF vars, childVars
  <2>1. reused => mainPc \in {"close", "join", "done"}
    BY DEF IInv, ChildInv
  <2>2. CASE Main
    <3>1. Kill
      BY <2>2 DEF Main, Goto, Answer, Register, RegisterFails, Spawn, SpawnFails,
           StartRelay, StartRelayPanics, Reap, WaitLost, WaitFails, Close, Join,
           Rewait, RewaitFails, childVars
    <3> QED
      BY <2>1, <3>1 DEF Kill, SendToPid, Goto
  <2>3. CASE Relay
    <3>1. RelaySend
      BY <2>3 DEF Relay, RelayNext, RelayExit, childVars
    <3> QED
      BY <2>1, <3>1 DEF RelaySend, SendToPid, IInv, RelayInv
  <2>4. CASE Environment
    BY <2>4 DEF Environment, PidSignal, TerminalSignal, IwayaKilled, ChildEnds,
         ChildStops, ChildIgnores, ChildKilled, PidReused, childVars
  <2> QED
    BY <2>2, <2>3, <2>4 DEF Next
<1> QED
  BY <1>1, Invariance, PTL DEF SafeSpec, StrayWindow

-----------------------------------------------------------------------------
(* The refinement: safety part of ImplementsRuntimeCall.                   *)

\* The constant assumption of the abstract call holds.
LEMMA CallAssumption == Call!NoEnding \notin Endings
BY DEF Call!NoEnding, Endings

\* A step of the supervision that leaves the runtime, its ending, the inbox and
\* the outcome alone is invisible to the caller.
LEMMA Stutter ==
    ASSUME UNCHANGED <<child, ending, inbox, outcome, code>>
    PROVE  UNCHANGED Call!vars
BY DEF Call!vars

LEMMA RefinesInit == Init => Call!Init
BY DEF Init, Call!Init, NoEnding, Call!NoEnding

LEMMA RefinesStep == IInv /\ [Next]_vars => [Call!Next]_(Call!vars)
<1> SUFFICES ASSUME IInv, [Next]_vars PROVE Call!Next \/ UNCHANGED Call!vars
  OBVIOUS
<1> USE DEF mainVars, signalVars, relayVars, childVars, Goto, Answer
<1>1. ASSUME NEW s \in Signals, Register(s) PROVE UNCHANGED Call!vars
  BY <1>1, Stutter DEF Register
<1>2. CASE RegisterFails
  <2>1. Call!AnswerError
    BY <1>2 DEF RegisterFails, Call!AnswerError, IInv, MainInv
  <2> QED
    BY <2>1 DEF Call!Next
<1>3. CASE Spawn
  <2>1. Call!Start
    BY <1>3 DEF Spawn, Call!Start, IInv, MainInv
  <2> QED
    BY <2>1 DEF Call!Next
<1>4. CASE SpawnFails
  <2>1. Call!AnswerError
    BY <1>4 DEF SpawnFails, Call!AnswerError, IInv, MainInv
  <2> QED
    BY <2>1 DEF Call!Next
<1>5. CASE StartRelay
  BY <1>5, Stutter DEF StartRelay
<1>6. CASE StartRelayPanics
  <2>1. Call!Lose
    BY <1>6 DEF StartRelayPanics, Call!Lose, IInv, MainInv
  <2> QED
    BY <2>1 DEF Call!Next
<1>7. CASE Reap
  BY <1>7 DEF Reap, Call!vars
<1>8. CASE WaitLost
  BY <1>8, Stutter DEF WaitLost
<1>9. CASE WaitFails
  BY <1>9, Stutter DEF WaitFails
<1>10. CASE Close
  BY <1>10, Stutter DEF Close
<1>11. CASE Join
  <2>1. CASE WaitSucceeded /\ Answer("join", "code", ExitCodeOf(ending))
    <3>1. code' = Call!ShellCode(ending)
      BY <2>1, ExitCodeLemma DEF WaitSucceeded, IInv, ChildInv
    <3>2. Call!AnswerCode
      BY <1>11, <2>1, <3>1 DEF Join, WaitSucceeded, Call!AnswerCode, IInv, MainInv
    <3> QED
      BY <3>2 DEF Call!Next
  <2>2. CASE ~WaitSucceeded /\ Goto("join", "kill")
    BY <1>11, <2>2, Stutter DEF Join
  <2> QED
    BY <1>11, <2>1, <2>2 DEF Join
<1>12. CASE Kill
  <2>1. CASE child = "running"
    <3>1. Call!Doom
      BY <1>12, <2>1 DEF Kill, SendToPid, Call!Doom
    <3> QED
      BY <3>1 DEF Call!Next
  <2>2. CASE child # "running"
    BY <1>12, <2>2, Stutter DEF Kill, SendToPid
  <2> QED
    BY <2>1, <2>2
<1>13. CASE Rewait
  <2>1. Call!AnswerError
    BY <1>13 DEF Rewait, Call!AnswerError, IInv, MainInv
  <2> QED
    BY <2>1 DEF Call!Next
<1>14. CASE RewaitFails
  <2>1. Call!AnswerError
    BY <1>14 DEF RewaitFails, Call!AnswerError, IInv, MainInv, ReturnInv
  <2> QED
    BY <2>1 DEF Call!Next
<1>15. ASSUME NEW s \in Signals, RelayNext(s) PROVE UNCHANGED Call!vars
  BY <1>15, Stutter DEF RelayNext
<1>16. CASE RelaySend
  <2>1. SIGKILL \in inbox' <=> SIGKILL \in inbox
    BY <1>16, SignalsAssumption DEF RelaySend, SendToPid, IInv, TypeOK, RelayInv
  <2> QED
    BY <1>16, <2>1 DEF RelaySend, SendToPid, Call!vars
<1>17. CASE RelayExit
  BY <1>17, Stutter DEF RelayExit
<1>18. ASSUME NEW s \in Signals, PidSignal(s)
       PROVE  Call!Next \/ UNCHANGED Call!vars
  <2>1. CASE s \notin installed
    <3>1. Call!Lose
      BY <1>18, <2>1 DEF PidSignal, IwayaReceives, Call!Lose
    <3> QED
      BY <3>1 DEF Call!Next
  <2>2. CASE s \in installed
    BY <1>18, <2>2, Stutter DEF PidSignal, IwayaReceives
  <2> QED
    BY <2>1, <2>2
<1>19. ASSUME NEW s \in TerminalSignals, TerminalSignal(s)
       PROVE  Call!Next \/ UNCHANGED Call!vars
  <2>1. s \in Signals /\ s # SIGKILL
    BY SignalsAssumption
  <2>2. SIGKILL \in inbox' <=> SIGKILL \in inbox
    BY <1>19, <2>1 DEF TerminalSignal
  <2>3. CASE s \notin installed
    <3>1. Call!Lose
      BY <1>19, <2>2, <2>3 DEF TerminalSignal, IwayaReceives, Call!Lose
    <3> QED
      BY <3>1 DEF Call!Next
  <2>4. CASE s \in installed
    BY <1>19, <2>2, <2>4 DEF TerminalSignal, IwayaReceives, Call!vars
  <2> QED
    BY <2>3, <2>4
<1>20. CASE IwayaKilled
  <2>1. Call!Lose
    BY <1>20 DEF IwayaKilled, Call!Lose
  <2> QED
    BY <2>1 DEF Call!Next
<1>21. ASSUME NEW e \in Endings, ChildEnds(e) PROVE Call!End
  BY <1>21 DEF ChildEnds, ChildStops, Call!End
<1>22. ASSUME NEW s \in Signals, ChildIgnores(s) PROVE UNCHANGED Call!vars
  <2>1. SIGKILL \in inbox' <=> SIGKILL \in inbox
    BY <1>22 DEF ChildIgnores
  <2> QED
    BY <1>22, <2>1 DEF ChildIgnores, Call!vars
<1>23. CASE ChildKilled
  <2>1. [by |-> "signal", n |-> SIGKILL] \in Endings
    BY DEF Endings
  <2>2. Call!End
    BY <1>23, <2>1 DEF ChildKilled, ChildStops, Call!End
  <2> QED
    BY <2>2 DEF Call!Next
<1>24. CASE PidReused
  BY <1>24, Stutter DEF PidReused
<1>25. CASE UNCHANGED vars
  BY <1>25, Stutter DEF vars
<1> QED
  BY <1>1, <1>2, <1>3, <1>4, <1>5, <1>6, <1>7, <1>8, <1>9, <1>10, <1>11,
     <1>12, <1>13, <1>14, <1>15, <1>16, <1>17, <1>18, <1>19, <1>20, <1>21,
     <1>22, <1>23, <1>24, <1>25
  DEF Next, Main, Relay, Environment, Call!Next

\* Every behaviour of `supervise` is one the abstract call allows: the runtime
\* is started once, the answer is final and the error path dooms what it leaves.
THEOREM RefinesRuntimeCall == SafeSpec => Call!SafeSpec
BY RefinesInit, RefinesStep, Invariance, PTL DEF SafeSpec, Call!SafeSpec
=============================================================================
