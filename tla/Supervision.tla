---------------------------- MODULE Supervision ----------------------------
(***************************************************************************)
(* `run::supervise` (src/src/run.rs): iwaya runs the container runtime as  *)
(* a child, relays foreground signals to it from a second thread, waits    *)
(* for it and reduces its status to an exit code.                          *)
(*                                                                         *)
(* Four parties interleave: the main thread, the relay thread, the kernel  *)
(* (child process, pid, pending signals) and whoever sends signals.  The   *)
(* signal-hook iterator keeps one flag per signal, so `caught` is a set:   *)
(* two arrivals before the relay looks are one.                            *)
(***************************************************************************)
EXTENDS Naturals, FiniteSets

CONSTANTS
    Signals,           \* FORWARDED_SIGNALS, as signal numbers
    TerminalSignals,   \* those a terminal sends to the whole process group
    ExitCodes          \* the exit codes the runtime may produce

SIGKILL == 9

ASSUME SignalsAssumption ==
    /\ Signals \subseteq 1..64 /\ SIGKILL \notin Signals /\ Signals # {}
    /\ TerminalSignals \subseteq Signals
    /\ ExitCodes \subseteq 0..255

\* How a process can end: by itself, or by a signal.
Endings == [by : {"exit"}, n : ExitCodes]
              \cup [by : {"signal"}, n : Signals \cup {SIGKILL}]
NoEnding == [by |-> "none", n |-> 0]

VARIABLES
    mainPc,      \* where `supervise` is
    outcome,     \* "pending", "code", "error", "panic" or "killed"
    code,        \* the exit code of outcome "code"
    installed,   \* signals whose handler is installed
    caught,      \* the iterator's flags: signals caught and not yet relayed
    closed,      \* `handle.close()` was called
    relayPc,     \* where the relay thread is
    relaySig,    \* the signal it is about to send
    child,       \* "none", "running", "zombie" or "gone"
    ending,      \* how the child ended
    inbox,       \* signals delivered to the running child
    reused,      \* the kernel gave the child's pid to a stranger
    stray,       \* signals this process sent to that stranger
    autoReap     \* iwaya inherited SIGCHLD ignored: the kernel reaps

mainVars   == <<mainPc, outcome, code>>
signalVars == <<installed, caught, closed>>
relayVars  == <<relayPc, relaySig>>
childVars  == <<child, ending, inbox, reused, stray>>
vars == <<mainVars, signalVars, relayVars, childVars, autoReap>>

TypeOK ==
    /\ mainPc \in {"register", "spawn", "startRelay", "wait", "close", "join",
                   "kill", "rewait", "done"}
    /\ outcome \in {"pending", "code", "error", "panic", "killed"}
    /\ code \in 0..255
    /\ installed \subseteq Signals
    /\ caught \subseteq Signals
    /\ closed \in BOOLEAN
    /\ relayPc \in {"none", "next", "send", "exit"}
    /\ relaySig \in Signals \cup {0}
    /\ child \in {"none", "running", "zombie", "gone"}
    /\ ending \in Endings \cup {NoEnding}
    /\ inbox \subseteq Signals \cup {SIGKILL}
    /\ reused \in BOOLEAN
    /\ stray \subseteq Signals \cup {SIGKILL}
    /\ autoReap \in BOOLEAN

Init ==
    /\ mainPc = "register" /\ outcome = "pending" /\ code = 0
    /\ installed = {} /\ caught = {} /\ closed = FALSE
    /\ relayPc = "none" /\ relaySig = 0
    /\ child = "none" /\ ending = NoEnding /\ inbox = {}
    /\ reused = FALSE /\ stray = {}
    /\ autoReap \in BOOLEAN

-----------------------------------------------------------------------------
(* Helpers.                                                                *)

\* Faulty variants, one before each definition a plausible bug would change,
\* are named Faulty...; no specification uses them.
\* Faulty: signal numbers reported as they are.
FaultyExitCodeOf(e) == e.n
\* Faulty: 128 added to every status, without the wrap of u8.
FaultyExitCodeAlwaysOffset(e) == 128 + e.n

\* exit_code_of: u8 arithmetic wraps.
ExitCodeOf(e) == IF e.by = "exit" THEN e.n ELSE (128 + e.n) % 256

Goto(from, to) == mainPc = from /\ mainPc' = to /\ UNCHANGED <<outcome, code>>
Answer(from, kind, c) ==
    mainPc = from /\ mainPc' = "done" /\ outcome' = kind /\ code' = c

\* kill(2) on the child's pid: a running child gets the signal, a zombie does
\* not, an unused pid is ESRCH, and a reused pid belongs to somebody else.
SendToPid(s) ==
    /\ inbox' = IF child = "running" THEN inbox \cup {s} ELSE inbox
    /\ stray' = IF reused THEN stray \cup {s} ELSE stray
    /\ UNCHANGED <<child, ending, reused>>

\* The child's process ends.
ChildStops(e) ==
    /\ child = "running"
    /\ child' = IF autoReap THEN "gone" ELSE "zombie"
    /\ ending' = e
    /\ inbox' = {}
    /\ UNCHANGED <<reused, stray>>

-----------------------------------------------------------------------------
(* The main thread.                                                        *)

\* Faulty: the child is spawned once the first handler is in place.
FaultyRegisterFirstOnly(s) ==
    /\ s \notin installed
    /\ installed' = installed \cup {s}
    /\ Goto("register", "spawn")
    /\ UNCHANGED <<caught, closed, relayVars, childVars, autoReap>>

\* `Signals::new` installs one handler after the other.
Register(s) ==
    /\ s \notin installed
    /\ installed' = installed \cup {s}
    /\ Goto("register", IF installed' = Signals THEN "spawn" ELSE "register")
    /\ UNCHANGED <<caught, closed, relayVars, childVars, autoReap>>

RegisterFails ==
    /\ Answer("register", "error", code)
    /\ UNCHANGED <<signalVars, relayVars, childVars, autoReap>>

Spawn ==
    /\ Goto("spawn", "startRelay")
    /\ child' = "running"
    /\ UNCHANGED <<signalVars, relayVars, ending, inbox, reused, stray, autoReap>>

SpawnFails ==
    /\ Answer("spawn", "error", code)
    /\ closed' = TRUE
    /\ UNCHANGED <<installed, caught, relayVars, childVars, autoReap>>

StartRelay ==
    /\ Goto("startRelay", "wait")
    /\ relayPc' = "next"
    /\ UNCHANGED <<signalVars, relaySig, childVars, autoReap>>

\* `thread::spawn` panics when the thread cannot be created: the unwinding
\* drops the `Child` handle, which leaves its process alone.
StartRelayPanics ==
    /\ Answer("startRelay", "panic", code)
    /\ UNCHANGED <<signalVars, relayVars, childVars, autoReap>>

Reap ==
    /\ child = "zombie"
    /\ Goto("wait", "close")
    /\ child' = "gone"
    /\ UNCHANGED <<signalVars, relayVars, ending, inbox, reused, stray, autoReap>>

\* waitpid finds no child (ECHILD): the kernel has already reaped it.
WaitLost ==
    /\ child = "gone"
    /\ Goto("wait", "close")
    /\ UNCHANGED <<signalVars, relayVars, childVars, autoReap>>

\* waitpid fails while the child runs: the case the error path is written for.
WaitFails ==
    /\ child = "running"
    /\ Goto("wait", "close")
    /\ UNCHANGED <<signalVars, relayVars, childVars, autoReap>>

\* Faulty: the handle is dropped without `handle.close()`.
FaultyCloseForgotten ==
    /\ Goto("close", "join")
    /\ UNCHANGED <<signalVars, relayVars, childVars, autoReap>>

Close ==
    /\ Goto("close", "join")
    /\ closed' = TRUE
    /\ UNCHANGED <<installed, caught, relayVars, childVars, autoReap>>

\* Faulty: the error path taken after a successful wait as well.
FaultyWaitSucceededNever == FALSE

\* `result` is Ok exactly when `Reap` ended the wait.
WaitSucceeded == child = "gone" /\ ~autoReap

\* Faulty: the relay thread is not joined.
FaultyJoinSkipped ==
    /\ \/ WaitSucceeded /\ Answer("join", "code", ExitCodeOf(ending))
       \/ ~WaitSucceeded /\ Goto("join", "kill")
    /\ UNCHANGED <<signalVars, relayVars, childVars, autoReap>>

Join ==
    /\ relayPc = "exit"
    /\ \/ WaitSucceeded /\ Answer("join", "code", ExitCodeOf(ending))
       \/ ~WaitSucceeded /\ Goto("join", "kill")
    /\ UNCHANGED <<signalVars, relayVars, childVars, autoReap>>

\* Faulty: the error path does not terminate the child.
FaultyKillForgotten ==
    /\ Goto("kill", "rewait")
    /\ UNCHANGED <<signalVars, relayVars, childVars, autoReap>>

Kill ==
    /\ Goto("kill", "rewait")
    /\ SendToPid(SIGKILL)
    /\ UNCHANGED <<signalVars, relayVars, autoReap>>

\* The second wait; its result is ignored.
Rewait ==
    /\ child \in {"zombie", "gone"}
    /\ Answer("rewait", "error", code)
    /\ child' = "gone"
    /\ UNCHANGED <<signalVars, relayVars, ending, inbox, reused, stray, autoReap>>

RewaitFails ==
    /\ child = "running"
    /\ Answer("rewait", "error", code)
    /\ UNCHANGED <<signalVars, relayVars, childVars, autoReap>>

-----------------------------------------------------------------------------
(* The relay thread: `for signal in &mut signals { forward_signal(..) }`.  *)
(* The iterator looks at `closed` before it yields, so a signal still      *)
(* flagged when the handle is closed is dropped.                           *)

\* Faulty: taking one signal clears the flags of all.
FaultyRelayNextClears(s) ==
    /\ outcome # "killed"
    /\ relayPc = "next" /\ ~closed
    /\ s \in caught
    /\ caught' = {}
    /\ relayPc' = "send" /\ relaySig' = s
    /\ UNCHANGED <<mainVars, installed, closed, childVars, autoReap>>

RelayNext(s) ==
    /\ outcome # "killed"
    /\ relayPc = "next" /\ ~closed
    /\ s \in caught
    /\ caught' = caught \ {s}
    /\ relayPc' = "send" /\ relaySig' = s
    /\ UNCHANGED <<mainVars, installed, closed, childVars, autoReap>>

RelaySend ==
    /\ outcome # "killed"
    /\ relayPc = "send"
    /\ SendToPid(relaySig)
    /\ relayPc' = "next" /\ relaySig' = 0
    /\ UNCHANGED <<mainVars, signalVars, autoReap>>

RelayExit ==
    /\ outcome # "killed"
    /\ relayPc = "next" /\ closed
    /\ relayPc' = "exit"
    /\ UNCHANGED <<mainVars, signalVars, relaySig, childVars, autoReap>>

-----------------------------------------------------------------------------
(* The environment: signals aimed at iwaya, and the runtime itself.        *)

\* What a signal does to iwaya: the default action of each of these signals
\* terminates it; a handler sets a flag while the iterator exists.
IwayaReceives(s) ==
    \/ /\ s \notin installed
       /\ mainPc' = "done" /\ outcome' = "killed"
       /\ UNCHANGED <<code, caught>>
    \/ /\ s \in installed
       /\ caught' = IF relayPc = "exit" THEN caught ELSE caught \cup {s}
       /\ UNCHANGED mainVars

\* kill <iwaya-pid>, `docker stop`, a service manager: iwaya alone.
PidSignal(s) ==
    /\ outcome = "pending"
    /\ IwayaReceives(s)
    /\ UNCHANGED <<installed, closed, relayVars, childVars, autoReap>>

\* Ctrl-C, Ctrl-\, hangup: every process of the foreground group.
TerminalSignal(s) ==
    /\ outcome = "pending"
    /\ IwayaReceives(s)
    /\ inbox' = IF child = "running" THEN inbox \cup {s} ELSE inbox
    /\ UNCHANGED <<installed, closed, relayVars, child, ending, reused, stray,
                   autoReap>>

\* SIGKILL cannot be handled.
IwayaKilled ==
    /\ outcome = "pending"
    /\ mainPc' = "done" /\ outcome' = "killed"
    /\ UNCHANGED <<code, signalVars, relayVars, childVars, autoReap>>

ChildEnds(e) ==
    /\ ChildStops(e)
    /\ UNCHANGED <<mainVars, signalVars, relayVars, autoReap>>

ChildIgnores(s) ==
    /\ s \in inbox \ {SIGKILL}
    /\ inbox' = inbox \ {s}
    /\ UNCHANGED <<mainVars, signalVars, relayVars, child, ending, reused,
                   stray, autoReap>>

ChildKilled ==
    /\ SIGKILL \in inbox
    /\ ChildStops([by |-> "signal", n |-> SIGKILL])
    /\ UNCHANGED <<mainVars, signalVars, relayVars, autoReap>>

PidReused ==
    /\ child = "gone"
    /\ reused' = TRUE
    /\ UNCHANGED <<mainVars, signalVars, relayVars, child, ending, inbox, stray,
                   autoReap>>

-----------------------------------------------------------------------------
Main ==
    \/ \E s \in Signals : Register(s)
    \/ RegisterFails \/ Spawn \/ SpawnFails \/ StartRelay \/ StartRelayPanics
    \/ Reap \/ WaitLost \/ WaitFails \/ Close \/ Join \/ Kill
    \/ Rewait \/ RewaitFails

Relay == (\E s \in Signals : RelayNext(s)) \/ RelaySend \/ RelayExit

Environment ==
    \/ \E s \in Signals : PidSignal(s) \/ ChildIgnores(s)
    \/ \E s \in TerminalSignals : TerminalSignal(s)
    \/ \E e \in Endings : ChildEnds(e)
    \/ IwayaKilled \/ ChildKilled \/ PidReused

Next == Main \/ Relay \/ Environment

SafeSpec == Init /\ [][Next]_vars

\* The scheduler runs both threads; the kernel delivers SIGKILL.  Nothing makes
\* a system call fail, a signal arrive or the runtime end by itself.  The
\* iterator scans all its flags in turn, so none is passed over forever: strong
\* fairness, because RelayNext(s) is disabled while another signal is sent.
MainProgress ==
    \/ \E s \in Signals : Register(s)
    \/ Spawn \/ StartRelay \/ Reap \/ WaitLost \/ Close \/ Join \/ Kill \/ Rewait

Fairness ==
    /\ WF_vars(MainProgress)
    /\ WF_vars(RelaySend) /\ WF_vars(RelayExit)
    /\ \A s \in Signals : SF_vars(RelayNext(s))
    /\ WF_vars(ChildKilled)

Spec == SafeSpec /\ Fairness

-----------------------------------------------------------------------------
(* Properties.                                                             *)

\* The code `supervise` returns is the shell's code for how the runtime ended,
\* and it is returned only after the runtime has ended and been reaped
\* (docs/design/docker-execution.md, "Process Behavior"; run.rs exit_code_of).
ExitFaithful ==
    outcome = "code" =>
        /\ child = "gone" /\ ending # NoEnding
        /\ code = IF ending.by = "exit" THEN ending.n ELSE 128 + ending.n

\* A forwarded signal never terminates iwaya while the runtime exists: the
\* handlers are in place before the child is (run.rs:160-163).
SignalNeverOrphans ==
    [][\A s \in Signals :
          (PidSignal(s) \/ TerminalSignal(s)) /\ outcome' = "killed"
              => child = "none"]_vars

\* When `supervise` returns an error the runtime is gone or SIGKILL has been
\* sent to it: no path that returns leaves an orphan (run.rs:193-201).
ReturnLeavesNoOrphan ==
    outcome \in {"code", "error"} /\ child = "running" => SIGKILL \in inbox

\* Once `supervise` has returned, its relay thread sends nothing more: the
\* caller may remove the sidecar and exit with nobody signalling a dead pid.
RelayStopsBeforeReturn ==
    [][mainPc = "done" => relayPc' = relayPc]_vars

\* The only moment at which a signal can reach a stranger that took the
\* child's pid lies between the reaping of the child and the join of the
\* relay thread, and SIGKILL never does, unless the kernel reaps children
\* behind iwaya's back (run.rs:185-189).
StrayWindow ==
    [][stray' # stray /\ ~autoReap =>
          /\ mainPc \in {"close", "join"}
          /\ stray' = stray \cup {relaySig}]_vars

\* A signal caught while the runtime runs reaches it, unless the runtime ends
\* or iwaya itself goes first; coalescing loses no signal altogether.
CaughtIsRelayed ==
    \A s \in Signals :
        (s \in caught /\ child = "running" /\ outcome = "pending")
            ~> (s \in inbox \/ child # "running" \/ outcome # "pending")

\* A runtime that has ended is reported: close and join cannot hang, however
\* many signals keep arriving.
EndedIsAnswered ==
    (child \in {"zombie", "gone"} /\ outcome = "pending") ~> outcome # "pending"

\* `supervise` keeps the promise of the abstract call.
Call == INSTANCE RuntimeCall WITH
    runtime <- CASE child = "none" -> "unborn"
                 [] child = "running" -> "live"
                 [] OTHER -> "ended",
    doomed  <- SIGKILL \in inbox,
    answer  <- CASE outcome = "pending" -> "none"
                 [] outcome \in {"panic", "killed"} -> "lost"
                 [] OTHER -> outcome

\* The detailed protocol implements the abstract call, fairness included.
ImplementsRuntimeCall == Call!Spec

-----------------------------------------------------------------------------
(* What the code's comments and decision records say, and it does not do.  *)

\* "Errors are ignored on purpose: the one that occurs in practice is the child
\* having already exited (ESRCH), which needs no action" (run.rs:207-209): a
\* signal for an exited child reaches nobody.  (Where the kernel reaps children
\* by itself the same happens more easily; the claim is refuted without that.)
SignalToExitedChildIsNoOp == ~autoReap => stray = {}

\* "A supervisor must not leave the runtime (and its exec-ed target) orphaned"
\* (run.rs:195-196), on every path that ends `supervise` by itself.
NoPathOrphans ==
    outcome \in {"code", "error", "panic"} /\ child = "running" => SIGKILL \in inbox
=============================================================================
