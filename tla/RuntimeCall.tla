---------------------------- MODULE RuntimeCall ----------------------------
(***************************************************************************)
(* What `supervise` promises the code that calls it: the runtime process   *)
(* is started at most once; the call answers with the shell's exit code of *)
(* the runtime only when the runtime has ended that way; an error is       *)
(* answered only when no runtime is left running, or when the one left is  *)
(* doomed; and a runtime that has ended is eventually answered for.        *)
(* Supervision.tla, the detailed protocol, implements this module.         *)
(***************************************************************************)
EXTENDS Naturals

CONSTANT Endings   \* the ways a process can end: [by, n] records

NoEnding == [by |-> "none", n |-> 0]

VARIABLES
    runtime,   \* "unborn", "live" or "ended"
    ending,    \* how the runtime ended
    doomed,    \* SIGKILL is on its way to a live runtime
    answer,    \* "none", "code", "error", or "lost": the caller died first
    code       \* the exit code of a "code" answer

vars == <<runtime, ending, doomed, answer, code>>

\* The shell's convention for reporting how a process ended.
ShellCode(e) == IF e.by = "exit" THEN e.n ELSE 128 + e.n

Init ==
    /\ runtime = "unborn"
    /\ ending = NoEnding
    /\ doomed = FALSE
    /\ answer = "none"
    /\ code = 0

Start ==
    /\ runtime = "unborn" /\ answer = "none"
    /\ runtime' = "live"
    /\ UNCHANGED <<ending, doomed, answer, code>>

End ==
    /\ runtime = "live"
    /\ runtime' = "ended" /\ doomed' = FALSE
    /\ ending' \in Endings
    /\ UNCHANGED <<answer, code>>

Doom ==
    /\ runtime = "live"
    /\ doomed' = TRUE
    /\ UNCHANGED <<runtime, ending, answer, code>>

AnswerCode ==
    /\ runtime = "ended" /\ answer = "none"
    /\ answer' = "code" /\ code' = ShellCode(ending)
    /\ UNCHANGED <<runtime, ending, doomed>>

AnswerError ==
    /\ answer = "none"
    /\ runtime = "live" => doomed
    /\ answer' = "error"
    /\ UNCHANGED <<runtime, ending, doomed, code>>

\* The caller is killed or unwinds: no answer will come.
Lose ==
    /\ answer = "none"
    /\ answer' = "lost"
    /\ UNCHANGED <<runtime, ending, doomed, code>>

Next == Start \/ End \/ Doom \/ AnswerCode \/ AnswerError \/ Lose

SafeSpec == Init /\ [][Next]_vars

\* A runtime that has ended is answered for, and a doomed one ends.
AnswerEnded == runtime = "ended" /\ (AnswerCode \/ AnswerError \/ Lose)
EndDoomed   == doomed /\ End

Spec == SafeSpec /\ WF_vars(AnswerEnded) /\ WF_vars(EndDoomed)
=============================================================================
