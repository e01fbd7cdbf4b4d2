--------------------------- MODULE SecretDelivery ---------------------------
(***************************************************************************)
(* What an invocation promises about its secrets, whatever fails: the      *)
(* target gets exactly the direct secrets or does not run; a proxied       *)
(* secret is never given to it, only to a proxy that is armed with all of  *)
(* them at once and announced before the target starts; and once the proxy *)
(* is disarmed nothing arms it again behind a running target.              *)
(* Invocation.tla implements this module.                                  *)
(***************************************************************************)

VARIABLES
    direct, proxied,   \* what the policy declares
    armed,             \* the raw values the proxy can inject
    announced,         \* the proxy reported that it listens
    target,            \* "none", "running", "doomed" or "ended"
    given              \* the raw values the target process has

vars == <<direct, proxied, armed, announced, target, given>>

Init ==
    /\ armed = {} /\ announced = FALSE
    /\ target = "none" /\ given = {}

Arm ==
    /\ target = "none" /\ armed = {}
    /\ armed' = proxied
    /\ UNCHANGED <<direct, proxied, announced, target, given>>

Announce ==
    /\ armed = proxied /\ target = "none"
    /\ announced' = TRUE
    /\ UNCHANGED <<direct, proxied, armed, target, given>>

Disarm ==
    /\ armed' = {}
    /\ UNCHANGED <<direct, proxied, announced, target, given>>

Start ==
    /\ target = "none"
    /\ proxied = {} \/ announced
    /\ target' = "running" /\ given' = direct
    /\ UNCHANGED <<direct, proxied, armed, announced>>

Doom ==
    /\ target = "running"
    /\ target' = "doomed"
    /\ UNCHANGED <<direct, proxied, armed, announced, given>>

End ==
    /\ target \in {"running", "doomed"}
    /\ target' = "ended" /\ given' = {}
    /\ UNCHANGED <<direct, proxied, armed, announced>>

Next == Arm \/ Announce \/ Disarm \/ Start \/ Doom \/ End

Spec == Init /\ [][Next]_vars
=============================================================================
