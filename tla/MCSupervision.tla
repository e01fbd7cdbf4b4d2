--------------------------- MODULE MCSupervision ---------------------------
(* Supervision on a small instance: SIGTERM (15), which only a process     *)
(* sends, and SIGINT (2), which a terminal sends to the whole group; one   *)
(* successful and one failing exit code.                                   *)
EXTENDS Supervision

MCSignals == {2, 15}
MCTerminalSignals == {2}
MCExitCodes == {0, 255}
=============================================================================
