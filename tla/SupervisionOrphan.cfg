SPECIFICATION SafeSpec
CONSTANTS
    Signals <- MCSignals
    TerminalSignals <- MCTerminalSignals
    ExitCodes <- MCExitCodes
CHECK_DEADLOCK FALSE
INVARIANT NoPathOrphans
