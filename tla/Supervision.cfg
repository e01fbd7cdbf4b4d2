SPECIFICATION Spec
CONSTANTS
    Signals <- MCSignals
    TerminalSignals <- MCTerminalSignals
    ExitCodes <- MCExitCodes
CHECK_DEADLOCK FALSE
INVARIANTS
    TypeOK
    ExitFaithful
PROPERTIES
    SignalNeverOrphans
    RelayStopsBeforeReturn
    StrayWindow
    CaughtIsRelayed
    EndedIsAnswered
    ImplementsRuntimeCall
