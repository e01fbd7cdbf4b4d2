SPECIFICATION SafeSpec
CONSTANTS
    s1 = s1
    s2 = s2
    s3 = s3
    p1 = p1
    p2 = p2
    Secrets = {s1, s2, s3}
    Providers = {p1, p2}
    ProviderOf <- MCProviderOf
CHECK_DEADLOCK FALSE
INVARIANTS
    TypeOK
    RawConfinement
    OnlyDeclared
    SupervisorPurged
    OnlyWholeTransferArms
    SidecarOutlivesTarget
    NoSidecarLeftBehind
    RemovalFindsContainer
PROPERTIES
    TargetStartsComplete
    ImplementsSecretDelivery
