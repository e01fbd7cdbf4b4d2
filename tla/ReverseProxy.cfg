SPECIFICATION SafeSpec
CONSTANTS
    Requests = {"q1"}
    NRoutes = 3
    HeaderNames <- MCHeaderNames
    HeaderOf <- MCHeaderOf
    Origins <- MCOrigins
    UpstreamOf <- MCUpstreamOf
    Messages <- Every
CHECK_DEADLOCK FALSE
INVARIANTS
    TypeOK
    OnlyMeantUpstream
    CredentialsAreInjected
    FramingFollowsBody
PROPERTY
    ImplementsExchange
