SPECIFICATION Spec
CONSTANTS
    Requests = {"q1", "q2"}
    NRoutes = 3
    HeaderNames <- MCHeaderNames
    HeaderOf <- MCHeaderOf
    Origins <- MCOrigins
    UpstreamOf <- MCUpstreamOf
    Messages <- Few
CHECK_DEADLOCK FALSE
PROPERTIES
    OthersDoNotBlock
