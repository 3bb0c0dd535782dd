\* maxCallDuration of an established call.
SPECIFICATION FairSpec
CONSTANTS
    HasCredentials = TRUE
    AuthTries = 2
PROPERTY DurationIsLimited
CHECK_DEADLOCK FALSE
