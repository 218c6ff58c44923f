SPECIFICATION FairSpec
CONSTANT
    Null = Null
PROPERTIES
    EpochsPass
    WaitsEnd
    Delivered
\* Nobody has to send; that nothing stops too early is what the properties say.
CHECK_DEADLOCK FALSE
