SPECIFICATION FairSpec
PROPERTIES
    
    StopEnds
    EveryBlockSaved
\* Nobody has to send transactions; that nothing stops too early is what the
\* properties say.
CHECK_DEADLOCK FALSE
