SPECIFICATION MCSpec
INVARIANTS
    InputKept UsbServes PtyServes  AllocatorsSound 
    LaunchesWhole    SoundPlayed 
     WindowKeeps  SignalsSound 
PROPERTY SearchLeavesOwned
CHECK_DEADLOCK FALSE
