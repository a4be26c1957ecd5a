SPECIFICATION FairSpec
CONSTANTS
    Ticks = 3
    Bauds = {1200, 9600}
    AppStarts <- MCAppStarts
INVARIANTS TypeOK RequestNotLost ArmedMatchesPort FullDelay BootloaderSpared
CHECK_DEADLOCK FALSE
PROPERTY ResetHappens
