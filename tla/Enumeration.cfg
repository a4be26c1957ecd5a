SPECIFICATION FairSpec
CONSTANTS
    Etext = 100
    DataStart = 200
    DataWords = 2
INVARIANTS CpuClockSteady MemoryBeforeInterrupts TickIsMillisecond SameClocksInMain
           TypeOK HostPipesMatch
PROPERTIES ReachesMain GetsConfigured
