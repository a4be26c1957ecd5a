SPECIFICATION Spec
CONSTANTS
    Ticks = 3
    Bauds = {1200, 9600}
    AppStarts <- MCAppStarts
PROPERTY ErasedOnlyWhenClosed
CHECK_DEADLOCK FALSE
