SPECIFICATION Spec
CONSTANTS
    Ticks = 3
    Bauds = {1200, 9600}
    AppStarts <- MCAppStarts
INVARIANT ArmedOnlyAfterOpen
CHECK_DEADLOCK FALSE
