SPECIFICATION Spec
CONSTANTS
    Explosions = {x1, x2, x3}
    None = None
INVARIANTS TypeOK AskedAboutItself ListsReturned VetoIsItsOwn CrashNeedsDisturbance
CHECK_DEADLOCK FALSE
