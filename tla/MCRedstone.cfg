SPECIFICATION Spec
CONSTANTS
    lamp = lamp
    wire = wire
    Components <- MCComponents
    Order <- MCOrder
    Secondary <- MCSecondary
    IgnoreFirst <- MCIgnoreFirst
    Levels = {0, 15}
INVARIANTS TypeOK ChangesArrive BlocksAskFirst AfterTellsTheUpdate SecondariesLast
