SPECIFICATION Spec
CONSTANTS
    Threads <- MCThreads
    Types <- MCTypes
    Unnamed = {"unnamed"}
INVARIANTS TypeOK HeardOnce HandledOnce
