SPECIFICATION Spec
CONSTANTS
    Changes = {"Add", "Set"}
    MaxDepth = 4
INVARIANTS TypeOK FlagMirrorsCalls AnnouncedOnce
