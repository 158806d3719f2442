SPECIFICATION HookSpec
CONSTANTS
    Silent = {"RakNetPong", "NetherNetPong"}
    Closed = {"ClientLogin", "InventoryDrop"}
INVARIANT EffectAnnounced
