SPECIFICATION HookSpec
CONSTANTS
    Silent = {"FireworkRocketDealDamage", "RakNetPong", "NetherNetPong"}
    Closed = {"InventoryDrop"}
INVARIANT OnlyVetoStops
