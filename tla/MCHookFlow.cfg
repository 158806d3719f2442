SPECIFICATION HookSpec
CONSTANTS
    Silent = {"FireworkRocketDealDamage", "RakNetPong", "NetherNetPong"}
    Closed = {"ClientLogin", "InventoryDrop"}
INVARIANTS HookTypeOK VetoDenies EffectAnnounced OnlyVetoStops
PROPERTIES AfterFollowsEffect
