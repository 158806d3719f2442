SPECIFICATION Spec
CONSTANTS
    dirt = dirt
    flower = flower
    Air = air
    Height = 2
    Kinds <- MCKinds
    Solid <- MCSolid
    Randomly <- MCRandomly
    RangeMin = 2
    RangeMax = 3
PROPERTIES OffsetInRange
