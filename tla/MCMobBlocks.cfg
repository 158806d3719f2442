SPECIFICATION Spec
CONSTANTS
    dirt = dirt
    flower = flower
    Air = air
    Height = 2
    Kinds <- MCKinds
    Solid <- MCSolid
    Randomly <- MCRandomly
    RangeMin = 0
    RangeMax = 1
INVARIANTS TypeOK
PROPERTIES BlocksConserved PlacesOnGround TakesWhatWasThere
