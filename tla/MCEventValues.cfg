SPECIFICATION Spec
CONSTANT MaxEdits = 2
INVARIANTS TypeOK WishGranted VetoHeard
PROPERTIES RoundTrip TruthTold
