SPECIFICATION Spec
CONSTANTS
    Legs = 2
    Tries = 2
    MaxLives = 2
    MaxAlive = 2
INVARIANTS
    AcceptedIsOwn
PROPERTIES
    KeptForGood
CHECK_DEADLOCK FALSE
