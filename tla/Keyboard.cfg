SPECIFICATION KeyboardSpec
CONSTANTS
    Size = 2
    MaxTyped = 4
    Letters = {"a", "c"}
    Silent = {"escape"}
    MaxEvents = 4
INVARIANTS
    TypedAsMeant
PROPERTIES
    Implements
    Delivered
CHECK_DEADLOCK FALSE
