SPECIFICATION TerminalSpec
CONSTANTS
    Width = 2
    Height = 3
    TabStop = 1
    MaxParams = 2
    IntMax = 47
    Programs <- MCPrograms
    TTY_BUFSZ = 4
    Keys = {"a", "b"}
    Counts = {2, 9}
INVARIANT
    EchoExact
PROPERTIES
    ErasesItsSide
    MovesAsTyped
    PromptStays
    Implements
