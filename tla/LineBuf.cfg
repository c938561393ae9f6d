SPECIFICATION Spec
CONSTANTS
    Size = 3
    Bytes = {"a", "b", ";"}
    Sep = ";"
    Nul = "nul"
    MaxStream = 8
INVARIANTS
    InBounds
PROPERTY
    ImplementsLineSource
