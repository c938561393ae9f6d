SPECIFICATION Spec
CONSTANTS
    Inputs <- MCInputs
    Chars <- MCChars
    MaxChars = 3
    MaxRoom = 12
INVARIANT DecodesAsReference
INVARIANT EncodeIntoFits
