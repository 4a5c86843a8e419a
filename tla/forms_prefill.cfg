SPECIFICATION Spec
CONSTANTS
    Def <- MCDefListed
    Words <- MCWords
    Ints <- MCInts
    Floats <- MCFloats
    Dotted <- MCDotted
    Sprint <- MCSprint
    Near <- MCSprint
    Strip <- MCStrip
    Typed <- MCTypedListed
    JsonRecords <- MCJsonListed
    NameKey = "name"
    Names <- MCNames
    None = None
INVARIANT PrefillKeeps
