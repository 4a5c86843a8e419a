SPECIFICATION Spec
CONSTANTS
    Def <- MCDef
    Words <- MCWords
    Ints <- MCInts
    Floats <- MCFloats
    Dotted <- MCDotted
    Sprint <- MCSprint
    Near <- MCSprint
    Strip <- MCStrip
    Typed <- MCTyped
    JsonRecords <- MCJson
    NameKey = "name"
    Names <- MCNames
    None = None
INVARIANTS
    WTypeOK
    StoredConforms
    PrefillKeeps
