SPECIFICATION MenuSpec
CONSTANTS
    Words <- MCWords
    Lower <- MCLower
    Digits = {"12"}
    Dollars = {"$x", "$text"}
    HexIds = {"12"}
    Meta = {"us.r", "user("}
    Matches <- MCMatches
    BadPatterns <- MCBadPatterns
    SchemaKeys = {"User"}
    Queries <- MCQueries
    Docs <- MCDocs
    Late <- MCLate
    WebQueries <- MCWebQueries
    Starts <- MCStarts
    Limits <- MCLimits
    Users = {u1, u2}
    SchemaFiles <- MCSchemaFiles
    Name <- MCName
    PathHas <- MCPathHas
    Layout <- MCLayout
    SectionOrder <- MCSectionOrder
    Configs <- MCConfigs
    NoSection = ""
    Nothing = Nothing
INVARIANTS
    PairsParsed
    
    CountedAreShown
    PagesFit
    FormsProper
    OneBeamline
    CheckedByOwn
SYMMETRY MCSymmetry
