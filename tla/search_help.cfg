SPECIFICATION PageSpec
CONSTANTS
    Words <- MCWords
    Lower <- MCLower
    Digits = {"12"}
    Dollars = {"$x", "$text"}
    HexIds = {"12"}
    Meta = {"us.r", "user("}
    Matches <- MCMatches
    BadPatterns <- MCBadPatterns
    SchemaKeys = {"User"}
    Queries <- MCQueries
    Docs <- MCDocs
    Late <- MCLate
    WebQueries <- MCWebQueries
    Starts <- MCStarts
    Limits <- MCLimits
INVARIANT HelpFollowed
