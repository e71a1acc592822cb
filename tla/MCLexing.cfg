CONSTANTS
    Sources <- MCSources
    Upper <- MCUpper
    DeadEnd = {}
    SeparatorTable <- MCSeparatorTable
    TokenTable <- MCTokenTable
    RequiresSeparation <- MustBeSeparated
    PriorityTokens = {"WsDo", "WsDownto", "WsOr", "WsTo"}
    Words <- SomeWords
    Alphabet <- AllCharacters
    Letters <- AllLetters
    Digits <- AllDigits
    White <- Blanks
    Control <- LineBreaks
SPECIFICATION FairSpec
INVARIANTS
    TypeOK
    PiecesTileTheSource
    ErrorsAreExact
    LongestMatch
    CommentsEndAtTheFirstCloser
    StringValueIsExact
PROPERTIES
    Termination
