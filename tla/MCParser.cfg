CONSTANTS
    Kinds <- PascalKinds
    Tokens <- PascalTokens
    KindOf <- PascalKindOf
    Eof = "eof"
    Grammar <- Pascal
    Start = "Program"
    Inputs <- MCInputs
SPECIFICATION FairSpec
INVARIANTS
    TypeOK
    FurthestFailure
    AcceptsTheGrammar
    DiagnosticIsExact
PROPERTIES
    Termination
