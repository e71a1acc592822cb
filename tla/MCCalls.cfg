SPECIFICATION Spec
CONSTANTS
    Types <- MCTypes
    Names <- MCNames
    TagFields <- MCTagFields
    Written <- MCWritten
    MaxActuals <- MCMaxActuals
    Signatures <- MCSignatures
    ProgramFiles <- MCProgramFiles
    TypeLevel <- MCTypeLevel
    SignatureLevel <- MCSignatureLevel
INVARIANTS
    TypeOK
    AcceptedIffLegal
    ErrorsAreExact
