CONSTANTS
    Vocabularies <- MCVocabularies
    MaxDefinitions = 3
    Null = Null
SPECIFICATION Spec
INVARIANTS
    TypeOK
    OneMeaning
    PointersLeadToTypes
    AcceptedIffLegal
