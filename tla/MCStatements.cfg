CONSTANT
    Vocabularies <- JumpAndNameVocabularies
SPECIFICATION Spec
INVARIANTS
    TypeOK
    AcceptedIffLegal
    GotosAreExact
    ThreatsAreExact
    ReferencesLeadHome
