CONSTANTS
    Vocabularies <- RecordVocabularies
    MaxDefinitions = 1
    Null = Null
SPECIFICATION Spec
INVARIANTS
    NothingIsThrown
