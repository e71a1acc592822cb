CONSTANT
    Vocabularies <- FileVocabularies
SPECIFICATION Spec
INVARIANTS
    BuiltinFilesLeadHome
