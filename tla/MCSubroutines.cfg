CONSTANTS
    Names = {"p", "q"}
    Identifiers <- MCIdentifiers
    TypeForms <- MCTypeForms
    ParameterLists <- MCParameterLists
    Nesting <- MCNesting
    DeclarationParts <- MCDeclarationParts
SPECIFICATION Spec
INVARIANTS
    TypeOK
    BuiltOnce
    CallsAreComplete
    AcceptedIffLegal
