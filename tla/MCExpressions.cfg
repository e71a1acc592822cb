SPECIFICATION Spec
CONSTANTS
    Types <- MCTypes
    VariableTypes <- MCVariableTypes
    ConstantTypes <- MCConstantTypes
    ResultTypes <- MCResultTypes
    MaxErrors = 2
INVARIANT TypeOK
PROPERTY ImplementsRules
CHECK_DEADLOCK FALSE
