SPECIFICATION Spec
CONSTANTS
    Types <- MCTypes
    VariableTypes <- MCVariableTypes
    ConstantTypes <- MCConstantTypes
    ResultTypes <- SubrangeResults
    MaxErrors = 2
INVARIANT SetMembersArePromoted
CHECK_DEADLOCK FALSE
