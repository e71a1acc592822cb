CONSTANTS
    IntegerMax = 1
    Records <- MCRecords
    MaxCaseConstants = 3
SPECIFICATION Spec
INVARIANTS
    TypeOK
    CounterNeverOverflows
    AcceptedIffCovered
    EveryOrdinalHasItsVariant
