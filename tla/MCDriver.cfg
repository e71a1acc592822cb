SPECIFICATION Spec
CONSTANTS
    MaxFaults = 4
INVARIANTS
    TypeOK
    HoldDiscipline
    HadErrorsIsWhatWasShown
    NoFaultShownTwice
    AcceptedIffFaultless
PROPERTIES
    ImplementsCompiler
