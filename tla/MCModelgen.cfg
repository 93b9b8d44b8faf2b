SPECIFICATION Spec
CONSTANTS
    Ident <- MCIdent
    Word <- MCWord
    Given <- MCGiven
    MaxWords = 9
    IntMax = 14
    Document <- MCDocument
    FieldName = {"f", "g"}
    Limit = {0, 2, 4}
    MaxChecks = 4
    Name = {"f"}
    Value <- MCValue
    MaxCalls = 4
CHECK_DEADLOCK FALSE
INVARIANTS
    ParsedIsSource
    GivenAccepted
    GeneratesDeclared
    RoundTrip
    BuilderFaithful
    FieldChecked
