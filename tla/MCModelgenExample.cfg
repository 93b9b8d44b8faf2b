SPECIFICATION Spec
CONSTANTS
    Ident <- MCIdent
    Word = {}
    Given <- MCExample
    MaxWords = 0
    IntMax = 14
    Document <- MCDocument
    FieldName = {"f"}
    Limit = {0}
    MaxChecks = 1
    Name = {"f"}
    Value <- MCValue
    MaxCalls = 1
CHECK_DEADLOCK FALSE
INVARIANT GivenAccepted
