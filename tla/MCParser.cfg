SPECIFICATION Spec
CONSTANTS
    Bytes <- MCBytes
    MaxBudget = 3
    MaxReads = 2
    Requests <- MCRequests
INVARIANTS TypeOK BackIsThere EndsAtBlankLine ReadsTheRequest RefusesNoRequest
