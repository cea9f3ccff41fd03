SPECIFICATION Spec
CONSTANTS
    Bytes <- MCBytes
    MaxBudget = 1
    MaxReads = 2
    Requests <- MCRequests
INVARIANT ReadsTheNextRequest
