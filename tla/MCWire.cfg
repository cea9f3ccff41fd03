SPECIFICATION Spec
CONSTANTS
    Word = 8
    Nums = {1, 15}
    EmbeddedRead <- MCRead
    EmbeddedIsInitialized <- MCIsInitialized
    EmbeddedSerialize <- MCSerialize
    EmbeddedByteSize <- MCByteSize
    EmbeddedMergeFrom <- MCMergeFrom
    EmbeddedBytes <- MCBytes
    EmbeddedMakes <- MCMakes
    ParseFromArray <- Parses
    MessageIn <- Parsed
    SerializeToArray <- Serialize
    Needed <- Minimal
    Liberties <- Addable
    Types <- MCTypes
    Chained <- MCChained
    MaxFrames = 2
    MaxOdd = 2
    Limit = 12
INVARIANTS
    RoundTrip
    MergeIsConcatenation
    HandedIsSent
    RelayedAsSent
