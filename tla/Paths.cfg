CONSTANTS
    Empty = Empty
    Tombstone = Tombstone
    Keys <- FlatKeys
    Values <- FlatValues
    BatchOps <- FlatBatches
    MergeEvery = 2
    MaxLog = 3
SPECIFICATION Spec
INVARIANTS
    
    GetAnswers
    

    
