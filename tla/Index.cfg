CONSTANTS
    Empty = Empty
    NoTerm = NoTerm
    Terms = {"1", "2"}
    Keys <- TheKeys
    Values <- TheValues
    BatchOps <- TheBatches
    Field <- TheField
SPECIFICATION Spec
INVARIANTS
    Matched
    IndexExact
