CONSTANTS
    Depth = 3
    Cells = 1
    Empty = Empty
    Slice = Slice
    Values = {1, 2}
    MaxLength = 2
    Pushes = 2
    KeyIndexes = 2
    KeyRadix = 2
    Scalars <- SmallScalars
    Flags <- SmallFlags
    Collections <- SmallCollections
SPECIFICATION Spec
INVARIANTS
    TypeOK
    PathAsMeant
    FieldsFollow
    HandlersOfTheField
