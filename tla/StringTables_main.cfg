CONSTANTS
    BaselineTable = BaselineTable
    UserInfoTable = UserInfoTable
    OtherTable = OtherTable
    Formats = {f1, f2}
    ClassKeys <- FewClassKeys
    OtherKeys <- FewOtherKeys
    Slots = {0, 1}
    Values = {v1}
    Empty = Empty
    Garbage = Garbage
    History = 2
    MaxTables = 2
    MaxEntries = 4
SPECIFICATION TablesSpec
INVARIANTS
    EntriesAsWritten
    ContentsFollow
