SPECIFICATION Spec
CONSTANTS
    NoFile = NoFile
    NoTable = NoTable
    Files <- MCFiles
    Sniffed <- MCSniffed
    Extension <- MCExtension
    Looks <- MCLooks
    Kind <- MCKind
    Declared <- MCDeclared
    Holds <- MCHolds
    Within <- MCWithin
    Unreadable = {"sevenTorn"}
    Damaged = {"tarTorn", "gzTorn", "pstTorn", "mailTorn", "note", "broken"}
    Hidden = {"picture"}
    Ignored <- MCIgnored
    Tables <- MCTables
    Sheets <- MCSheets
    Rows <- MCRows
    ReadableRows <- MCReadableRows
    Undecodable <- MCUndecodable
    Unqueryable = {"odd"}
    Misnamed = {"x"}
    FragmentRows = 3
    FragmentChars = 5
    Loads <- MCLoads
    MaxFaults = 3
INVARIANTS
    TypeOK
    RoutedByContent
    QueuedByHolder
    SuccessIsComplete
    UnpackedIsQueued
    HoldersAreEmitted
    TablesAreWhole
    SuccessHasTables
    NoOrphans
