SPECIFICATION FileSpec
CONSTANTS
    Procs = {"writer", "reader"}
    Modes <- OneWriter
    MaxBlocks = 5
CHECK_DEADLOCK FALSE
INVARIANTS
    FileTypeOK
    AnnouncedIsSaved
PROPERTIES
    SavedOnlyGrows
