CONSTANTS
    j1 = j1  j2 = j2
    Job = {j1, j2}
    Types = {"full"}
    Included = {"database", "config", "whitelist"}
    RemoteStorage = TRUE
    Retention = 0
    Edited = {"whitelist"}
    MaxTime = 1  MaxDisturbance = 1
SPECIFICATION Spec
INVARIANTS
    TypeOK
    YoungArchivesSurvive
    CompletedHoldsTheDump
PROPERTIES
    RestoredAsArchived
    OldArchivesGo
