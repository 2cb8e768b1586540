SPECIFICATION Spec
CONSTANTS
    LegalId <- MCLegalId
    TooLong <- MCTooLong
    NumberOf <- MCNumberOf
    IntMin <- MCIntMin
    IntMax <- MCIntMax
    KeysOf <- MCKeysOf
    Viewer = {"a", "b"}
    Header = 24
    Matrices = 128
    JobBuffer = 1000
    PartBytes = 400
    Thread <- MCThread
    Process <- MCProcess
    ProcessOf <- MCProcessOf
    LiveJobs = {"job1"}
    MasterId = "master"
    Files <- MCFiles
    Menus <- MCMenus
    MasterPid = {m1, m2, m3}
    FirstMaster = m1
    Nobody = Nobody
    Tries = 2
    MaxRequests = 2
    MaxCrashes = 1
INVARIANTS
    AnswersAreRight
    OneMaster
PROPERTIES
    RequestsAreAnswered
CHECK_DEADLOCK FALSE
