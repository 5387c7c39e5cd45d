SPECIFICATION FairQueueSpec
CONSTANTS
    r1 = r1
    L = L
    Repo = {r1, L}
    IngestWorker = {i1, i2}
    LinkerWorker = {k1}
    Client = {c1}
    Handled <- HandledQueue
    Offered <- OfferedLive
    FollowUp = {}
    MaxRequests = 3
    RowWritesFail = FALSE
    MayStop = TRUE
    MayEnd = FALSE
    PromptEpilogue = FALSE
PROPERTIES
    QueuedJobsEnd
    StopDrains
