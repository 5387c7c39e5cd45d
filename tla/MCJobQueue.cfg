SPECIFICATION QueueSpec
CONSTANTS
    r1 = r1
    L = L
    Repo = {r1, L}
    IngestWorker = {i1, i2}
    LinkerWorker = {k1}
    Client = {c1, c2}
    Handled <- HandledQueue
    Offered <- OfferedQueue
    FollowUp <- FollowUpQueue
    MaxRequests = 2
    RowWritesFail = TRUE
    MayStop = TRUE
    MayEnd = TRUE
    PromptEpilogue = FALSE
SYMMETRY Symmetry
INVARIANTS
    LinkerRunsAlone
    RepoRunsSerially
    OneLiveJobPerKey
