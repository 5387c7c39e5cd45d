SPECIFICATION EstateSpec
CONSTANTS
    r1 = r1
    r2 = r2
    L = L
    a = a
    b = b
    Repo = {r1, r2, L}
    LinkerRepo = L
    ClaimKey = {a, b}
    Tree <- Trees
    IngestWorker = {i1, i2}
    LinkerWorker = {k1}
    Client = {c1}
    Handled <- AllTypes
    Offered <- OfferedRefresh
    FollowUp <- Relinks
    MaxRequests = 1
    RowWritesFail = FALSE
    MayStop = FALSE
    MayEnd = FALSE
    PromptEpilogue = TRUE
    Faults = {"write"}
INVARIANT
    NoDeletedEvidence
