SPECIFICATION EstateSpec
CONSTANTS
    r1 = r1
    r2 = r2
    L = L
    a = a
    b = b
    Repo = {r1, r2, L}
    LinkerRepo = L
    ClaimKey = {a, b}
    Tree <- Trees
    IngestWorker = {i1, i2}
    LinkerWorker = {k1}
    Client = {c1}
    Handled <- AllTypes
    Offered <- OfferedCalm
    FollowUp <- Relinks
    MaxRequests = 2
    RowWritesFail = FALSE
    MayStop = FALSE
    MayEnd = FALSE
    PromptEpilogue = FALSE
    Faults = {}
INVARIANT
    ServedLinksFresh
