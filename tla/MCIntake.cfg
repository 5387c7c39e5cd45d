SPECIFICATION IntakeSpec
CONSTANTS
    r1 = r1
    Repo = {r1}
    IngestWorker = {i1, i2}
    LinkerWorker = {k1}
    Client = {c1, c2}
    Handled <- AllTypes
    Offered <- OfferedDisk
    FollowUp = {}
    MaxRequests = 2
    RowWritesFail = TRUE
    MayStop = FALSE
    MayEnd = TRUE
    PromptEpilogue = FALSE
    Bundle = {b1, b2}
    Absent = Absent
    Partial = Partial
    Intact = Intact
    Earlier = Earlier
    DiskFails = TRUE
    s1 = s1
    s2 = s2
    k1 = k1
    k2 = k2
    serial = serial
    parent = parent
    server = server
    File <- Files3
    Scanner <- Threads3
    Process <- Processes
    HostOf <- HostOf3
    Cases <- Cases3
    MaxClaims = 2
    MaxEdits = 1
    Ingest = {s1, s2}
    Share <- Share3
    Serial = serial
    Parent = parent
    Child = {k1, k2}
    ChunkFiles = 2
    MaxScans = 2
    Alphabet <- AlphabetN
    Generic <- GenericN
    Aliases <- AliasesN
    RepoAt <- RepoAtN
    InternalLibs <- InternalN
    Containers = {"services"}
    Infrastructure = {"k8s", "deploy", "infra"}
    Begins <- BeginsN
    VendorDirs = {"vendor"}
    TestDirs = {"tests"}
    GeneratedDirs = {"gen"}
    TestFiles = {"pay_test.go"}
    GeneratedFiles = {"pay.pb.go"}
    SecretKeys = {"PASSWORD"}
    EndpointKeys = {"BILL_URL", "ADS_URL"}
    TopicKeys = {"TOPIC", "topic"}
    GenericVariables = {"PORT"}
    Environments = {"dev", "prod"}
    Within <- WithinN
    Telling = {"billing"}
    MaxHops = 2
    Workers = 3
    ReplicationCap = 2
    TreeFiles <- FilesN
    Trees <- ScannedTrees
SYMMETRY Symmetry
INVARIANTS
    ScanSeesItsClone
    FailureKeepsTree
    BundleWaitsForItsJob
    
    GivenUpStaysOut
    
    LossesAreNamed
    EndpointsExist
    KeysAreFinal
    PairsMeetOnce
PROPERTIES
    OldTreeOutlastsSwap
    
    
    ReuseIsFresh
    ScansEnd
