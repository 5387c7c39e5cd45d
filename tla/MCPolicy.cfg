SPECIFICATION NamingSpec
CONSTANTS
    Alphabet <- AlphabetN
    Generic <- GenericN
    Aliases <- AliasesN
    RepoAt <- RepoAtN
    InternalLibs <- InternalN
    Containers = {"services"}
    Infrastructure = {"k8s", "deploy", "infra"}
    Begins <- BeginsN
    VendorDirs = {"vendor"}
    TestDirs = {"tests"}
    GeneratedDirs = {"gen"}
    TestFiles = {"pay_test.go"}
    GeneratedFiles = {"pay.pb.go"}
    SecretKeys = {"PASSWORD"}
    EndpointKeys = {"BILL_URL", "ADS_URL"}
    TopicKeys = {"TOPIC", "topic"}
    GenericVariables = {"PORT"}
    Environments = {"dev", "prod"}
    Within <- WithinN
    Telling = {"billing"}
    MaxHops = 2
    Workers = 3
    ReplicationCap = 2
    TreeFiles <- FilesN
    Trees <- ScannedTrees
INVARIANT PolicyIsSeen
CHECK_DEADLOCK FALSE
