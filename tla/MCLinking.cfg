SPECIFICATION HostsSpec
CONSTANTS
    Conf <- Percent
    FanoutCap = 2
    Floor = 60
    Cap = 99
    Estate <- Claims
    First <- Before
    Reviewed <- Questioned
    MaxChanges = 2
    MaxGiven = 1
    MaxDecisions = 2
    Nodes = {1, 2, 3}
    Written <- Written7
    MaxEdges = 3
    MaxMoves = 1
    Versions <- Checkouts
    Starts <- Cloned
    Prefixed <- SamePrefix
    MaxFiles = 2
    Wires <- OldAndNew
    Questions <- Asked
    MaxSteps = 2
    MaxLoads = 3
INVARIANTS
    RelinkFindsTheSame
    
    DecisionsSurvive
    DriftBlocks
    StoresAgree
    ToolsAgree
    HistoryIsPresence
    CompleteMeansAll
    
