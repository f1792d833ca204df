CONSTANTS
    None = None
    Phases <- MCPhases
    Replay <- MCReplay
    Starts <- MCStarts
    CommandLines <- MCCommandLines
    SampleKey <- MCSampleKey
    GameSplit <- MCGameSplit
    ComponentSplit <- MCComponentSplit
    GroupSplit <- MCGroupSplit
    SelectedSplit <- MCSelectedSplit
    Moves <- MCMoves
    SearchScore <- MCSearchScore
    ExactScore <- MCExactScore
    BaselineScore <- MCBaselineScore
    Patterns <- MCPatterns
    PhaseOfBoard <- MCPhaseOfBoard
    PlyOf <- MCPlyOf
    PatternsOf <- MCPatternsOf
    PatternIds <- MCPatternIds
    Unit = 12
    Steps <- MCSteps
    Losses <- MCLosses
    Int32 = 4
    Campaigns <- MCCampaigns
    RootsOf <- MCRootsOf
    Build <- MCBuild
    Solve <- MCSolve
    Restarts = 1
    Runs = 3
SPECIFICATION Spec
INVARIANTS
    ChildBoardsStayInOneSplit
CHECK_DEADLOCK FALSE
