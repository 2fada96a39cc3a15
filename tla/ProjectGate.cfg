SPECIFICATION Spec
CONSTANTS
    NoDeclaration = NoDeclaration
    NoTree = NoTree
    Declarations <- MCDeclarations
    Trees <- MCTrees
    Paths <- MCPaths
    Mutants <- MCMutants
    Steps <- MCSteps
    Hosts <- MCHosts
    MaxEdits = 1
INVARIANTS
    QuietReportIsTrue
    GreenIsEarned
    GreenEvidenceIsComplete
PROPERTY
    RunEnds
CHECK_DEADLOCK FALSE
