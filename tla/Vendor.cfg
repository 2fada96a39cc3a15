SPECIFICATION Spec
CONSTANTS
    Paths <- MCPaths
    DirOf <- MCDirOf
    UPSTREAM <- UpstreamOrder
    UPSTREAM_FILES = {"root"}
    PROJECT_OWNED <- ProjectOrder
    LEARNING_SEED = {"seed"}
    Derived = {"cache"}
    Contents = {"old", "new", "own"}
    Corpora <- MCCorpora
    Edits <- MCEdits
    Learning = "learning"
    Root = "."
    Absent = Absent
    Torn = Torn
PROPERTIES
    ProjectHalfSafe
    InstallConverges
    NoRetiredSurvives
    ForceRestoresSeeds
