SPECIFICATION Spec
CONSTANTS
    Markdown <- MCMarkdown
    Skills = {"skill"}
    Order <- MCOrder
    Settings = "settings"
    Gitignore = "gitignore"
    Record = "record"
    PERMISSIONS = {"p", "q"}
    GITIGNORE_ENTRIES = {"x"}
    GITIGNORE_HEADER = "header"
    Versions = {"v1", "v2", "v3"}
    FirstVersions = {"v1"}
    SkillText <- MCSkillText
    Local = "local"
    Projects <- Established
    MaxEdits = 2
    None = None
INVARIANTS
    ProjectSurvives
    RemoveRestores
    InstallIsIdempotent
