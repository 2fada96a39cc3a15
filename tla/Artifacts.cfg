SPECIFICATION Spec
CONSTANTS
    None = None
    Unknown = Unknown
    Malformed = Malformed
    Absent = Absent
    Torn = Torn
    Order <- MCOrder
    InitialCorpus <- MCCorpus
    InitialSources <- MCSources
    InitialSkill <- MCSkill
    DocVersions <- MCDocVersions
    Registries <- MCRegistries
    Enforcements <- MCEnforcements
    SourceVersions <- MCSourceVersions
    SkillVersions <- MCSkillVersions
    Doctrine <- MCDoctrine
    ClaimCount = 1
    Policies <- MCPolicies
    Exceptions <- MCExceptions
    Targets <- MCTargets
    Elsewhere <- MCElsewhere
    MaxEdits = 1
    MaxKills = 1
    MaxMoves = 1
    MaxUses = 2
INVARIANTS
    GreenIsSettled
    TwoRoundsSettle
    PassingCorpusAgrees
CHECK_DEADLOCK FALSE
