SPECIFICATION Spec
CONSTANTS
    None = None
    Unknown = Unknown
    Malformed = Malformed
    Absent = Absent
    Torn = Torn
    Order <- MCOrder
    Words <- MCWords
    InitialCorpus <- MCCorpus
    Corpora <- MCCorpora
    Queries <- MCQueries
    MaxEdits = 1
    MaxBuilds = 2
    MaxQuestions = 1
INVARIANTS
    ContextIsExact
    DiagnosisIsTrue
    SearchesAreExact
CHECK_DEADLOCK FALSE
