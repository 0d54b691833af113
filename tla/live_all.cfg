SPECIFICATION Spec
CONSTANTS
    NumQuestions = 2
    QuizMode = "auto"
    c1 = c1
    c2 = c2
    c3 = c3
    Calls <- OneCall
    Ops <- AllOps
    MaxKicks = 2
    Prompt = TRUE
    NoSession = NoSession
    Null = Null
INVARIANT TypeOK
INVARIANT DatabaseLeadsCache
CHECK_DEADLOCK FALSE
