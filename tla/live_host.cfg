SPECIFICATION Spec
CONSTANTS
    NumQuestions = 1
    QuizMode = "auto"
    c1 = c1
    c2 = c2
    c3 = c3
    Calls <- TwoCalls
    Ops = {"start", "pause", "resume", "next", "answer", "leave", "disconnect"}
    MaxKicks = 2
    Prompt = TRUE
    NoSession = NoSession
    Null = Null
SYMMETRY Symmetry
PROPERTY PausedStands
CHECK_DEADLOCK FALSE
