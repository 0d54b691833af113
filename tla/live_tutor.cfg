SPECIFICATION Spec
CONSTANTS
    NumQuestions = 2
    QuizMode = "auto"
    c1 = c1
    c2 = c2
    c3 = c3
    Calls <- TwoCalls
    Ops = {"start", "tutor"}
    MaxKicks = 2
    Prompt = TRUE
    NoSession = NoSession
    Null = Null
PROPERTY TutorStands
CHECK_DEADLOCK FALSE
