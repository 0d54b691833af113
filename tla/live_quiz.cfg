SPECIFICATION FairSpec
CONSTANTS
    NumQuestions = 2
    QuizMode = "auto"
    c1 = c1
    c2 = c2
    c3 = c3
    Calls <- TwoCalls
    Ops = {"start", "leave", "end", "abort"}
    MaxKicks = 2
    Prompt = TRUE
    NoSession = NoSession
    Null = Null
INVARIANT NeverStalls
PROPERTY NoQuestionSkipped
PROPERTY LegalTransitions
PROPERTY Finishes
CHECK_DEADLOCK FALSE
