\* Two connections on one transfer connection: one waits for its answers, the other does not and its service greets.
SPECIFICATION Spec
CONSTANTS
    x1 = x1
    x2 = x2
    Exts = {x1, x2}
    Links = {c1}
    None = None
    Kinds <- PortOrTcp
    Patient = {x1}
    Greeting = {x2}
    MaxMsgs = 2
    MaxAnswers = 1
INVARIANTS
    AnswersGoToWhoAsked
    ChunksInOrder
CHECK_DEADLOCK FALSE
