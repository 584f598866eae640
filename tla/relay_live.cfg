\* One connection (http, ws or tcp) that waits for its answers, two transfer connections.
SPECIFICATION LiveSpec
CONSTANTS
    x1 = x1
    x2 = x2
    Exts = {x1}
    Links = {c1, c2}
    None = None
    Kinds <- HttpWsOrTcp
    Patient = {x1}
    Greeting = {}
    MaxMsgs = 2
    MaxAnswers = 2
INVARIANTS
    TypeOK
    EndedIsForgotten
    AnswersComeHomeInOrder
    StreamStaysTogether
    FramesFindTheirService
PROPERTIES
    RequestAnswered
CHECK_DEADLOCK FALSE
