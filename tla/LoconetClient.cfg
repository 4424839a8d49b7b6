SPECIFICATION FairSpec
CONSTANTS
    Situations = {"alone", "answered"}
    Slow = FALSE
    Prompt = TRUE
    MaxCalls = 5
    MaxForeign = 3
    MaxFails = 2
INVARIANTS TypeOK
PROPERTIES ReplyIsOurs SentIsOurs CallReturns
CHECK_DEADLOCK FALSE
