SPECIFICATION Spec
CONSTANTS
    Situations = {"alone"}
    Slow = TRUE
    Prompt = TRUE
    MaxCalls = 2
    MaxForeign = 0
    MaxFails = 0
PROPERTIES SentIsOurs ReplyIsOurs
CHECK_DEADLOCK FALSE
