SPECIFICATION Spec
CONSTANTS
    Situations = {"any"}
    Slow = FALSE
    Prompt = TRUE
    MaxCalls = 2
    MaxForeign = 1
    MaxFails = 0
PROPERTIES ReplyIsOurs
CHECK_DEADLOCK FALSE
