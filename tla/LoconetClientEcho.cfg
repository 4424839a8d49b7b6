SPECIFICATION Spec
CONSTANTS
    Situations = {"alone"}
    Slow = FALSE
    Prompt = FALSE
    MaxCalls = 2
    MaxForeign = 0
    MaxFails = 0
PROPERTIES EchoIsNoReply
CHECK_DEADLOCK FALSE
