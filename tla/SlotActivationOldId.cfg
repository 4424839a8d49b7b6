SPECIFICATION Spec
CONSTANTS
    OurId = OurId
    OtherId = OtherId
    BlankId = BlankId
    MarksAtOnce = FALSE
INVARIANTS ActiveMeansHeld
