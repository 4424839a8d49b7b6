SPECIFICATION Spec
CONSTANTS
    OurId = OurId
    OtherId = OtherId
    BlankId = BlankId
    MarksAtOnce = TRUE
PROPERTIES OccupiedMeansOther
