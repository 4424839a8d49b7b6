SPECIFICATION Spec
CONSTANTS
    OurId = OurId
    OtherId = OtherId
    BlankId = BlankId
    MarksAtOnce = TRUE
INVARIANTS TypeOK ActiveMeansHeld
PROPERTIES OthersSlotUntouched IsLease
