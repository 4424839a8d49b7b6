SPECIFICATION ThemeFairSpec
CONSTANTS
    Tabs = {t1, t2}
    Torn = FALSE
    Hasty = FALSE
    MaxOutside = 5
CHECK_DEADLOCK FALSE
INVARIANTS
    LastWriterShows
PROPERTIES
    ChoiceKept
    ChooserShows
