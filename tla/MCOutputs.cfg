CONSTANTS
    Temps <- MCTemps
    Entries = {113}
    Streak = 2
    Levels = {0, 3, 9}
    Per = 9
    Half = 4
    Texts <- MCTexts
    Glyphs = {"1"}
    DISPLAY_SIZE = 2
    None = None
    Mixture = Mixture
    Values <- MCValues
    NULL = NULL
    Size = 3
    Length = 2
SPECIFICATION Spec
INVARIANTS
    BlocksAccounted
PROPERTIES
    HotMeansOff
    RelayFollows
    TextShown
    MessagesSent
