\* Repetitive texts of all shapes, from short ones to ones of more parts than
\* are allowed.
CONSTANTS
    Texts <- RepeatedTexts
    MaxSize = 40
    Limit = 10
    MaxLength = 4
    MaxMessages = 12
    Widest = 3
SPECIFICATION Spec
INVARIANTS
    TypeOK
    NothingLost
    WholeChars
    MessagesFit
    LinesStayWhole
PROPERTIES
    EveryRoundAdvances
