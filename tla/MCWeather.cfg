\* Three messages on two places close to each other and others.
CONSTANTS
    h1 = h1
    h2 = h2
    h3 = h3
    Handlers = {h1, h2, h3}
    Asks <- MCAsks
    BotPlaces <- MCBotPlaces
    SenderPlaces <- MCSenderPlaces
    Round <- MCRound
    MaxDays = 2
SPECIFICATION FairSpec
INVARIANTS
    TypeOK
    LocalityIsRight
    LabelIsTrue
PROPERTIES
    HandlersAnswer
CHECK_DEADLOCK FALSE
