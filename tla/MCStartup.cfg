\* All files on three devices; ConnectedEvent is published three times.
CONSTANTS
    Files <- MCFiles
    Channels <- MCChannels
    MaxEvents = 3
SPECIFICATION FairSpec
INVARIANTS
    NothingLost
    AnnouncersOnce
PROPERTIES
    AnnouncementsStart
CHECK_DEADLOCK FALSE
