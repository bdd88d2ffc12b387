\* One reconnection, with announcements.
CONSTANT
    MaxStreams = 2
SPECIFICATION FairSpec
PROPERTIES
    AnnouncementsCycle
CHECK_DEADLOCK FALSE
