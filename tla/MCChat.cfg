CONSTANTS
    s1 = s1
    s2 = s2
    lobby = lobby
    den = den
    Socket = {s1, s2}
    Room = {lobby, den}
    Lobby = lobby
    Named = {den}
    MayRead <- MCMayRead
    Asks <- MCAsks
    Announcement = Announcement
    Wake = Wake
    MaxQueued = 1
    HistoryLimit = 1
    MaxBroadcasts = 2
    MaxEnded = 1
SPECIFICATION Spec
INVARIANTS
    ChatIsSound
    SenderIsWoken
    NothingMissed
    OneRoomOnScreen
PROPERTIES
    BacklogIsSent
    EndedSessionCloses
