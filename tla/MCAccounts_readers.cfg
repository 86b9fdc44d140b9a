SPECIFICATION FairSpec
CONSTANTS
    UsernameCount = 2
    GameCount = 2
    Usernames = {1, 2}
    Games = {1, 2, 3}
    OtherUsernames = {2}
    OtherGames = {1, 3}
    r1 = r1
    t1 = t1
    Readers = {r1}
    Tasks = {t1}
    MaxCrashes = 1
    MaxPlayerID = 3
INVARIANTS
    TypeOK
    Referential
    LoggedInBelongs
    StartComplete
PROPERTIES
    ListIsCurrent
    ServerStarts
CHECK_DEADLOCK FALSE
