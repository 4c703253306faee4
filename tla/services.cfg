SPECIFICATION ServicesSpec
CONSTANTS
    c1 = c1
    c2 = c2
    c3 = c3
    ann = ann
    bob = bob
    zoe = zoe
    secret = secret
    guess = guess
    hi = hi
    huge = huge
    NoSession = NoSession
    NoUser = NoUser
    Name <- MCName
    Password <- MCPassword
    Text <- MCText
    LongSubject <- MCLong
    LongChat <- MCLong
    OnlineLimit = 1
    MailId <- MCMailId
    Conn <- TwoConns
    UsersFile <- DuplicateUser
    MaxFd = 2
    SockBuf = 2
    ShowInboxLimit = 1
    ClientRequests <- AllRequests
    MaxInq = 1
    MaxOutq = 0
    MaxMailId = 3
SYMMETRY ConnSymmetry
INVARIANTS
    TypeOK
    NoDanglingPointers
    MailIdsAscend
PROPERTIES
    MailKeptUntilDeleted
    IdsNeverReused
    SpeaksInTurn
    ServiceSpec
