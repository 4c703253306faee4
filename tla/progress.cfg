SPECIFICATION LiveSpec
CONSTANTS
    c1 = c1
    c2 = c2
    c3 = c3
    ann = ann
    bob = bob
    zoe = zoe
    secret = secret
    guess = guess
    hi = hi
    huge = huge
    NoSession = NoSession
    NoUser = NoUser
    Name <- MCName
    Password <- MCPassword
    Text <- MCText
    LongSubject <- MCLong
    LongChat <- MCLong
    OnlineLimit = 1
    MailId <- MCMailId
    Conn <- TwoConns
    UsersFile <- OneUser
    MaxFd = 2
    SockBuf = 1
    ShowInboxLimit = 1
    ClientRequests <- LiveRequests
    MaxInq = 1
    MaxOutq = 1
    MaxMailId = 1
PROPERTIES
    RequestsAreServed
    ConnectionsAreAccepted
    GoneUsersAreLoggedOut
