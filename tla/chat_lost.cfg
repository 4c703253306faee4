SPECIFICATION BoundedSpec
CONSTANTS
    c1 = c1
    c2 = c2
    c3 = c3
    ann = ann
    bob = bob
    zoe = zoe
    secret = secret
    guess = guess
    hi = hi
    huge = huge
    NoSession = NoSession
    NoUser = NoUser
    Name <- MCName
    Password <- MCPassword
    Text <- MCText
    LongSubject <- MCLong
    LongChat <- MCLong
    OnlineLimit = 2
    MailId <- MCMailId
    Conn <- TwoConns
    UsersFile <- TwoUsers
    MaxFd = 2
    SockBuf = 1
    ShowInboxLimit = 2
    ClientRequests <- ChatRequests
    MaxInq = 1
    MaxOutq = 1
    MaxMailId = 1
PROPERTY ChatsAreKept
