SPECIFICATION InboxLiveSpec
CONSTANTS
    c1 = c1
    c2 = c2
    ann = ann
    bob = bob
    zoe = zoe
    secret = secret
    guess = guess
    hi = hi
    huge = huge
    NoSession = NoSession
    BadLine = BadLine
    ComposeLine = ComposeLine
    Name <- MCName
    Password <- MCPassword
    Text <- MCText
    LongSubject <- MCLong
    LongChat <- MCLong
    OnlineLimit = 5
    MailId <- MCMailId
    Conn <- OneConn
    UsersFile <- OneUser
    MaxFd = 1
    SockBuf = 1
    ShowInboxLimit = 5
    ClientRequests <- InboxCommands
    MaxTyped = 2
    MaxMailId = 1
PROPERTIES
    TypedIsRead
