SPECIFICATION LiveSystemSpec
CONSTANTS
    c1 = c1
    c2 = c2
    ann = ann
    bob = bob
    zoe = zoe
    secret = secret
    guess = guess
    hi = hi
    huge = huge
    NoSession = NoSession
    BadLine = BadLine
    ComposeLine = ComposeLine
    Name <- MCName
    Password <- MCPassword
    Text <- MCText
    LongSubject <- MCLong
    LongChat <- MCLong
    OnlineLimit = 5
    MailId <- MCMailId
    Conn <- TwoConns
    UsersFile <- TwoUsers
    MaxFd = 2
    SockBuf = 1
    ShowInboxLimit = 0
    ClientRequests <- LiveCommands
    MaxTyped = 1
    MaxMailId = 1
INVARIANTS
    ClientLoggedIn
    AnswerOnTheWay
PROPERTIES
    CommandsComplete
    ClientsLeaveDeadServer
