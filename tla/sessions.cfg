SPECIFICATION BoundedSpec
CONSTANTS
    c1 = c1
    c2 = c2
    c3 = c3
    ann = ann
    bob = bob
    zoe = zoe
    secret = secret
    guess = guess
    hi = hi
    huge = huge
    NoSession = NoSession
    NoUser = NoUser
    Name <- MCName
    Password <- MCPassword
    Text <- MCText
    LongSubject <- MCLong
    LongChat <- MCLong
    OnlineLimit = 1
    MailId <- MCMailId
    Conn <- ThreeConns
    UsersFile <- DuplicateUser
    MaxFd = 2
    SockBuf = 1
    ShowInboxLimit = 1
    ClientRequests <- SessionRequests
    MaxInq = 1
    MaxOutq = 1
    MaxMailId = 1
SYMMETRY ConnSymmetry
INVARIANTS
    SessionInboxAgree
    NoDanglingPointers
    OneSessionPerUser
    DescriptorsOwned
    ReadsNeverBlock
