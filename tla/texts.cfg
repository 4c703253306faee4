SPECIFICATION TextsSpec
CONSTANTS
    Base = 32
    DWordSize = 2
    MAX_FIELD_LENGTH = 9
    MAX_USER_INPUT_LINE = 9
    NewLine = 2
    Blank <- MCBlank
    Comma = 5
    Colon = 6
    Plus = 7
    Minus = 8
    Digit <- MCDigit
    COMMAND_SHOW_INBOX <- MCShowInbox
    COMMAND_GET_MAIL <- MCGetMail
    COMMAND_DELETE_MAIL <- MCDelete
    COMMAND_COMPOSE <- MCCompose
    COMMAND_QUIT <- MCQuit
    COMMAND_SHOW_USERS <- MCUsers
    COMMAND_SEND_CHAT <- MCChat
    PREFIX_INPUT_USER <- MCUser
    PREFIX_INPUT_PASSWORD <- MCPass
    PREFIX_INPUT_TO <- MCTo
    PREFIX_INPUT_SUBJECT <- MCSubject
    PREFIX_INPUT_TEXT <- MCText
    Chunks <- MCChunks
    Frames <- MCFrames
    FileChar <- MCFileChar
    EOL = 2
    CRet = 3
    Tabulator = 1
    Zero = 0
    UsersFiles <- MCUsersFiles
    FreshBuffers <- MCFreshBuffers
    MaxUnread = 3
    MaxFile = 5
    BufferSize = 24
INVARIANTS
    PathTypeOK
    ParserTypeOK
    UnderstoodAsTyped
    RefusedSpellsNothing
    FrameUnderstood
    GoodLinesAreLoaded
    UsersComeFromTheirLines
