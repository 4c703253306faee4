SPECIFICATION LiveFramingSpec
CONSTANTS
    HeaderLen = 2
    MAX_PACKET_LENGTH = 3
    PacketSize = {1, 2, 3, 4}
    Foreign <- MCForeign
    Capacity = 4
    MaxMessages = 3
INVARIANTS
    FramingTypeOK
    ReceivedIsSent
    OwnMessagesFit
    NoEndlessRead
PROPERTIES
    MessagesArrive
    SendsComplete
    QueueSpec
