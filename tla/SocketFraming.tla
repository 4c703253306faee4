--------------------------- MODULE SocketFraming ---------------------------
(***************************************************************************)
(* The framing layer of Socket.cpp: one direction of one TCP connection,   *)
(* byte by byte.  The sender calls sendMessage, which writes the length    *)
(* and the packet with sendAll; the reader calls recvMessage, which reads  *)
(* each of the two with a single ::recv.                                   *)
(*                                                                         *)
(* A byte is a pair <<i, j>>, the j-th byte of the i-th message put on the *)
(* stream: what matters of a byte is where it belongs.  A message is       *)
(* [length, size]: the number in its length field and how many bytes       *)
(* follow.  sendMessage writes messages whose two numbers agree; Foreign   *)
(* are the messages of other programs that sendMessage never writes, those *)
(* with a length field that lies, also by a number recvMessage accepts.    *)
(* After such a lie has been accepted the reader takes bytes from the      *)
(* middle of messages for length fields.                                   *)
(*                                                                         *)
(* Operators whose names end in _Bug are faulty variants of the definition *)
(* that follows them, unused by Spec.                                      *)
(***************************************************************************)
EXTENDS Integers, Sequences, FiniteSetsExt

CONSTANTS HeaderLen,           \* sizeof(length_field_t)
          MAX_PACKET_LENGTH,   \* also the largest unsigned short
          PacketSize,          \* the sizes of packets programs try to send
          Foreign,             \* messages of other programs
          Capacity,            \* bytes the kernel holds between the ends
          MaxMessages          \* bound: messages put on the stream

ASSUME HeaderAssumption == HeaderLen \in Nat \ {0}
ASSUME LengthAssumption == MAX_PACKET_LENGTH \in Nat \ {0}
ASSUME SizeAssumption == PacketSize \subseteq Nat \ {0}
ASSUME ForeignAssumption ==
    /\ Foreign \subseteq [length : Int, size : Nat]
    /\ \A n \in 1..MAX_PACKET_LENGTH : [length |-> n, size |-> n] \notin Foreign
ASSUME CapacityAssumption == Capacity \in Nat \ {0} /\ MaxMessages \in Nat

VARIABLES
    sent,       \* the messages begun by the sender
    left,       \* bytes of the last of them not yet given to ::send
    end,        \* "open", or how the sender ended the stream
    wire,       \* bytes under way
    arrived,    \* bytes the reader's kernel holds
    reader,     \* where the reader is
    declared,   \* messageSize, once read
    received,   \* the packets recvMessage has returned
    result      \* what recvMessage last returned

senderVars == <<sent, left, end>>
readerVars == <<reader, declared, received, result>>
framingVars == <<senderVars, wire, arrived, readerVars>>

Own == {[length |-> n, size |-> n] : n \in PacketSize}
IsOwn(m) == m \notin Foreign

Body(i) == [j \in 1..sent[i].size |-> <<i, HeaderLen + j>>]
Header(i) == [j \in 1..HeaderLen |-> <<i, j>>]

(* Messages of which every byte has been given to ::send.                  *)
Whole == IF left = 0 THEN Len(sent) ELSE Len(sent) - 1

(* One of the first n messages is of another program.                      *)
ForeignWithin(n) == \E i \in 1..n : i \in DOMAIN sent /\ ~IsOwn(sent[i])

(* The reader has accepted one.                                            *)
Misled == ForeignWithin(Len(received))

FramingInit ==
    /\ sent = <<>> /\ left = 0 /\ end = "open"
    /\ wire = <<>> /\ arrived = <<>>
    /\ reader = "idle" /\ declared = 0
    /\ received = <<>> /\ result = "RES_SUCCESS"

-----------------------------------------------------------------------------
(* The sender.                                                             *)
Begin(m) ==
    /\ end = "open" /\ left = 0
    /\ Len(sent) < MaxMessages
    /\ sent' = Append(sent, m)
    /\ left' = HeaderLen + m.size
    /\ UNCHANGED <<end, wire, arrived, readerVars>>

SendMessage_Bug(size) ==
    size <= MAX_PACKET_LENGTH + 1 /\ Begin([length |-> size, size |-> size])

(* sendMessage; a longer packet is refused and nothing is written.         *)
SendMessage(size) ==
    size <= MAX_PACKET_LENGTH /\ Begin([length |-> size, size |-> size])

(* One ::send of sendAll takes as much as the buffer has room for.  The    *)
(* length and the packet are two calls of sendAll.                         *)
SendSome ==
    /\ end = "open" /\ left > 0
    /\ LET i == Len(sent)
           done == HeaderLen + sent[i].size - left
           ofCall == IF done < HeaderLen THEN HeaderLen - done ELSE left
           room == Capacity - Len(wire) - Len(arrived)
       IN  \E n \in 1..ofCall :
             /\ n <= room
             /\ wire' = wire \o [k \in 1..n |-> <<i, done + k>>]
             /\ left' = left - n
    /\ UNCHANGED <<sent, end, arrived, readerVars>>

ReaderGone == reader \in {"closed", "undefined"}

(* ::send fails only once the reader has closed; the sender then gives the *)
(* connection up.                                                          *)
SendFails ==
    /\ end = "open" /\ left > 0 /\ ReaderGone
    /\ end' = "closed"
    /\ UNCHANGED <<sent, left, wire, arrived, readerVars>>

(* Socket::close, or the end of the sending process, at any point, also    *)
(* inside a message: the kernel ends the stream after the last byte, or    *)
(* resets it and drops what is under way.                                  *)
SenderCloses ==
    /\ end = "open"
    /\ \/ end' = "closed" /\ UNCHANGED wire
       \/ end' = "reset" /\ wire' = <<>>
    /\ UNCHANGED <<sent, left, arrived, readerVars>>

-----------------------------------------------------------------------------
(* The network delivers any part of what is under way, in order.           *)
Arrive ==
    /\ \E n \in 1..Len(wire) :
         /\ arrived' = arrived \o SubSeq(wire, 1, n)
         /\ wire' = SubSeq(wire, n + 1, Len(wire))
    /\ UNCHANGED <<senderVars, readerVars>>

-----------------------------------------------------------------------------
(* The reader.  ::recv waits for a byte or the end of the stream and then  *)
(* takes what there is, up to the size asked for: nothing at the end.      *)
RecvReturns == arrived # <<>> \/ (end # "open" /\ wire = <<>>)
Taken(size) == SubSeq(arrived, 1, Min({size, Len(arrived)}))

Take(size) == arrived' = SubSeq(arrived, Len(Taken(size)) + 1, Len(arrived))

(* recvMessage failed: the server closes the session, the client exits.    *)
Fail(error) ==
    /\ reader' = "closed"
    /\ result' = error
    /\ UNCHANGED <<declared, received>>

RecvMessage ==
    /\ reader = "idle"
    /\ reader' = "header"
    /\ UNCHANGED <<senderVars, wire, arrived, declared, received, result>>

(* The number in the length field, if these bytes are one; bytes of other  *)
(* places spell any number, of which the ones that matter are those within *)
(* and next to the limits, and a negative one whose conversion is zero.    *)
Declared(bytes) ==
    LET i == bytes[1][1]
    IN  IF bytes = Header(i) THEN {sent[i].length}
        ELSE -(MAX_PACKET_LENGTH + 1)..(MAX_PACKET_LENGTH + 1)

RecvHeaderUnchecked_Bug ==
    /\ reader = "header" /\ RecvReturns
    /\ Take(HeaderLen)
    /\ LET got == Taken(HeaderLen) IN
       IF Len(got) # HeaderLen THEN Fail("RES_BAD_MESSAGE_FORMAT")
       ELSE /\ reader' = "body"
            /\ declared' \in Declared(got)
            /\ UNCHANGED <<received, result>>
    /\ UNCHANGED <<senderVars, wire>>

RecvHeader ==
    /\ reader = "header" /\ RecvReturns
    /\ Take(HeaderLen)
    /\ LET got == Taken(HeaderLen) IN
       IF Len(got) # HeaderLen THEN Fail("RES_BAD_MESSAGE_FORMAT")
       ELSE \E length \in Declared(got) :
              IF length > MAX_PACKET_LENGTH THEN Fail("RES_PACKET_TOO_LONG")
              ELSE /\ reader' = "body"
                   /\ declared' = length
                   /\ UNCHANGED <<received, result>>
    /\ UNCHANGED <<senderVars, wire>>

(* The size handed to recv is an unsigned short.                           *)
AskedFor == declared % (MAX_PACKET_LENGTH + 1)

AcceptedShort_Bug(n) == n <= declared
Accepted(n) == n = declared

(* A reader that goes on until it has everything, but asks for everything  *)
(* again; and one that counts the length field as part of the packet.      *)
RecvPacketAgain_Bug ==
    /\ reader = "body" /\ RecvReturns
    /\ Take(AskedFor)
    /\ LET got == Taken(AskedFor) IN
       IF got = <<>> THEN Fail("RES_FAILED_RECEIVING_ALL_DATA")
       ELSE /\ reader' = IF Accepted(Len(got)) THEN "idle" ELSE "body"
            /\ received' = IF Accepted(Len(got)) THEN Append(received, got) ELSE received
            /\ UNCHANGED <<declared, result>>
    /\ UNCHANGED <<senderVars, wire>>
RecvPacketCounting_Bug ==
    /\ reader = "body"
    /\ Len(arrived) >= AskedFor + HeaderLen \/ (end # "open" /\ wire = <<>>)
    /\ Take(AskedFor)
    /\ IF Accepted(Len(Taken(AskedFor)))
       THEN /\ reader' = "idle"
            /\ received' = Append(received, Taken(AskedFor))
            /\ UNCHANGED <<declared, result>>
       ELSE Fail("RES_FAILED_RECEIVING_ALL_DATA")
    /\ UNCHANGED <<senderVars, wire>>

(* A ::recv asked for nothing need not wait.  A failed one gives -1, which *)
(* becomes the length of a copy: what follows is undefined and ends the    *)
(* process.                                                                *)
RecvPacket ==
    /\ reader = "body" /\ (RecvReturns \/ AskedFor = 0)
    /\ Take(AskedFor)
    /\ LET got == Taken(AskedFor) IN
       IF arrived = <<>> /\ end = "reset"
       THEN reader' = "undefined" /\ UNCHANGED <<declared, received, result>>
       ELSE IF ~Accepted(Len(got)) THEN Fail("RES_FAILED_RECEIVING_ALL_DATA")
       ELSE /\ reader' = "idle"
            /\ received' = Append(received, got)
            /\ result' = "RES_SUCCESS"
            /\ UNCHANGED declared
    /\ UNCHANGED <<senderVars, wire>>

-----------------------------------------------------------------------------
SenderStep ==
    \/ \E size \in PacketSize : SendMessage(size)
    \/ \E m \in Foreign : Begin(m)
    \/ SenderCloses
ReaderStep == RecvMessage \/ RecvHeader \/ RecvPacket

(* Both ends have gone.                                                    *)
StreamOver ==
    /\ end # "open" /\ ReaderGone /\ wire = <<>>
    /\ UNCHANGED framingVars

FramingNext ==
    SenderStep \/ SendSome \/ SendFails \/ Arrive \/ ReaderStep \/ StreamOver

FramingSpec == FramingInit /\ [][FramingNext]_framingVars

(* A blocked ::send goes on when there is room, the network delivers, and  *)
(* the reading program runs.  Nobody has to begin a message, or to close.  *)
FramingFairness ==
    /\ WF_framingVars(SendSome \/ SendFails)
    /\ WF_framingVars(Arrive)
    /\ WF_framingVars(ReaderStep)

-----------------------------------------------------------------------------
FramingTypeOK ==
    /\ sent \in Seq(Own \union Foreign) /\ Len(sent) <= MaxMessages
    /\ left \in Nat
    /\ end \in {"open", "closed", "reset"}
    /\ wire \in Seq((1..MaxMessages) \X Nat)
    /\ arrived \in Seq((1..MaxMessages) \X Nat)
    /\ reader \in {"idle", "header", "body", "closed", "undefined"}
    /\ declared \in Int /\ declared <= MAX_PACKET_LENGTH
    /\ received \in Seq(Seq((1..MaxMessages) \X Nat))
    /\ result \in {"RES_SUCCESS", "RES_BAD_MESSAGE_FORMAT", "RES_PACKET_TOO_LONG",
                   "RES_FAILED_RECEIVING_ALL_DATA"}

(* What recvMessage returns are the packets of the first messages, byte    *)
(* for byte: a stream cut short or a short read never yields a packet nor  *)
(* shifts the ones after it.  This ends at the first message of another    *)
(* program that is accepted, which takes a length within the limits; from  *)
(* there on nothing is promised.                                           *)
ReceivedIsSent ==
    \A i \in DOMAIN received :
      ~ForeignWithin(i - 1) =>
        /\ i \in DOMAIN sent
        /\ IF IsOwn(sent[i]) THEN i <= Whole /\ received[i] = Body(i)
           ELSE sent[i].length \in 0..MAX_PACKET_LENGTH

(* Sender and reader agree on the longest packet: only a message of        *)
(* another program, or what follows one, is refused for its length.        *)
OwnMessagesFit ==
    result = "RES_PACKET_TOO_LONG" => ForeignWithin(Len(received) + 1)

(* The reader never waits for bytes nobody will send: when it blocks       *)
(* inside a message and has met none of another program, the rest is under *)
(* way, or still to be written, or the stream ends.                        *)
NoEndlessRead ==
    reader = "body" /\ ~RecvReturns /\ ~ForeignWithin(Len(received) + 1)
      => wire # <<>> \/ left > 0

(* Under FramingFairness.  Every message written in full is received,      *)
(* unless the reader closes the connection; after a message of another     *)
(* program, whose bytes may be missing, it may wait for ever.              *)
MessagesArrive ==
    \A n \in 1..MaxMessages :
      Whole >= n /\ (\A i \in 1..n : IsOwn(sent[i]))
        ~> Len(received) >= n \/ ReaderGone

(* ... and sendAll does not block for ever.                                *)
SendsComplete == end = "open" /\ left > 0 ~> end # "open" \/ left = 0

(* The packets taken before one of another program is accepted.            *)
InStep ==
    IF Misled THEN Min({i \in DOMAIN received : i \in DOMAIN sent /\ ~IsOwn(sent[i])}) - 1
    ELSE Len(received)

(* The bytes implement a queue of whole messages.  Accepting a message of  *)
(* another program ends it like giving up does.                            *)
Queue == INSTANCE MessageQueue WITH
           Message <- Own \union Foreign,
           Valid <- Own \ Foreign,
           queue <- SubSeq(sent, InStep + 1, Whole),
           taken <- SubSeq(sent, 1, InStep),
           reading <- ~ReaderGone /\ ~Misled
QueueSpec == Queue!Spec

-----------------------------------------------------------------------------
(* Socket.h:166-175: recvMessage reads the size field and then the data,   *)
(* and fails when it gets a different size than the field says.  So it     *)
(* does not report missing data of a message of our own sender while the   *)
(* stream stays open: the rest is coming.                                  *)
OwnMessagesAccepted ==
    result = "RES_FAILED_RECEIVING_ALL_DATA" =>
      end # "open" \/ ForeignWithin(Len(received) + 1)
=============================================================================
