----------------------------- MODULE RequestPath -----------------------------
(***************************************************************************)
(* The way of a request from the keyboard to the server's handler: the     *)
(* lines the client reads and what it makes of them (ClientInput), the     *)
(* frame it sends (Packet), and what the request handlers of Server.cpp    *)
(* read out of a frame.  The framing itself is SocketFraming; here a frame *)
(* arrives whole.  A frame may also come from a program that is not the    *)
(* client.                                                                 *)
(***************************************************************************)
EXTENDS ClientInput, SequencesExt

CONSTANTS Comma,
          Chunks,     \* what may be typed at a time
          Frames      \* frames of other programs

(* 2000 and 10000 in the code: what fits in a line fits in a field.        *)
ASSUME LimitAssumption == MAX_USER_INPUT_LINE \in 2..MAX_FIELD_LENGTH
ASSUME PathAssumption ==
    Comma \in Byte /\ Chunks \subseteq Seq(Byte) /\ Frames \subseteq Seq(Byte)
ASSUME TypeAssumption ==
    {COMMANDTYPE_LOGIN_REQ, COMMANDTYPE_SHOW_INBOX_REQ, COMMANDTYPE_GET_MAIL_REQ,
     COMMANDTYPE_DELETE_MAIL_REQ, COMMANDTYPE_COMPOSE_REQ, COMMANDTYPE_QUIT_REQ,
     COMMANDTYPE_SHOW_ONLINE_USERS_REQ, COMMANDTYPE_SEND_CHAT_MESSAGE_REQ} \subseteq Int32

VARIABLES
    stdin,        \* characters typed and not read
    stdinEof,     \* no more will be typed
    script,       \* the characters read for the command under way
    place,        \* the line the client reads next, or what it waits for
    fields,       \* the arguments read so far
    wire,         \* the frame that has been sent
    understood    \* the request the server has read out of it

inputVars == <<stdin, stdinEof>>
textVars == <<stdin, stdinEof, script, place, fields, wire, understood>>

Nothing == [type |-> "NOTHING"]

PathInit ==
    /\ stdin = <<>> /\ stdinEof = FALSE /\ script = <<>>
    /\ fields = <<>> /\ understood = Nothing
    /\ \/ place = "user" /\ wire = <<>>
       \/ place = "foreign" /\ wire \in Frames

-----------------------------------------------------------------------------
(* The user.                                                               *)
AtKeyboard == place \notin {"foreign", "off"} /\ ~stdinEof

TypeChunk(chunk) ==
    /\ AtKeyboard
    /\ stdin' = stdin \o chunk
    /\ UNCHANGED <<stdinEof, script, place, fields, wire, understood>>

CloseStdin ==
    /\ AtKeyboard
    /\ stdinEof' = TRUE
    /\ UNCHANGED <<stdin, script, place, fields, wire, understood>>

-----------------------------------------------------------------------------
(* The client.  A command's script begins with its first line.             *)
Reading == {"user", "password", "command", "to", "subject", "text"}

Buffer == SubSeq(stdin, 1, LineLength(stdin))
Line == Input(Buffer)

RecvLine(start) ==
    /\ LineReady(stdin, stdinEof)
    /\ stdin' = From(stdin, LineLength(stdin) + 1)
    /\ script' = start \o Buffer
    /\ UNCHANGED <<stdinEof, understood>>

GoOn(where, args) == place' = where /\ fields' = args /\ UNCHANGED wire
Send(packet) == place' = "sent" /\ fields' = <<>> /\ wire' = packet.m_buff

(* receiveUserCommandArg; without the argument the command is given up.    *)
RecvArg(here, start, prefix, next, otherwise) ==
    /\ place = here
    /\ RecvLine(start)
    /\ IF HasPrefixAndData(Line, prefix)
       THEN GoOn(next, Append(fields, DataOf(Line))) ELSE GoOn(otherwise, <<>>)

(* ... and with the last one the packet is sent.                           *)
RecvLastArg(here, prefix, Made(_), otherwise) ==
    /\ place = here
    /\ RecvLine(script)
    /\ IF HasPrefixAndData(Line, prefix)
       THEN Send(Made(DataOf(Line))) ELSE GoOn(otherwise, <<>>)

CommandLogin ==
    \/ RecvArg("user", <<>>, PREFIX_INPUT_USER, "password", "off")
    \/ RecvLastArg("password", PREFIX_INPUT_PASSWORD,
                   LAMBDA data : LoginPacket(fields[1], data), "off")

CommandCompose ==
    \/ RecvArg("to", script, PREFIX_INPUT_TO, "subject", "refused")
    \/ RecvArg("subject", script, PREFIX_INPUT_SUBJECT, "text", "refused")
    \/ RecvLastArg("text", PREFIX_INPUT_TEXT,
                   LAMBDA data : ComposePacket(fields[1], fields[2], data), "refused")

HandleUserRequest ==
    /\ place = "command"
    /\ RecvLine(<<>>)
    /\ IF StartsCompose(Line) THEN GoOn("to", <<>>)
       ELSE IF Sent(Line) = {} THEN GoOn("refused", <<>>)
       ELSE \E packet \in Sent(Line) : Send(packet)

(* fgets finds the end of the input.                                       *)
InputEnds ==
    /\ place \in Reading
    /\ stdin = <<>> /\ stdinEof
    /\ GoOn(IF place \in {"to", "subject", "text"} THEN "refused" ELSE "off", <<>>)
    /\ UNCHANGED <<inputVars, script, understood>>

(* The answer, or why nothing was sent, is shown.  An answer lets          *)
(* the client go on or ends it; after QUIT it has gone.                    *)
ShowResult ==
    /\ \/ place = "refused" /\ place' = "command"
       \/ place = "answered" /\ place' = "off"
       \/ place = "answered" /\ place' = "command" /\ understood.type # "QUIT"
    /\ script' = <<>> /\ wire' = <<>> /\ understood' = Nothing
    /\ UNCHANGED <<inputVars, fields>>

-----------------------------------------------------------------------------
(* What getline takes from s one after the other: the pieces that end at a *)
(* byte c, and what follows the last c unless that is nothing.             *)
PieceStarts(s, c) == {i \in DOMAIN s : i = 1 \/ s[i - 1] = c}
PiecesUpto(s, c, i) == Cardinality({j \in PieceStarts(s, c) : j <= i})
PieceFrom(s, c, i) == SubSeq(s, i, FirstIn(s, {c}, i) - 1)
Pieces(s, c) ==
    [k \in 1..Cardinality(PieceStarts(s, c)) |->
       PieceFrom(s, c, CHOOSE i \in PieceStarts(s, c) : PiecesUpto(s, c, i) = k)]

(* The server.  What the handler of each type reads; the To field is split *)
(* at its commas by getline.  (The faulty variant makes an empty name of   *)
(* an empty end.)                                                          *)
RecipientsAll_Bug(to) ==
    IF to = <<>> \/ Last(to) = Comma THEN Append(Pieces(to, Comma), <<>>) ELSE Pieces(to, Comma)
Recipients(to) == Pieces(to, Comma)

Plain(t) == [type |-> t]

(* Two or three string fields, one after the other.                        *)
TwoStrings(p, bad, Made(_, _)) ==
    LET a == readForwardStringField(p)
        b == readForwardStringField(a.pack)
    IN  IF a.ok /\ b.ok THEN Made(a.out, b.out) ELSE Plain(bad)
ThreeStrings(p, bad, Made(_, _, _)) ==
    LET a == readForwardStringField(p)
    IN  IF a.ok
        THEN TwoStrings(a.pack, bad, LAMBDA b, c : Made(a.out, b, c)) ELSE Plain(bad)

MailIdRead(p, t) ==
    LET id == readForwardDWord(p)
    IN  IF id.ok THEN [type |-> t, id |-> id.out] ELSE Plain("BAD_COMMAND")

Understood(frame) ==
    LET t == readForwardDWord([m_buff |-> frame, m_cur |-> 0])
    IN  IF ~t.ok THEN Plain("NO_TYPE") ELSE
        CASE t.out = COMMANDTYPE_LOGIN_REQ ->
               TwoStrings(t.pack, "BAD_LOGIN",
                          LAMBDA u, p : [type |-> "LOGIN", user |-> u, pass |-> p])
          [] t.out = COMMANDTYPE_SHOW_INBOX_REQ -> Plain("SHOW_INBOX")
          [] t.out = COMMANDTYPE_GET_MAIL_REQ -> MailIdRead(t.pack, "GET_MAIL")
          [] t.out = COMMANDTYPE_DELETE_MAIL_REQ -> MailIdRead(t.pack, "DELETE_MAIL")
          [] t.out = COMMANDTYPE_COMPOSE_REQ ->
               ThreeStrings(t.pack, "BAD_COMMAND",
                            LAMBDA to, subject, body :
                              [type |-> "COMPOSE", to |-> Recipients(to),
                               subject |-> subject, body |-> body])
          [] t.out = COMMANDTYPE_QUIT_REQ -> Plain("QUIT")
          [] t.out = COMMANDTYPE_SHOW_ONLINE_USERS_REQ -> Plain("SHOW_ONLINE_USERS")
          [] t.out = COMMANDTYPE_SEND_CHAT_MESSAGE_REQ ->
               TwoStrings(t.pack, "BAD_COMMAND",
                          LAMBDA to, text : [type |-> "SEND_CHAT", to |-> to, text |-> text])
          [] OTHER -> Plain("UNKNOWN")

ServerReads ==
    /\ place \in {"sent", "foreign"} /\ understood = Nothing
    /\ understood' = Understood(wire)
    /\ place' = IF place = "sent" THEN "answered" ELSE place
    /\ UNCHANGED <<inputVars, script, fields, wire>>

ProgramStep ==
    \/ CommandLogin \/ HandleUserRequest \/ CommandCompose \/ InputEnds
    \/ ServerReads \/ ShowResult

PathNext == (\E chunk \in Chunks : TypeChunk(chunk)) \/ CloseStdin \/ ProgramStep

PathSpec == PathInit /\ [][PathNext]_textVars
=============================================================================
