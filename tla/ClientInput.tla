----------------------------- MODULE ClientInput -----------------------------
(***************************************************************************)
(* What the client makes of the characters on its stdin: the line input of *)
(* Common.cpp, the extraction of words, numbers and fields from a line,    *)
(* and the packet each command sends (Client.cpp).  A string is a sequence *)
(* of bytes without NUL.  A stream is what of the line is not extracted    *)
(* yet; eof() of a stream is that nothing is left.                         *)
(***************************************************************************)
EXTENDS Packet, CommandTypes

CONSTANTS NewLine, Blank, Colon, Plus, Minus,    \* bytes; Blank is a set
          Digit,                     \* the bytes of 0, 1, ... in this order
          MAX_USER_INPUT_LINE,
          COMMAND_SHOW_INBOX, COMMAND_GET_MAIL, COMMAND_DELETE_MAIL,
          COMMAND_COMPOSE, COMMAND_QUIT, COMMAND_SHOW_USERS, COMMAND_SEND_CHAT,
          PREFIX_INPUT_USER, PREFIX_INPUT_PASSWORD,
          PREFIX_INPUT_TO, PREFIX_INPUT_SUBJECT, PREFIX_INPUT_TEXT

ASSUME InputAssumption ==
    /\ {NewLine, Colon, Plus, Minus} \union Blank \subseteq Byte
    /\ Digit \in Seq(Byte)

(* The words are words, and no two of the commands and prefixes the same.  *)
ASSUME WordAssumption ==
    LET words == <<COMMAND_SHOW_INBOX, COMMAND_GET_MAIL, COMMAND_DELETE_MAIL,
                   COMMAND_COMPOSE, COMMAND_QUIT, COMMAND_SHOW_USERS, COMMAND_SEND_CHAT,
                   PREFIX_INPUT_USER, PREFIX_INPUT_PASSWORD,
                   PREFIX_INPUT_TO, PREFIX_INPUT_SUBJECT, PREFIX_INPUT_TEXT>>
    IN  /\ \A i \in 1..12 : words[i] \in Seq(Byte \ Blank) /\ words[i] # <<>>
        /\ \A i, j \in 1..12 : words[i] = words[j] => i = j

(* The first position of s from i on whose byte is in S; else the one      *)
(* after the last.                                                         *)
FirstIn(s, S, i) ==
    IF \E j \in i..Len(s) : s[j] \in S
    THEN CHOOSE j \in i..Len(s) : s[j] \in S /\ \A k \in i..(j - 1) : s[k] \notin S
    ELSE Len(s) + 1

From(s, i) == SubSeq(s, i, Len(s))

-----------------------------------------------------------------------------
(* cmnRecvLineFromUser.  fgets returns at the end of the line, when its    *)
(* buffer is full, or at the end of the input; until then it waits.        *)
LineLength(stdin) ==
    LET nl == FirstIn(stdin, {NewLine}, 1)
    IN  IF nl < MAX_USER_INPUT_LINE THEN Min({nl, Len(stdin)}) ELSE MAX_USER_INPUT_LINE - 1

LineReady(stdin, eof) ==
    /\ stdin # <<>>
    /\ \/ eof \/ Len(stdin) >= MAX_USER_INPUT_LINE - 1
       \/ \E i \in DOMAIN stdin : stdin[i] = NewLine

(* The C string fgets left, but for its last character.                    *)
Input(buf) == SubSeq(buf, 1, FirstIn(buf, {NUL}, 1) - 2)

-----------------------------------------------------------------------------
(* operator>> to a string: leading blanks are skipped, the word ends       *)
(* before the next blank.  It fails when there is no word.                 *)
SkipBlanks(s) == From(s, FirstIn(s, Byte \ Blank, 1))
Word(s) == LET w == SkipBlanks(s) IN SubSeq(w, 1, FirstIn(w, Blank, 1) - 1)
AfterWord(s) == LET w == SkipBlanks(s) IN From(w, FirstIn(w, Blank, 1))

(* operator>> to an int: a sign and digits; what does not fit fails.  (The *)
(* faulty variant does not know the sign.)                                 *)
DigitSet == {Digit[i] : i \in DOMAIN Digit}
ASSUME SignAssumption == Plus # Minus /\ Plus \notin DigitSet /\ Minus \notin DigitSet

Value(d) ==
    LET f[i \in 0..Len(d)] == IF i = 0 THEN 0
                              ELSE 10 * f[i - 1] + (CHOOSE x \in DOMAIN Digit : Digit[x] = d[i]) - 1
    IN  f[Len(d)]

NumeralUnsigned_Bug(s) ==
    LET w == SkipBlanks(s)
        end == FirstIn(w, Byte \ DigitSet, 1)
        value == Value(SubSeq(w, 1, end - 1))
    IN  [ok |-> end > 1 /\ value \in Int32, value |-> value, rest |-> From(w, end)]
Numeral(s) ==
    LET w == SkipBlanks(s)
        from == IF w # <<>> /\ w[1] \in {Plus, Minus} THEN 2 ELSE 1
        end == FirstIn(w, Byte \ DigitSet, from)
        digits == SubSeq(w, from, end - 1)
        signed == IF w # <<>> /\ w[1] = Minus THEN -Value(digits) ELSE Value(digits)
    IN  [ok |-> digits # <<>> /\ signed \in Int32, value |-> signed, rest |-> From(w, end)]

(* getStringFromInputWithPrefix: the word that has to be the prefix, then  *)
(* data that does not begin with a blank and goes on to the end.           *)
HasPrefixAndData(line, prefix) == Word(line) = prefix /\ Word(AfterWord(line)) # <<>>
DataOf(line) == SkipBlanks(AfterWord(line))

-----------------------------------------------------------------------------
(* The packets of the commands.                                            *)
TypePacket(t) == writeForwardDWord(EmptyPacket, t)
LoginPacket(user, pass) ==
    writeForwardStringField(
      writeForwardStringField(TypePacket(COMMANDTYPE_LOGIN_REQ), user), pass)
MailIdPacket(t, id) == writeForwardDWord(TypePacket(t), id)
ChatPacket(to, text) ==
    writeForwardStringField(
      writeForwardStringField(TypePacket(COMMANDTYPE_SEND_CHAT_MESSAGE_REQ), to), text)
ComposePacket(to, subject, text) ==
    writeForwardStringField(
      writeForwardStringField(
        writeForwardStringField(TypePacket(COMMANDTYPE_COMPOSE_REQ), to), subject), text)

(* handleUserRequest on one line: what it sends at once, or whether it     *)
(* goes on to commandCompose.                                              *)
PlainCommand ==
    {<<COMMAND_SHOW_INBOX, COMMANDTYPE_SHOW_INBOX_REQ>>, <<COMMAND_QUIT, COMMANDTYPE_QUIT_REQ>>,
     <<COMMAND_SHOW_USERS, COMMANDTYPE_SHOW_ONLINE_USERS_REQ>>}
MailCommand ==
    {<<COMMAND_GET_MAIL, COMMANDTYPE_GET_MAIL_REQ>>,
     <<COMMAND_DELETE_MAIL, COMMANDTYPE_DELETE_MAIL_REQ>>}

StartsCompose(line) == Word(line) = COMMAND_COMPOSE /\ AfterWord(line) = <<>>

PlainRequests(line) ==
    {TypePacket(c[2]) :
       c \in {c \in PlainCommand : Word(line) = c[1] /\ AfterWord(line) = <<>>}}

(* The faulty variant takes a number with something after it.              *)
MailRequestsLoose_Bug(line) ==
    LET id == Numeral(AfterWord(line))
    IN  {MailIdPacket(c[2], id.value) : c \in {c \in MailCommand : Word(line) = c[1] /\ id.ok}}
MailRequests(line) ==
    LET id == Numeral(AfterWord(line))
    IN  {MailIdPacket(c[2], id.value) :
           c \in {c \in MailCommand : Word(line) = c[1] /\ id.ok /\ id.rest = <<>>}}

ChatRequests(line) ==
    LET dest == Word(AfterWord(line))
        text == SkipBlanks(AfterWord(AfterWord(line)))
    IN  IF /\ Word(line) = COMMAND_SEND_CHAT
           /\ dest # <<>> /\ dest[Len(dest)] = Colon
           /\ text # <<>>
        THEN {ChatPacket(SubSeq(dest, 1, Len(dest) - 1), text)}
        ELSE {}

(* At most one packet.                                                     *)
Sent(line) == PlainRequests(line) \union MailRequests(line) \union ChatRequests(line)
=============================================================================
