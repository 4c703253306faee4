--------------------------- MODULE RequestPathProps ---------------------------
(***************************************************************************)
(* What RequestPath promises, stated from the outside: which requests the  *)
(* typed lines spell, and which request the bytes of a frame encode.       *)
(***************************************************************************)
EXTENDS RequestPath

(* Between the keyboard and the handler everything keeps its type: at most *)
(* two arguments are held, and the id of a mail is a signed number.        *)
PathTypeOK ==
    /\ stdin \in Seq(Byte) /\ stdinEof \in BOOLEAN /\ script \in Seq(Byte)
    /\ place \in Reading \union {"sent", "refused", "answered", "foreign", "off"}
    /\ fields \in Seq(Seq(Byte)) /\ Len(fields) <= 2
    /\ wire \in Seq(Byte)
    /\ understood.type \in {"GET_MAIL", "DELETE_MAIL"} => understood.id \in Int32
    /\ understood.type \in {"NOTHING", "LOGIN", "SHOW_INBOX", "GET_MAIL", "DELETE_MAIL",
                            "COMPOSE", "QUIT", "SHOW_ONLINE_USERS", "SEND_CHAT",
                            "NO_TYPE", "BAD_LOGIN", "BAD_COMMAND", "UNKNOWN"}

-----------------------------------------------------------------------------
(* The lines of s, without their ends; s ends with one.                    *)
LinesOf(s) == Pieces(s, NewLine)

(* Whole lines, without NUL, short enough to be read each in one go.       *)
Intact(s) ==
    /\ s # <<>> /\ Last(s) = NewLine
    /\ \A i \in DOMAIN s : s[i] # NUL
    /\ \A k \in DOMAIN LinesOf(s) : Len(LinesOf(s)[k]) + 2 <= MAX_USER_INPUT_LINE

IsBlank(s) == \A i \in DOMAIN s : s[i] \in Blank

(* What follows the word w in a line that begins with it, after a blank    *)
(* or several.                                                             *)
Rests(line, w) ==
    {From(line, i + Len(w)) :
       i \in {i \in 1..(Len(line) - Len(w) + 1) :
                IsBlank(SubSeq(line, 1, i - 1)) /\ SubSeq(line, i, i + Len(w) - 1) = w}}
DataIn(rest) ==
    {From(rest, i) : i \in {i \in 2..Len(rest) :
                              IsBlank(SubSeq(rest, 1, i - 1)) /\ rest[i] \notin Blank}}
Fields(line, prefix) == UNION {DataIn(r) : r \in Rests(line, prefix)}

(* The numbers a word of digits, with or without a sign, stands for.       *)
IsNumber(d) == d # <<>> /\ \A i \in DOMAIN d : d[i] \in DigitSet
Numbers(d) ==
    ({Value(d) : x \in {x \in {d} : IsNumber(d)}}
       \union {Value(Tail(d)) : x \in {x \in {d} : d[1] = Plus /\ IsNumber(Tail(d))}}
       \union {-Value(Tail(d)) : x \in {x \in {d} : d[1] = Minus /\ IsNumber(Tail(d))}})
      \cap Int32

(* The names a To field lists: commas stand between them, and one more may *)
(* follow the last.                                                        *)
Lists(names, to) ==
    /\ \A i \in DOMAIN names : \A j \in DOMAIN names[i] : names[i][j] # Comma
    /\ FlattenSeq([i \in DOMAIN names |-> Append(names[i], Comma)])
         = IF to = <<>> \/ Last(to) = Comma THEN to ELSE Append(to, Comma)

(* u is the request r with its To field taken apart.                       *)
Agree(r, u) ==
    IF r.type = "COMPOSE" /\ u.type = "COMPOSE"
    THEN Lists(u.to, r.to) /\ r.subject = u.subject /\ r.body = u.body
    ELSE r = u

(* S is the one request u, or is empty when u is none.                     *)
IsRequest(u) == u.type \notin {"NOTHING", "NO_TYPE", "BAD_LOGIN", "BAD_COMMAND", "UNKNOWN"}
Means(S, u) ==
    IF IsRequest(u) THEN S # {} /\ \A r \in S : Agree(r, u) ELSE S = {}

-----------------------------------------------------------------------------
(* The requests the lines of a script spell.                               *)
OneLine(l) ==
    {Plain(c[2]) :
       c \in {c \in {<<COMMAND_SHOW_INBOX, "SHOW_INBOX">>, <<COMMAND_QUIT, "QUIT">>,
                     <<COMMAND_SHOW_USERS, "SHOW_ONLINE_USERS">>} : <<>> \in Rests(l, c[1])}}
    \union
    (UNION {{[type |-> c[2], id |-> n] : n \in UNION {Numbers(d) : d \in Fields(l, c[1])}} :
              c \in {<<COMMAND_GET_MAIL, "GET_MAIL">>, <<COMMAND_DELETE_MAIL, "DELETE_MAIL">>}})
    \union
    (UNION {UNION {{[type |-> "SEND_CHAT", to |-> SubSeq(d, 1, i - 1), text |-> t] :
                      t \in DataIn(From(d, i + 1))} :
              i \in {i \in DOMAIN d : d[i] = Colon /\ \A j \in 1..i : d[j] \notin Blank}} :
              d \in Fields(l, COMMAND_SEND_CHAT)})

Spelled(lines) ==
    CASE Len(lines) = 1 -> OneLine(lines[1])
      [] Len(lines) = 2 ->
           {[type |-> "LOGIN", user |-> u, pass |-> p] :
              u \in Fields(lines[1], PREFIX_INPUT_USER),
              p \in Fields(lines[2], PREFIX_INPUT_PASSWORD)}
      [] Len(lines) = 4 /\ <<>> \in Rests(lines[1], COMMAND_COMPOSE) ->
           {[type |-> "COMPOSE", to |-> t, subject |-> s, body |-> b] :
              t \in Fields(lines[2], PREFIX_INPUT_TO),
              s \in Fields(lines[3], PREFIX_INPUT_SUBJECT),
              b \in Fields(lines[4], PREFIX_INPUT_TEXT)}
      [] OTHER -> {}

(* From the keyboard to the handler (Common.cpp, Client.cpp, Packet.cpp,   *)
(* Server.cpp): when the server has read a request, it is the one and only *)
(* one the user's lines spell, field by field, and the addressees of a     *)
(* mail are the names between the commas.                                  *)
UnderstoodAsTyped ==
    place = "answered" /\ Intact(script) => Means(Spelled(LinesOf(script)), understood)

(* ... and lines after which the client shows an error and waits again, or  *)
(* leaves before the login, without having sent anything spell no request, *)
(* so none is lost between a command and the lines of its arguments.       *)
RefusedSpellsNothing ==
    script # <<>> /\ Intact(script) =>
      /\ place = "refused" => Spelled(LinesOf(script)) = {}
      /\ place = "off" => \A r \in Spelled(LinesOf(script)) : r.type # "LOGIN"

-----------------------------------------------------------------------------
(* The strings encoded in a frame after the byte at, and where they end: a *)
(* length, as many bytes, of which the last one is not looked at.          *)
StringsAt(frame, at) ==
    {<<SubSeq(frame, at + DWordSize + 1, at + DWordSize + n - 1), at + DWordSize + n>> :
       n \in {n \in 1..(Len(frame) - at - DWordSize) :
                n <= MAX_FIELD_LENGTH /\ SubSeq(frame, at + 1, at + DWordSize) = htonl(n)}}

(* The requests whose encoding a frame begins with; what follows is not    *)
(* looked at.                                                              *)
Encoded(frame) ==
    LET Is(t) == Len(frame) >= DWordSize /\ SubSeq(frame, 1, DWordSize) = htonl(t)
        ids(t) == {n \in Int32 : Is(t) /\ Len(frame) >= 2 * DWordSize
                                 /\ SubSeq(frame, DWordSize + 1, 2 * DWordSize) = htonl(n)}
        one(t) == {f \in StringsAt(frame, DWordSize) : Is(t)}
        two(t) == UNION {{<<a[1], b[1], b[2]>> : b \in StringsAt(frame, a[2])} : a \in one(t)}
    IN  {Plain(c[2]) :
           c \in {c \in {<<COMMANDTYPE_SHOW_INBOX_REQ, "SHOW_INBOX">>,
                         <<COMMANDTYPE_QUIT_REQ, "QUIT">>,
                         <<COMMANDTYPE_SHOW_ONLINE_USERS_REQ, "SHOW_ONLINE_USERS">>} : Is(c[1])}}
        \union {[type |-> "GET_MAIL", id |-> n] : n \in ids(COMMANDTYPE_GET_MAIL_REQ)}
        \union {[type |-> "DELETE_MAIL", id |-> n] : n \in ids(COMMANDTYPE_DELETE_MAIL_REQ)}
        \union {[type |-> "LOGIN", user |-> f[1], pass |-> f[2]] :
                  f \in two(COMMANDTYPE_LOGIN_REQ)}
        \union {[type |-> "SEND_CHAT", to |-> f[1], text |-> f[2]] :
                  f \in two(COMMANDTYPE_SEND_CHAT_MESSAGE_REQ)}
        \union UNION {{[type |-> "COMPOSE", to |-> f[1], subject |-> f[2], body |-> g[1]] :
                         g \in StringsAt(frame, f[3])} : f \in two(COMMANDTYPE_COMPOSE_REQ)}

(* Whoever sent it (Packet.cpp, the handlers of Server.cpp): a frame is    *)
(* understood as exactly the request its first bytes encode, and refused   *)
(* when they encode none, whatever lengths they claim.                     *)
FrameUnderstood ==
    understood # Nothing => Means(Encoded(wire), understood)
=============================================================================
